---------------------------- MODULE OptionProofs ----------------------------
\* Proofs about the headers with options in a row and with fields that share a
\* word (hop, dest, ipv4, tcp, ipv6, frag, wesp, route, rip, ripng), for any number
\* of options and any values, and about the composition of all header modules.
EXTENDS MCHeaders, HeaderProofs, SequenceTheorems, FiniteSetTheorems, WellFoundedInduction, TLAPS

-----------------------------------------------------------------------------
\* hop and dest.

HopTlv == [at : Nat, size : Nat]

HopPack ==
  [alloc : Nat, hdrlen : 0..OCTET_MAX, part : 0..(HDR_ALLOC - 1),
   nexthdr : {"zero", "given", "type"}, tlvs : Seq(HopTlv), zeroed : Nat]

Contiguous(tlvs) == \A i \in DOMAIN tlvs : tlvs[i].at = Start(tlvs, i)

\* While options are applied: the two parts of the length are the end of the last
\* option, and the block ends at most one unit behind it.
Tracked(p) ==
  Representable(p.tlvs) =>
    /\ Contiguous(p.tlvs)
    /\ Used(p) = End(p.tlvs)
    /\ p.alloc <= End(p.tlvs) + HDR_ALLOC

Fits(p) == \A i \in DOMAIN p.tlvs : p.tlvs[i].at + p.tlvs[i].size <= p.alloc

HopInv ==
  /\ module = "hop" /\ pack \in HopPack
  /\ pack.alloc % HDR_ALLOC = 0 /\ pack.alloc >= HDR_ALLOC
  /\ Fits(pack)
  /\ pc # "done" => Tracked(pack)
  /\ pc = "done" => HopReadable

-----------------------------------------------------------------------------
\* Lemmas about the sequence of options.

\* What an appended option changes: the end, nothing before it.
LEMMA Appended ==
  ASSUME NEW tlvs \in Seq(HopTlv), NEW e \in HopTlv
  PROVE  LET new == Append(tlvs, e) IN
         /\ new \in Seq(HopTlv)
         /\ DOMAIN new = DOMAIN tlvs \union {Len(tlvs) + 1}
         /\ \A i \in DOMAIN tlvs : new[i] = tlvs[i] /\ Start(new, i) = Start(tlvs, i)
         /\ new[Len(tlvs) + 1] = e
         /\ Start(new, Len(tlvs) + 1) = End(tlvs)
         /\ End(new) = e.at + e.size
<1> DEFINE new == Append(tlvs, e)
<1>1. /\ new \in Seq(HopTlv) /\ Len(new) = Len(tlvs) + 1 /\ Len(tlvs) \in Nat
      /\ DOMAIN new = 1..(Len(tlvs) + 1) /\ DOMAIN tlvs = 1..Len(tlvs)
      /\ \A i \in 1..Len(tlvs) : new[i] = tlvs[i]
      /\ new[Len(tlvs) + 1] = e
  OBVIOUS
<1>2. \A i \in DOMAIN tlvs : Start(new, i) = Start(tlvs, i)
  <2> SUFFICES ASSUME NEW i \in 1..Len(tlvs) PROVE Start(new, i) = Start(tlvs, i)
    BY <1>1
  <2>1. CASE i = 1
    BY <2>1 DEF Start
  <2>2. CASE i # 1
    <3>1. i - 1 \in 1..Len(tlvs)
      BY <2>2, <1>1
    <3> QED
      BY <2>2, <3>1, <1>1 DEF Start
  <2> QED BY <2>1, <2>2
<1>3. Start(new, Len(tlvs) + 1) = End(tlvs)
  <2>1. CASE Len(tlvs) = 0
    BY <2>1 DEF Start, End
  <2>2. CASE Len(tlvs) # 0
    <3>1. Len(tlvs) \in 1..Len(tlvs) /\ Len(tlvs) + 1 # 1 /\ (Len(tlvs) + 1) - 1 = Len(tlvs)
      BY <2>2, <1>1
    <3> QED
      BY <3>1, <1>1 DEF Start, End
  <2> QED BY <2>1, <2>2
<1>4. End(new) = e.at + e.size
  <2>1. /\ (Len(new) + 1) - 1 = Len(tlvs) + 1 /\ Len(new) + 1 # 1
    BY <1>1
  <2> QED
    BY <2>1, <1>1 DEF Start, End
<1>5. DOMAIN new = DOMAIN tlvs \union {Len(tlvs) + 1}
  BY <1>1
<1> QED BY <1>1, <1>2, <1>3, <1>4, <1>5

\* The ends are numbers; an empty header ends behind its two bytes.
LEMMA EndType ==
  ASSUME NEW tlvs \in Seq(HopTlv)
  PROVE  End(tlvs) \in Nat
<1>1. CASE Len(tlvs) = 0
  BY <1>1 DEF Start, End
<1>2. CASE Len(tlvs) # 0
  <2>1. Len(tlvs) \in 1..Len(tlvs) /\ (Len(tlvs) + 1) - 1 = Len(tlvs) /\ Len(tlvs) + 1 # 1
    BY <1>2
  <2>2. tlvs[Len(tlvs)] \in HopTlv
    BY <2>1
  <2> QED BY <2>1, <2>2 DEF Start, End, HopTlv
<1> QED BY <1>1, <1>2

\* A representable header, and all its shorter ones, ends below the bound.
LEMMA EndBound ==
  ASSUME NEW tlvs \in Seq(HopTlv), Representable(tlvs)
  PROVE  End(tlvs) < MaxHeader
<1>1. CASE Len(tlvs) = 0
  BY <1>1 DEF Start, End, MaxHeader, OCTET_MAX, HDR_ALLOC
<1>2. CASE Len(tlvs) # 0
  <2>1. Len(tlvs) \in DOMAIN tlvs /\ (Len(tlvs) + 1) - 1 = Len(tlvs) /\ Len(tlvs) + 1 # 1
    BY <1>2
  <2> QED BY <2>1 DEF Start, End, Representable
<1> QED BY <1>1, <1>2

\* Growing the block: whole units, room for the option, at most one unit spare.
LEMMA Growth ==
  ASSUME NEW p \in HopPack, NEW n \in Nat,
         p.alloc % HDR_ALLOC = 0, p.alloc >= HDR_ALLOC
  PROVE  /\ Used(p) \in Nat
         /\ Grown(p, n) \in Nat /\ Grown(p, n) % HDR_ALLOC = 0
         /\ Grown(p, n) >= p.alloc
         /\ Used(p) + n <= Grown(p, n)
         /\ Grown(p, n) = p.alloc \/ Grown(p, n) <= Used(p) + n + HDR_ALLOC
<1>1. p.hdrlen \in Nat /\ p.part \in Nat /\ p.alloc \in Nat
  <2>1. p.hdrlen \in 0..255 /\ p.part \in 0..(8 - 1) /\ p.alloc \in Nat
    BY DEF HopPack, HDR_ALLOC, OCTET_MAX
  <2> QED BY <2>1
<1>2. Used(p) \in Nat
  BY <1>1 DEF Used, HDR_ALLOC
<1> DEFINE need == Used(p) + n
           units == need \div 8
<1>3. need \in Nat /\ units \in Nat /\ 8 * units <= need /\ need < 8 * units + 8
  BY <1>2
<1> HIDE DEF need, units
<1>4. (1 + units) * 8 = 8 * units + 8 /\ ((1 + units) * 8) % 8 = 0
  BY <1>3
<1>5. Grown(p, n) = IF need > p.alloc THEN (1 + units) * 8 ELSE p.alloc
  BY DEF Grown, need, units, HDR_ALLOC
<1>6. need = Used(p) + n
  BY DEF need
<1> QED
  BY <1>1, <1>2, <1>3, <1>4, <1>5, <1>6 DEF HDR_ALLOC

\* The byte and the three bits hold the length as long as it is representable.
LEMMA SplitLength ==
  ASSUME NEW len \in Nat
  PROVE  /\ Stored(len) \in 0..OCTET_MAX /\ len % HDR_ALLOC \in 0..(HDR_ALLOC - 1)
         /\ len < MaxHeader => Stored(len) * HDR_ALLOC + (len % HDR_ALLOC) = len
<1> DEFINE units == len \div 8
<1>1. units \in Nat /\ len % 8 \in 0..7 /\ len = 8 * units + (len % 8)
  OBVIOUS
<1> HIDE DEF units
<1>2. units % 256 \in 0..255
  BY <1>1
<1>3. len < 2048 => units < 256
  BY <1>1
<1>4. units < 256 => units % 256 = units
  BY <1>1
<1>5. Stored(len) = units % 256
  BY DEF Stored, units, HDR_ALLOC, OCTET_MAX
<1> QED
  BY <1>1, <1>2, <1>3, <1>4, <1>5 DEF MaxHeader, HDR_ALLOC, OCTET_MAX

-----------------------------------------------------------------------------
\* addopt() keeps the invariant, whatever the size.
LEMMA AddOpt ==
  ASSUME HopInv, pc # "done", NEW n \in Nat, pc' = pc, module' = module,
         pack' = addopt(pack, n)
  PROVE  HopInv'
<1> DEFINE e == [at |-> Used(pack), size |-> n]
           new == Append(pack.tlvs, e)
           g == Grown(pack, n)
           u == Used(pack) + n
<1>1. /\ pack \in HopPack /\ pack.tlvs \in Seq(HopTlv)
      /\ pack.alloc % HDR_ALLOC = 0 /\ pack.alloc >= HDR_ALLOC /\ pack.alloc \in Nat
      /\ pc # "done" /\ module = "hop" /\ Fits(pack) /\ Tracked(pack)
  BY DEF HopInv, HopPack
<1>2. /\ Used(pack) \in Nat
      /\ g \in Nat /\ g % HDR_ALLOC = 0
      /\ g >= pack.alloc /\ u <= g
      /\ g = pack.alloc \/ g <= u + HDR_ALLOC
  BY <1>1, Growth
<1>3. u \in Nat /\ e \in HopTlv /\ e.at = Used(pack) /\ e.size = n
  BY <1>2 DEF HopTlv
<1>4. /\ new \in Seq(HopTlv)
      /\ DOMAIN new = DOMAIN pack.tlvs \union {Len(pack.tlvs) + 1}
      /\ \A i \in DOMAIN pack.tlvs : new[i] = pack.tlvs[i] /\ Start(new, i) = Start(pack.tlvs, i)
      /\ new[Len(pack.tlvs) + 1] = e
      /\ Start(new, Len(pack.tlvs) + 1) = End(pack.tlvs)
      /\ End(new) = u
  BY <1>1, <1>3, Appended
<1>5. /\ Stored(u) \in 0..OCTET_MAX /\ u % HDR_ALLOC \in 0..(HDR_ALLOC - 1)
      /\ u < MaxHeader => Stored(u) * HDR_ALLOC + (u % HDR_ALLOC) = u
  BY <1>3, SplitLength
<1>6. /\ pack' = [pack EXCEPT !.alloc = g, !.tlvs = new, !.hdrlen = Stored(u),
                              !.part = u % HDR_ALLOC]
  BY DEF addopt
<1> HIDE DEF e, new, g, u
<1>7. /\ pack' \in HopPack
      /\ pack'.alloc = g /\ pack'.tlvs = new
      /\ pack'.hdrlen = Stored(u) /\ pack'.part = u % HDR_ALLOC
  BY <1>1, <1>2, <1>4, <1>5, <1>6 DEF HopPack
<1>8. pack'.alloc % HDR_ALLOC = 0 /\ pack'.alloc >= HDR_ALLOC
  BY <1>1, <1>2, <1>7 DEF HDR_ALLOC
<1>9. Fits(pack')
  <2> SUFFICES ASSUME NEW i \in DOMAIN new PROVE new[i].at + new[i].size <= g
    BY <1>7 DEF Fits
  <2>1. CASE i \in DOMAIN pack.tlvs
    <3>1. /\ new[i] = pack.tlvs[i] /\ pack.tlvs[i] \in HopTlv
          /\ pack.tlvs[i].at + pack.tlvs[i].size <= pack.alloc
      BY <2>1, <1>1, <1>4 DEF Fits
    <3> QED BY <3>1, <1>1, <1>2 DEF HopTlv
  <2>2. CASE i = Len(pack.tlvs) + 1
    <3>1. u = Used(pack) + n
      BY DEF u
    <3> QED BY <2>2, <3>1, <1>2, <1>3, <1>4
  <2> QED BY <2>1, <2>2, <1>4
<1>10. Tracked(pack')
  <2> SUFFICES ASSUME Representable(new)
               PROVE  /\ Contiguous(new) /\ Used(pack') = End(new)
                      /\ g <= End(new) + HDR_ALLOC
    BY <1>7 DEF Tracked
  <2>1. Representable(pack.tlvs)
    BY <1>4 DEF Representable
  <2>2. /\ Contiguous(pack.tlvs) /\ Used(pack) = End(pack.tlvs)
        /\ pack.alloc <= End(pack.tlvs) + HDR_ALLOC
    BY <2>1, <1>1 DEF Tracked
  <2>3. Contiguous(new)
    BY <2>2, <1>3, <1>4 DEF Contiguous
  <2>4. u < MaxHeader
    <3>1. Len(pack.tlvs) + 1 \in DOMAIN new
      BY <1>4
    <3>2. u = Used(pack) + n
      BY DEF u
    <3> QED BY <3>1, <3>2, <1>3, <1>4 DEF Representable
  <2>5. Used(pack') = u
    BY <2>4, <1>5, <1>7 DEF Used
  <2>6. g <= u + HDR_ALLOC
    <3>1. u = Used(pack) + n
      BY DEF u
    <3> QED BY <3>1, <2>2, <1>1, <1>2 DEF HDR_ALLOC
  <2> QED BY <2>3, <2>5, <2>6, <1>4
<1> QED
  BY <1>1, <1>7, <1>8, <1>9, <1>10 DEF HopInv

\* finalize() keeps it, and makes of the tracked length a readable header.
LEMMA HopFinalized ==
  ASSUME HopInv, HopFinalize
  PROVE  HopInv'
<1>1. /\ pack \in HopPack /\ pack.tlvs \in Seq(HopTlv)
      /\ pack.alloc % HDR_ALLOC = 0 /\ pack.alloc >= HDR_ALLOC /\ pack.alloc \in Nat
      /\ module = "hop" /\ module' = module /\ pc' = "done"
      /\ Fits(pack) /\ Tracked(pack)
  BY DEF HopInv, HopPack, HopFinalize, FinalizeWith
<1> DEFINE tail == IF Used(pack) < pack.alloc THEN Used(pack) ELSE pack.alloc
           h == FinalLen(pack) % (OCTET_MAX + 1)
           nh == IF pack.nexthdr = "given" THEN pack.nexthdr ELSE "type"
<1>2. Used(pack) \in Nat /\ tail \in Nat
  BY <1>1, Growth
<1>3. h \in 0..OCTET_MAX
  <2>1. pack.alloc \div 8 \in Nat
    BY <1>1
  <2>2. pack.hdrlen \in 0..255
    BY <1>1 DEF HopPack, OCTET_MAX
  <2>3. FinalLen(pack) \in Int
    BY <2>1, <2>2 DEF FinalLen, HDR_ALLOC
  <2> QED BY <2>3 DEF OCTET_MAX
<1>4. pack' = [pack EXCEPT !.nexthdr = nh, !.zeroed = tail, !.hdrlen = h]
  BY DEF HopFinalize, FinalizeWith
<1>5. nh \in {"zero", "given", "type"}
  OBVIOUS
<1>6. FinalLen(pack) = IF Used(pack) # pack.alloc THEN (pack.alloc \div 8) - 1 ELSE pack.hdrlen
  BY DEF FinalLen, HDR_ALLOC
<1>6a. h = FinalLen(pack) % 256
  BY DEF OCTET_MAX
<1>6b. tail = IF Used(pack) < pack.alloc THEN Used(pack) ELSE pack.alloc
  OBVIOUS
<1> HIDE DEF tail, h, nh
<1>7. /\ pack' \in HopPack /\ pack'.alloc = pack.alloc /\ pack'.tlvs = pack.tlvs
      /\ pack'.zeroed = tail /\ pack'.hdrlen = h
  BY <1>1, <1>2, <1>3, <1>4, <1>5 DEF HopPack
<1>8. Fits(pack')
  BY <1>1, <1>7 DEF Fits
<1>9. HopReadable'
  <2> SUFFICES ASSUME Representable(pack.tlvs)
               PROVE  /\ \A i \in DOMAIN pack.tlvs : pack.tlvs[i].at = Start(pack.tlvs, i)
                      /\ End(pack.tlvs) # pack.alloc =>
                           tail = End(pack.tlvs) /\ (h + 1) * HDR_ALLOC = pack.alloc
    BY <1>7 DEF HopReadable
  <2>1. /\ Contiguous(pack.tlvs) /\ Used(pack) = End(pack.tlvs)
        /\ pack.alloc <= End(pack.tlvs) + HDR_ALLOC
    BY <1>1 DEF Tracked
  <2>2. End(pack.tlvs) \in Nat /\ End(pack.tlvs) < 2048
    BY <1>1, EndType, EndBound DEF MaxHeader, OCTET_MAX, HDR_ALLOC
  <2>3. End(pack.tlvs) <= pack.alloc
    <3>1. CASE Len(pack.tlvs) = 0
      BY <3>1, <1>1 DEF Start, End, HDR_ALLOC
    <3>2. CASE Len(pack.tlvs) # 0
      <4>1. /\ Len(pack.tlvs) \in DOMAIN pack.tlvs /\ Len(pack.tlvs) + 1 # 1
            /\ (Len(pack.tlvs) + 1) - 1 = Len(pack.tlvs)
        BY <3>2, <1>1
      <4> QED BY <4>1, <1>1 DEF Start, End, Fits
    <3> QED BY <3>1, <3>2
  <2>4. ASSUME End(pack.tlvs) # pack.alloc
        PROVE  tail = End(pack.tlvs) /\ (h + 1) * 8 = pack.alloc
    <3>1. Used(pack) < pack.alloc
      BY <2>1, <2>2, <2>3, <2>4, <1>1
    <3>2. h = ((pack.alloc \div 8) - 1) % 256
      BY <3>1, <1>2, <1>6, <1>6a, <1>1
    <3>3. PICK k \in Nat : pack.alloc = 8 * k
      <4>1. pack.alloc = 8 * (pack.alloc \div 8) + (pack.alloc % 8) /\ pack.alloc \div 8 \in Nat
        BY <1>1
      <4> QED BY <4>1, <1>1 DEF HDR_ALLOC
    <3>4. k \in 1..256 /\ pack.alloc \div 8 = k
      BY <3>3, <2>1, <2>2, <1>1 DEF HDR_ALLOC
    <3>5. (k - 1) % 256 = k - 1
      BY <3>4
    <3> QED BY <3>1, <3>2, <3>3, <3>4, <3>5, <2>1, <1>6b
  <2> QED BY <2>1, <2>4 DEF Contiguous, HDR_ALLOC
<1> QED
  BY <1>1, <1>7, <1>8, <1>9 DEF HopInv

-----------------------------------------------------------------------------
\* The empty header.
LEMMA HopStart == HopInit => HopInv
<1> SUFFICES ASSUME HopInit PROVE HopInv
  OBVIOUS
<1>1. /\ module = "hop" /\ pc = "options"
      /\ pack = [alloc |-> 8, hdrlen |-> 0, part |-> 2, nexthdr |-> "zero",
                 tlvs |-> <<>>, zeroed |-> 8]
  BY DEF HopInit, HDR_ALLOC
<1>2. <<>> \in Seq(HopTlv) /\ DOMAIN <<>> = {} /\ Len(<<>>) = 0
  BY EmptySeq
<1>3. pack \in HopPack
  BY <1>1, <1>2 DEF HopPack, HDR_ALLOC, OCTET_MAX
<1>4. Fits(pack) /\ Contiguous(pack.tlvs) /\ End(pack.tlvs) = 2 /\ Used(pack) = 2
  BY <1>1, <1>2 DEF Fits, Contiguous, End, Start, Used, HDR_ALLOC
<1> QED
  BY <1>1, <1>3, <1>4 DEF HopInv, Tracked, HDR_ALLOC

\* An option or finalize() that changes nothing the invariant reads but nexthdr.
LEMMA HopNextHeaderStep ==
  ASSUME HopInv, HopNextHeader
  PROVE  HopInv'
<1>1. /\ pack' = [pack EXCEPT !.nexthdr = "given"] /\ pc' = pc /\ module' = module
      /\ pc # "done" /\ pack \in HopPack
  BY DEF HopInv, HopNextHeader, Apply
<1>2. /\ pack' \in HopPack /\ pack'.alloc = pack.alloc /\ pack'.tlvs = pack.tlvs
      /\ pack'.hdrlen = pack.hdrlen /\ pack'.part = pack.part
  BY <1>1 DEF HopPack
<1>3. Fits(pack') /\ Tracked(pack')
  BY <1>1, <1>2 DEF HopInv, Fits, Tracked, Used
<1> QED
  BY <1>1, <1>2, <1>3 DEF HopInv

LEMMA HopStep == HopInv /\ [HopNext]_vars => HopInv'
<1> SUFFICES ASSUME HopInv, [HopNext]_vars PROVE HopInv'
  OBVIOUS
<1>1. CASE HopPad0
  BY <1>1, AddOpt DEF HopPad0, Apply
<1>2. CASE HopArbitrary
  BY <1>2, AddOpt DEF HopArbitrary, Apply
<1>3. ASSUME NEW n \in PadSizes, HopPadN(n) PROVE HopInv'
  BY <1>3, HopAssumption, AddOpt DEF HopPadN, Apply
<1>4. ASSUME NEW o \in FixedSizes, HopFixed(o) PROVE HopInv'
  <2>1. o[2] \in Nat
    BY DEF FixedSizes
  <2> QED BY <1>4, <2>1, AddOpt DEF HopFixed, Apply
<1>5. CASE HopNextHeader
  BY <1>5, HopNextHeaderStep
<1>6. CASE HopRefused
  BY <1>6 DEF HopRefused, Refuse, HopInv, Tracked
<1>7. CASE HopFinalize
  BY <1>7, HopFinalized
<1>8. CASE UNCHANGED vars
  BY <1>8 DEF vars, HopInv, HopReadable
<1> QED
  BY <1>1, <1>2, <1>3, <1>4, <1>5, <1>6, <1>7, <1>8 DEF HopNext

\* Fits, the tracked length and the readable final header are inductive.
THEOREM HopInvariance == HopSpec => []HopInv
  BY HopStart, HopStep, PTL DEF HopSpec

\* No option is ever copied past the end of the block addopt() has grown, for
\* any sequence of options of any sizes, hdrlen wrapping around or not.
THEOREM OptionsFit == HopSpec => []HopWritesFit
<1>1. HopInv => HopWritesFit
  BY DEF HopInv, HopWritesFit, Fits
<1> QED BY <1>1, HopInvariance, PTL

\* The options of a finished header are contiguous, and where finalize() filled a
\* tail it announces exactly the length of the block, for any sequence of options
\* whose length hdrlen can hold.
THEOREM HeaderReadable == HopSpec => []HopReadable
<1>1. HopInv => HopReadable
  BY DEF HopInv, HopReadable
<1> QED BY <1>1, HopInvariance, PTL

-----------------------------------------------------------------------------
\* A set of numbers that is not empty has a least member, an interval's subset a
\* greatest one: the provers cannot use the induction theorems of the library,
\* but they can use that < is well founded.
LEMMA Least ==
  ASSUME NEW S, S \subseteq Nat, S # {}
  PROVE  \E m \in S : \A k \in S : m <= k
<1> DEFINE R == OpToRel(<, Nat)
<1>1. IsWellFoundedOn(R, Nat)
  BY NatLessThanWellFounded
<1>2. \A x, y \in Nat : x < y => <<x, y>> \in R
  BY DEF OpToRel
<1> HIDE DEF R
<1>3. PICK x \in S : \A y \in S : ~ (<<y, x>> \in R)
  BY <1>1, WFMin
<1>4. \A y \in S : y \in Nat /\ x \in Nat /\ ~(y < x)
  BY <1>2, <1>3
<1>5. \A y \in S : x <= y
  BY <1>4
<1> QED BY <1>5

LEMMA Greatest ==
  ASSUME NEW n \in Nat, NEW S, S \subseteq 1..n, S # {}
  PROVE  \E m \in S : \A k \in S : k <= m
<1> DEFINE D == {n - k : k \in S}
<1>1. \A k \in S : k \in Nat /\ n - k \in Nat
  OBVIOUS
<1>2. D \subseteq Nat /\ D # {}
  BY <1>1
<1>3. PICK d \in D : \A e \in D : d <= e
  <2> HIDE DEF D
  <2> QED BY <1>2, Least
<1>4. PICK m \in S : d = n - m
  BY <1>3
<1>5. ASSUME NEW k \in S PROVE k <= m
  <2>1. n - k \in D
    OBVIOUS
  <2>2. d <= n - k
    BY <2>1, <1>3
  <2> QED BY <2>2, <1>4, <1>1
<1> QED BY <1>5

-----------------------------------------------------------------------------
\* The last option with one of some names, 0 if there is none, and its value.

LastIn(s, names) ==
  LET at == {i \in DOMAIN s : s[i][1] \in names}
  IN IF at = {} THEN 0 ELSE CHOOSE i \in at : \A j \in at : j <= i

ValueIn(s, names, d) == IF LastIn(s, names) = 0 THEN d ELSE s[LastIn(s, names)][2]

\* What LastIn() says.
LEMMA LastIs ==
  ASSUME NEW S, NEW s \in Seq(S), NEW names
  PROVE  LET m == LastIn(s, names) IN
         /\ m \in Nat /\ m <= Len(s)
         /\ m = 0 => \A i \in DOMAIN s : s[i][1] \notin names
         /\ m # 0 => m \in DOMAIN s /\ s[m][1] \in names
         /\ \A i \in DOMAIN s : s[i][1] \in names => i <= m
<1> DEFINE at == {i \in DOMAIN s : s[i][1] \in names}
<1>1. at \subseteq 1..Len(s) /\ Len(s) \in Nat /\ DOMAIN s = 1..Len(s)
  OBVIOUS
<1>2. CASE at = {}
  <2>1. LastIn(s, names) = 0
    BY <1>2 DEF LastIn
  <2> QED BY <2>1, <1>2, <1>1
<1>3. CASE at # {}
  <2>1. LastIn(s, names) = CHOOSE i \in at : \A j \in at : j <= i
    BY <1>3 DEF LastIn
  <2>2. \E m \in at : \A k \in at : k <= m
    <3> HIDE DEF at
    <3> QED BY <1>1, <1>3, Greatest
  <2>3. LastIn(s, names) \in at /\ \A j \in at : j <= LastIn(s, names)
    BY <2>1, <2>2
  <2> QED BY <2>3, <1>1
<1> QED BY <1>2, <1>3

\* It is the only such number.
LEMMA LastOnly ==
  ASSUME NEW S, NEW s \in Seq(S), NEW names, NEW m \in DOMAIN s, s[m][1] \in names,
         \A i \in DOMAIN s : s[i][1] \in names => i <= m
  PROVE  LastIn(s, names) = m
<1>1. /\ LastIn(s, names) \in Nat /\ m <= LastIn(s, names) /\ m \in Nat /\ m >= 1
      /\ LastIn(s, names) # 0 => LastIn(s, names) <= m
  BY LastIs
<1> QED BY <1>1

\* One more option is the last one of its name, and hides none of another.
LEMMA LastMore ==
  ASSUME NEW S, NEW s \in Seq(S), NEW o \in S, NEW names
  PROVE  LET new == Append(s, o) IN
         /\ LastIn(new, names) = IF o[1] \in names THEN Len(s) + 1 ELSE LastIn(s, names)
         /\ \A d : ValueIn(new, names, d) = IF o[1] \in names THEN o[2] ELSE ValueIn(s, names, d)
<1> DEFINE new == Append(s, o)
<1>1. /\ new \in Seq(S) /\ Len(s) \in Nat /\ DOMAIN s = 1..Len(s) /\ Len(new) = Len(s) + 1
      /\ DOMAIN new = 1..(Len(s) + 1)
      /\ \A i \in DOMAIN s : new[i] = s[i] /\ i \in DOMAIN new
      /\ new[Len(s) + 1] = o
      /\ \A i \in DOMAIN new : i \in DOMAIN s \/ i = Len(s) + 1
  OBVIOUS
<1> HIDE DEF new
<1>2. CASE o[1] \in names
  <2>1. LastIn(new, names) = Len(s) + 1
    <3>1. Len(s) + 1 \in DOMAIN new /\ \A i \in DOMAIN new : i <= Len(s) + 1
      BY <1>1
    <3> QED BY <3>1, <1>1, <1>2, LastOnly
  <2> QED BY <2>1, <1>1, <1>2 DEF ValueIn, new
<1>3. CASE o[1] \notin names
  <2>1. LastIn(new, names) = LastIn(s, names)
    <3>1. CASE LastIn(s, names) = 0
      <4>1. \A i \in DOMAIN s : s[i][1] \notin names
        BY <3>1, LastIs
      <4>2. \A i \in DOMAIN new : new[i][1] \notin names
        BY <4>1, <1>1, <1>3
      <4> QED BY <4>2, <3>1, <1>1, LastIs
    <3>2. CASE LastIn(s, names) # 0
      <4>1. /\ LastIn(s, names) \in DOMAIN s /\ s[LastIn(s, names)][1] \in names
            /\ \A i \in DOMAIN s : s[i][1] \in names => i <= LastIn(s, names)
        BY <3>2, LastIs
      <4>2. /\ LastIn(s, names) \in DOMAIN new /\ new[LastIn(s, names)][1] \in names
            /\ \A i \in DOMAIN new : new[i][1] \in names => i <= LastIn(s, names)
        BY <4>1, <1>1, <1>3
      <4> QED BY <4>2, <1>1, LastOnly
    <3> QED BY <3>1, <3>2
  <2>2. LastIn(s, names) # 0 => new[LastIn(s, names)] = s[LastIn(s, names)]
    BY <1>1, LastIs
  <2> QED BY <2>1, <2>2, <1>3 DEF ValueIn, new
<1> QED BY <1>2, <1>3

\* Without an option there is none.
LEMMA LastNone == \A names, d : LastIn(<<>>, names) = 0 /\ ValueIn(<<>>, names, d) = d
  BY DEF LastIn, ValueIn

\* The model's forms of it.
LEMMA LastOptIs ==
  ASSUME NEW S, opts \in Seq(S), NEW f
  PROVE  LastOpt(f) = LastIn(opts, {f})
<1> DEFINE m == LastIn(opts, {f})
<1>1. /\ m \in Nat /\ m <= Len(opts) /\ DOMAIN opts = 1..Len(opts) /\ Len(opts) \in Nat
      /\ m = 0 => \A i \in DOMAIN opts : opts[i][1] # f
      /\ m # 0 => m \in DOMAIN opts /\ opts[m][1] = f
      /\ \A i \in DOMAIN opts : opts[i][1] = f => i <= m
  BY LastIs
<1> HIDE DEF m
<1>2. CASE m = 0
  BY <1>1, <1>2 DEF LastOpt, m
<1>3. CASE m # 0
  <2> DEFINE Q(i) == opts[i][1] = f /\ \A j \in (i + 1)..Len(opts) : opts[j][1] # f
  <2>1. LastOpt(f) = CHOOSE i \in DOMAIN opts : Q(i)
    BY <1>1, <1>3 DEF LastOpt
  <2>2. m \in DOMAIN opts /\ Q(m)
    BY <1>1, <1>3
  <2>3. \A i \in DOMAIN opts : Q(i) => i = m
    <3> SUFFICES ASSUME NEW i \in DOMAIN opts, Q(i), i # m PROVE FALSE
      OBVIOUS
    <3>1. i <= m /\ m \in (i + 1)..Len(opts)
      BY <1>1, <1>3
    <3> QED BY <3>1, <2>2
  <2> QED BY <2>1, <2>2, <2>3 DEF m
<1> QED BY <1>2, <1>3

-----------------------------------------------------------------------------
\* ipv4 and tcp: options behind a fixed header.

TlvOption ==
  [kind : {Unset, Eol, Nop, Other}, at : Nat, size : Nat, len : {Unset} \union 0..(BYTE - 1)]
IpPack  == [alloc : Nat, mod : SUBSET {"nibble"}, nibble : 0..15, list : Seq(TlvOption)]
TcpPack == [alloc : Nat, mod : SUBSET (TcpFlags \union {"nibble"}), nibble : 0..15,
            list : Seq(TlvOption), flag : [TcpFlags -> Nat]]

\* The place behind the first i options of a list.
TlvEnd(list, i) == IF i = 0 THEN Fixed ELSE list[i].at + (list[i].size % BYTE)

\* Every option lies behind the one before it, the last one at the end of the
\* header and none beyond it, and the byte of its length is what it takes.
Packed(p) ==
  /\ \A i \in DOMAIN p.list :
       /\ p.list[i].at = TlvEnd(p.list, i - 1)
       /\ p.list[i].at + (p.list[i].size % BYTE) <= p.alloc
       /\ p.list[i].len = IF p.list[i].size % BYTE > 1 THEN p.list[i].size % BYTE ELSE Unset
  /\ TlvEnd(p.list, Len(p.list)) = p.alloc

\* The header says how long it is, unless the user did.
Announced(p) == "nibble" \notin p.mod => p.nibble = ((p.alloc + 3) \div 4) % 16

TlvGood(p) == p \in IpPack \union TcpPack /\ Packed(p)

LEMMA ByteRange == \A n \in Nat : n % BYTE \in Nat /\ n % BYTE <= n /\ n % BYTE < BYTE
                                  /\ (n < BYTE => n % BYTE = n)
  BY DEF BYTE

\* The block with more options.
Longer(p, a, l) == [p EXCEPT !.alloc = a, !.list = l]

\* The option appended by addoption() is packed behind the others.
LEMMA AddPacked ==
  ASSUME NEW p, TlvGood(p), NEW kind \in {Unset, Eol, Nop, Other}, NEW n \in Nat
  PROVE  /\ \E a \in Nat, l \in Seq(TlvOption) : addoption(p, kind, n) = Longer(p, a, l)
         /\ Packed(addoption(p, kind, n))
<1> DEFINE len == n % BYTE
           e == [kind |-> kind, at |-> p.alloc, size |-> n, len |-> IF len > 1 THEN len ELSE Unset]
           new == Append(p.list, e)
           q == addoption(p, kind, n)
<1>1. p.alloc \in Nat /\ p.list \in Seq(TlvOption)
  BY DEF TlvGood, IpPack, TcpPack
<1>2. len \in Nat /\ len < BYTE
  BY ByteRange
<1>3. e \in TlvOption
  BY <1>1, <1>2 DEF TlvOption, BYTE
<1>4. q = [p EXCEPT !.alloc = p.alloc + len, !.list = new]
  BY DEF addoption
<1>5. DOMAIN p = {"alloc", "mod", "nibble", "list"} \/ DOMAIN p = {"alloc", "mod", "nibble", "list", "flag"}
  BY DEF TlvGood, IpPack, TcpPack
<1>6. q.alloc = p.alloc + len /\ q.list = new /\ p.alloc + len \in Nat
  BY <1>1, <1>2, <1>4, <1>5
<1>7. /\ new \in Seq(TlvOption) /\ Len(new) = Len(p.list) + 1 /\ Len(p.list) \in Nat
      /\ DOMAIN p.list = 1..Len(p.list) /\ DOMAIN new = 1..(Len(p.list) + 1)
      /\ new[Len(p.list) + 1] = e
      /\ \A i \in DOMAIN p.list : new[i] = p.list[i] /\ p.list[i] \in TlvOption
  BY <1>1, <1>3
<1>8. e.at = p.alloc /\ e.size = n /\ e.len = IF len > 1 THEN len ELSE Unset
  OBVIOUS
<1>9. Packed(p)
  BY DEF TlvGood
<1> HIDE DEF new, q, e, len
<1>10. \A i \in 0..Len(p.list) : TlvEnd(new, i) = TlvEnd(p.list, i)
  BY <1>7 DEF TlvEnd
<1>11. ASSUME NEW i \in DOMAIN new
       PROVE  /\ new[i].at = TlvEnd(new, i - 1)
              /\ new[i].at + (new[i].size % BYTE) <= q.alloc
              /\ new[i].len = IF new[i].size % BYTE > 1 THEN new[i].size % BYTE ELSE Unset
  <2>1. CASE i \in DOMAIN p.list
    <3>1. i - 1 \in 0..Len(p.list) /\ new[i] = p.list[i]
      BY <2>1, <1>7
    <3>2. /\ p.list[i].at \in Nat /\ p.list[i].size % BYTE \in Nat
          /\ p.list[i].at + (p.list[i].size % BYTE) <= p.alloc
      BY <2>1, <1>7, <1>9, ByteRange DEF Packed, TlvOption
    <3>3. p.list[i].at + (p.list[i].size % BYTE) <= q.alloc
      BY <3>2, <1>1, <1>2, <1>6
    <3> QED BY <2>1, <3>1, <3>3, <1>9, <1>10 DEF Packed
  <2>2. CASE i = Len(p.list) + 1
    <3>1. /\ i - 1 = Len(p.list) /\ Len(p.list) \in 0..Len(p.list) /\ new[i] = e
      BY <2>2, <1>7
    <3>2. e.at = TlvEnd(new, i - 1)
      BY <3>1, <1>8, <1>9, <1>10 DEF Packed
    <3>3. e.size % BYTE = len
      BY <1>8 DEF len
    <3> QED BY <3>1, <3>2, <3>3, <1>1, <1>2, <1>6, <1>8
  <2> QED BY <2>1, <2>2, <1>7
<1>12. TlvEnd(new, Len(new)) = q.alloc
  <2>1. e.size % BYTE = len
    BY <1>8 DEF len
  <2>2. Len(new) # 0
    BY <1>7
  <2> QED BY <2>1, <2>2, <1>6, <1>7, <1>8 DEF TlvEnd
<1>13. Packed(q)
  BY <1>6, <1>11, <1>12 DEF Packed
<1>14. q = Longer(p, p.alloc + len, new)
  BY <1>4 DEF Longer
<1> QED BY <1>6, <1>7, <1>13, <1>14 DEF q

\* addoption() keeps what is known of the block of either module.
LEMMA TlvAddGood ==
  ASSUME NEW p, TlvGood(p), NEW kind \in {Unset, Eol, Nop, Other}, NEW n \in Nat
  PROVE  /\ TlvGood(addoption(p, kind, n))
         /\ p \in IpPack => addoption(p, kind, n) \in IpPack
         /\ p \in TcpPack => /\ addoption(p, kind, n) \in TcpPack
                             /\ addoption(p, kind, n).flag = p.flag
                             /\ addoption(p, kind, n).mod = p.mod
<1> DEFINE q == addoption(p, kind, n)
<1>1. PICK a \in Nat, l \in Seq(TlvOption) : q = [p EXCEPT !.alloc = a, !.list = l]
  <2>1. \E a \in Nat, l \in Seq(TlvOption) : addoption(p, kind, n) = Longer(p, a, l)
    BY AddPacked
  <2> QED BY <2>1 DEF Longer
<1>2. Packed(q)
  BY AddPacked
<1> HIDE DEF q
<1>3. ASSUME p \in IpPack PROVE q \in IpPack
  BY <1>1, <1>3 DEF IpPack
<1>4. ASSUME p \in TcpPack PROVE q \in TcpPack /\ q.flag = p.flag /\ q.mod = p.mod
  BY <1>1, <1>4 DEF TcpPack
<1> QED BY <1>2, <1>3, <1>4 DEF TlvGood, q

\* A change of other fields than alloc and list keeps the options packed.
LEMMA SameList ==
  ASSUME NEW p, NEW q, Packed(p), q.alloc = p.alloc, q.list = p.list
  PROVE  Packed(q)
  BY DEF Packed

\* finalize()
LEMMA TlvLengthGood ==
  ASSUME NEW p, TlvGood(p)
  PROVE  LET q == TlvLength(p) IN
         /\ TlvGood(q) /\ Announced(q) /\ q.list = p.list /\ q.mod = p.mod
         /\ p \in IpPack => q \in IpPack
         /\ p \in TcpPack => q \in TcpPack /\ q.flag = p.flag
<1> DEFINE m == ((p.alloc + 3) \div 4) % 16
           q == TlvLength(p)
<1>1. p.alloc \in Nat
  BY DEF TlvGood, IpPack, TcpPack
<1>2. m \in 0..15
  BY <1>1
<1>3. q = IF "nibble" \in p.mod THEN p ELSE [p EXCEPT !.nibble = m]
  BY DEF TlvLength
<1> HIDE DEF m, q
<1>4. ASSUME p \in IpPack PROVE q \in IpPack
  BY <1>2, <1>3, <1>4 DEF IpPack
<1>5. ASSUME p \in TcpPack PROVE q \in TcpPack /\ q.flag = p.flag
  BY <1>2, <1>3, <1>5 DEF TcpPack
<1>6. /\ q.alloc = p.alloc /\ q.list = p.list /\ q.mod = p.mod
      /\ "nibble" \notin p.mod => q.nibble = m
  <2>1. CASE p \in IpPack
    BY <2>1, <1>3 DEF IpPack
  <2>2. CASE p \in TcpPack
    BY <2>2, <1>3 DEF TcpPack
  <2> QED BY <2>1, <2>2 DEF TlvGood
<1>7. Packed(q)
  BY <1>6, SameList DEF TlvGood
<1>8. Announced(q)
  BY <1>6 DEF Announced, m
<1> QED BY <1>4, <1>5, <1>6, <1>7, <1>8 DEF TlvGood, q

\* What a receiver reads of a list that is packed, of ordinary options, and
\* announced at its length, up to its n-th option: that is its last or its first
\* Eol.
LEMMA ReadsUpTo ==
  ASSUME NEW p, p.list \in Seq(TlvOption), p.alloc \in Nat, p.nibble \in Nat,
         Packed(p), p.alloc <= 4 * p.nibble,
         \A i \in DOMAIN p.list : Ordinary(p.list[i]),
         NEW n \in 0..Len(p.list),
         \A i \in 1..n : p.list[i].kind = Eol => i = n,
         \/ n > 0 /\ p.list[n].kind = Eol
         \/ n = Len(p.list) /\ p.alloc = 4 * p.nibble
  PROVE  Reads(p, SubSeq(p.list, 1, n))
<1> DEFINE s == SubSeq(p.list, 1, n)
<1>1. /\ Len(p.list) \in Nat /\ DOMAIN p.list = 1..Len(p.list) /\ n \in Nat /\ n <= Len(p.list)
      /\ \A i \in 1..n : i \in DOMAIN p.list
  OBVIOUS
<1>2. /\ s \in Seq(TlvOption) /\ Len(s) = n /\ DOMAIN s = 1..n
      /\ \A i \in 1..n : s[i] = p.list[i]
  <2>1. \A i \in 1..n : i \in 1..Len(p.list) /\ (1 + i) - 1 = i
    BY <1>1
  <2> QED BY <2>1, <1>1, SubSeqProperties
<1> HIDE DEF s
<1>3. ASSUME NEW i \in DOMAIN p.list
      PROVE  /\ p.list[i] \in TlvOption
             /\ p.list[i].kind \in {Eol, Nop} \/ (p.list[i].kind = Other /\ p.list[i].len >= 2)
             /\ p.list[i].kind # Eol =>
                  p.list[i].size % BYTE = IF p.list[i].kind = Nop THEN 1 ELSE p.list[i].len
             /\ p.list[i].at < p.alloc
  <2> DEFINE o == p.list[i]
  <2>1. o \in TlvOption /\ Ordinary(o)
    OBVIOUS
  <2>2. /\ o.at + (o.size % BYTE) <= p.alloc
        /\ o.len = IF o.size % BYTE > 1 THEN o.size % BYTE ELSE Unset
    BY DEF Packed
  <2>3. o.at \in Nat /\ o.size \in Nat
    BY <2>1 DEF TlvOption
  <2> HIDE DEF o
  <2>4. CASE o.kind \in {Eol, Nop}
    <3>1. o.size = 1 /\ o.size % BYTE = 1
      BY <2>1, <2>4, ByteRange DEF Ordinary, BYTE
    <3>2. o.at < p.alloc
      BY <3>1, <2>2, <2>3
    <3> QED BY <2>1, <2>4, <3>1, <3>2 DEF o, Eol, Nop
  <2>5. CASE o.kind \notin {Eol, Nop}
    <3>1. o.kind = Other /\ o.size >= 2 /\ o.size < BYTE
      <4>1. o.kind = Other /\ o.size \in 2..(256 - 1)
        BY <2>1, <2>5 DEF Ordinary, BYTE
      <4>2. o.size >= 2 /\ o.size < 256
        <5>1. \A x \in 2..(256 - 1) : x >= 2 /\ x < 256
          OBVIOUS
        <5> QED BY <4>1, <5>1
      <4> QED BY <4>1, <4>2 DEF BYTE
    <3>2. o.size % BYTE = o.size
      BY <2>3, <3>1, ByteRange
    <3>3. o.len = o.size
      BY <3>1, <3>2, <2>2, <2>3
    <3>4. o.at < p.alloc
      <4>1. o.at + o.size <= p.alloc /\ o.at \in Nat /\ o.size \in Nat /\ p.alloc \in Nat
        BY <2>2, <2>3, <3>2
      <4>2. \A a, b, c \in Nat : a + b <= c /\ b >= 2 => a < c
        OBVIOUS
      <4> QED BY <4>1, <4>2, <3>1
    <3> QED BY <2>1, <3>1, <3>2, <3>3, <3>4 DEF o, Eol, Nop, Other
  <2> QED BY <2>4, <2>5
<1>4. \A i \in 0..n : (i = 0 \/ s[i].kind # Eol) => Reach(s, i) = TlvEnd(p.list, i)
  <2> SUFFICES ASSUME NEW i \in 1..n, s[i].kind # Eol PROVE Reach(s, i) = TlvEnd(p.list, i)
    BY DEF Reach, TlvEnd
  <2> QED BY <1>1, <1>2, <1>3 DEF Reach, TlvEnd
<1>5. ASSUME NEW i \in 1..n
      PROVE  /\ \E j \in DOMAIN p.list : s[i] = p.list[j]
             /\ s[i].at = Reach(s, i - 1) /\ s[i].at < 4 * p.nibble
             /\ s[i].kind \in {Eol, Nop} \/ (s[i].kind = Other /\ s[i].len >= 2)
             /\ s[i].kind = Eol => i = n
  <2>1. i \in DOMAIN p.list /\ s[i] = p.list[i] /\ i - 1 \in 0..n
    BY <1>1, <1>2
  <2>2. i - 1 = 0 \/ s[i - 1].kind # Eol
    <3>1. i - 1 # 0 => i - 1 \in 1..n /\ i - 1 # n
      OBVIOUS
    <3> QED BY <3>1, <1>2
  <2>3. s[i].at = Reach(s, i - 1)
    BY <2>1, <2>2, <1>4 DEF Packed
  <2>4. s[i].at < 4 * p.nibble
    <3>1. s[i].at \in Nat /\ s[i].at < p.alloc
      BY <2>1, <1>3 DEF TlvOption
    <3>2. 4 * p.nibble \in Nat
      OBVIOUS
    <3> QED BY <3>1, <3>2
  <2>5. s[i].kind \in {Eol, Nop} \/ (s[i].kind = Other /\ s[i].len >= 2)
    BY <2>1, <1>3
  <2> QED BY <2>1, <2>3, <2>4, <2>5, <1>2
<1>6. Reach(s, n) = 4 * p.nibble \/ (s # <<>> /\ s[n].kind = Eol)
  <2>1. CASE n > 0 /\ p.list[n].kind = Eol
    <3>1. n \in 1..n
      BY <2>1, <1>1
    <3> QED BY <2>1, <3>1, <1>2
  <2>2. CASE n = Len(p.list) /\ p.alloc = 4 * p.nibble /\ ~(n > 0 /\ p.list[n].kind = Eol)
    <3>1. n = 0 \/ s[n].kind # Eol
      <4>1. n # 0 => n > 0 /\ n \in 1..n
        BY <1>1
      <4> QED BY <4>1, <2>2, <1>2
    <3>2. Reach(s, n) = TlvEnd(p.list, n) /\ n \in 0..n
      BY <3>1, <1>1, <1>4
    <3> QED BY <3>2, <2>2 DEF Packed
  <2> QED BY <2>1, <2>2
<1> QED BY <1>2, <1>5, <1>6 DEF Reads, s

\* A finished header whose length the user left alone is readable.
LEMMA Readable ==
  ASSUME NEW p, TlvGood(p), Announced(p), "nibble" \notin p.mod, p.alloc <= 60,
         (\E i \in DOMAIN p.list : p.list[i].kind = Eol) \/ p.alloc % 4 = 0,
         \A i \in DOMAIN p.list : Ordinary(p.list[i])
  PROVE  Reads(p, Meant(p))
<1>1. /\ p.alloc \in Nat /\ p.list \in Seq(TlvOption) /\ p.nibble \in Nat
      /\ Len(p.list) \in Nat /\ DOMAIN p.list = 1..Len(p.list)
  BY DEF TlvGood, IpPack, TcpPack
<1>2. Packed(p)
  BY DEF TlvGood
<1>3. p.nibble = (p.alloc + 3) \div 4
  <2>1. p.nibble = ((p.alloc + 3) \div 4) % 16
    BY DEF Announced
  <2>2. \A a \in Nat : a <= 60 => ((a + 3) \div 4) % 16 = (a + 3) \div 4
    OBVIOUS
  <2> QED BY <2>1, <2>2, <1>1
<1>4. p.alloc <= 4 * p.nibble /\ (p.alloc % 4 = 0 => p.alloc = 4 * p.nibble)
  <2>1. \A a \in Nat : a <= 4 * ((a + 3) \div 4) /\ (a % 4 = 0 => a = 4 * ((a + 3) \div 4))
    OBVIOUS
  <2> QED BY <2>1, <1>1, <1>3
<1> DEFINE eols == {i \in DOMAIN p.list : p.list[i].kind = Eol}
<1>5. CASE eols = {}
  <2>1. Meant(p) = p.list
    BY <1>5 DEF Meant
  <2>2. p.list = SubSeq(p.list, 1, Len(p.list))
    BY <1>1
  <2>3. /\ p.alloc = 4 * p.nibble /\ Len(p.list) \in 0..Len(p.list)
        /\ \A i \in 1..Len(p.list) : p.list[i].kind # Eol
    BY <1>1, <1>4, <1>5
  <2>4. Reads(p, SubSeq(p.list, 1, Len(p.list)))
    BY <2>3, <1>1, <1>2, <1>4, ReadsUpTo
  <2> QED BY <2>1, <2>2, <2>4
<1>6. CASE eols # {}
  <2> DEFINE n == CHOOSE i \in eols : \A j \in eols : i <= j
  <2>1. Meant(p) = SubSeq(p.list, 1, n)
    BY <1>6 DEF Meant
  <2>2. eols \subseteq Nat
    BY <1>1
  <2>3. \E i \in eols : \A j \in eols : i <= j
    <3> HIDE DEF eols
    <3> QED BY <2>2, <1>6, Least
  <2>4. n \in eols /\ \A j \in eols : n <= j
    BY <2>3
  <2> HIDE DEF n
  <2>a. DOMAIN p.list = 1..Len(p.list) /\ Len(p.list) \in Nat
    BY <1>1
  <2>b. n \in 1..Len(p.list) /\ p.list[n].kind = Eol /\ \A j \in 1..Len(p.list) : p.list[j].kind = Eol => n <= j
    BY <2>4, <2>a
  <2>5. /\ n \in 1..Len(p.list) /\ p.list[n].kind = Eol /\ n > 0 /\ n \in 0..Len(p.list)
        /\ \A j \in 1..Len(p.list) : p.list[j].kind = Eol => n <= j
    BY <2>a, <2>b
  <2>6. \A i \in 1..n : p.list[i].kind = Eol => i = n
    <3>1. \A i \in 1..n : i \in 1..Len(p.list) /\ i <= n /\ i \in Nat
      BY <2>5
    <3> QED BY <3>1, <2>5
  <2>7. Reads(p, SubSeq(p.list, 1, n))
    BY <2>5, <2>6, <1>1, <1>2, <1>4, ReadsUpTo
  <2> QED BY <2>1, <2>7
<1> QED BY <1>5, <1>6

-----------------------------------------------------------------------------
\* ipv4

IpInv ==
  /\ module = "ipv4" /\ pack \in IpPack /\ Packed(pack)
  /\ pc = "done" => Announced(pack)

LEMMA IpStart == IpInit => IpInv
<1> SUFFICES ASSUME IpInit PROVE IpInv
  OBVIOUS
<1>1. /\ module = "ipv4" /\ pc = "options"
      /\ pack = [alloc |-> 20, mod |-> {}, nibble |-> 0, list |-> <<>>]
  BY DEF IpInit, TlvPack, Fixed
<1>2. <<>> \in Seq(TlvOption) /\ Len(<<>>) = 0 /\ DOMAIN <<>> = {}
  BY EmptySeq
<1>3. pack \in IpPack
  BY <1>1, <1>2 DEF IpPack
<1>4. Packed(pack)
  BY <1>1, <1>2 DEF Packed, TlvEnd, Fixed
<1> QED BY <1>1, <1>3, <1>4 DEF IpInv

\* An option appended by do_opt().
LEMMA IpAddKeeps ==
  ASSUME IpInv, NEW opt, NEW kind \in {Unset, Eol, Nop, Other}, NEW n \in Nat, IpAdd(opt, kind, n)
  PROVE  IpInv'
<1>1. TlvGood(pack) /\ pack \in IpPack
  BY DEF IpInv, TlvGood
<1>2. /\ pack' = addoption(pack, kind, n) /\ pc' = pc /\ pc # "done" /\ module' = module
      /\ module = "ipv4"
  BY DEF IpAdd, Apply, IpMore
<1>3. pack' \in IpPack /\ Packed(pack')
  BY <1>1, <1>2, TlvAddGood DEF TlvGood
<1> QED BY <1>2, <1>3 DEF IpInv

\* The sizes of the options that have an argument.
LEMMA SizesOfTlv ==
  ASSUME NEW n \in Nat
  PROVE  /\ NumBytes(n) + 1 \in Nat
         /\ buildroute(n) + 2 \in Nat
         /\ \A flag \in BOOLEAN : 4 + (IF flag THEN 8 ELSE 4) * n \in Nat
<1>1. (1 + 4 * n) % 256 \in Nat
  OBVIOUS
<1>2. \A flag \in BOOLEAN : 4 + (IF flag THEN 8 ELSE 4) * n \in Nat
  <2>1. 4 + 8 * n \in Nat /\ 4 + 4 * n \in Nat
    OBVIOUS
  <2> QED BY <2>1
<1> QED BY <1>1, <1>2 DEF NumBytes, buildroute, BYTE

LEMMA IpStep == IpInv /\ [IpNext]_vars => IpInv'
<1> SUFFICES ASSUME IpInv, [IpNext]_vars PROVE IpInv'
  OBVIOUS
<1>1. CASE IpField
  BY <1>1 DEF IpField, IpMore, Apply, IpInv
<1>2. CASE IpEol
  BY <1>2, IpAddKeeps DEF IpEol
<1>3. CASE IpNop
  BY <1>3, IpAddKeeps DEF IpNop
<1>4. CASE IpSid
  BY <1>4, IpAddKeeps DEF IpSid
<1>5. CASE IpGarbled
  BY <1>5 DEF IpGarbled, IpMore, IpInv
<1>6. CASE IpRefused
  BY <1>6 DEF IpRefused, IpMore, Refuse, IpInv
<1>7. CASE IpFinalize
  <2>1. TlvGood(pack) /\ pack \in IpPack /\ module = "ipv4" /\ module' = module
        /\ pack' = TlvLength(pack)
    BY <1>7 DEF IpInv, TlvGood, IpFinalize, FinalizeWith
  <2>2. pack' \in IpPack /\ Packed(pack') /\ Announced(pack')
    BY <2>1, TlvLengthGood DEF TlvGood
  <2> QED BY <2>1, <2>2 DEF IpInv
<1>8. ASSUME NEW n \in {0, 15, 21}, IpHeaderLen(n) PROVE IpInv'
  <2>1. /\ pack' = [pack EXCEPT !.nibble = n % 16, !.mod = @ \union {"nibble"}]
        /\ pc' = pc /\ pc # "done" /\ module' = module /\ module = "ipv4" /\ pack \in IpPack
        /\ Packed(pack)
    BY <1>8 DEF IpHeaderLen, IpMore, Apply, IpInv
  <2>2. n % 16 \in 0..15
    OBVIOUS
  <2>3. pack' \in IpPack /\ pack'.alloc = pack.alloc /\ pack'.list = pack.list
    BY <2>1, <2>2 DEF IpPack
  <2>4. Packed(pack')
    BY <2>1, <2>3, SameList
  <2> QED BY <2>1, <2>3, <2>4 DEF IpInv
<1>9. ASSUME NEW kind \in {Eol, Nop, Other}, NEW n \in NumSizes, IpNum(kind, n) PROVE IpInv'
  <2>1. NumBytes(n) + 1 \in Nat
    BY TlvAssumption, SizesOfTlv
  <2>2. (IF n = 0 THEN Unset ELSE kind) \in {Unset, Eol, Nop, Other}
    OBVIOUS
  <2> QED BY <1>9, <2>1, <2>2, IpAddKeeps DEF IpNum
<1>10. ASSUME NEW n \in IpAddrs, IpRoute(n) PROVE IpInv'
  <2>1. buildroute(n) + 2 \in Nat
    BY IpAssumption, SizesOfTlv
  <2> QED BY <1>10, <2>1, IpAddKeeps DEF IpRoute
<1>11. ASSUME NEW flag \in BOOLEAN, NEW n \in IpAddrs, IpTimestamp(flag, n) PROVE IpInv'
  <2>1. 4 + (IF flag THEN 8 ELSE 4) * n \in Nat
    BY IpAssumption, SizesOfTlv
  <2> QED BY <1>11, <2>1, IpAddKeeps DEF IpTimestamp
<1>12. CASE UNCHANGED vars
  BY <1>12 DEF vars, IpInv
<1> QED
  BY <1>1, <1>2, <1>3, <1>4, <1>5, <1>6, <1>7, <1>8, <1>9, <1>10, <1>11, <1>12 DEF IpNext

-----------------------------------------------------------------------------
\* tcp

TcpName == {"ack", "urg", "syn", "psh", "-ta", "-tu", "field", "off", "num", "eol", "nop",
            "mss", "wscale", "sackok", "sack", "ts"}
TcpOption == TcpName \X Nat

\* An option of a field has set flag f on its way.
SetByField(f) ==
  \/ f = "ack" /\ LastIn(opts, {"-ta"}) > 0
  \/ f = "urg" /\ LastIn(opts, {"-tu"}) > 0

\* A flag is marked exactly if an option has set it, and has the value of the last
\* one of its own; finalize() sets SYN if it is not marked.
FlagGood(f) ==
  /\ f \in pack.mod <=> \/ LastIn(opts, {f}) > 0 \/ SetByField(f)
                        \/ (pc = "done" /\ f = "syn")
  /\ pack.flag[f] = IF LastIn(opts, {f}) > 0 THEN ValueIn(opts, {f}, 0)
                    ELSE IF f \in pack.mod THEN 1 ELSE 0

TcpInv ==
  /\ module = "tcp" /\ pack \in TcpPack /\ Packed(pack)
  /\ pc = "done" => Announced(pack)
  /\ opts \in Seq(TcpOption)
  /\ \A f \in TcpFlags : FlagGood(f)

LEMMA TcpStart == TcpInit => TcpInv
<1> SUFFICES ASSUME TcpInit PROVE TcpInv
  OBVIOUS
<1>1. /\ module = "tcp" /\ pc = "options" /\ opts = <<>>
      /\ pack = [alloc |-> 20, mod |-> {}, nibble |-> 0, list |-> <<>>,
                 flag |-> [f \in TcpFlags |-> 0]]
  BY DEF TcpInit, TlvPack, Fixed
<1>2. <<>> \in Seq(TlvOption) /\ <<>> \in Seq(TcpOption) /\ Len(<<>>) = 0 /\ DOMAIN <<>> = {}
  BY EmptySeq
<1>3. pack \in TcpPack
  BY <1>1, <1>2 DEF TcpPack
<1>4. Packed(pack)
  BY <1>1, <1>2 DEF Packed, TlvEnd, Fixed
<1>5. ASSUME NEW f \in TcpFlags PROVE FlagGood(f)
  BY <1>1, LastNone DEF FlagGood, SetByField
<1> QED BY <1>1, <1>2, <1>3, <1>4, <1>5 DEF TcpInv

\* What one more option o does to the flags, by name.
LEMMA TcpApplied ==
  ASSUME TcpInv, NEW o \in TcpOption, NEW new \in TcpPack, Apply(o, new), Packed(new), TcpMore,
         \A f \in TcpFlags :
           /\ f \in new.mod <=> \/ f \in pack.mod \/ f = o[1]
                                \/ (f = "ack" /\ o[1] = "-ta") \/ (f = "urg" /\ o[1] = "-tu")
           /\ new.flag[f] = IF f = o[1] THEN o[2]
                            ELSE IF f \in pack.mod THEN pack.flag[f]
                            ELSE IF f \in new.mod THEN 1 ELSE 0
  PROVE  TcpInv'
<1>1. /\ pack' = new /\ opts' = Append(opts, o) /\ pc' = pc /\ pc # "done" /\ module' = module
      /\ module = "tcp" /\ opts \in Seq(TcpOption)
  BY DEF Apply, TcpMore, TcpInv
<1>2. opts' \in Seq(TcpOption) /\ Len(opts) \in Nat
  BY <1>1
<1>3. ASSUME NEW f
      PROVE  /\ LastIn(opts', {f}) = IF o[1] = f THEN Len(opts) + 1 ELSE LastIn(opts, {f})
             /\ ValueIn(opts', {f}, 0) = IF o[1] = f THEN o[2] ELSE ValueIn(opts, {f}, 0)
             /\ LastIn(opts', {f}) > 0 <=> o[1] = f \/ LastIn(opts, {f}) > 0
  <2>1. /\ LastIn(Append(opts, o), {f}) = IF o[1] \in {f} THEN Len(opts) + 1 ELSE LastIn(opts, {f})
        /\ ValueIn(Append(opts, o), {f}, 0) = IF o[1] \in {f} THEN o[2] ELSE ValueIn(opts, {f}, 0)
    BY <1>1, LastMore
  <2> QED BY <1>1, <1>2, <2>1
<1>4. ASSUME NEW f \in TcpFlags PROVE FlagGood(f)'
  <2>1. FlagGood(f)
    BY DEF TcpInv
  <2>2. /\ f \in new.mod <=> \/ f \in pack.mod \/ f = o[1]
                             \/ (f = "ack" /\ o[1] = "-ta") \/ (f = "urg" /\ o[1] = "-tu")
        /\ new.flag[f] = IF f = o[1] THEN o[2]
                         ELSE IF f \in pack.mod THEN pack.flag[f]
                         ELSE IF f \in new.mod THEN 1 ELSE 0
    OBVIOUS
  <2>3. SetByField(f)' <=> \/ SetByField(f)
                            \/ (f = "ack" /\ o[1] = "-ta") \/ (f = "urg" /\ o[1] = "-tu")
    BY <1>3 DEF SetByField
  <2> QED BY <1>1, <1>3, <2>1, <2>2, <2>3 DEF FlagGood
<1> QED BY <1>1, <1>2, <1>4 DEF TcpInv

\* SetFlag() and Unless()
LEMMA TcpSets ==
  ASSUME NEW p \in TcpPack, Packed(p), NEW f \in TcpFlags, NEW v \in Nat
  PROVE  LET q == SetFlag(p, f, v) IN
         /\ q \in TcpPack /\ Packed(q) /\ q.alloc = p.alloc /\ q.nibble = p.nibble
         /\ q.mod = p.mod \union {f}
         /\ \A g \in TcpFlags : q.flag[g] = IF g = f THEN v ELSE p.flag[g]
<1> DEFINE q == SetFlag(p, f, v)
<1>1. q = [p EXCEPT !.flag[f] = v, !.mod = @ \union {f}]
  BY DEF SetFlag
<1> HIDE DEF q
<1>2. /\ q \in TcpPack /\ q.alloc = p.alloc /\ q.nibble = p.nibble /\ q.list = p.list
      /\ q.mod = p.mod \union {f}
      /\ \A g \in TcpFlags : q.flag[g] = IF g = f THEN v ELSE p.flag[g]
  BY <1>1 DEF TcpPack
<1>3. Packed(q)
  BY <1>2, SameList
<1> QED BY <1>2, <1>3 DEF q

\* An option that leaves the flags alone.
LEMMA TcpPlain ==
  ASSUME TcpInv, TcpMore, NEW o \in TcpOption, NEW new \in TcpPack, Apply(o, new), Packed(new),
         o[1] \notin TcpFlags \union {"-ta", "-tu"},
         new.flag = pack.flag, \A f \in TcpFlags : f \in new.mod <=> f \in pack.mod
  PROVE  TcpInv'
<1>1. ASSUME NEW f \in TcpFlags
      PROVE  /\ f \in new.mod <=> \/ f \in pack.mod \/ f = o[1]
                                  \/ (f = "ack" /\ o[1] = "-ta") \/ (f = "urg" /\ o[1] = "-tu")
             /\ new.flag[f] = IF f = o[1] THEN o[2]
                              ELSE IF f \in pack.mod THEN pack.flag[f]
                              ELSE IF f \in new.mod THEN 1 ELSE 0
  <2>1. FlagGood(f) /\ pc # "done"
    BY DEF TcpInv, Apply
  <2> QED BY <2>1 DEF FlagGood
<1> QED BY <1>1, TcpApplied

LEMMA TcpAddKeeps ==
  ASSUME TcpInv, NEW opt \in TcpName, NEW kind \in {Unset, Eol, Nop, Other}, NEW n \in Nat,
         TcpAdd(opt, kind, n), opt \notin TcpFlags \union {"-ta", "-tu"}
  PROVE  TcpInv'
<1>1. TlvGood(pack) /\ pack \in TcpPack
  BY DEF TcpInv, TlvGood
<1>2. TcpMore /\ Apply(<<opt, 0>>, addoption(pack, kind, n)) /\ <<opt, 0>> \in TcpOption
  BY DEF TcpAdd, TcpOption
<1>3. /\ addoption(pack, kind, n) \in TcpPack /\ Packed(addoption(pack, kind, n))
      /\ addoption(pack, kind, n).flag = pack.flag /\ addoption(pack, kind, n).mod = pack.mod
  BY <1>1, TlvAddGood DEF TlvGood
<1>4. <<opt, 0>>[1] = opt
  OBVIOUS
<1> HIDE DEF TcpInv
<1> QED BY <1>2, <1>3, <1>4, TcpPlain

LEMMA TcpStep == TcpInv /\ [TcpNext]_vars => TcpInv'
<1> SUFFICES ASSUME TcpInv, [TcpNext]_vars PROVE TcpInv'
  OBVIOUS
<1>1. /\ pack \in TcpPack /\ Packed(pack) /\ module = "tcp" /\ TlvGood(pack)
      /\ opts \in Seq(TcpOption)
  BY DEF TcpInv, TlvGood
\* A field of a fixed place that sets a flag unless the user gave it.
<1>2. ASSUME NEW f \in {"ack", "urg"}, NEW opt \in {"-ta", "-tu"},
             f = "ack" <=> opt = "-ta", TcpMore, Apply(<<opt, 0>>, Unless(pack, f))
      PROVE  TcpInv'
  <2> DEFINE new == Unless(pack, f)
             o == <<opt, 0>>
  <2>1. o \in TcpOption /\ o[1] = opt /\ o[2] = 0 /\ f \in TcpFlags
    BY DEF TcpOption, TcpName, TcpFlags
  <2>2. /\ new \in TcpPack /\ Packed(new) /\ new.mod = pack.mod \union {f}
        /\ \A g \in TcpFlags : new.flag[g] = IF g = f /\ f \notin pack.mod THEN 1 ELSE pack.flag[g]
    <3>1. CASE f \in pack.mod
      BY <3>1, <1>1 DEF Unless
    <3>2. CASE f \notin pack.mod
      <4>1. new = SetFlag(pack, f, 1)
        BY <3>2 DEF Unless
      <4> QED BY <4>1, <3>2, <2>1, <1>1, TcpSets
    <3> QED BY <3>1, <3>2
  <2>3. Apply(o, new)
    BY <1>2
  <2> HIDE DEF new, o
  <2>4. ASSUME NEW g \in TcpFlags
        PROVE  /\ g \in new.mod <=> \/ g \in pack.mod \/ g = o[1]
                                    \/ (g = "ack" /\ o[1] = "-ta") \/ (g = "urg" /\ o[1] = "-tu")
               /\ new.flag[g] = IF g = o[1] THEN o[2]
                                ELSE IF g \in pack.mod THEN pack.flag[g]
                                ELSE IF g \in new.mod THEN 1 ELSE 0
    <3>1. g # opt
      BY DEF TcpFlags
    <3>2. g \notin pack.mod => pack.flag[g] = 0
      <4>1. FlagGood(g) /\ pc # "done"
        BY <2>3 DEF TcpInv, Apply
      <4> QED BY <4>1 DEF FlagGood
    <3>3. (g = "ack" /\ opt = "-ta") \/ (g = "urg" /\ opt = "-tu") <=> g = f
      BY <1>2
    <3> QED BY <2>1, <2>2, <3>1, <3>2, <3>3
  <2> QED BY <2>1, <2>2, <2>3, <2>4, <1>2, TcpApplied
<1>3. CASE TcpAck
  BY <1>2, <1>3 DEF TcpAck
<1>4. CASE TcpUrgent
  BY <1>2, <1>4 DEF TcpUrgent
<1>5. CASE TcpField
  <2>1. TcpMore /\ Apply(<<"field", 0>>, pack)
    BY <1>5 DEF TcpField
  <2>2. /\ <<"field", 0>> \in TcpOption /\ <<"field", 0>>[1] = "field"
        /\ "field" \notin TcpFlags \union {"-ta", "-tu"}
    BY DEF TcpOption, TcpName, TcpFlags
  <2> QED BY <2>1, <2>2, <1>1, TcpPlain
<1>6. CASE TcpEol
  BY <1>6, TcpAddKeeps DEF TcpEol, TcpName, TcpFlags
<1>7. CASE TcpNop
  BY <1>7, TcpAddKeeps DEF TcpNop, TcpName, TcpFlags
<1>8. CASE TcpMss
  BY <1>8, TcpAddKeeps DEF TcpMss, TcpName, TcpFlags
<1>9. CASE TcpWscale
  BY <1>9, TcpAddKeeps DEF TcpWscale, TcpName, TcpFlags
<1>10. CASE TcpSackOk
  BY <1>10, TcpAddKeeps DEF TcpSackOk, TcpName, TcpFlags
<1>11. CASE TcpSack
  BY <1>11, TcpAddKeeps DEF TcpSack, TcpName, TcpFlags
<1>12. CASE TcpTimestamp
  BY <1>12, TcpAddKeeps DEF TcpTimestamp, TcpName, TcpFlags
<1>13. CASE TcpSackCrash
  BY <1>13 DEF TcpSackCrash, TcpMore, TcpInv, FlagGood, SetByField
<1>14. CASE TcpRefused
  BY <1>14 DEF TcpRefused, TcpMore, Refuse, TcpInv, FlagGood, SetByField
<1>15. CASE TcpFinalize
  <2> DEFINE q == TlvLength(pack)
  <2>1. /\ pc = "options" /\ pc' = "done" /\ pack' = Unless(q, "syn") /\ module' = module
        /\ opts' = opts
    BY <1>15 DEF TcpFinalize, FinalizeWith
  <2>2. /\ q \in TcpPack /\ Packed(q) /\ Announced(q) /\ q.mod = pack.mod /\ q.flag = pack.flag
    BY <1>1, TlvLengthGood DEF TlvGood
  <2> HIDE DEF q
  <2>3. /\ pack' \in TcpPack /\ Packed(pack') /\ Announced(pack')
        /\ pack'.mod = pack.mod \union {"syn"}
        /\ \A g \in TcpFlags :
             pack'.flag[g] = IF g = "syn" /\ "syn" \notin pack.mod THEN 1 ELSE pack.flag[g]
    <3>1. CASE "syn" \in q.mod
      BY <3>1, <2>1, <2>2 DEF Unless
    <3>2. CASE "syn" \notin q.mod
      <4>1. pack' = SetFlag(q, "syn", 1) /\ "syn" \in TcpFlags
        BY <2>1, <3>2 DEF Unless, TcpFlags
      <4>2. /\ pack' \in TcpPack /\ Packed(pack') /\ pack'.alloc = q.alloc
            /\ pack'.nibble = q.nibble /\ pack'.mod = q.mod \union {"syn"}
            /\ \A g \in TcpFlags : pack'.flag[g] = IF g = "syn" THEN 1 ELSE q.flag[g]
        BY <4>1, <2>2, TcpSets
      <4> QED BY <4>2, <3>2, <2>2 DEF Announced
    <3> QED BY <3>1, <3>2
  <2>4. ASSUME NEW f \in TcpFlags PROVE FlagGood(f)'
    <3>1. FlagGood(f)
      BY DEF TcpInv
    <3>2. SetByField(f)' <=> SetByField(f)
      BY <2>1 DEF SetByField
    <3> QED BY <3>1, <3>2, <2>1, <2>3 DEF FlagGood
  <2> QED BY <2>1, <2>3, <2>4, <1>1 DEF TcpInv
<1>16. ASSUME NEW f \in TcpFlags, NEW bit \in {0, 1}, TcpFlag(f, bit) PROVE TcpInv'
  <2> DEFINE new == SetFlag(pack, f, bit)
             o == <<f, bit>>
  <2>1. o \in TcpOption /\ o[1] = f /\ o[2] = bit
    BY DEF TcpOption, TcpName, TcpFlags
  <2>2. TcpMore /\ Apply(o, new)
    BY <1>16 DEF TcpFlag
  <2>3. /\ new \in TcpPack /\ Packed(new) /\ new.mod = pack.mod \union {f}
        /\ \A g \in TcpFlags : new.flag[g] = IF g = f THEN bit ELSE pack.flag[g]
    <3>1. bit \in Nat
      OBVIOUS
    <3>2. \A v \in Nat : LET q == SetFlag(pack, f, v) IN
             /\ q \in TcpPack /\ Packed(q) /\ q.mod = pack.mod \union {f}
             /\ \A g \in TcpFlags : q.flag[g] = IF g = f THEN v ELSE pack.flag[g]
      BY <1>1, TcpSets
    <3> QED BY <3>1, <3>2
  <2> HIDE DEF new, o
  <2>4. ASSUME NEW g \in TcpFlags
        PROVE  /\ g \in new.mod <=> \/ g \in pack.mod \/ g = o[1]
                                    \/ (g = "ack" /\ o[1] = "-ta") \/ (g = "urg" /\ o[1] = "-tu")
               /\ new.flag[g] = IF g = o[1] THEN o[2]
                                ELSE IF g \in pack.mod THEN pack.flag[g]
                                ELSE IF g \in new.mod THEN 1 ELSE 0
    <3>1. g \notin pack.mod => pack.flag[g] = 0
      <4>1. FlagGood(g) /\ pc # "done"
        BY <2>2 DEF TcpInv, Apply
      <4> QED BY <4>1 DEF FlagGood
    <3>2. f # "-ta" /\ f # "-tu"
      BY DEF TcpFlags
    <3> QED BY <2>1, <2>3, <3>1, <3>2
  <2> QED BY <2>1, <2>2, <2>3, <2>4, TcpApplied
<1>17. ASSUME NEW n \in {0, 15, 21}, TcpOffset(n) PROVE TcpInv'
  <2> DEFINE new == [pack EXCEPT !.nibble = n % 16, !.mod = @ \union {"nibble"}]
  <2>1. TcpMore /\ Apply(<<"off", n>>, new)
    BY <1>17 DEF TcpOffset
  <2>2. n % 16 \in 0..15 /\ n \in Nat
    OBVIOUS
  <2>3. /\ <<"off", n>> \in TcpOption /\ <<"off", n>>[1] = "off"
        /\ "off" \notin TcpFlags \union {"-ta", "-tu"} /\ "nibble" \notin TcpFlags
    BY <2>2 DEF TcpOption, TcpName, TcpFlags
  <2>4. /\ new \in TcpPack /\ new.alloc = pack.alloc /\ new.list = pack.list
        /\ new.flag = pack.flag /\ new.mod = pack.mod \union {"nibble"}
    BY <1>1, <2>2 DEF TcpPack
  <2> HIDE DEF new
  <2>5. Packed(new)
    BY <2>4, <1>1, SameList
  <2>6. \A f \in TcpFlags : f \in new.mod <=> f \in pack.mod
    BY <2>3, <2>4
  <2> QED BY <2>1, <2>3, <2>4, <2>5, <2>6, TcpPlain
<1>18. ASSUME NEW kind \in {Eol, Nop, Other}, NEW n \in NumSizes, TcpNum(kind, n) PROVE TcpInv'
  <2>1. NumBytes(n) + 1 \in Nat
    BY TlvAssumption, SizesOfTlv
  <2>2. /\ (IF n = 0 THEN Unset ELSE kind) \in {Unset, Eol, Nop, Other}
        /\ (IF n = 1 THEN 1 ELSE NumBytes(n) + 1) \in Nat
    BY <2>1
  <2> QED BY <1>18, <2>2, TcpAddKeeps DEF TcpNum, TcpName, TcpFlags
<1>19. CASE UNCHANGED vars
  BY <1>19 DEF vars, TcpInv, FlagGood, SetByField
<1> QED
  BY <1>3, <1>4, <1>5, <1>6, <1>7, <1>8, <1>9, <1>10, <1>11, <1>12, <1>13, <1>14, <1>15,
     <1>16, <1>17, <1>18, <1>19 DEF TcpNext

LEMMA TcpProperties == TcpInv => TcpFlagsAsGiven
<1> SUFFICES ASSUME TcpInv, pc = "done", NEW f \in TcpFlags
             PROVE  pack.flag[f] =
                      IF LastOpt(f) > 0 THEN opts[LastOpt(f)][2]
                      ELSE IF \/ f = "syn"
                              \/ f = "ack" /\ LastOpt("-ta") > 0
                              \/ f = "urg" /\ LastOpt("-tu") > 0 THEN 1
                      ELSE 0
  BY DEF TcpFlagsAsGiven
<1>1. opts \in Seq(TcpOption) /\ FlagGood(f)
  BY DEF TcpInv
<1>2. /\ LastOpt(f) = LastIn(opts, {f}) /\ LastOpt("-ta") = LastIn(opts, {"-ta"})
      /\ LastOpt("-tu") = LastIn(opts, {"-tu"})
  BY <1>1, LastOptIs
<1>3. LastIn(opts, {f}) \in Nat
  BY <1>1, LastIs
<1> QED BY <1>1, <1>2, <1>3 DEF FlagGood, SetByField, ValueIn

\* The properties of both modules.
LEMMA TlvProperties ==
  ASSUME IpInv \/ TcpInv
  PROVE  OptionsReadable /\ TlvTypeOK
<1>1. TlvGood(pack) /\ (pc = "done" => Announced(pack))
  BY DEF IpInv, TcpInv, TlvGood
<1>2. OptionsReadable
  BY <1>1, Readable DEF OptionsReadable
<1>3. pack.alloc \in Nat /\ pack.nibble \in 0..15 /\ pack.list \in Seq(TlvOption)
  BY <1>1 DEF TlvGood, IpPack, TcpPack
<1> QED BY <1>2, <1>3 DEF TlvTypeOK, TlvOption

-----------------------------------------------------------------------------
\* ipv6, frag, wesp and route: fields that share a word.

Ip6Option == {"v", "p", "t", "e", "f", "o", "a", "field"} \X Nat

\* The upper half of the first word: version, class in two parts, ECN, label.
FirstHalf(v, h, t, e, f) == (v * 4096) + (h * 256) + (t * 64) + (e * 16) + f

\* Numbers of four and of two bits.
Bits4 == 0..15
Bits2 == 0..3

LEMMA Powers ==
  /\ 2^0 = 1 /\ 2^2 = 4 /\ 2^3 = 8 /\ 2^4 = 16 /\ 2^6 = 64 /\ 2^8 = 256
  /\ 2^12 = 4096 /\ 2^13 = 8192
  OBVIOUS

\* Any value fits into its field, and a class into its two parts.
LEMMA Truncated ==
  ASSUME NEW n \in Nat
  PROVE  /\ n % 16 \in Bits4 /\ n % 4 \in Bits2 /\ (n \div 4) % 16 \in Bits4 /\ n \div WORD \in Nat
         /\ n % 64 = (((n \div 4) % 16) * 4) + (n % 4)
<1> USE DEF Bits4, Bits2
<1>1. n % 16 \in 0..15 /\ n % 4 \in 0..3
  OBVIOUS
<1>2. n \div 4 \in Nat /\ n = 4 * (n \div 4) + (n % 4)
  OBVIOUS
<1>3. PICK q, r : q = n \div 4 /\ r = n % 4
  OBVIOUS
<1>4. q \in Nat /\ r \in 0..3 /\ n = 4 * q + r
  BY <1>1, <1>2, <1>3
<1>5. PICK a \in Nat, b \in 0..15 : q = 16 * a + b
  <2>1. q \div 16 \in Nat /\ q % 16 \in 0..15 /\ q = 16 * (q \div 16) + (q % 16)
    BY <1>4
  <2> QED BY <2>1
<1>6. q % 16 = b
  BY <1>4, <1>5
<1>7. n % 64 = 4 * b + r
  BY <1>4, <1>5
<1>8. n \div WORD \in Nat
  BY DEF WORD
<1> QED BY <1>1, <1>3, <1>5, <1>6, <1>7, <1>8

LEMMA HalfFields ==
  ASSUME NEW v \in Bits4, NEW h \in Bits4, NEW t \in Bits2, NEW e \in Bits2, NEW f \in Bits4
  PROVE  LET w == FirstHalf(v, h, t, e, f) IN
         /\ w = (v * 4096) + (h * 256) + (t * 64) + (e * 16) + f
         /\ (w \div 4096) % 16 = v /\ (w \div 256) % 16 = h /\ (w \div 64) % 64 = 4 * h + t
         /\ (w \div 16) % 4 = e /\ (w \div 1) % 16 = f
<1> USE DEF Bits4, Bits2
<1> DEFINE w == FirstHalf(v, h, t, e, f)
<1>1. w = (v * 4096) + (h * 256) + (t * 64) + (e * 16) + f
  BY DEF FirstHalf
<1>2. /\ (w \div 4096) % 16 = v /\ (w \div 256) % 16 = h /\ (w \div 64) % 64 = 4 * h + t
      /\ (w \div 16) % 4 = e /\ (w \div 1) % 16 = f
  <2>1. w \div 4096 = v /\ v % 16 = v
    BY <1>1
  <2>2. w \div 256 = 16 * v + h /\ (16 * v + h) % 16 = h
    BY <1>1
  <2>3. w \div 64 = 64 * v + 4 * h + t /\ (64 * v + 4 * h + t) % 64 = 4 * h + t
    BY <1>1
  <2>4. w \div 16 = 256 * v + 16 * h + 4 * t + e /\ (256 * v + 16 * h + 4 * t + e) % 4 = e
    BY <1>1
  <2>5. w \div 1 = w /\ w % 16 = f
    BY <1>1
  <2> QED BY <2>1, <2>2, <2>3, <2>4, <2>5
<1> QED BY <1>1, <1>2

\* Each mask and shift of ipv6.c replaces its own field of the word.
LEMMA SetVersion ==
  ASSUME NEW v \in Bits4, NEW h \in Bits4, NEW t \in Bits2, NEW e \in Bits2, NEW f \in Bits4, NEW n \in Nat
  PROVE  SetBits(FirstHalf(v, h, t, e, f), 12, 4, n) = FirstHalf(n % 16, h, t, e, f)
<1> PICK w : w = FirstHalf(v, h, t, e, f)
  OBVIOUS
<1>1. /\ w = (v * 4096) + (h * 256) + (t * 64) + (e * 16) + f
      /\ (w \div 4096) % 16 = v /\ (w \div 256) % 16 = h /\ (w \div 64) % 64 = 4 * h + t
      /\ (w \div 16) % 4 = e /\ (w \div 1) % 16 = f
  BY HalfFields
<1>2. /\ n % 16 \in 0..15 /\ n % 4 \in 0..3 /\ (n \div 4) % 16 \in 0..15
      /\ n % 64 = (((n \div 4) % 16) * 4) + (n % 4)
  BY Truncated DEF Bits4, Bits2
<1>3. SetBits(w, 12, 4, n) = w + ((n % 16) - v) * 4096
  BY <1>1, Powers DEF SetBits, Bits4, Bits2
<1> QED BY <1>1, <1>2, <1>3 DEF FirstHalf, Bits4, Bits2

LEMMA SetClass ==
  ASSUME NEW v \in Bits4, NEW h \in Bits4, NEW t \in Bits2, NEW e \in Bits2, NEW f \in Bits4, NEW n \in Nat
  PROVE  SetBits(FirstHalf(v, h, t, e, f), 8, 4, n) = FirstHalf(v, n % 16, t, e, f)
<1> PICK w : w = FirstHalf(v, h, t, e, f)
  OBVIOUS
<1>1. /\ w = (v * 4096) + (h * 256) + (t * 64) + (e * 16) + f
      /\ (w \div 4096) % 16 = v /\ (w \div 256) % 16 = h /\ (w \div 64) % 64 = 4 * h + t
      /\ (w \div 16) % 4 = e /\ (w \div 1) % 16 = f
  BY HalfFields
<1>2. /\ n % 16 \in 0..15 /\ n % 4 \in 0..3 /\ (n \div 4) % 16 \in 0..15
      /\ n % 64 = (((n \div 4) % 16) * 4) + (n % 4)
  BY Truncated DEF Bits4, Bits2
<1>3. SetBits(w, 8, 4, n) = w + ((n % 16) - h) * 256
  BY <1>1, Powers DEF SetBits, Bits4, Bits2
<1> QED BY <1>1, <1>2, <1>3 DEF FirstHalf, Bits4, Bits2

LEMMA SetTraffic ==
  ASSUME NEW v \in Bits4, NEW h \in Bits4, NEW t \in Bits2, NEW e \in Bits2, NEW f \in Bits4, NEW n \in Nat
  PROVE  SetBits(FirstHalf(v, h, t, e, f), 6, 6, n) = FirstHalf(v, (n \div 4) % 16, n % 4, e, f)
<1> PICK w : w = FirstHalf(v, h, t, e, f)
  OBVIOUS
<1>1. /\ w = (v * 4096) + (h * 256) + (t * 64) + (e * 16) + f
      /\ (w \div 4096) % 16 = v /\ (w \div 256) % 16 = h /\ (w \div 64) % 64 = 4 * h + t
      /\ (w \div 16) % 4 = e /\ (w \div 1) % 16 = f
  BY HalfFields
<1>2. /\ n % 16 \in 0..15 /\ n % 4 \in 0..3 /\ (n \div 4) % 16 \in 0..15
      /\ n % 64 = (((n \div 4) % 16) * 4) + (n % 4)
  BY Truncated DEF Bits4, Bits2
<1>3. PICK a \in 0..15, b \in 0..3 : a = (n \div 4) % 16 /\ b = n % 4 /\ n % 64 = 4 * a + b
  BY <1>2
<1>4. SetBits(w, 6, 6, n) = w + ((n % 64) - (4 * h + t)) * 64
  BY <1>1, Powers DEF SetBits, Bits4, Bits2
<1>5. SetBits(w, 6, 6, n) = w + ((4 * a + b) - (4 * h + t)) * 64
  BY <1>3, <1>4
<1>6. SetBits(w, 6, 6, n) = FirstHalf(v, a, b, e, f)
  BY <1>1, <1>3, <1>5 DEF FirstHalf, Bits4, Bits2
<1> QED BY <1>3, <1>6

LEMMA SetEcn ==
  ASSUME NEW v \in Bits4, NEW h \in Bits4, NEW t \in Bits2, NEW e \in Bits2, NEW f \in Bits4, NEW n \in Nat
  PROVE  SetBits(FirstHalf(v, h, t, e, f), 4, 2, n) = FirstHalf(v, h, t, n % 4, f)
<1> PICK w : w = FirstHalf(v, h, t, e, f)
  OBVIOUS
<1>1. /\ w = (v * 4096) + (h * 256) + (t * 64) + (e * 16) + f
      /\ (w \div 4096) % 16 = v /\ (w \div 256) % 16 = h /\ (w \div 64) % 64 = 4 * h + t
      /\ (w \div 16) % 4 = e /\ (w \div 1) % 16 = f
  BY HalfFields
<1>2. /\ n % 16 \in 0..15 /\ n % 4 \in 0..3 /\ (n \div 4) % 16 \in 0..15
      /\ n % 64 = (((n \div 4) % 16) * 4) + (n % 4)
  BY Truncated DEF Bits4, Bits2
<1>3. SetBits(w, 4, 2, n) = w + ((n % 4) - e) * 16
  BY <1>1, Powers DEF SetBits, Bits4, Bits2
<1> QED BY <1>1, <1>2, <1>3 DEF FirstHalf, Bits4, Bits2

LEMMA SetFlow ==
  ASSUME NEW v \in Bits4, NEW h \in Bits4, NEW t \in Bits2, NEW e \in Bits2, NEW f \in Bits4, NEW n \in Nat
  PROVE  SetBits(FirstHalf(v, h, t, e, f), 0, 4, n) = FirstHalf(v, h, t, e, n % 16)
<1> PICK w : w = FirstHalf(v, h, t, e, f)
  OBVIOUS
<1>1. /\ w = (v * 4096) + (h * 256) + (t * 64) + (e * 16) + f
      /\ (w \div 4096) % 16 = v /\ (w \div 256) % 16 = h /\ (w \div 64) % 64 = 4 * h + t
      /\ (w \div 16) % 4 = e /\ (w \div 1) % 16 = f
  BY HalfFields
<1>2. /\ n % 16 \in 0..15 /\ n % 4 \in 0..3 /\ (n \div 4) % 16 \in 0..15
      /\ n % 64 = (((n \div 4) % 16) * 4) + (n % 4)
  BY Truncated DEF Bits4, Bits2
<1>3. SetBits(w, 0, 4, n) = w + ((n % 16) - f) * 1
  BY <1>1, Powers DEF SetBits, Bits4, Bits2
<1> QED BY <1>1, <1>2, <1>3 DEF FirstHalf, Bits4, Bits2

LEMMA HalfRange ==
  ASSUME NEW v \in Bits4, NEW h \in Bits4, NEW t \in Bits2, NEW e \in Bits2, NEW f \in Bits4
  PROVE  FirstHalf(v, h, t, e, f) \in 0..(WORD - 1)
<1> USE DEF Bits4, Bits2
<1>1. FirstHalf(v, h, t, e, f) \in Nat /\ FirstHalf(v, h, t, e, f) <= 65535
  BY DEF FirstHalf
<1>2. \A a, x \in Nat : x <= a => x \in 0..a
  OBVIOUS
<1>3. WORD - 1 = 65535
  BY DEF WORD
<1> QED BY <1>1, <1>2, <1>3

\* A word of network order, and its two fields.
LEMMA SwapTwice ==
  ASSUME NEW w \in Nat, w < WORD
  PROVE  Swap(Swap(w)) = w /\ Swap(w) \in Nat /\ Swap(w) < WORD
<1>1. PICK a \in Nat, b \in Nat : a <= 255 /\ b <= 255 /\ w = 256 * a + b
  <2> DEFINE a == w \div 256
             b == w % 256
  <2>1. w = 256 * a + b /\ b \in Nat /\ b <= 255 /\ a \in Nat
    OBVIOUS
  <2>2. w < 65536
    BY DEF WORD
  <2> HIDE DEF a, b
  <2>3. a <= 255
    BY <2>1, <2>2
  <2> QED BY <2>1, <2>3
<1>2. w % 256 = b /\ w \div 256 = a
  BY <1>1
<1>3. Swap(w) = 256 * b + a
  BY <1>1, <1>2 DEF Swap, BYTE
<1>4. (256 * b + a) % 256 = a /\ (256 * b + a) \div 256 = b
  BY <1>1
<1>5. Swap(256 * b + a) = 256 * a + b
  BY <1>1, <1>4 DEF Swap, BYTE
<1> QED BY <1>1, <1>3, <1>5 DEF WORD

LEMMA FragFields ==
  ASSUME NEW o \in 0..FragMax, NEW f \in 0..7, NEW n \in Nat
  PROVE  /\ n <= FragMax => SetBits((8 * o) + f, 3, 13, n) = (8 * n) + f
         /\ n <= 7 => SetBits((8 * o) + f, 0, 3, n) = (8 * o) + n
         /\ (8 * o) + f < WORD
<1> DEFINE w == (8 * o) + f
<1>1. o \in Nat /\ o <= 8191 /\ w \in Nat
  BY DEF FragMax
<1>2. (w \div 8) % 8192 = o /\ (w \div 1) % 8 = f
  <2>1. w \div 8 = o /\ o % 8192 = o
    BY <1>1
  <2>2. w \div 1 = w /\ w % 8 = f
    BY <1>1
  <2> QED BY <2>1, <2>2
<1>3. ASSUME n <= FragMax PROVE SetBits(w, 3, 13, n) = (8 * n) + f
  <2>1. n % 8192 = n
    BY <1>3 DEF FragMax
  <2>2. SetBits(w, 3, 13, n) = w + (n - o) * 8
    BY <1>2, <2>1, Powers DEF SetBits
  <2> QED BY <2>2, <1>1
<1>4. ASSUME n <= 7 PROVE SetBits(w, 0, 3, n) = (8 * o) + n
  <2>1. n % 8 = n
    BY <1>4
  <2>2. SetBits(w, 0, 3, n) = w + (n - f) * 1
    BY <1>2, <2>1, Powers DEF SetBits
  <2> QED BY <2>2, <1>1
<1>5. w < WORD
  BY <1>1 DEF WORD
<1> QED BY <1>3, <1>4, <1>5

\* The first four bits of the class by the options that set them.
ClassIn(s) ==
  LET m == LastIn(s, {"p", "t"})
  IN IF m = 0 THEN 0 ELSE IF s[m][1] = "p" THEN s[m][2] % 16 ELSE (s[m][2] \div 4) % 16

Ipv6Pack  == [high : 0..(WORD - 1), low : 0..(WORD - 1), mod : SUBSET {"version"}]
WespPack  == [alloc : {4, 8}, padded : {0, 1}, mod : SUBSET {"padded"}]
RoutePack == [alloc : Nat, hdrlen : 0..(BYTE - 1), addrs : 0..AddrMax]

\* Every field has the last value given, before finalize() and after it.
Ipv6Good ==
  /\ pack \in Ipv6Pack
  /\ "version" \in pack.mod <=> LastIn(opts, {"v"}) # 0
  /\ pack.high = FirstHalf(ValueIn(opts, {"v"}, IF pc = "done" THEN 6 ELSE 0) % 16, ClassIn(opts),
                      ValueIn(opts, {"t"}, 0) % 4, ValueIn(opts, {"e"}, 0) % 4,
                      (ValueIn(opts, {"f"}, 0) \div WORD) % 16)
  /\ pack.low = ValueIn(opts, {"f"}, 0) % WORD

FragGood ==
  /\ pack \in [frag_off : Nat] /\ pack.frag_off < WORD
  /\ ValueIn(opts, {"o"}, 0) % WORD <= FragMax /\ ValueIn(opts, {"f"}, 0) % WORD <= 7
  /\ Swap(pack.frag_off) = (8 * (ValueIn(opts, {"o"}, 0) % WORD)) + (ValueIn(opts, {"f"}, 0) % WORD)

\* The padding is there once it was asked for.
WespGood == pack \in WespPack /\ ("padded" \notin pack.mod => pack.alloc = 4)

\* A list that is refused leaves a wrong size, but the header is not sent then.
RouteGood ==
  /\ pack \in RoutePack
  /\ pc # "failed" => /\ pack.addrs = ValueIn(opts, {"a"}, 0)
                      /\ pack.alloc = RtSize + 16 * pack.addrs

Ip6Inv ==
  /\ module \in {"ipv6", "frag", "wesp", "route"}
  /\ opts \in Seq(Ip6Option)
  /\ module = "ipv6" => Ipv6Good
  /\ module = "frag" => FragGood
  /\ module = "wesp" => WespGood
  /\ module = "route" => RouteGood

\* Values are numbers.
LEMMA ValueType ==
  ASSUME NEW s \in Seq(Ip6Option), NEW names, NEW d \in Nat
  PROVE  ValueIn(s, names, d) \in Nat /\ ClassIn(s) \in Bits4
<1>1. \A i \in DOMAIN s : s[i][2] \in Nat
  BY DEF Ip6Option
<1>2. ValueIn(s, names, d) \in Nat
  <2>1. LastIn(s, names) # 0 => LastIn(s, names) \in DOMAIN s
    BY LastIs
  <2> QED BY <1>1, <2>1 DEF ValueIn
<1>3. ClassIn(s) \in Bits4
  <2> DEFINE m == LastIn(s, {"p", "t"})
  <2>1. m # 0 => m \in DOMAIN s
    BY LastIs
  <2> HIDE DEF m
  <2>2. CASE m = 0
    BY <2>2 DEF ClassIn, m, Bits4
  <2>3. CASE m # 0
    <3>1. PICK n \in Nat : n = s[m][2]
      BY <2>1, <2>3, <1>1
    <3>2. n % 16 \in Bits4 /\ (n \div 4) % 16 \in Bits4
      BY <3>1, Truncated
    <3>3. ClassIn(s) = IF s[m][1] = "p" THEN n % 16 ELSE (n \div 4) % 16
      BY <2>3, <3>1 DEF ClassIn, m
    <3> QED BY <3>2, <3>3
  <2> QED BY <2>2, <2>3
<1> QED BY <1>2, <1>3

\* What one more option does to the values.
LEMMA ValueMore ==
  ASSUME NEW s \in Seq(Ip6Option), NEW o \in Ip6Option
  PROVE  LET new == Append(s, o) IN
         /\ new \in Seq(Ip6Option)
         /\ \A f, d : /\ ValueIn(new, {f}, d) = IF o[1] = f THEN o[2] ELSE ValueIn(s, {f}, d)
                      /\ LastIn(new, {f}) # 0 <=> o[1] = f \/ LastIn(s, {f}) # 0
         /\ ClassIn(new) = IF o[1] = "p" THEN o[2] % 16
                           ELSE IF o[1] = "t" THEN (o[2] \div 4) % 16 ELSE ClassIn(s)
<1> DEFINE new == Append(s, o)
<1>1. /\ new \in Seq(Ip6Option) /\ Len(s) \in Nat /\ new[Len(s) + 1] = o
      /\ \A i \in DOMAIN s : new[i] = s[i]
  OBVIOUS
<1>2. ASSUME NEW f, NEW d
      PROVE  /\ ValueIn(new, {f}, d) = IF o[1] = f THEN o[2] ELSE ValueIn(s, {f}, d)
             /\ LastIn(new, {f}) # 0 <=> o[1] = f \/ LastIn(s, {f}) # 0
  <2>1. /\ LastIn(new, {f}) = IF o[1] \in {f} THEN Len(s) + 1 ELSE LastIn(s, {f})
        /\ ValueIn(new, {f}, d) = IF o[1] \in {f} THEN o[2] ELSE ValueIn(s, {f}, d)
    BY LastMore
  <2> QED BY <1>1, <2>1
<1>3. ClassIn(new) = IF o[1] = "p" THEN o[2] % 16
                     ELSE IF o[1] = "t" THEN (o[2] \div 4) % 16 ELSE ClassIn(s)
  <2>1. LastIn(new, {"p", "t"}) = IF o[1] \in {"p", "t"} THEN Len(s) + 1 ELSE LastIn(s, {"p", "t"})
    BY LastMore
  <2>2. LastIn(s, {"p", "t"}) # 0 => LastIn(s, {"p", "t"}) \in DOMAIN s
    BY LastIs
  <2> HIDE DEF new
  <2>3. CASE o[1] \in {"p", "t"}
    <3>1. LastIn(new, {"p", "t"}) = Len(s) + 1 /\ Len(s) + 1 # 0
      BY <2>1, <2>3, <1>1
    <3>2. ClassIn(new) = IF o[1] = "p" THEN o[2] % 16 ELSE (o[2] \div 4) % 16
      BY <3>1, <1>1 DEF ClassIn
    <3> QED BY <3>2, <2>3
  <2>4. CASE o[1] \notin {"p", "t"}
    BY <2>1, <2>2, <2>4, <1>1 DEF ClassIn
  <2> QED BY <2>3, <2>4
<1> QED BY <1>1, <1>2, <1>3

LEMMA Ip6Start == Ip6Init => Ip6Inv
<1> SUFFICES ASSUME Ip6Init PROVE Ip6Inv
  OBVIOUS
<1>1. opts = <<>> /\ pc = "options" /\ opts \in Seq(Ip6Option)
  BY EmptySeq DEF Ip6Init
<1>2. /\ ValueIn(opts, {"v"}, 0) = 0 /\ ValueIn(opts, {"t"}, 0) = 0 /\ ValueIn(opts, {"e"}, 0) = 0
      /\ ValueIn(opts, {"f"}, 0) = 0 /\ ValueIn(opts, {"o"}, 0) = 0 /\ ValueIn(opts, {"a"}, 0) = 0
      /\ LastIn(opts, {"v"}) = 0 /\ ClassIn(opts) = 0
  BY <1>1, LastNone DEF ClassIn
<1>3. CASE module = "ipv6" /\ pack = [high |-> 0, low |-> 0, mod |-> {}]
  <2>1. FirstHalf(0 % 16, 0, 0 % 4, 0 % 4, (0 \div WORD) % 16) = 0 /\ 0 % WORD = 0
    BY DEF FirstHalf, WORD
  <2>2. pack \in Ipv6Pack
    BY <1>3 DEF Ipv6Pack, WORD
  <2>3. Ipv6Good
    BY <1>1, <1>2, <1>3, <2>1, <2>2 DEF Ipv6Good
  <2> QED BY <1>1, <1>3, <2>3 DEF Ip6Inv
<1>4. CASE module = "frag" /\ pack = [frag_off |-> 0]
  <2>1. Swap(0) = (8 * 0) + 0 /\ 0 <= FragMax /\ 0 < WORD /\ 0 % WORD = 0
    BY DEF Swap, BYTE, FragMax, WORD
  <2>2. ValueIn(opts, {"o"}, 0) % WORD = 0 /\ ValueIn(opts, {"f"}, 0) % WORD = 0
    BY <1>2, <2>1
  <2>3. pack \in [frag_off : Nat] /\ pack.frag_off = 0 /\ 0 <= 7
    BY <1>4
  <2>4. FragGood
    BY <2>1, <2>2, <2>3 DEF FragGood
  <2> QED BY <1>1, <1>4, <2>4 DEF Ip6Inv
<1>5. CASE module = "wesp" /\ pack = [alloc |-> 4, padded |-> 0, mod |-> {}]
  BY <1>1, <1>5 DEF Ip6Inv, WespGood, WespPack
<1>6. CASE module = "route" /\ pack = [alloc |-> RtSize, hdrlen |-> 0, addrs |-> 0]
  <2>1. pack \in RoutePack /\ RtSize = RtSize + 16 * 0
    BY <1>6 DEF RoutePack, RtSize, BYTE, AddrMax
  <2> QED BY <1>1, <1>2, <1>6, <2>1 DEF Ip6Inv, RouteGood
<1> QED BY <1>3, <1>4, <1>5, <1>6 DEF Ip6Init

\* An option of ipv6: it replaces the fields that bear its name.
LEMMA Ipv6Step ==
  ASSUME Ip6Inv, module = "ipv6", NEW name \in {"v", "p", "t", "e", "f", "field"}, NEW n \in Nat,
         NEW new, Apply(<<name, n>>, new),
         new \in [high : {IF name = "v" THEN SetBits(pack.high, 12, 4, n)
                          ELSE IF name = "p" THEN SetBits(pack.high, 8, 4, n)
                          ELSE IF name = "t" THEN SetBits(pack.high, 6, 6, n)
                          ELSE IF name = "e" THEN SetBits(pack.high, 4, 2, n)
                          ELSE IF name = "f" THEN SetBits(pack.high, 0, 4, n \div WORD)
                          ELSE pack.high},
                  low  : {IF name = "f" THEN n % WORD ELSE pack.low},
                  mod  : {IF name = "v" THEN {"version"} ELSE pack.mod}]
  PROVE  Ip6Inv'
<1> DEFINE o == <<name, n>>
<1>1. /\ opts \in Seq(Ip6Option) /\ opts' = Append(opts, o) /\ pack' = new /\ pc' = pc
      /\ pc # "done" /\ module' = module /\ module = "ipv6" /\ Ipv6Good
  BY DEF Ip6Inv, Apply
<1>2. o \in Ip6Option /\ o[1] = name /\ o[2] = n
  BY DEF Ip6Option
<1> HIDE DEF o
<1>3. /\ opts' \in Seq(Ip6Option)
      /\ \A f, d : /\ ValueIn(opts', {f}, d) = IF name = f THEN n ELSE ValueIn(opts, {f}, d)
                   /\ LastIn(opts', {f}) # 0 <=> name = f \/ LastIn(opts, {f}) # 0
      /\ ClassIn(opts') = IF name = "p" THEN n % 16
                          ELSE IF name = "t" THEN (n \div 4) % 16 ELSE ClassIn(opts)
  <2>1. LET next == Append(opts, o) IN
         /\ next \in Seq(Ip6Option)
         /\ \A f, d : /\ ValueIn(next, {f}, d) = IF o[1] = f THEN o[2] ELSE ValueIn(opts, {f}, d)
                      /\ LastIn(next, {f}) # 0 <=> o[1] = f \/ LastIn(opts, {f}) # 0
         /\ ClassIn(next) = IF o[1] = "p" THEN o[2] % 16
                           ELSE IF o[1] = "t" THEN (o[2] \div 4) % 16 ELSE ClassIn(opts)
    BY <1>1, <1>2, ValueMore
  <2> QED BY <2>1, <1>1, <1>2
<1>4. PICK v \in Nat, t \in Nat, e \in Nat, f \in Nat, h \in Bits4 :
        /\ v = ValueIn(opts, {"v"}, 0) /\ t = ValueIn(opts, {"t"}, 0) /\ e = ValueIn(opts, {"e"}, 0)
        /\ f = ValueIn(opts, {"f"}, 0) /\ h = ClassIn(opts)
  BY <1>1, ValueType
<1>5. PICK v2, t2, e2, f2, h2 :
        /\ v2 = ValueIn(opts', {"v"}, 0) /\ t2 = ValueIn(opts', {"t"}, 0) /\ e2 = ValueIn(opts', {"e"}, 0)
        /\ f2 = ValueIn(opts', {"f"}, 0) /\ h2 = ClassIn(opts')
  OBVIOUS
<1>6. /\ v2 = IF name = "v" THEN n ELSE v
      /\ t2 = IF name = "t" THEN n ELSE t
      /\ e2 = IF name = "e" THEN n ELSE e
      /\ f2 = IF name = "f" THEN n ELSE f
      /\ h2 = IF name = "p" THEN n % 16 ELSE IF name = "t" THEN (n \div 4) % 16 ELSE h
  BY <1>3, <1>4, <1>5
<1>7. /\ pack.high = FirstHalf(v % 16, h, t % 4, e % 4, (f \div WORD) % 16)
      /\ pack.low = f % WORD /\ pack \in Ipv6Pack
  BY <1>1, <1>4 DEF Ipv6Good
<1>8. /\ v % 16 \in Bits4 /\ t % 4 \in Bits2 /\ e % 4 \in Bits2 /\ (f \div WORD) % 16 \in Bits4
      /\ n \div WORD \in Nat
  BY Truncated
<1>8a. PICK V \in Bits4, T \in Bits2, E \in Bits2, F \in Bits4, m \in Nat :
         /\ V = v % 16 /\ T = t % 4 /\ E = e % 4 /\ F = (f \div WORD) % 16 /\ m = n \div WORD
  BY <1>8
<1>8b. /\ new.high = IF name = "v" THEN SetBits(pack.high, 12, 4, n)
                    ELSE IF name = "p" THEN SetBits(pack.high, 8, 4, n)
                    ELSE IF name = "t" THEN SetBits(pack.high, 6, 6, n)
                    ELSE IF name = "e" THEN SetBits(pack.high, 4, 2, n)
                    ELSE IF name = "f" THEN SetBits(pack.high, 0, 4, n \div WORD)
                    ELSE pack.high
       /\ new.low = IF name = "f" THEN n % WORD ELSE pack.low
       /\ new.mod = IF name = "v" THEN {"version"} ELSE pack.mod
       /\ new = [high |-> new.high, low |-> new.low, mod |-> new.mod]
  OBVIOUS
<1>9. new.high = FirstHalf(v2 % 16, h2, t2 % 4, e2 % 4, (f2 \div WORD) % 16)
  <2>1. pack.high = FirstHalf(V, h, T, E, F)
    BY <1>7, <1>8a
  <2>2. /\ SetBits(pack.high, 12, 4, n) = FirstHalf(n % 16, h, T, E, F)
        /\ SetBits(pack.high, 8, 4, n) = FirstHalf(V, n % 16, T, E, F)
        /\ SetBits(pack.high, 6, 6, n) = FirstHalf(V, (n \div 4) % 16, n % 4, E, F)
        /\ SetBits(pack.high, 4, 2, n) = FirstHalf(V, h, T, n % 4, F)
        /\ SetBits(pack.high, 0, 4, m) = FirstHalf(V, h, T, E, m % 16)
    <3>1. V \in Bits4 /\ h \in Bits4 /\ T \in Bits2 /\ E \in Bits2 /\ F \in Bits4
      BY <1>4, <1>8a
    <3>2. \A k \in Nat : SetBits(FirstHalf(V, h, T, E, F), 12, 4, k) = FirstHalf(k % 16, h, T, E, F)
      BY <3>1, SetVersion
    <3>3. \A k \in Nat : SetBits(FirstHalf(V, h, T, E, F), 8, 4, k) = FirstHalf(V, k % 16, T, E, F)
      BY <3>1, SetClass
    <3>4. \A k \in Nat : SetBits(FirstHalf(V, h, T, E, F), 6, 6, k) = FirstHalf(V, (k \div 4) % 16, k % 4, E, F)
      BY <3>1, SetTraffic
    <3>5. \A k \in Nat : SetBits(FirstHalf(V, h, T, E, F), 4, 2, k) = FirstHalf(V, h, T, k % 4, F)
      BY <3>1, SetEcn
    <3>6. \A k \in Nat : SetBits(FirstHalf(V, h, T, E, F), 0, 4, k) = FirstHalf(V, h, T, E, k % 16)
      BY <3>1, SetFlow
    <3>7. m \in Nat
      BY <1>8a
    <3> QED BY <2>1, <3>2, <3>3, <3>4, <3>5, <3>6, <3>7
  <2> QED BY <2>1, <2>2, <1>6, <1>8a, <1>8b
<1>10. new.low = f2 % WORD /\ new.mod = IF name = "v" THEN {"version"} ELSE pack.mod
  BY <1>6, <1>7, <1>8b
<1>11. new \in Ipv6Pack
  <2>1. /\ v2 \in Nat /\ t2 \in Nat /\ e2 \in Nat /\ f2 \in Nat /\ h2 \in Bits4
    BY <1>6, Truncated
  <2>2. new.high \in 0..(WORD - 1)
    <3>1. PICK a \in Bits4, b \in Bits2, c \in Bits2, d \in Bits4 :
            a = v2 % 16 /\ b = t2 % 4 /\ c = e2 % 4 /\ d = (f2 \div WORD) % 16
      BY <2>1, Truncated
    <3>2. new.high = FirstHalf(a, h2, b, c, d)
      BY <3>1, <1>9
    <3>3. FirstHalf(a, h2, b, c, d) \in 0..(WORD - 1)
      BY <2>1, <3>1, HalfRange
    <3> QED BY <3>2, <3>3
  <2>3. new.low \in 0..(WORD - 1)
    BY <2>1, <1>10, WordRange
  <2>4. new.mod \in SUBSET {"version"}
    BY <1>10, <1>7 DEF Ipv6Pack
  <2> QED BY <2>2, <2>3, <2>4, <1>8b DEF Ipv6Pack
<1>12. Ipv6Good'
  <2>1. "version" \in pack.mod <=> LastIn(opts, {"v"}) # 0
    BY <1>1 DEF Ipv6Good
  <2>2. "version" \in new.mod <=> LastIn(opts', {"v"}) # 0
    BY <2>1, <1>3, <1>10
  <2> QED BY <2>2, <1>1, <1>5, <1>9, <1>10, <1>11 DEF Ipv6Good
<1> QED BY <1>1, <1>3, <1>12 DEF Ip6Inv

LEMMA Ipv6Finalized == Ip6Inv /\ Ip6Finalize => Ip6Inv'
<1> SUFFICES ASSUME Ip6Inv, Ip6Finalize PROVE Ip6Inv'
  OBVIOUS
<1>1. /\ module = "ipv6" /\ module' = module /\ opts' = opts /\ pc = "options" /\ pc' = "done"
      /\ opts \in Seq(Ip6Option) /\ Ipv6Good
      /\ pack' = IF "version" \in pack.mod THEN pack
                 ELSE [pack EXCEPT !.high = SetBits(@, 12, 4, 6)]
  BY DEF Ip6Inv, Ip6Finalize, FinalizeWith
<1>2. PICK v \in Nat, t \in Nat, e \in Nat, f \in Nat, h \in Bits4 :
        /\ v = ValueIn(opts, {"v"}, 0) /\ t = ValueIn(opts, {"t"}, 0) /\ e = ValueIn(opts, {"e"}, 0)
        /\ f = ValueIn(opts, {"f"}, 0) /\ h = ClassIn(opts)
  BY <1>1, ValueType
<1>3. /\ pack.high = FirstHalf(v % 16, h, t % 4, e % 4, (f \div WORD) % 16)
      /\ pack.low = f % WORD /\ pack \in Ipv6Pack
      /\ "version" \in pack.mod <=> LastIn(opts, {"v"}) # 0
  BY <1>1, <1>2 DEF Ipv6Good
<1>4. /\ v % 16 \in Bits4 /\ t % 4 \in Bits2 /\ e % 4 \in Bits2 /\ (f \div WORD) % 16 \in Bits4
  BY Truncated
<1>4a. PICK V \in Bits4, T \in Bits2, E \in Bits2, F \in Bits4 :
         /\ V = v % 16 /\ T = t % 4 /\ E = e % 4 /\ F = (f \div WORD) % 16
  BY <1>4
<1>5. CASE "version" \in pack.mod
  <2>1. ValueIn(opts, {"v"}, 6) = v
    BY <1>2, <1>3, <1>5 DEF ValueIn
  <2>2. Ipv6Good'
    BY <2>1, <1>1, <1>2, <1>3, <1>5 DEF Ipv6Good
  <2> QED BY <2>2, <1>1 DEF Ip6Inv
<1>6. CASE "version" \notin pack.mod
  <2>1. ValueIn(opts, {"v"}, 6) = 6 /\ 6 % 16 = 6
    BY <1>3, <1>6 DEF ValueIn
  <2>2. SetBits(pack.high, 12, 4, 6) = FirstHalf(6 % 16, h, T, E, F)
    <3>1. pack.high = FirstHalf(V, h, T, E, F)
      BY <1>3, <1>4a
    <3>2. \A k \in Nat : SetBits(FirstHalf(V, h, T, E, F), 12, 4, k) = FirstHalf(k % 16, h, T, E, F)
      <4>1. V \in Bits4 /\ h \in Bits4 /\ T \in Bits2 /\ E \in Bits2 /\ F \in Bits4
        BY <1>2, <1>4a
      <4> QED BY <4>1, SetVersion
    <3> QED BY <3>1, <3>2
  <2>3. SetBits(pack.high, 12, 4, 6) \in 0..(WORD - 1)
    <3>1. 6 \in Bits4
      BY DEF Bits4
    <3>2. FirstHalf(6, h, T, E, F) \in 0..(WORD - 1)
      BY <3>1, <1>2, <1>4a, HalfRange
    <3> QED BY <3>2, <2>1, <2>2
  <2>4. PICK w \in 0..(WORD - 1) : w = SetBits(pack.high, 12, 4, 6)
    BY <2>3
  <2>5. pack' = [pack EXCEPT !.high = w]
    BY <2>4, <1>1, <1>6
  <2>6. pack' \in Ipv6Pack /\ pack'.high = w /\ pack'.low = pack.low /\ pack'.mod = pack.mod
    BY <2>5, <1>3 DEF Ipv6Pack
  <2>7. Ipv6Good'
    BY <2>1, <2>2, <2>4, <2>6, <1>1, <1>2, <1>3, <1>4a, <1>6 DEF Ipv6Good
  <2> QED BY <2>7, <1>1 DEF Ip6Inv
<1> QED BY <1>5, <1>6

LEMMA FragStep ==
  ASSUME Ip6Inv, NEW n \in Nat, FragOffset(n) \/ FragFlags(n)
  PROVE  Ip6Inv'
<1>1. /\ module = "frag" /\ opts \in Seq(Ip6Option) /\ FragGood /\ n % WORD \in Nat
  BY WordRange DEF Ip6Inv, FragOffset, FragFlags, Ip6More
<1>2. CASE Refuse
  BY <1>1, <1>2 DEF Refuse, Ip6Inv, FragGood
<1>3. CASE ~Refuse
  <2>1. PICK m \in Nat, name \in {"o", "f"} :
          /\ m = n % WORD
          /\ Apply(<<name, n>>, [pack EXCEPT !.frag_off = IF name = "o" THEN frag_setoffset(@, m)
                                                          ELSE frag_setflags(@, m)])
          /\ name = "o" => m <= FragMax
          /\ name = "f" => m <= 7
    <3>1. FragMax \in Nat
      BY DEF FragMax
    <3>2. CASE FragOffset(n)
      <4>1. ~(n % WORD > FragMax)
        BY <3>2, <1>3 DEF FragOffset
      <4>2. n % WORD <= FragMax
        BY <4>1, <3>1, <1>1
      <4>3. Apply(<<"o", n>>, [pack EXCEPT !.frag_off = frag_setoffset(@, n % WORD)])
        BY <3>2, <4>1 DEF FragOffset
      <4> QED BY <4>2, <4>3, <1>1
    <3>3. CASE FragFlags(n)
      <4>1. ~(n % WORD > 7)
        BY <3>3, <1>3 DEF FragFlags
      <4>2. n % WORD <= 7
        BY <4>1, <1>1
      <4>3. Apply(<<"f", n>>, [pack EXCEPT !.frag_off = frag_setflags(@, n % WORD)])
        BY <3>3, <4>1 DEF FragFlags
      <4> QED BY <4>2, <4>3, <1>1
    <3> QED BY <3>2, <3>3
  <2> DEFINE o == <<name, n>>
  <2>2. o \in Ip6Option /\ o[1] = name /\ o[2] = n
    BY <2>1 DEF Ip6Option
  <2>3. /\ opts' = Append(opts, o) /\ pc' = pc /\ module' = module
        /\ pack' = [pack EXCEPT !.frag_off = IF name = "o" THEN frag_setoffset(@, m)
                                             ELSE frag_setflags(@, m)]
    BY <2>1 DEF Apply
  <2> HIDE DEF o
  <2>4. PICK a \in Nat, b \in Nat : /\ a = ValueIn(opts, {"o"}, 0) % WORD
                                  /\ b = ValueIn(opts, {"f"}, 0) % WORD
    <3>1. ValueIn(opts, {"o"}, 0) \in Nat /\ ValueIn(opts, {"f"}, 0) \in Nat
      BY <1>1, ValueType
    <3>2. \A x \in Nat : x % WORD \in Nat
      BY WordRange
    <3> QED BY <3>1, <3>2
  <2>5. /\ opts' \in Seq(Ip6Option)
        /\ ValueIn(opts', {"o"}, 0) % WORD = IF name = "o" THEN m ELSE a
        /\ ValueIn(opts', {"f"}, 0) % WORD = IF name = "f" THEN m ELSE b
    <3>1. LET new == Append(opts, o) IN
            /\ new \in Seq(Ip6Option)
            /\ \A f, d : /\ ValueIn(new, {f}, d) = IF o[1] = f THEN o[2] ELSE ValueIn(opts, {f}, d)
                         /\ LastIn(new, {f}) # 0 <=> o[1] = f \/ LastIn(opts, {f}) # 0
            /\ ClassIn(new) = IF o[1] = "p" THEN o[2] % 16
                              ELSE IF o[1] = "t" THEN (o[2] \div 4) % 16 ELSE ClassIn(opts)
      BY <1>1, <2>2, ValueMore
    <3>2. /\ opts' \in Seq(Ip6Option)
          /\ ValueIn(opts', {"o"}, 0) = IF name = "o" THEN n ELSE ValueIn(opts, {"o"}, 0)
          /\ ValueIn(opts', {"f"}, 0) = IF name = "f" THEN n ELSE ValueIn(opts, {"f"}, 0)
      BY <3>1, <2>2, <2>3
    <3> QED BY <3>2, <2>1, <2>4
  <2>6. /\ pack \in [frag_off : Nat] /\ pack.frag_off < WORD
        /\ a <= FragMax /\ b <= 7 /\ Swap(pack.frag_off) = (8 * a) + b
    BY <1>1, <2>4 DEF FragGood
  <2>7. PICK a2 \in Nat, b2 \in Nat :
          a2 = (IF name = "o" THEN m ELSE a) /\ b2 = (IF name = "f" THEN m ELSE b)
    BY <2>1, <2>4
  <2>8. a2 <= FragMax /\ b2 <= 7
    BY <2>1, <2>6, <2>7
  <2>9. /\ a \in 0..FragMax /\ b \in 0..7 /\ a2 \in 0..FragMax /\ b2 \in 0..7
    <3>1. \A x, y \in Nat : x <= y => x \in 0..y
      OBVIOUS
    <3>2. FragMax \in Nat
      BY DEF FragMax
    <3> QED BY <3>1, <3>2, <2>4, <2>6, <2>7, <2>8
  <2>10. pack'.frag_off = Swap((8 * a2) + b2) /\ pack' = [frag_off |-> Swap((8 * a2) + b2)]
    <3>1. /\ name = "o" => SetBits((8 * a) + b, 3, 13, m) = (8 * a2) + b2
          /\ name = "f" => SetBits((8 * a) + b, 0, 3, m) = (8 * a2) + b2
      BY <2>1, <2>7, <2>9, FragFields
    <3>2. /\ name = "o" => pack' = [pack EXCEPT !.frag_off = Swap(SetBits(Swap(@), 3, 13, m))]
          /\ name = "f" => pack' = [pack EXCEPT !.frag_off = Swap(SetBits(Swap(@), 0, 3, m))]
      BY <2>3 DEF frag_setoffset, frag_setflags
    <3>3. pack' = [pack EXCEPT !.frag_off = Swap((8 * a2) + b2)]
      BY <2>1, <2>6, <3>1, <3>2
    <3> QED BY <3>3, <2>6
  <2>11. (8 * a2) + b2 < WORD /\ (8 * a2) + b2 \in Nat
    BY <2>7, <2>9, FragFields
  <2>12. Swap(Swap((8 * a2) + b2)) = (8 * a2) + b2 /\ Swap((8 * a2) + b2) \in Nat /\ Swap((8 * a2) + b2) < WORD
    BY <2>11, SwapTwice
  <2>13. ValueIn(opts', {"o"}, 0) % WORD = a2 /\ ValueIn(opts', {"f"}, 0) % WORD = b2
    BY <2>5, <2>7
  <2>14. PICK y \in Nat : y = Swap((8 * a2) + b2)
    BY <2>12
  <2>15. pack' = [frag_off |-> y] /\ y < WORD /\ Swap(y) = (8 * a2) + b2
    BY <2>10, <2>12, <2>14
  <2>16. pack' \in [frag_off : Nat] /\ pack'.frag_off = y
    BY <2>14, <2>15
  <2>17. FragGood'
    BY <2>8, <2>13, <2>15, <2>16 DEF FragGood
  <2> QED BY <1>1, <2>3, <2>5, <2>17 DEF Ip6Inv
<1> QED BY <1>2, <1>3

LEMMA WespStep ==
  ASSUME Ip6Inv, NEW n \in Nat, WespPad(n)
  PROVE  Ip6Inv'
<1>1. /\ module = "wesp" /\ opts \in Seq(Ip6Option) /\ WespGood /\ n % WORD \in Nat
  BY WordRange DEF Ip6Inv, WespPad, Ip6More
<1>2. CASE n % WORD > 1
  BY <1>1, <1>2 DEF WespPad, Refuse, Ip6Inv, WespGood
<1>3. CASE ~(n % WORD > 1)
  <2>1. PICK m \in {0, 1} : m = n % WORD
    BY <1>1, <1>3
  <2>2. /\ opts' = Append(opts, <<"p", n>>) /\ module' = module
        /\ pack' = [pack EXCEPT !.alloc = IF m = 1 /\ "padded" \notin pack.mod THEN @ + 4 ELSE @,
                                !.padded = m, !.mod = @ \union {"padded"}]
    BY <1>3, <2>1 DEF WespPad, Apply
  <2>3. pack' \in WespPack /\ "padded" \in pack'.mod
    <3>1. pack \in WespPack /\ ("padded" \notin pack.mod => pack.alloc = 4)
      BY <1>1 DEF WespGood
    <3>2. (IF m = 1 /\ "padded" \notin pack.mod THEN pack.alloc + 4 ELSE pack.alloc) \in {4, 8}
      BY <3>1 DEF WespPack
    <3>3. PICK a \in {4, 8} : pack' = [pack EXCEPT !.alloc = a, !.padded = m, !.mod = @ \union {"padded"}]
      BY <3>2, <2>2
    <3> QED BY <3>1, <3>3, <2>1 DEF WespPack
  <2>4. opts' \in Seq(Ip6Option)
    <3>1. <<"p", n>> \in Ip6Option
      BY DEF Ip6Option
    <3> QED BY <3>1, <2>2, <1>1
  <2> QED BY <1>1, <2>2, <2>3, <2>4 DEF Ip6Inv, WespGood
<1> QED BY <1>2, <1>3

LEMMA RouteStep ==
  ASSUME Ip6Inv, NEW n \in Nat, NEW valid \in BOOLEAN, RouteAddrs(n, valid)
  PROVE  Ip6Inv'
<1> DEFINE count == IF n <= AddrMax THEN n ELSE AddrMax
<1>1. /\ module = "route" /\ opts \in Seq(Ip6Option) /\ RouteGood /\ module' = module
  BY DEF Ip6Inv, RouteAddrs, Ip6More, Apply
<1>2. pack \in RoutePack /\ count \in Nat /\ count <= AddrMax /\ RtSize + 16 * count \in Nat
  BY <1>1 DEF RouteGood, AddrMax, RtSize
<1>3. CASE valid /\ n <= AddrMax
  <2>1. count = n
    BY <1>3
  <2>2. /\ Apply(<<"a", n>>, [[pack EXCEPT !.alloc = RtSize + 16 * count]
                                 EXCEPT !.hdrlen = (4 * count) % BYTE, !.addrs = count])
    BY <1>3 DEF RouteAddrs, Parsed
  <2>3. (4 * count) % BYTE \in 0..(BYTE - 1)
    BY <1>2 DEF BYTE
  <2>4. /\ pack' = [alloc |-> RtSize + 16 * n, hdrlen |-> (4 * n) % BYTE, addrs |-> n]
        /\ opts' = Append(opts, <<"a", n>>)
    BY <2>1, <2>2, <1>2 DEF Apply, RoutePack
  <2>5. pack' \in RoutePack
    <3>1. n \in 0..AddrMax
      BY <2>1, <1>2 DEF AddrMax
    <3> QED BY <2>1, <2>3, <2>4, <3>1, <1>2 DEF RoutePack
  <2>6. opts' \in Seq(Ip6Option) /\ ValueIn(opts', {"a"}, 0) = n
    <3>1. <<"a", n>> \in Ip6Option /\ <<"a", n>>[1] = "a" /\ <<"a", n>>[2] = n
      BY DEF Ip6Option
    <3>2. LET new == Append(opts, <<"a", n>>) IN
            new \in Seq(Ip6Option) /\ ValueIn(new, {"a"}, 0) = n
      BY <3>1, <1>1, ValueMore
    <3> QED BY <3>2, <2>4
  <2> QED BY <1>1, <2>4, <2>5, <2>6 DEF Ip6Inv, RouteGood
<1>4. CASE ~(valid /\ n <= AddrMax)
  <2>1. pc' = "failed" /\ opts' = opts /\ pack' = [pack EXCEPT !.alloc = RtSize + 16 * count]
    BY <1>4 DEF RouteAddrs, Parsed
  <2>2. pack' \in RoutePack
    <3>1. PICK a \in Nat : a = RtSize + 16 * count
      BY <1>2
    <3>2. pack' = [pack EXCEPT !.alloc = a]
      BY <3>1, <2>1
    <3> QED BY <3>2, <3>1, <1>2 DEF RoutePack
  <2> QED BY <1>1, <2>1, <2>2 DEF Ip6Inv, RouteGood
<1> QED BY <1>3, <1>4

\* An option for a field of its own.
LEMMA FieldStep ==
  ASSUME Ip6Inv, Apply(<<"field", 0>>, pack)
  PROVE  Ip6Inv'
<1>1. /\ opts \in Seq(Ip6Option) /\ opts' = Append(opts, <<"field", 0>>) /\ pack' = pack /\ pc' = pc
      /\ module' = module
  BY DEF Ip6Inv, Apply
<1>2. <<"field", 0>> \in Ip6Option /\ <<"field", 0>>[1] = "field"
  BY DEF Ip6Option
<1>3. LET new == Append(opts, <<"field", 0>>) IN
        /\ new \in Seq(Ip6Option)
        /\ \A f, d : /\ ValueIn(new, {f}, d) = IF <<"field", 0>>[1] = f THEN <<"field", 0>>[2] ELSE ValueIn(opts, {f}, d)
                     /\ LastIn(new, {f}) # 0 <=> <<"field", 0>>[1] = f \/ LastIn(opts, {f}) # 0
        /\ ClassIn(new) = IF <<"field", 0>>[1] = "p" THEN <<"field", 0>>[2] % 16
                          ELSE IF <<"field", 0>>[1] = "t" THEN (<<"field", 0>>[2] \div 4) % 16 ELSE ClassIn(opts)
  BY <1>1, <1>2, ValueMore
<1>4. /\ opts' \in Seq(Ip6Option) /\ ClassIn(opts') = ClassIn(opts)
      /\ \A f \in {"v", "t", "e", "f", "o", "a"} :
           /\ \A d : ValueIn(opts', {f}, d) = ValueIn(opts, {f}, d)
           /\ LastIn(opts', {f}) # 0 <=> LastIn(opts, {f}) # 0
  BY <1>1, <1>2, <1>3
<1>5. module = "ipv6" => Ipv6Good'
  BY <1>1, <1>4 DEF Ip6Inv, Ipv6Good
<1>6. module = "frag" => FragGood'
  BY <1>1, <1>4 DEF Ip6Inv, FragGood
<1>7. module = "wesp" => WespGood'
  BY <1>1 DEF Ip6Inv, WespGood
<1>8. module = "route" => RouteGood'
  BY <1>1, <1>4 DEF Ip6Inv, RouteGood
<1> QED BY <1>1, <1>4, <1>5, <1>6, <1>7, <1>8 DEF Ip6Inv

LEMMA Ip6Step == Ip6Inv /\ [Ip6Next]_vars => Ip6Inv'
<1> SUFFICES ASSUME Ip6Inv, [Ip6Next]_vars PROVE Ip6Inv'
  OBVIOUS
<1>1. Numbers \subseteq Nat /\ RouteSizes \subseteq Nat
  BY Ip6Assumption
\* Neither refusing nor finalizing an extension changes what the invariant reads.
<1>2. CASE Refuse
  BY <1>2 DEF Refuse, Ip6Inv, Ipv6Good, FragGood, WespGood, RouteGood
<1>3. CASE ExtFinalize
  BY <1>3 DEF ExtFinalize, FinalizeWith, Ip6Inv, FragGood, WespGood, RouteGood
<1>4. CASE Ip6Field \/ FragField \/ WespField \/ RouteField
  <2>1. CASE Apply(<<"field", 0>>, pack)
    BY <2>1, FieldStep
  <2>2. CASE ~Apply(<<"field", 0>>, pack)
    BY <2>2, <1>2, <1>4 DEF Ip6Field, FragField, WespField, RouteField
  <2> QED BY <2>1, <2>2
<1>5. CASE Ip6Finalize
  BY <1>5, Ipv6Finalized
<1>6. ASSUME NEW n \in Numbers, FragOffset(n) \/ FragFlags(n) PROVE Ip6Inv'
  BY <1>1, <1>6, FragStep
<1>7. ASSUME NEW n \in Numbers, WespPad(n) PROVE Ip6Inv'
  BY <1>1, <1>7, WespStep
<1>8. ASSUME NEW n \in RouteSizes, NEW valid \in BOOLEAN, RouteAddrs(n, valid) PROVE Ip6Inv'
  BY <1>1, <1>8, RouteStep
<1>9. ASSUME NEW n \in Numbers, Ip6Version(n) PROVE Ip6Inv'
  <2>1. /\ module = "ipv6" /\ pack \in Ipv6Pack
        /\ Apply(<<"v", n>>, [pack EXCEPT !.high = SetBits(@, 12, 4, n), !.mod = @ \union {"version"}])
    BY <1>9 DEF Ip6Version, Ip6More, Ip6Inv, Ipv6Good
  <2>2. [pack EXCEPT !.high = SetBits(@, 12, 4, n), !.mod = @ \union {"version"}]
          \in [high : {SetBits(pack.high, 12, 4, n)}, low : {pack.low}, mod : {{"version"}}]
    BY <2>1 DEF Ipv6Pack
  <2> QED BY <2>1, <2>2, <1>1, Ipv6Step
<1>10. ASSUME NEW n \in Numbers, NEW name \in {"p", "t", "e"}, NEW low, NEW width,
              Ip6Set(name, n, low, width),
              name = "p" => low = 8 /\ width = 4, name = "t" => low = 6 /\ width = 6,
              name = "e" => low = 4 /\ width = 2
       PROVE  Ip6Inv'
  <2>1. /\ module = "ipv6" /\ pack \in Ipv6Pack
        /\ Apply(<<name, n>>, [pack EXCEPT !.high = SetBits(@, low, width, n)])
    BY <1>10 DEF Ip6Set, Ip6More, Ip6Inv, Ipv6Good
  <2>2. [pack EXCEPT !.high = SetBits(@, low, width, n)]
          \in [high : {SetBits(pack.high, low, width, n)}, low : {pack.low}, mod : {pack.mod}]
    BY <2>1 DEF Ipv6Pack
  <2>3. SetBits(pack.high, low, width, n) =
          IF name = "p" THEN SetBits(pack.high, 8, 4, n)
          ELSE IF name = "t" THEN SetBits(pack.high, 6, 6, n) ELSE SetBits(pack.high, 4, 2, n)
    BY <1>10
  <2> QED BY <2>1, <2>2, <2>3, <1>1, Ipv6Step
<1>11. ASSUME NEW n \in Numbers, Ip6Flow(n) PROVE Ip6Inv'
  <2>1. /\ module = "ipv6" /\ pack \in Ipv6Pack
        /\ Apply(<<"f", n>>, [pack EXCEPT !.high = SetBits(@, 0, 4, n \div WORD), !.low = n % WORD])
    BY <1>11 DEF Ip6Flow, Ip6More, Ip6Inv, Ipv6Good
  <2>2. [pack EXCEPT !.high = SetBits(@, 0, 4, n \div WORD), !.low = n % WORD]
          \in [high : {SetBits(pack.high, 0, 4, n \div WORD)}, low : {n % WORD}, mod : {pack.mod}]
    BY <2>1 DEF Ipv6Pack
  <2> QED BY <2>1, <2>2, <1>1, Ipv6Step
<1>12. ASSUME NEW n \in Numbers, Ip6Priority(n) \/ Ip6Class(n) \/ Ip6Ecn(n) PROVE Ip6Inv'
  BY <1>10, <1>12 DEF Ip6Priority, Ip6Class, Ip6Ecn
<1>13. CASE UNCHANGED vars
  BY <1>13 DEF vars, Ip6Inv, Ipv6Good, FragGood, WespGood, RouteGood
<1> QED
  BY <1>3, <1>4, <1>5, <1>6, <1>7, <1>8, <1>9, <1>11, <1>12, <1>13 DEF Ip6Next

\* The model's forms of the values.
LEMMA GivenIs ==
  ASSUME opts \in Seq(Ip6Option), NEW names, NEW d
  PROVE  Given(names, d) = ValueIn(opts, names, d) /\ ClassHigh = ClassIn(opts)
<1> DEFINE At(which) == {i \in DOMAIN opts : opts[i][1] \in which}
           LastOf(which) == CHOOSE i \in At(which) : \A j \in At(which) : j <= i
<1>1. ASSUME NEW which
      PROVE  /\ LastIn(opts, which) = IF At(which) = {} THEN 0 ELSE LastOf(which)
             /\ LastIn(opts, which) = 0 => At(which) = {}
  <2>1. LastIn(opts, which) = 0 => \A i \in DOMAIN opts : opts[i][1] \notin which
    BY <1>1, LastIs
  <2> QED BY <2>1 DEF LastIn
<1>2. Given(names, d) = IF At(names) = {} THEN d ELSE opts[LastOf(names)][2]
  BY DEF Given
<1>3. ClassHigh = IF At({"p", "t"}) = {} THEN 0
                  ELSE IF opts[LastOf({"p", "t"})][1] = "p" THEN opts[LastOf({"p", "t"})][2] % 16
                  ELSE (opts[LastOf({"p", "t"})][2] \div 4) % 16
  BY DEF ClassHigh
<1> HIDE DEF At, LastOf
<1>4. Given(names, d) = ValueIn(opts, names, d)
  <2>1. CASE At(names) = {}
    BY <2>1, <1>1, <1>2 DEF ValueIn
  <2>2. CASE At(names) # {}
    BY <2>2, <1>1, <1>2 DEF ValueIn
  <2> QED BY <2>1, <2>2
<1>5. ClassHigh = ClassIn(opts)
  <2>1. CASE At({"p", "t"}) = {}
    BY <2>1, <1>1, <1>3 DEF ClassIn
  <2>2. CASE At({"p", "t"}) # {}
    BY <2>2, <1>1, <1>3 DEF ClassIn
  <2> QED BY <2>1, <2>2
<1> QED BY <1>4, <1>5

LEMMA Ip6Properties == Ip6Inv => FieldsKept /\ Ip6TypeOK
<1> SUFFICES ASSUME Ip6Inv PROVE FieldsKept /\ Ip6TypeOK
  OBVIOUS
<1>1. opts \in Seq(Ip6Option)
  BY DEF Ip6Inv
<1>2. \A names, d : Given(names, d) = ValueIn(opts, names, d) /\ ClassHigh = ClassIn(opts)
  BY <1>1, GivenIs
<1>3. ASSUME pc = "done", module = "ipv6"
      PROVE  /\ pack.high = ((Given({"v"}, 6) % 16) * 2^12) + (ClassHigh * 2^8)
                        + ((Given({"t"}, 0) % 4) * 2^6) + ((Given({"e"}, 0) % 4) * 2^4)
                        + ((Given({"f"}, 0) \div WORD) % 16)
             /\ pack.low = Given({"f"}, 0) % WORD
  <2>1. Ipv6Good
    BY <1>3 DEF Ip6Inv
  <2>2. PICK v, t, e, f, h :
          /\ v = ValueIn(opts, {"v"}, 6) % 16 /\ t = ValueIn(opts, {"t"}, 0) % 4
          /\ e = ValueIn(opts, {"e"}, 0) % 4 /\ f = (ValueIn(opts, {"f"}, 0) \div WORD) % 16
          /\ h = ClassIn(opts)
    OBVIOUS
  <2>3. pack.high = FirstHalf(v, h, t, e, f)
    BY <1>3, <2>1, <2>2 DEF Ipv6Good
  <2>4. pack.high = (v * 4096) + (h * 256) + (t * 64) + (e * 16) + f
    BY <2>3 DEF FirstHalf
  <2>5. pack.high = (v * 2^12) + (h * 2^8) + (t * 2^6) + (e * 2^4) + f
    BY <2>4, Powers
  <2> QED BY <2>1, <2>2, <2>5, <1>2 DEF Ipv6Good
<1>6. ASSUME module = "frag"
      PROVE  /\ Given({"o"}, 0) < WORD => Swap(pack.frag_off) \div 8 = Given({"o"}, 0)
             /\ Given({"f"}, 0) < WORD => Swap(pack.frag_off) % 8 = Given({"f"}, 0)
  <2>1. PICK x \in Nat, y \in Nat : x = Given({"o"}, 0) /\ y = Given({"f"}, 0)
    <3>1. ValueIn(opts, {"o"}, 0) \in Nat /\ ValueIn(opts, {"f"}, 0) \in Nat
      BY <1>1, ValueType
    <3> QED BY <3>1, <1>2
  <2>2. PICK a \in Nat, b \in Nat : a = x % WORD /\ b = y % WORD
    BY WordRange
  <2>3. Swap(pack.frag_off) = (8 * a) + b /\ b <= 7
    <3>1. FragGood
      BY <1>6 DEF Ip6Inv
    <3> QED BY <3>1, <2>1, <2>2, <1>2 DEF FragGood
  <2>4. ((8 * a) + b) \div 8 = a /\ ((8 * a) + b) % 8 = b
    BY <2>3
  <2>5. (x < WORD => a = x) /\ (y < WORD => b = y)
    BY <2>2, WordRange
  <2> QED BY <2>1, <2>3, <2>4, <2>5
<1>4. FieldsKept
  BY <1>2, <1>3, <1>6 DEF FieldsKept, Ip6Inv, RouteGood
<1>5. Ip6TypeOK
  <2>1. module = "ipv6" => {pack.high, pack.low} \subseteq 0..(WORD - 1) /\ pack.mod \subseteq {"version"}
    BY DEF Ip6Inv, Ipv6Good, Ipv6Pack
  <2>2. module = "frag" => pack.frag_off \in 0..(WORD - 1)
    <3>1. \A x, y \in Nat : x < y => x \in 0..(y - 1)
      OBVIOUS
    <3>2. WORD \in Nat
      BY DEF WORD
    <3> QED BY <3>1, <3>2 DEF Ip6Inv, FragGood
  <2>3. module = "wesp" => pack.alloc \in {4, 8} /\ pack.padded \in {0, 1} /\ pack.mod \subseteq {"padded"}
    BY DEF Ip6Inv, WespGood, WespPack
  <2>4. module = "route" => pack.alloc \in Nat /\ pack.hdrlen \in 0..(BYTE - 1) /\ pack.addrs \in 0..AddrMax
    BY DEF Ip6Inv, RouteGood, RoutePack
  <2> QED BY <2>1, <2>2, <2>3, <2>4 DEF Ip6TypeOK
<1> QED BY <1>4, <1>5

-----------------------------------------------------------------------------
\* rip and ripng: every option that makes an entry makes one of its own.

EntryNames == {"entry", "auth", "request"}

\* The values of a byte, by name: the provers take a range of numbers apart.
Octet == 0..255

RipOption ==
  ({"version", "command", "res"} \X Octet) \union ({"entry", "auth"} \X RipArgs)
    \union ({"request"} \X BOOLEAN)

\* Entries and Number of any list of options.
Makes(s) == {i \in DOMAIN s : s[i][1] \in EntryNames}
Nth(s, i) == Cardinality({j \in Makes(s) : j <= i})

\* The entry that an argument asks for, and what entries there are.
Asked(m, arg) == IF m = "rip" THEN RipRoute(arg) ELSE RipngRoute(arg)
EntryRecord ==
  [family : Nat, tag : Nat, address : Nat, mask : Nat, hop : Nat, metric : Nat]
    \union [family : Nat, type : Nat, password : Nat]
    \union [prefix : Nat, tag : Nat, len : Nat, metric : Nat]

RipPack == [command : Octet, version : Octet, res : Octet, entries : Seq(EntryRecord)]

\* Finite, and numbered from 1 to their number.
LEMMA MakesFinite ==
  ASSUME NEW S, NEW s \in Seq(S)
  PROVE  /\ IsFiniteSet(Makes(s)) /\ Cardinality(Makes(s)) \in Nat /\ Cardinality(Makes(s)) <= Len(s)
         /\ \A i \in Makes(s) : Nth(s, i) \in 1..Cardinality(Makes(s))
<1>1. Makes(s) \in SUBSET (1..Len(s)) /\ Len(s) \in Nat
  BY DEF Makes
<1>2. IsFiniteSet(1..Len(s)) /\ Cardinality(1..Len(s)) = Len(s)
  <2>1. 1 \in Int /\ Len(s) \in Int
    BY <1>1
  <2>2. IsFiniteSet(1..Len(s)) /\ Cardinality(1..Len(s)) = IF 1 > Len(s) THEN 0 ELSE Len(s) - 1 + 1
    BY <2>1, FS_Interval
  <2> QED BY <2>2, <1>1
<1>3. IsFiniteSet(Makes(s)) /\ Cardinality(Makes(s)) <= Len(s)
  BY <1>1, <1>2, FS_Subset
<1>4. Cardinality(Makes(s)) \in Nat
  BY <1>3, FS_CardinalityType
<1>5. ASSUME NEW i \in Makes(s) PROVE Nth(s, i) \in 1..Cardinality(Makes(s))
  <2> DEFINE B == {j \in Makes(s) : j <= i}
  <2>1. B \in SUBSET Makes(s) /\ i \in B
    BY <1>1
  <2> HIDE DEF B
  <2>2. IsFiniteSet(B) /\ Cardinality(B) <= Cardinality(Makes(s))
    BY <2>1, <1>3, FS_Subset
  <2>3. Cardinality(B) \in Nat /\ Cardinality(B) # 0
    BY <2>1, <2>2, FS_CardinalityType, FS_EmptySet
  <2>4. Cardinality(B) \in 1..Cardinality(Makes(s))
    BY <2>2, <2>3, <1>4
  <2> QED BY <2>4 DEF B, Nth
<1> QED BY <1>3, <1>4, <1>5

\* One more option makes the next entry, or none, and renumbers no other.
LEMMA MakesMore ==
  ASSUME NEW S, NEW s \in Seq(S), NEW o \in S
  PROVE  LET new == Append(s, o)  last == Len(s) + 1 IN
         /\ Makes(new) = IF o[1] \in EntryNames THEN Makes(s) \union {last} ELSE Makes(s)
         /\ Cardinality(Makes(new)) = Cardinality(Makes(s)) + (IF o[1] \in EntryNames THEN 1 ELSE 0)
         /\ o[1] \in EntryNames => Nth(new, last) = Cardinality(Makes(s)) + 1
         /\ \A i \in Makes(s) : Nth(new, i) = Nth(s, i) /\ new[i] = s[i]
         /\ new[last] = o /\ last \notin Makes(s)
<1> DEFINE new == Append(s, o)  last == Len(s) + 1
<1>1. /\ Len(s) \in Nat /\ DOMAIN s = 1..Len(s) /\ DOMAIN new = 1..last
      /\ \A i \in DOMAIN s : new[i] = s[i] /\ i \in DOMAIN new
      /\ new[last] = o
      /\ \A i \in DOMAIN new : i \in DOMAIN s \/ i = last
      /\ last \in DOMAIN new
  OBVIOUS
<1> HIDE DEF new
<1>2. Makes(new) = IF o[1] \in EntryNames THEN Makes(s) \union {last} ELSE Makes(s)
  BY <1>1 DEF Makes
<1>3. \A i \in Makes(s) : i \in Nat /\ i < last /\ new[i] = s[i]
  BY <1>1 DEF Makes
<1>4. /\ last \in Nat /\ last \notin Makes(s) /\ IsFiniteSet(Makes(s)) /\ Cardinality(Makes(s)) \in Nat
  BY <1>1, <1>3, MakesFinite
<1>5. Cardinality(Makes(s) \union {last}) = Cardinality(Makes(s)) + 1
  BY <1>4, FS_AddElement
<1>6. ASSUME NEW i \in Makes(s) PROVE Nth(new, i) = Nth(s, i)
  <2>1. {j \in Makes(new) : j <= i} = {j \in Makes(s) : j <= i}
    <3>1. i \in Nat /\ i < last /\ ~(last <= i)
      BY <1>3, <1>4
    <3> QED BY <3>1, <1>2
  <2> QED BY <2>1 DEF Nth
<1>7. ASSUME o[1] \in EntryNames PROVE Nth(new, last) = Cardinality(Makes(s)) + 1
  <2>1. \A j \in Makes(new) : j <= last
    BY <1>2, <1>3, <1>4, <1>7
  <2>2. {j \in Makes(new) : j <= last} = Makes(s) \union {last}
    BY <2>1, <1>2, <1>7
  <2> QED BY <2>2, <1>5 DEF Nth
<1>8. Cardinality(Makes(new)) = Cardinality(Makes(s)) + (IF o[1] \in EntryNames THEN 1 ELSE 0)
  BY <1>2, <1>4, <1>5
<1> QED BY <1>1, <1>2, <1>3, <1>4, <1>6, <1>7, <1>8 DEF new

-----------------------------------------------------------------------------
\* What holds of a header of rip and ripng at any time.
RipInv ==
  /\ module \in {"rip", "ripng"}
  /\ opts \in Seq(RipOption)
  /\ pack \in RipPack
  /\ Len(pack.entries) = Cardinality(Makes(opts))
  /\ \A i \in Makes(opts) : opts[i][1] = "entry" => pack.entries[Nth(opts, i)] = Asked(module, opts[i][2])
  /\ LET i == LastIn(opts, {"command", "request"}) IN
     i # 0 => \/ opts[i][1] = "request" /\ (opts[i][2] = TRUE \/ pack.command = 1)
              \/ opts[i][1] = "command" /\ pack.command = opts[i][2]

LEMMA RipStart == RipInit => RipInv
<1> SUFFICES ASSUME RipInit PROVE RipInv
  OBVIOUS
<1>1. /\ module \in {"rip", "ripng"} /\ opts = <<>>
      /\ pack = [command |-> 0, version |-> 0, res |-> 0, entries |-> <<>>]
  BY DEF RipInit
<1>2. opts \in Seq(RipOption) /\ pack \in RipPack /\ Len(pack.entries) = 0
  <2>1. 0 \in Octet
    BY DEF Octet
  <2> QED BY <2>1, <1>1 DEF RipPack
<1>3. Makes(opts) = {} /\ Cardinality(Makes(opts)) = 0
  <2>1. Makes(opts) = {}
    BY <1>1 DEF Makes
  <2> QED BY <2>1, FS_EmptySet
<1>4. LastIn(opts, {"command", "request"}) = 0
  BY <1>1, LastNone
<1> QED BY <1>1, <1>2, <1>3, <1>4 DEF RipInv

\* The fields of an entry are numbers.
LEMMA FieldType == ASSUME NEW arg \in RipArgs, NEW i PROVE Field(arg, i) \in Nat
<1>1. arg \in Seq({Empty} \union Text)
  BY RipAssumption
<1>2. {Empty} \union Text \subseteq Nat
  BY DEF Empty, Text
<1>3. arg \in Seq(Nat)
  BY <1>1, <1>2
<1> QED BY <1>3 DEF Field, Empty

LEMMA AskedType == \A m : \A arg \in RipArgs : Asked(m, arg) \in EntryRecord
<1> SUFFICES ASSUME NEW m, NEW arg \in RipArgs PROVE Asked(m, arg) \in EntryRecord
  OBVIOUS
<1>1. \A i : Field(arg, i) \in Nat /\ \A d \in Nat : Or(Field(arg, i), d) \in Nat
  BY FieldType DEF Or
<1>2. /\ RipFamily \in Nat /\ RipTag \in Nat /\ RipMask \in Nat /\ RipLen \in Nat /\ RipMetric \in Nat
  BY DEF RipFamily, RipTag, RipMask, RipLen, RipMetric
<1>3. RipRoute(arg) \in EntryRecord
  BY <1>1, <1>2 DEF RipRoute, EntryRecord
<1>4. RipngRoute(arg) \in EntryRecord
  BY <1>1, <1>2 DEF RipngRoute, EntryRecord
<1> QED BY <1>3, <1>4 DEF Asked

\* An option that makes entry e.
LEMMA EntryStep ==
  ASSUME RipInv, NEW o \in RipOption, o[1] \in EntryNames, NEW e \in EntryRecord,
         NEW c \in Octet, NEW v \in Octet, NEW r \in Octet,
         o[1] = "entry" => e = Asked(module, o[2]),
         o[1] # "request" => c = pack.command,
         o[1] = "request" => o[2] = TRUE \/ c = 1,
         opts' = Append(opts, o), module' = module,
         pack' = [command |-> c, version |-> v, res |-> r, entries |-> Append(pack.entries, e)]
  PROVE  RipInv'
<1> DEFINE last == Len(opts) + 1  entries == pack.entries
<1>1. /\ module \in {"rip", "ripng"} /\ opts \in Seq(RipOption) /\ pack \in RipPack
      /\ Len(entries) = Cardinality(Makes(opts)) /\ entries \in Seq(EntryRecord)
      /\ \A i \in Makes(opts) : opts[i][1] = "entry" => entries[Nth(opts, i)] = Asked(module, opts[i][2])
  BY DEF RipInv, RipPack
<1>2. opts' \in Seq(RipOption) /\ pack' \in RipPack
  BY <1>1 DEF RipPack
<1>3. /\ Makes(opts') = Makes(opts) \union {last}
      /\ Cardinality(Makes(opts')) = Cardinality(Makes(opts)) + 1
      /\ Nth(opts', last) = Cardinality(Makes(opts)) + 1
      /\ \A i \in Makes(opts) : Nth(opts', i) = Nth(opts, i) /\ opts'[i] = opts[i]
      /\ opts'[last] = o /\ last \notin Makes(opts)
  <2>1. LET new == Append(opts, o)  l == Len(opts) + 1 IN
         /\ Makes(new) = IF o[1] \in EntryNames THEN Makes(opts) \union {l} ELSE Makes(opts)
         /\ Cardinality(Makes(new)) = Cardinality(Makes(opts)) + (IF o[1] \in EntryNames THEN 1 ELSE 0)
         /\ o[1] \in EntryNames => Nth(new, l) = Cardinality(Makes(opts)) + 1
         /\ \A i \in Makes(opts) : Nth(new, i) = Nth(opts, i) /\ new[i] = opts[i]
         /\ new[l] = o /\ l \notin Makes(opts)
    BY <1>1, MakesMore
  <2> QED BY <2>1
<1>4. pack'.entries = Append(entries, e)
  OBVIOUS
<1>5. Len(pack'.entries) = Cardinality(Makes(opts'))
  BY <1>1, <1>3, <1>4
<1>6. \A i \in Makes(opts) : Nth(opts, i) \in 1..Len(entries)
  BY <1>1, MakesFinite
<1>7. ASSUME NEW i \in Makes(opts'), opts'[i][1] = "entry"
      PROVE  pack'.entries[Nth(opts', i)] = Asked(module, opts'[i][2])
  <2>1. CASE i = last
    <3>1. pack'.entries[Len(entries) + 1] = e
      BY <1>1, <1>4
    <3> QED BY <3>1, <2>1, <1>1, <1>3, <1>7
  <2>2. CASE i # last
    <3>1. i \in Makes(opts) /\ opts'[i] = opts[i] /\ Nth(opts', i) = Nth(opts, i)
      BY <2>2, <1>3
    <3>2. PICK k \in 1..Len(entries) : k = Nth(opts, i)
      BY <3>1, <1>6
    <3>3. Append(entries, e)[k] = entries[k]
      BY <1>1
    <3>4. entries[k] = Asked(module, opts[i][2])
      BY <3>1, <3>2, <1>1, <1>7
    <3> QED BY <3>1, <3>2, <3>3, <3>4, <1>4
  <2> QED BY <2>1, <2>2
<1>8. LET i == LastIn(opts', {"command", "request"}) IN
      i # 0 => \/ opts'[i][1] = "request" /\ (opts'[i][2] = TRUE \/ pack'.command = 1)
               \/ opts'[i][1] = "command" /\ pack'.command = opts'[i][2]
  <2> DEFINE f == {"command", "request"}
  <2>1. LastIn(Append(opts, o), f) = IF o[1] \in f THEN last ELSE LastIn(opts, f)
    BY <1>1, LastMore
  <2>2. CASE o[1] = "request"
    BY <2>1, <2>2, <1>3
  <2>3. CASE o[1] # "request"
    <3>1. LastIn(opts', f) = LastIn(opts, f) /\ pack'.command = pack.command
      BY <2>1, <2>3 DEF EntryNames
    <3>2. LastIn(opts, f) # 0 => opts'[LastIn(opts, f)] = opts[LastIn(opts, f)]
      BY <1>1, LastIs
    <3> QED BY <3>1, <3>2 DEF RipInv
  <2> QED BY <2>2, <2>3
<1> QED BY <1>1, <1>2, <1>5, <1>7, <1>8 DEF RipInv

\* An option of the fixed part.
LEMMA RipSetStep ==
  ASSUME RipInv, NEW f \in {"version", "command", "res"}, NEW n \in {0, 5}, RipSet(f, n)
  PROVE  RipInv'
<1>0. PICK o : o = <<f, n>>
  OBVIOUS
<1>1. /\ module \in {"rip", "ripng"} /\ opts \in Seq(RipOption) /\ pack \in RipPack
      /\ opts' = Append(opts, o) /\ module' = module /\ pack' = [pack EXCEPT ![f] = n]
  BY <1>0 DEF RipInv, RipSet, Apply
<1>2. o \in RipOption /\ o[1] = f /\ o[2] = n /\ o[1] \notin EntryNames
  <2>1. n \in Octet
    BY DEF Octet
  <2> QED BY <2>1, <1>0 DEF RipOption, EntryNames
<1>3. /\ opts' \in Seq(RipOption) /\ pack' \in RipPack /\ pack'.entries = pack.entries
      /\ pack'.command = IF f = "command" THEN n ELSE pack.command
  <2>1. opts' \in Seq(RipOption)
    BY <1>1, <1>2
  <2>2. n \in Octet
    BY DEF Octet
  <2> QED BY <2>1, <2>2, <1>1 DEF RipPack
<1>4. /\ Makes(opts') = Makes(opts) /\ Cardinality(Makes(opts')) = Cardinality(Makes(opts))
      /\ \A i \in Makes(opts) : Nth(opts', i) = Nth(opts, i) /\ opts'[i] = opts[i]
      /\ opts'[Len(opts) + 1] = o
  <2>1. LET new == Append(opts, o)  l == Len(opts) + 1 IN
         /\ Makes(new) = IF o[1] \in EntryNames THEN Makes(opts) \union {l} ELSE Makes(opts)
         /\ Cardinality(Makes(new)) = Cardinality(Makes(opts)) + (IF o[1] \in EntryNames THEN 1 ELSE 0)
         /\ o[1] \in EntryNames => Nth(new, l) = Cardinality(Makes(opts)) + 1
         /\ \A i \in Makes(opts) : Nth(new, i) = Nth(opts, i) /\ new[i] = opts[i]
         /\ new[l] = o /\ l \notin Makes(opts)
    BY <1>1, <1>2, MakesMore
  <2> QED BY <2>1, <1>1, <1>2
<1>5. \A i \in Makes(opts') : opts'[i][1] = "entry" => pack'.entries[Nth(opts', i)] = Asked(module, opts'[i][2])
  BY <1>3, <1>4 DEF RipInv
<1>6. LET i == LastIn(opts', {"command", "request"}) IN
      i # 0 => \/ opts'[i][1] = "request" /\ (opts'[i][2] = TRUE \/ pack'.command = 1)
               \/ opts'[i][1] = "command" /\ pack'.command = opts'[i][2]
  <2> DEFINE names == {"command", "request"}
  <2>1. LastIn(Append(opts, o), names) = IF o[1] \in names THEN Len(opts) + 1 ELSE LastIn(opts, names)
    BY <1>1, <1>2, LastMore
  <2>2. CASE f = "command"
    BY <2>1, <2>2, <1>1, <1>2, <1>3, <1>4
  <2>3. CASE f # "command"
    <3>1. LastIn(opts', names) = LastIn(opts, names) /\ pack'.command = pack.command
      BY <2>1, <2>3, <1>1, <1>2, <1>3
    <3>2. LastIn(opts, names) # 0 => opts'[LastIn(opts, names)] = opts[LastIn(opts, names)]
      BY <1>1, <1>2, LastIs
    <3> QED BY <3>1, <3>2 DEF RipInv
  <2> QED BY <2>2, <2>3
<1> QED BY <1>1, <1>3, <1>4, <1>5, <1>6 DEF RipInv

LEMMA RipEntryStep ==
  ASSUME RipInv, NEW arg \in RipArgs, RipEntry(arg)
  PROVE  RipInv'
<1>0. PICK o : o = <<"entry", arg>>
  OBVIOUS
<1>1. /\ pack \in RipPack /\ opts' = Append(opts, o) /\ module' = module
      /\ pack' = WithEntry(pack, Asked(module, arg))
  BY <1>0 DEF RipInv, RipEntry, Apply, Asked
<1>2. o \in RipOption /\ o[1] = "entry" /\ o[2] = arg /\ o[1] \in EntryNames
  BY <1>0 DEF RipOption, EntryNames
<1>3. PICK e \in EntryRecord : e = Asked(module, arg)
  BY AskedType
<1>4. PICK c \in Octet, v \in Octet, r \in Octet :
        /\ c = pack.command /\ v = pack.version /\ r = pack.res
        /\ pack' = [command |-> c, version |-> v, res |-> r, entries |-> Append(pack.entries, e)]
  BY <1>1, <1>3 DEF RipPack, WithEntry
<1>5. /\ o[1] = "entry" => e = Asked(module, o[2])
      /\ o[1] # "request" => c = pack.command
      /\ o[1] = "request" => o[2] = TRUE \/ c = 1
  BY <1>2, <1>3, <1>4
<1>6. o \in RipOption /\ o[1] \in EntryNames
  BY <1>2
<1>7. e \in EntryRecord /\ c \in Octet /\ v \in Octet /\ r \in Octet
  BY <1>3, <1>4
<1>8. /\ opts' = Append(opts, o) /\ module' = module
      /\ pack' = [command |-> c, version |-> v, res |-> r, entries |-> Append(pack.entries, e)]
  BY <1>1, <1>4
<1> QED BY <1>5, <1>6, <1>7, <1>8, EntryStep

LEMMA RipAuthStep ==
  ASSUME RipInv, NEW arg \in RipArgs, RipAuth(arg)
  PROVE  RipInv'
<1>0. PICK o : o = <<"auth", arg>>
  OBVIOUS
<1>1. PICK e : e = IF Len(arg) < 2 THEN [family |-> WORD - 1, type |-> 2, password |-> Field(arg, 1)]
                   ELSE [family |-> WORD - 1, type |-> arg[1], password |-> arg[2]]
  OBVIOUS
<1>2. /\ pack \in RipPack /\ opts' = Append(opts, o) /\ module' = module /\ pack' = WithEntry(pack, e)
  BY <1>0, <1>1 DEF RipInv, RipAuth, Apply
<1>3. o \in RipOption /\ o[1] = "auth" /\ o[1] \in EntryNames
  BY <1>0 DEF RipOption, EntryNames
<1>4. e \in EntryRecord
  <2>1. WORD - 1 \in Nat
    BY DEF WORD
  <2>2. CASE Len(arg) < 2
    BY <2>1, <2>2, <1>1, FieldType DEF EntryRecord
  <2>3. CASE ~(Len(arg) < 2)
    <3>1. arg \in Seq({Empty} \union Text) /\ {Empty} \union Text \subseteq Nat
      BY RipAssumption DEF Empty, Text
    <3>2. arg \in Seq(Nat)
      BY <3>1
    <3>3. arg[1] \in Nat /\ arg[2] \in Nat
      BY <3>2, <2>3
    <3> QED BY <3>3, <2>1, <2>3, <1>1 DEF EntryRecord
  <2> QED BY <2>2, <2>3
<1>5. PICK c \in Octet, v \in Octet, r \in Octet :
        /\ c = pack.command /\ v = pack.version /\ r = pack.res
        /\ pack' = [command |-> c, version |-> v, res |-> r, entries |-> Append(pack.entries, e)]
  BY <1>2 DEF RipPack, WithEntry
<1> QED BY <1>2, <1>3, <1>4, <1>5, EntryStep

LEMMA RipRequestStep ==
  ASSUME RipInv, NEW moved \in BOOLEAN, RipRequest(moved)
  PROVE  RipInv'
<1>0. PICK o : o = <<"request", moved>>
  OBVIOUS
<1>e. PICK e : e = [family |-> 0, tag |-> 0, address |-> 0, mask |-> 0, hop |-> 0, metric |-> Swapped16]
  OBVIOUS
<1>1. /\ pack \in RipPack /\ opts' = Append(opts, o) /\ module' = module
      /\ pack' = [WithEntry(pack, e) EXCEPT !.command = IF moved THEN @ ELSE 1]
  BY <1>0, <1>e DEF RipInv, RipRequest, Apply
<1>2. o \in RipOption /\ o[1] = "request" /\ o[2] = moved /\ o[1] \in EntryNames
  BY <1>0 DEF RipOption, EntryNames
<1>3. e \in EntryRecord
  <2>1. Swapped16 \in Nat
    BY DEF Swapped16
  <2> QED BY <2>1, <1>e DEF EntryRecord
<1>4. PICK c \in Octet, v \in Octet, r \in Octet :
        /\ c = (IF moved THEN pack.command ELSE 1)
        /\ pack' = [command |-> c, version |-> v, res |-> r, entries |-> Append(pack.entries, e)]
  <2>1. (IF moved THEN pack.command ELSE 1) \in Octet
    <3>1. 1 \in Octet
      BY DEF Octet
    <3> QED BY <3>1, <1>1 DEF RipPack
  <2>2. PICK c \in Octet : c = IF moved THEN pack.command ELSE 1
    BY <2>1
  <2>3. pack' = [WithEntry(pack, e) EXCEPT !.command = c]
    BY <2>2, <1>1 DEF RipPack, WithEntry
  <2>4. pack' = [command |-> c, version |-> pack.version, res |-> pack.res, entries |-> Append(pack.entries, e)]
    BY <2>3, <1>1 DEF RipPack, WithEntry
  <2>5. pack.version \in Octet /\ pack.res \in Octet
    BY <1>1 DEF RipPack
  <2> QED BY <2>2, <2>4, <2>5
<1>5. /\ o[1] = "entry" => e = Asked(module, o[2])
      /\ o[1] # "request" => c = pack.command
      /\ o[1] = "request" => o[2] = TRUE \/ c = 1
  BY <1>2, <1>4
<1>6. o \in RipOption /\ o[1] \in EntryNames
  BY <1>2
<1>7. e \in EntryRecord /\ c \in Octet /\ v \in Octet /\ r \in Octet
  BY <1>3, <1>4
<1>8. /\ opts' = Append(opts, o) /\ module' = module
      /\ pack' = [command |-> c, version |-> v, res |-> r, entries |-> Append(pack.entries, e)]
  BY <1>1, <1>4
<1> QED BY <1>5, <1>6, <1>7, <1>8, EntryStep

LEMMA RipngRequestStep ==
  ASSUME RipInv, RipngRequest
  PROVE  RipInv'
<1>0. PICK o : o = <<"request", FALSE>>
  OBVIOUS
<1>e. PICK e : e = [prefix |-> 0, tag |-> 0, len |-> 0, metric |-> 0]
  OBVIOUS
<1>1. /\ pack \in RipPack /\ opts' = Append(opts, o) /\ module' = module
      /\ pack' = [WithEntry(pack, e) EXCEPT !.command = 1, !.version = 1, !.res = 0]
  BY <1>0, <1>e DEF RipInv, RipngRequest, Apply
<1>2. o \in RipOption /\ o[1] = "request" /\ o[1] \in EntryNames
  BY <1>0 DEF RipOption, EntryNames
<1>3. e \in EntryRecord
  BY <1>e DEF EntryRecord
<1>4. pack' = [command |-> 1, version |-> 1, res |-> 0, entries |-> Append(pack.entries, e)]
  BY <1>1 DEF RipPack, WithEntry
<1>5. 0 \in Octet /\ 1 \in Octet
  BY DEF Octet
<1> QED BY <1>1, <1>2, <1>3, <1>4, <1>5, EntryStep

LEMMA RipStep == RipInv /\ [RipNext]_vars => RipInv'
<1> SUFFICES ASSUME RipInv, [RipNext]_vars PROVE RipInv'
  OBVIOUS
<1>1. ASSUME UNCHANGED vars PROVE RipInv'
  BY <1>1 DEF vars, RipInv
<1>2. ASSUME RipRefused PROVE RipInv'
  BY <1>2 DEF RipRefused, Refuse, RipInv
<1>3. ASSUME RipFinalize PROVE RipInv'
  BY <1>3 DEF RipFinalize, FinalizeWith, RipInv
<1> QED BY <1>1, <1>2, <1>3, RipSetStep, RipEntryStep, RipAuthStep, RipRequestStep, RipngRequestStep DEF RipNext

\* What the runs check of it.
LEMMA RipProperties == RipInv => RipTypeOK /\ RipKept
<1> SUFFICES ASSUME RipInv PROVE RipTypeOK /\ RipKept
  OBVIOUS
<1>1. /\ module \in {"rip", "ripng"} /\ opts \in Seq(RipOption) /\ pack \in RipPack
      /\ Len(pack.entries) = Cardinality(Makes(opts)) /\ pack.entries \in Seq(EntryRecord)
      /\ \A i \in Makes(opts) : opts[i][1] = "entry" => pack.entries[Nth(opts, i)] = Asked(module, opts[i][2])
  BY DEF RipInv, RipPack
<1>2. Entries = Makes(opts) /\ \A i : Number(i) = Nth(opts, i)
  BY DEF Entries, Makes, Number, Nth, EntryNames
<1>3. RipTypeOK
  <2>1. {pack.command, pack.version, pack.res} \subseteq Octet
    BY <1>1 DEF RipPack
  <2>2. Len(pack.entries) <= Len(opts)
    BY <1>1, MakesFinite
  <2>3. \A e \in EntryRecord : \A f \in DOMAIN e : e[f] \in Nat
    BY DEF EntryRecord
  <2>4. \A i \in DOMAIN pack.entries : pack.entries[i] \in EntryRecord
    BY <1>1
  <2> QED BY <2>1, <2>2, <2>3, <2>4 DEF RipTypeOK, Octet
<1>4. ASSUME NEW i \in Entries, opts[i][1] = "entry", NEW f \in DOMAIN RouteFields
      PROVE  pack.entries[Number(i)][f] = LET text == Field(opts[i][2], RouteFields[f][1])
                                          IN IF text # Empty THEN text ELSE RouteFields[f][2]
  <2>1. pack.entries[Number(i)] = Asked(module, opts[i][2])
    BY <1>1, <1>2, <1>4
  <2>2. CASE module = "rip"
    BY <2>1, <2>2, <1>4 DEF RouteFields, Asked, RipRoute, Or, Empty
  <2>3. CASE module = "ripng"
    BY <2>1, <2>3, <1>4 DEF RouteFields, Asked, RipngRoute, Or, Empty
  <2> QED BY <2>2, <2>3, <1>1
<1>7. ASSUME NEW i \in Entries, module = "ripng", opts[i][1] = "entry", Field(opts[i][2], 4) # Empty
      PROVE  pack.entries[Number(i)].metric = Field(opts[i][2], 4)
  <2>1. pack.entries[Number(i)] = Asked(module, opts[i][2])
    BY <1>1, <1>2, <1>7
  <2> QED BY <2>1, <1>7 DEF Asked, RipngRoute, Or
<1>5. LastRip("command") = LastIn(opts, {"command", "request"})
  BY DEF LastRip, LastIn
<1>6. LastRip("command") > 0 => \/ opts[LastRip("command")][1] = "request" /\ (opts[LastRip("command")][2] = TRUE \/ pack.command = 1)
                                \/ opts[LastRip("command")][1] = "command" /\ pack.command = opts[LastRip("command")][2]
  BY <1>1, <1>5, LastIs DEF RipInv
<1> QED BY <1>1, <1>2, <1>3, <1>4, <1>6, <1>7 DEF RipKept

-----------------------------------------------------------------------------
\* Types of bgp, also of more than one header: the statics may point to a part of
\* the other header or to none, which changes its length field at most.

Lengths(p) == \A h \in {1, 2} : p.blocks[h].len \in 0..(WORD - 1)
BgpTyped(p) == p \in BgpPack /\ Lengths(p)

LEMMA WordNat == WORD \in Nat /\ WORD - 1 \in Nat
  BY DEF WORD

\* A block in the place of another.
LEMMA BlockTyped ==
  ASSUME NEW p, BgpTyped(p), NEW h \in {1, 2}, NEW b \in BgpBlock, b.len \in 0..(WORD - 1)
  PROVE  BgpTyped([p EXCEPT !.blocks = [p.blocks EXCEPT ![h] = b]])
<1> DEFINE q == [p EXCEPT !.blocks = [p.blocks EXCEPT ![h] = b]]
<1>1. p \in BgpPack
  BY DEF BgpTyped
<1>2. q \in BgpPack
  BY <1>1 DEF BgpPack
<1>3. q.blocks[h] = b /\ \A g \in {1, 2} : g # h => q.blocks[g] = p.blocks[g]
  BY <1>1 DEF BgpPack
<1> HIDE DEF q
<1>4. Lengths(q)
  BY <1>3 DEF Lengths, BgpTyped
<1>5. BgpTyped(q)
  BY <1>2, <1>4 DEF BgpTyped
<1> QED BY <1>5 DEF q

LEMMA PutTyped ==
  ASSUME NEW p, BgpTyped(p), NEW kind \in BgpKind, NEW size \in Nat, NEW len \in Int
  PROVE  BgpTyped(Put(p, kind, size, len))
<1> DEFINE h == Target(p)
<1>1. h \in {1, 2} /\ p \in BgpPack /\ p.blocks[h] \in BgpBlock
  BY DEF BgpTyped, BgpPack, Target
<1> HIDE DEF h
<1> DEFINE part == [kind |-> kind, at |-> p.blocks[h].alloc, size |-> size, len |-> len]
           b == [p.blocks[h] EXCEPT !.alloc = @ + size, !.parts = Append(@, part)]
           q == [p EXCEPT !.prev = kind, !.blocks = [p.blocks EXCEPT ![h] = b]]
<1>2. part \in BgpPart
  BY <1>1 DEF BgpPart, BgpBlock
<1>3. b \in BgpBlock /\ b.len = p.blocks[h].len
  <2> HIDE DEF part
  <2>1. p.blocks[h].alloc + size \in Nat /\ Append(p.blocks[h].parts, part) \in Seq(BgpPart)
    BY <1>1, <1>2 DEF BgpBlock
  <2> DEFINE a == p.blocks[h].alloc + size  s == Append(p.blocks[h].parts, part)
  <2>2. b = [p.blocks[h] EXCEPT !.alloc = a, !.parts = s]
    OBVIOUS
  <2> HIDE DEF a, s
  <2> QED BY <1>1, <2>1, <2>2 DEF BgpBlock, a, s
<1>4. Put(p, kind, size, len) = q
  <2>1. Put(p, kind, size, len) = [p EXCEPT !.prev = kind, !.blocks[h] = b]
    BY DEF Put, Block, h
  <2> HIDE DEF b
  <2>2. [p EXCEPT !.prev = kind].blocks = p.blocks
    BY <1>1 DEF BgpPack
  <2> QED BY <2>1, <2>2
<1> HIDE DEF b, part
<1>5. q \in BgpPack
  BY <1>1, <1>3 DEF BgpPack
<1>6. q.blocks[h] = b /\ \A g \in {1, 2} : g # h => q.blocks[g] = p.blocks[g]
  BY <1>1 DEF BgpPack
<1> HIDE DEF q
<1>7. Lengths(q)
  BY <1>3, <1>6 DEF Lengths, BgpTyped
<1> QED BY <1>4, <1>5, <1>7 DEF BgpTyped

LEMMA PointTyped ==
  ASSUME NEW p, BgpTyped(p), NEW at \in Nat \X Nat
  PROVE  /\ BgpTyped([p EXCEPT !.opt_len_ptr = at])
         /\ BgpTyped([p EXCEPT !.wdr_len_ptr = at])
         /\ BgpTyped([p EXCEPT !.attr_len_ptr = at])
<1>1. /\ [p EXCEPT !.opt_len_ptr = at] \in BgpPack /\ [p EXCEPT !.wdr_len_ptr = at] \in BgpPack
      /\ [p EXCEPT !.attr_len_ptr = at] \in BgpPack
  BY DEF BgpTyped, BgpPack
<1>2. /\ [p EXCEPT !.opt_len_ptr = at].blocks = p.blocks /\ [p EXCEPT !.wdr_len_ptr = at].blocks = p.blocks
      /\ [p EXCEPT !.attr_len_ptr = at].blocks = p.blocks
  BY DEF BgpTyped, BgpPack
<1> QED BY <1>1, <1>2 DEF BgpTyped, Lengths

LEMMA NextPartType == ASSUME NEW p, BgpTyped(p) PROVE Next_part(p) \in Nat \X Nat
<1>1. Target(p) \in {1, 2} /\ Block(p).parts \in Seq(BgpPart)
  BY DEF BgpTyped, BgpPack, BgpBlock, Target, Block
<1> QED BY <1>1 DEF Next_part

LEMMA BumpTyped ==
  ASSUME NEW p, BgpTyped(p), NEW flag, NEW ptr \in Nat \X Nat, NEW n \in Int, NEW width \in {BYTE, WORD}
  PROVE  BgpTyped(Bump(p, flag, ptr, n, width))
<1> PICK q : q = Bump(p, flag, ptr, n, width)
  OBVIOUS
<1>1. CASE flag \in Block(p).mod
  BY <1>1 DEF Bump
<1>2. CASE ~(ptr[1] \in {1, 2} /\ ptr[2] \in DOMAIN p.blocks[ptr[1]].parts)
  <2>1. PICK h, c : h = ptr[1] /\ c = ptr[2]
    OBVIOUS
  <2> DEFINE len == IF Unknown \in {p.blocks[h].parts[c].len, n} THEN Unknown
                    ELSE (p.blocks[h].parts[c].len + n) % width
             part == [p.blocks[h].parts[c] EXCEPT !.len = len]
             parts == [p.blocks[h].parts EXCEPT ![c] = part]
             b == [p.blocks[h] EXCEPT !.parts = parts]
  <2>2. q = p \/ q = [p EXCEPT !.blocks = [p.blocks EXCEPT ![h] = b]]
    BY <2>1 DEF Bump
  <2> HIDE DEF part
  <2>3. p \in BgpPack /\ p.blocks \in [{1, 2} -> BgpBlock]
    BY DEF BgpTyped, BgpPack
  <2>4. [p.blocks EXCEPT ![h] = b] = p.blocks
    <3>1. CASE h \notin {1, 2}
      <4> HIDE DEF b
      <4> QED BY <2>3, <3>1
    <3>2. CASE h \in {1, 2} /\ c \notin DOMAIN p.blocks[h].parts
      <4>1. p.blocks[h] \in BgpBlock /\ p.blocks[h].parts \in Seq(BgpPart)
        BY <2>3, <3>2 DEF BgpBlock
      <4>2. parts = p.blocks[h].parts
        BY <3>2, <4>1
      <4>3. b = p.blocks[h]
        BY <4>1, <4>2 DEF BgpBlock
      <4> HIDE DEF b
      <4> QED BY <2>3, <4>3
    <3> QED BY <1>2, <2>1, <3>1, <3>2
  <2> HIDE DEF b
  <2>5. [p EXCEPT !.blocks = p.blocks] = p
    BY <2>3 DEF BgpPack
  <2> QED BY <2>2, <2>4, <2>5
<1>3. CASE flag \notin Block(p).mod /\ ptr[1] \in {1, 2} /\ ptr[2] \in DOMAIN p.blocks[ptr[1]].parts
  <2>1. PICK h \in {1, 2}, c \in Nat : h = ptr[1] /\ c = ptr[2] /\ c \in DOMAIN p.blocks[h].parts
    BY <1>3
  <2>2. p \in BgpPack /\ p.blocks[h] \in BgpBlock /\ p.blocks[h].parts \in Seq(BgpPart)
    BY DEF BgpTyped, BgpPack, BgpBlock
  <2>3. p.blocks[h].parts[c] \in BgpPart
    BY <2>1, <2>2
  <2> DEFINE len == IF Unknown \in {p.blocks[h].parts[c].len, n} THEN Unknown
                    ELSE (p.blocks[h].parts[c].len + n) % width
             part == [p.blocks[h].parts[c] EXCEPT !.len = len]
             parts == [p.blocks[h].parts EXCEPT ![c] = part]
             b == [p.blocks[h] EXCEPT !.parts = parts]
  <2>4. len \in Int
    <3>1. p.blocks[h].parts[c].len \in Int
      BY <2>3 DEF BgpPart
    <3>2. (p.blocks[h].parts[c].len + n) % width \in Int
      BY <3>1 DEF BYTE, WORD
    <3> QED BY <3>2 DEF Unknown
  <2>5. q = [p EXCEPT !.blocks[h].parts[c].len = len]
    BY <1>3, <2>1 DEF Bump
  <2> HIDE DEF len
  <2>6. part \in BgpPart
    BY <2>3, <2>4 DEF BgpPart
  <2>7. q = [p EXCEPT !.blocks = [p.blocks EXCEPT ![h] = b]]
    BY <2>5
  <2> HIDE DEF part
  <2>8. parts \in Seq(BgpPart)
    <3>1. c \in 1..Len(p.blocks[h].parts)
      BY <2>1, <2>2
    <3> QED BY <3>1, <2>2, <2>6, ExceptSeq
  <2> HIDE DEF parts
  <2>9. b \in BgpBlock /\ b.len = p.blocks[h].len
    BY <2>2, <2>8 DEF BgpBlock
  <2>10. b.len \in 0..(WORD - 1)
    BY <2>9 DEF BgpTyped, Lengths
  <2> HIDE DEF b
  <2> QED BY <2>7, <2>9, <2>10, BlockTyped
<1> QED BY <1>1, <1>2, <1>3

LEMMA FlagTyped ==
  ASSUME NEW p, BgpTyped(p), NEW flag \in {"length", "opt", "wdr", "attr"}
  PROVE  BgpTyped(Flag(p, flag))
<1> DEFINE h == Target(p)
<1>1. h \in {1, 2} /\ p \in BgpPack /\ p.blocks[h] \in BgpBlock
  BY DEF BgpTyped, BgpPack, Target
<1> DEFINE b == [p.blocks[h] EXCEPT !.mod = @ \union {flag}]
<1>2. Flag(p, flag) = [p EXCEPT !.blocks = [p.blocks EXCEPT ![h] = b]]
  BY DEF Flag
<1> HIDE DEF h
<1>3. b \in BgpBlock /\ b.len = p.blocks[h].len
  BY <1>1 DEF BgpBlock
<1>4. b.len \in 0..(WORD - 1)
  BY <1>1, <1>3 DEF BgpTyped, Lengths
<1> HIDE DEF b
<1> QED BY <1>1, <1>2, <1>3, <1>4, BlockTyped

LEMMA LenTyped ==
  ASSUME NEW p, BgpTyped(p), NEW h \in {1, 2}, NEW len \in 0..(WORD - 1)
  PROVE  BgpTyped([p EXCEPT !.blocks[h].len = len])
<1> DEFINE b == [p.blocks[h] EXCEPT !.len = len]
<1>1. p.blocks[h] \in BgpBlock /\ len \in Int
  BY WordNat DEF BgpTyped, BgpPack
<1>2. b \in BgpBlock /\ b.len = len
  BY <1>1 DEF BgpBlock
<1>3. [p EXCEPT !.blocks[h].len = len] = [p EXCEPT !.blocks = [p.blocks EXCEPT ![h] = b]]
  OBVIOUS
<1> HIDE DEF b
<1> QED BY <1>2, <1>3, BlockTyped

LEMMA CloseTyped == ASSUME NEW p, BgpTyped(p) PROVE BgpTyped(Close(p))
<1>1. Block(p).alloc \in Nat /\ p.len_ptr \in {1, 2}
  BY DEF BgpTyped, BgpPack, BgpBlock, Block, Target
<1>2. Block(p).alloc % WORD \in 0..(WORD - 1)
  BY <1>1, WordRange
<1> QED BY <1>1, <1>2, LenTyped DEF Close

LEMMA LeadTyped ==
  ASSUME NEW p, BgpTyped(p)
  PROVE  BgpTyped(Withdrawn(p)) /\ BgpTyped(Attributes(p))
<1>1. Next_part(p) \in Nat \X Nat
  BY NextPartType
<1>2. BgpTyped(Put(p, "wdrlen", 2, 0)) /\ BgpTyped(Put(p, "attrlen", 2, 0))
  BY PutTyped DEF BgpKind
<1>3. /\ BgpTyped([Put(p, "wdrlen", 2, 0) EXCEPT !.wdr_len_ptr = Next_part(p)])
      /\ BgpTyped([Put(p, "attrlen", 2, 0) EXCEPT !.attr_len_ptr = Next_part(p)])
  BY <1>1, <1>2, PointTyped
<1> QED BY <1>3 DEF Withdrawn, Attributes

\* A part with a length field that a pointer is set to.
LEMMA PointedTyped ==
  ASSUME NEW p, BgpTyped(p), NEW size \in Nat, NEW len \in Int
  PROVE  /\ BgpTyped([Put(p, "open", size, len) EXCEPT !.opt_len_ptr = Next_part(p)])
         /\ BgpTyped([Put(p, "wdrlen", size, len) EXCEPT !.wdr_len_ptr = Next_part(p)])
         /\ BgpTyped([Put(p, "attrlen", size, len) EXCEPT !.attr_len_ptr = Next_part(p)])
<1>1. Next_part(p) \in Nat \X Nat
  BY NextPartType
<1>2. /\ BgpTyped(Put(p, "open", size, len)) /\ BgpTyped(Put(p, "wdrlen", size, len))
      /\ BgpTyped(Put(p, "attrlen", size, len))
  BY PutTyped DEF BgpKind
<1> QED BY <1>1, <1>2, PointTyped

\* A part that the field behind a pointer counts.
LEMMA CountedTyped ==
  ASSUME NEW p, BgpTyped(p), NEW kind \in BgpKind, NEW size \in Nat, NEW len \in Int, NEW flag, NEW n \in Int,
         NEW width \in {BYTE, WORD}
  PROVE  LET q == Put(p, kind, size, len) IN
         /\ BgpTyped(Bump(q, flag, q.opt_len_ptr, n, width))
         /\ BgpTyped(Bump(q, flag, q.wdr_len_ptr, n, width))
         /\ BgpTyped(Bump(q, flag, q.attr_len_ptr, n, width))
<1> DEFINE q == Put(p, kind, size, len)
<1>1. BgpTyped(q)
  BY PutTyped
<1> HIDE DEF q
<1>2. q.opt_len_ptr \in Nat \X Nat /\ q.wdr_len_ptr \in Nat \X Nat /\ q.attr_len_ptr \in Nat \X Nat
  BY <1>1 DEF BgpTyped, BgpPack
<1>3. /\ BgpTyped(Bump(q, flag, q.opt_len_ptr, n, width))
      /\ BgpTyped(Bump(q, flag, q.wdr_len_ptr, n, width))
      /\ BgpTyped(Bump(q, flag, q.attr_len_ptr, n, width))
  BY <1>1, <1>2, BumpTyped
<1> QED BY <1>3 DEF q

LEMMA BgpTypedStart == BgpInit => BgpTyped(pack)
<1> SUFFICES ASSUME BgpInit PROVE BgpTyped(pack)
  OBVIOUS
<1> DEFINE b == [alloc |-> MessageStart, len |-> MessageStart, mod |-> {}, parts |-> <<>>]
<1>1. b \in BgpBlock /\ b.len \in 0..(WORD - 1)
  BY DEF BgpBlock, MessageStart, WORD
<1>2. pack = [blocks |-> [h \in {1, 2} |-> b], cur |-> 1, prev |-> "header", len_ptr |-> 2,
              opt_len_ptr |-> <<0, 0>>, wdr_len_ptr |-> <<0, 0>>, attr_len_ptr |-> <<0, 0>>]
  BY DEF BgpInit
<1> HIDE DEF b
<1> QED BY <1>1, <1>2 DEF BgpTyped, BgpPack, Lengths

LEMMA BgpTypedStep ==
  ASSUME BgpTyped(pack), [BgpNext]_vars
  PROVE  BgpTyped(pack')
<1>1. \A o, p : BgpTyped(p) /\ BgpApply(o, p) => BgpTyped(pack')
  BY CloseTyped DEF BgpApply, Apply
<1>2. Bytes \subseteq Nat /\ \A n \in Nat : n % WORD \in 0..(WORD - 1) /\ n % WORD \in Int
  <2>1. \A n \in Nat : n % WORD \in Int
    BY DEF WORD
  <2> QED BY <2>1, BgpAssumption, WordRange
<1>3. NotGiven \in Int /\ Unknown \in Int /\ BYTE \in {BYTE, WORD} /\ WORD \in {BYTE, WORD}
  BY DEF NotGiven, Unknown
<1>4. ASSUME BgpNextHeader PROVE BgpTyped(pack')
  <2>1. pack' = [pack EXCEPT !.cur = @ + 1] /\ pack.cur + 1 \in 1..3
    BY <1>4 DEF BgpNextHeader, Apply, BgpTyped, BgpPack
  <2>2. pack' \in BgpPack /\ pack'.blocks = pack.blocks
    BY <2>1 DEF BgpTyped, BgpPack
  <2> QED BY <2>2 DEF BgpTyped, Lengths
<1>5. ASSUME BgpField PROVE BgpTyped(pack')
  BY <1>1, <1>5 DEF BgpField
<1>6. ASSUME BgpGarbled \/ BgpRefused \/ BgpFinalize \/ BgpAttrCrash \/ UNCHANGED vars PROVE BgpTyped(pack')
  BY <1>6 DEF BgpGarbled, BgpRefused, BgpFinalize, BgpAttrCrash, Refuse, FinalizeWith, vars
<1>7. ASSUME NEW n \in Bytes, BgpLength(n) PROVE BgpTyped(pack')
  <2>1. BgpTyped([pack EXCEPT !.blocks[Target(pack)].len = n % WORD])
    BY <1>2, LenTyped DEF Target
  <2> QED BY <2>1, <1>1, <1>7, FlagTyped DEF BgpLength
<1>8. ASSUME NEW n \in Bytes, BgpWithdrawnLen(n) PROVE BgpTyped(pack')
  <2>1. BgpTyped([Put(pack, "wdrlen", 2, n % WORD) EXCEPT !.wdr_len_ptr = Next_part(pack)])
    BY <1>2, PointedTyped
  <2> QED BY <2>1, <1>1, <1>8, FlagTyped DEF BgpWithdrawnLen
<1>9. ASSUME NEW n \in Bytes, BgpAttrLen(n) PROVE BgpTyped(pack')
  <2>1. BgpTyped(Withdrawn(pack))
    BY LeadTyped
  <2>2. BgpTyped([Put(Withdrawn(pack), "attrlen", 2, n % WORD) EXCEPT !.attr_len_ptr = Next_part(Withdrawn(pack))])
    BY <2>1, <1>2, PointedTyped
  <2> QED BY <2>2, <1>1, <1>9, FlagTyped DEF BgpAttrLen
<1>10. ASSUME NEW n \in Bytes, BgpNotification(n) PROVE BgpTyped(pack')
  <2>1. BgpTyped(Put(pack, "notfn", 2 + n, n))
    BY <1>2, PutTyped DEF BgpKind
  <2> QED BY <2>1, <1>1, <1>10 DEF BgpNotification
<1>11. ASSUME NEW olen \in {NotGiven, 3}, BgpOpen(olen) PROVE BgpTyped(pack')
  <2> DEFINE l == IF olen = NotGiven THEN 0 ELSE olen
             p == [Put(pack, "open", 10, l) EXCEPT !.opt_len_ptr = Next_part(pack)]
  <2>1. l \in Int
    OBVIOUS
  <2>2. BgpTyped(p)
    BY <2>1, PointedTyped
  <2>3. BgpTyped(Flag(p, "opt"))
    BY <2>2, FlagTyped
  <2>4. BgpApply("o", IF olen = NotGiven THEN p ELSE Flag(p, "opt"))
    BY <1>11 DEF BgpOpen
  <2> HIDE DEF p
  <2> QED BY <2>2, <2>3, <2>4, <1>1
<1>12. ASSUME NEW n \in Bytes, NEW len \in {NotGiven, 3}, BgpOpenOpt(n, len) PROVE BgpTyped(pack')
  <2> DEFINE size == 2 + n
             l == (IF len = NotGiven THEN size ELSE len) % BYTE
             p == Put(pack, "opt", size, l)
             q == Bump(p, "opt", p.opt_len_ptr, size, BYTE)
  <2>1. size \in Nat /\ size \in Int /\ l \in Int /\ "opt" \in BgpKind
    BY <1>2, <1>3 DEF BYTE, BgpKind
  <2>2. BgpApply(IF len = NotGiven THEN "oo" ELSE "oo:len", q)
    BY <1>12 DEF BgpOpenOpt
  <2> HIDE DEF size, l
  <2>3. BgpTyped(q)
    BY <2>1, <1>3, CountedTyped
  <2> HIDE DEF q
  <2> QED BY <2>2, <2>3, <1>1
<1>13. ASSUME NEW width \in 1..2, NEW n \in Bytes, BgpAttr(width, n) PROVE BgpTyped(pack')
  <2> DEFINE p == Attributes(Withdrawn(pack))
             r == Put(p, "attr", 2 + width + n, n)
             q == Bump(r, "attr", r.attr_len_ptr, Unknown, WORD)
  <2>1. BgpTyped(p)
    BY LeadTyped
  <2>2. BgpApply("ua", q)
    BY <1>13 DEF BgpAttr
  <2>3. 2 + width + n \in Nat /\ n \in Int /\ "attr" \in BgpKind
    BY <1>2 DEF BgpKind
  <2> HIDE DEF p
  <2>4. BgpTyped(q)
    BY <2>1, <2>3, <1>3, CountedTyped
  <2> HIDE DEF q
  <2> QED BY <2>2, <2>4, <1>1
<1>14. ASSUME NEW route \in NlriArgs \union {BadRoute}, BgpWithdraw(route) PROVE BgpTyped(pack')
  <2> DEFINE p == Withdrawn(pack)
             n == NlriSize(route)
             r == Put(p, "wdr", n, n)
             q == Bump(r, "wdr", r.wdr_len_ptr, n, WORD)
  <2>1. BgpTyped(p)
    BY LeadTyped
  <2>2. BgpApply("uw", q)
    BY <1>14 DEF BgpWithdraw
  <2>3. n \in Nat /\ n \in Int /\ "wdr" \in BgpKind
    BY RouteSize DEF BgpKind
  <2> HIDE DEF p, n
  <2>4. BgpTyped(q)
    BY <2>1, <2>3, <1>3, CountedTyped
  <2> HIDE DEF q
  <2> QED BY <2>2, <2>4, <1>1
<1>15. ASSUME NEW route \in NlriArgs \union {BadRoute}, BgpNlri(route) PROVE BgpTyped(pack')
  <2> DEFINE p == Attributes(Withdrawn(pack))
             n == NlriSize(route)
             q == Put(p, "nlri", n, n)
  <2>1. BgpTyped(p)
    BY LeadTyped
  <2>2. BgpApply("un", q)
    BY <1>15 DEF BgpNlri
  <2>3. n \in Nat /\ n \in Int /\ "nlri" \in BgpKind
    BY RouteSize DEF BgpKind
  <2> HIDE DEF p, n
  <2>4. BgpTyped(q)
    BY <2>1, <2>3, PutTyped
  <2> HIDE DEF q
  <2> QED BY <2>2, <2>4, <1>1
<1> QED BY <1>4, <1>5, <1>6, <1>7, <1>8, <1>9, <1>10, <1>11, <1>12, <1>13, <1>14, <1>15 DEF BgpNext

\* What the runs check of it.
LEMMA BgpTypes == ASSUME BgpTyped(pack) PROVE BgpTypeOK
  BY DEF BgpTyped, Lengths, BgpTypeOK, BgpPack, BgpBlock, BgpPart, BgpKind

-----------------------------------------------------------------------------
\* Types of esp and ah: what the invariants that the receiver needs leave open.

EspBlockTyped(b) == b.alloc \in Nat /\ b.key \in Keys \union {<<>>}

AuthTyped ==
  /\ module = "esp" => \A h \in {1, 2} : EspBlockTyped(pack.esp[h])
  /\ module = "ah" => pack.mod \subseteq IpFields(pack.v)

LEMMA AuthTypedStart == AuthInit => AuthTyped
<1> SUFFICES ASSUME AuthInit PROVE AuthTyped
  OBVIOUS
<1>1. EspBlockTyped(EspBlock)
  BY DEF EspBlockTyped, EspBlock, Slack
<1>2. module = "esp" => pack.esp = <<EspBlock, EspBlock>>
  BY DEF AuthInit
<1>3. module = "ah" => pack.mod = {}
  BY DEF AuthInit
<1> QED BY <1>1, <1>2, <1>3 DEF AuthTyped

\* An option of esp sets one block.
LEMMA EspSetTyped ==
  ASSUME AuthTyped, module = "esp", pack \in EspPack, NEW h \in {1, 2}, NEW new, EspBlockTyped(new),
         EspSet(h, new)
  PROVE  AuthTyped'
<1>1. /\ pack' = [pack EXCEPT !.esp[h] = new] /\ module' = module
      /\ pack.esp \in [1..2 -> EspPackBlock]
  BY DEF EspSet, Apply, EspPack
<1>2. /\ pack'.esp = [pack.esp EXCEPT ![h] = new]
  BY <1>1 DEF EspPack
<1>3. \A g \in {1, 2} : pack'.esp[g] = IF g = h THEN new ELSE pack.esp[g]
  BY <1>1, <1>2
<1> QED BY <1>1, <1>3 DEF AuthTyped

LEMMA EspOptionTyped ==
  ASSUME AuthTyped, module = "esp", pack \in EspPack, NEW h \in {1, 2}, NEW n \in Nat,
         EspPad(h, n) \/ EspIv(h, n) \/ EspIcv(h, n) \/ \E key \in Keys : EspKey(h, key)
  PROVE  AuthTyped'
<1> DEFINE b == pack.esp[h]
<1>1. b \in EspPackBlock /\ EspBlockTyped(b) /\ b.alloc \in Nat
  BY DEF AuthTyped, EspPack, EspBlockTyped
<1>2. ASSUME NEW new, EspBlockTyped(new), EspStore(h, new) PROVE AuthTyped'
  <2>1. CASE EspSet(h, new)
    BY <1>2, <2>1, EspSetTyped
  <2>2. CASE pc' = "garbled" /\ UNCHANGED <<module, pack, opts>>
    BY <2>2 DEF AuthTyped
  <2> QED BY <2>1, <2>2, <1>2 DEF EspStore
<1>3. CASE EspPad(h, n)
  <2> DEFINE a == IF n > Slack THEN b.alloc + n - Slack ELSE b.alloc
             new == [b EXCEPT !.pad = n, !.mod = @ \union {"padding"}, !.alloc = a]
  <2>1. a \in Nat
    BY <1>1 DEF Slack
  <2>2. EspSet(h, new)
    BY <1>3 DEF EspPad
  <2> HIDE DEF a
  <2>3. EspBlockTyped(new)
    BY <1>1, <2>1 DEF EspBlockTyped, EspPackBlock
  <2> HIDE DEF new
  <2> QED BY <2>2, <2>3, EspSetTyped
<1>4. CASE EspIv(h, n)
  <2> DEFINE icv == IF b.iv = <<>> THEN b.icv ELSE [i \in DOMAIN b.icv |-> IF i <= Len(b.iv) THEN 1 ELSE 0]
             a == b.alloc + n
             iv == Ones(n)
             new == [b EXCEPT !.iv = iv, !.alloc = a, !.icv = icv]
  <2>1. a \in Nat
    BY <1>1
  <2>2. EspStore(h, new)
    BY <1>4 DEF EspIv
  <2> HIDE DEF a, icv, iv
  <2>3. EspBlockTyped(new)
    BY <1>1, <2>1 DEF EspBlockTyped, EspPackBlock
  <2> HIDE DEF new
  <2> QED BY <2>2, <2>3, <1>2
<1>5. CASE EspIcv(h, n)
  <2> DEFINE a == b.alloc + n
             icv == Ones(n)
             new == [b EXCEPT !.icv = icv, !.alloc = a]
  <2>1. a \in Nat
    BY <1>1
  <2>2. EspStore(h, new)
    BY <1>5 DEF EspIcv
  <2> HIDE DEF a, icv
  <2>3. EspBlockTyped(new)
    BY <1>1, <2>1 DEF EspBlockTyped, EspPackBlock
  <2> HIDE DEF new
  <2> QED BY <2>2, <2>3, <1>2
<1>6. ASSUME NEW key \in Keys, EspKey(h, key) PROVE AuthTyped'
  <2> DEFINE new == [b EXCEPT !.key = key]
  <2>1. EspSet(h, new)
    BY <1>6 DEF EspKey
  <2>2. EspBlockTyped(new)
    BY <1>1 DEF EspBlockTyped, EspPackBlock
  <2> HIDE DEF new
  <2> QED BY <2>1, <2>2, EspSetTyped
<1> QED BY <1>3, <1>4, <1>5, <1>6

\* finalize() of esp changes no size and no key.
LEMMA EspFinalizeTyped ==
  ASSUME AuthTyped, pack \in EspPack, EspFinalize
  PROVE  AuthTyped'
<1>1. module = "esp" /\ module' = module /\ pack.left \in {1, 2} /\ pack.esp \in [1..2 -> EspPackBlock]
  BY DEF EspFinalize, EspPack
<1>2. CASE pack' = pack
  BY <1>1, <1>2 DEF AuthTyped
<1>3. CASE pack' # pack
  <2> DEFINE b == pack.esp[pack.left]
             pad == PadOf(b, pack.data)
             data == EspHdr \o Sealed(b, EspBody(b, pack.data))
  <2>1. pack' = [pack EXCEPT !.data = data, !.esp[pack.left].pad = pad, !.left = @ - 1]
    BY <1>3 DEF EspFinalize
  <2> HIDE DEF pad, data
  <2>2. pack'.esp = [pack.esp EXCEPT ![pack.left] = [b EXCEPT !.pad = pad]]
    BY <2>1 DEF EspPack
  <2>3. b \in EspPackBlock /\ EspBlockTyped(b)
    BY <1>1 DEF AuthTyped
  <2>4. EspBlockTyped([b EXCEPT !.pad = pad])
    BY <2>3 DEF EspBlockTyped, EspPackBlock
  <2> DEFINE new == [b EXCEPT !.pad = pad]
  <2> HIDE DEF new
  <2>5. \A g \in {1, 2} : pack'.esp[g] = IF g = pack.left THEN new ELSE pack.esp[g]
    BY <1>1, <2>2 DEF new
  <2> QED BY <1>1, <2>4, <2>5 DEF AuthTyped, new
<1> QED BY <1>2, <1>3

\* A field that ah marks as set is one of the header at hand.
LEMMA AhTypedStep ==
  ASSUME AuthTyped, module = "ah", pack \in AhPack,
         \/ AhModule \/ AhField \/ AhFinalize \/ AhIpFinalize \/ (\E n \in VarSizes : AhData(n))
         \/ \E f \in IpFields(4) \union IpFields(6) : AhIpField(f)
  PROVE  AuthTyped'
<1>1. /\ module' = module /\ pack.mod \subseteq IpFields(pack.v) /\ pack.v \in {4, 6}
  BY DEF AuthTyped, AhPack, AhModule, AhField, AhFinalize, AhIpFinalize, AhData, AhIpField, Apply, FinalizeWith
<1>2. pack'.v = pack.v /\ pack'.mod \subseteq IpFields(pack.v)
  <2>1. CASE AhModule \/ AhField \/ (\E n \in VarSizes : AhData(n)) \/ AhIpFinalize
    BY <1>1, <2>1 DEF AhPack, AhModule, AhField, AhIpFinalize, AhData, Apply, FinalizeWith
  <2>2. ASSUME NEW f, AhIpField(f) PROVE pack'.v = pack.v /\ pack'.mod \subseteq IpFields(pack.v)
    BY <1>1, <2>2 DEF AhPack, AhIpField, Apply
  <2>3. CASE AhFinalize
    <3> DEFINE fake == IpHeader(Behind, 40 + AhLen)
    <3>1. pack' = IF pack.v = 4 THEN WithId(fake) ELSE [pack EXCEPT !.fake = fake]
      BY <2>3 DEF AhFinalize
    <3> HIDE DEF fake
    <3>2. "id" \in IpFields(4)
      BY DEF IpFields
    <3> QED BY <1>1, <3>1, <3>2 DEF AhPack, WithId
  <2> QED BY <2>1, <2>2, <2>3
<1> QED BY <1>1, <1>2 DEF AuthTyped

\* What holds of esp and ah: a receiver undoes them, and their types.
AuthInv == module \in {"esp", "ah"} /\ AhInv /\ EspInv /\ AuthTyped

LEMMA AuthInvStart == AuthInit => AuthInv
<1>1. AuthInit => module \in {"esp", "ah"}
  BY DEF AuthInit
<1> QED BY <1>1, AhStart, EspStart, AuthTypedStart DEF AuthInv

LEMMA AuthInvStep == AuthInv /\ [AuthNext]_vars => AuthInv'
<1> SUFFICES ASSUME AuthInv, [AuthNext]_vars PROVE AuthInv'
  OBVIOUS
<1>1. AhInv' /\ EspInv' /\ module' = module
  BY AhStep, EspStep, AuthFrame DEF AuthInv, vars
<1>2. module = "esp" => pack \in EspPack
  BY DEF AuthInv, EspInv
<1>3. module = "ah" => pack \in AhPack
  BY DEF AuthInv, AhInv
<1>4. ASSUME EspField PROVE AuthTyped'
  BY <1>4, <1>1 DEF AuthInv, AuthTyped, EspField, Apply
<1>5. ASSUME EspFinalize PROVE AuthTyped'
  <2>1. module = "esp"
    BY <1>5 DEF EspFinalize
  <2> QED BY <2>1, <1>2, <1>5, EspFinalizeTyped DEF AuthInv
<1>6. ASSUME EspSent PROVE AuthTyped'
  BY <1>6, <1>1 DEF AuthInv, AuthTyped, EspSent, FinalizeWith
<1>7. ASSUME \/ AhModule \/ AhField \/ AhFinalize \/ AhIpFinalize \/ (\E n \in VarSizes : AhData(n))
             \/ \E f \in IpFields(4) \union IpFields(6) : AhIpField(f)
      PROVE  AuthTyped'
  <2>1. module = "ah"
    BY <1>7 DEF AhModule, AhField, AhFinalize, AhIpFinalize, AhData, AhIpField, AuthMore
  <2>2. pack \in AhPack /\ AuthTyped
    BY <2>1, <1>3 DEF AuthInv
  <2> QED BY <2>1, <2>2, <1>7, AhTypedStep
<1>8. ASSUME NEW h \in {1, 2},
             \/ \E n \in EspPads : EspPad(h, n)
             \/ \E n \in VarSizes : EspIv(h, n) \/ EspIcv(h, n)
             \/ \E key \in Keys : EspKey(h, key)
      PROVE  AuthTyped'
  <2>1. module = "esp" /\ AuthTyped
    BY <1>8 DEF EspPad, EspIv, EspIcv, EspKey, AuthMore, AuthInv
  <2>2. EspPads \subseteq Nat /\ VarSizes \subseteq Nat
    BY AuthAssumption
  <2>3. 0 \in Nat
    OBVIOUS
  <2>4. PICK n \in Nat : EspPad(h, n) \/ EspIv(h, n) \/ EspIcv(h, n) \/ \E key \in Keys : EspKey(h, key)
    BY <1>8, <2>2, <2>3
  <2> QED BY <2>4, <2>1, <1>2, EspOptionTyped
<1>9. ASSUME NEW name \in {"authesp", "cryptoesp"}, NEW loaded \in BOOLEAN, EspModule(name, loaded)
      PROVE  AuthTyped'
  <2>1. module = "esp"
    BY <1>9 DEF EspModule, AuthMore
  <2>2. pack \in EspPack
    BY <2>1, <1>2
  <2>3. pack' = [pack EXCEPT ![name] = TRUE] \/ pack' = [pack EXCEPT ![name] = FALSE]
    BY <1>9 DEF EspModule, Apply
  <2>4. pack'.esp = pack.esp
    BY <2>2, <2>3 DEF EspPack
  <2> QED BY <2>1, <2>4, <1>1 DEF AuthInv, AuthTyped
<1>10. ASSUME UNCHANGED vars PROVE AuthTyped'
  BY <1>10 DEF AuthInv, AuthTyped, vars
<1>11. AuthTyped'
  BY <1>4, <1>5, <1>6, <1>7, <1>8, <1>9, <1>10 DEF AuthNext
<1> QED BY <1>1, <1>11 DEF AuthInv

LEMMA AuthTypes == AuthInv => AuthTypeOK
<1> SUFFICES ASSUME AuthInv PROVE AuthTypeOK
  OBVIOUS
<1>1. ASSUME module = "esp"
      PROVE  /\ pack.esp \in Seq([iv : Seq({0, 1}), icv : Seq({0, 1}), key : Keys \union {<<>>},
                                 pad : Nat, alloc : Nat, mod : SUBSET {"padding"}])
             /\ pack.data \in Seq({0, 1}) /\ pack.left \in 0..2
  <2> DEFINE Laid == [iv : Seq({0, 1}), icv : Seq({0, 1}), key : Keys \union {<<>>},
                       pad : Nat, alloc : Nat, mod : SUBSET {"padding"}]
  <2>1. pack \in EspPack /\ \A h \in {1, 2} : EspBlockTyped(pack.esp[h])
    BY <1>1 DEF AuthInv, EspInv, AuthTyped
  <2>2. ASSUME NEW h \in {1, 2} PROVE pack.esp[h] \in Laid
    <3>1. pack.esp[h] \in EspPackBlock
      BY <2>1 DEF EspPack
    <3> QED BY <2>1, <3>1 DEF EspPackBlock, EspBlockTyped, Bit
  <2> HIDE DEF Laid
  <2>3. pack.esp \in [1..2 -> Laid]
    BY <2>1, <2>2 DEF EspPack
  <2>4. pack.esp \in Seq(Laid)
    <3>1. 2 \in Nat
      OBVIOUS
    <3> QED BY <2>3, <3>1, SeqDef
  <2> QED BY <2>1, <2>4 DEF EspPack, Bit, Laid
<1>2. module = "ah" => pack.mod \subseteq IpFields(pack.v) /\ DOMAIN pack.ip = IpFields(pack.v)
  BY DEF AuthInv, AhInv, AuthTyped
<1> QED BY <1>1, <1>2 DEF AuthTypeOK

-----------------------------------------------------------------------------
\* The composition: a behaviour builds one header, so the invariant of that header
\* holds, and no action of another is enabled.

HeadersInv ==
  \/ HopInv \/ GreInv \/ SctpInv \/ (BgpInv /\ BgpTyped(pack)) \/ AuthInv
  \/ IpInv \/ TcpInv \/ Ip6Inv \/ RipInv

LEMMA HopFrame == HopNext => module = "hop"
  BY DEF HopNext, HopPad0, HopArbitrary, HopNextHeader, HopRefused, HopFinalize, HopPadN, HopFixed
LEMMA GreFrame == GreNext => module = "gre"
  BY DEF GreNext, GreChecksum, GreComputed, GreOffset, GreProtocol, GreRefused, GreFinalize, GreField
LEMMA SctpFrame == SctpNext => module = "sctp"
  BY DEF SctpNext, SctpType, SctpFlags, SctpInitChunk, SctpWild, SctpAbort, SctpRefused, SctpFinalize,
         SctpData, SctpHostname, SctpAddresses, SctpLength, SctpParam, SctpMore
LEMMA BgpFrame == BgpNext => module = "bgp"
  BY DEF BgpNext, BgpNextHeader, BgpField, BgpGarbled, BgpRefused, BgpFinalize, BgpAttrCrash, BgpLength,
         BgpWithdrawnLen, BgpAttrLen, BgpNotification, BgpOpen, BgpOpenOpt, BgpAttr, BgpWithdraw, BgpNlri, BgpMore
LEMMA AuthOnly == AuthNext => module \in {"esp", "ah"}
  BY DEF AuthNext, EspField, EspFinalize, EspSent, AhModule, AhField, AhFinalize, AhIpFinalize, EspPad, EspIv,
         EspIcv, EspKey, EspModule, AhData, AhIpField, AuthMore
LEMMA IpFrame == IpNext => module = "ipv4"
  BY DEF IpNext, IpField, IpEol, IpNop, IpSid, IpGarbled, IpRefused, IpFinalize, IpHeaderLen, IpNum, IpRoute,
         IpTimestamp, IpAdd, IpMore
LEMMA TcpFrame == TcpNext => module = "tcp"
  BY DEF TcpNext, TcpAck, TcpUrgent, TcpField, TcpEol, TcpNop, TcpMss, TcpWscale, TcpSackOk, TcpSack,
         TcpSackCrash, TcpTimestamp, TcpRefused, TcpFinalize, TcpFlag, TcpOffset, TcpNum, TcpAdd, TcpMore
LEMMA Ip6Frame == Ip6Next => module \in {"ipv6", "frag", "wesp", "route"}
  BY DEF Ip6Next, Ip6Field, Ip6Finalize, FragField, WespField, RouteField, ExtFinalize, Ip6Version, Ip6Priority,
         Ip6Class, Ip6Ecn, Ip6Flow, FragOffset, FragFlags, WespPad, RouteAddrs, Ip6Set, Ip6More
LEMMA RipFrame == RipNext => module \in {"rip", "ripng"}
  BY DEF RipNext, RipSet, RipEntry, RipAuth, RipRequest, RipngRequest, RipRefused, RipFinalize, RipMore

\* The types of a hop-by-hop header.
LEMMA HopTypes == HopInv => HopTypeOK
  BY DEF HopInv, HopPack, HopTlv, HopTypeOK

LEMMA HeadersStart == Init => HeadersInv
  BY HopStart, GreStart, SctpStart, BgpStart, BgpTypedStart, AuthInvStart, IpStart, TcpStart, Ip6Start, RipStart
     DEF Init, HeadersInv

LEMMA HeadersStep == HeadersInv /\ [Next]_vars => HeadersInv'
<1> SUFFICES ASSUME HeadersInv, [Next]_vars PROVE HeadersInv'
  OBVIOUS
<1>1. \/ HopNext \/ GreNext \/ SctpNext \/ BgpNext \/ IpNext \/ TcpNext \/ Ip6Next \/ AuthNext \/ RipNext
      \/ UNCHANGED vars
  BY DEF Next
<1>2. /\ HopNext => module \in {"hop"}
      /\ GreNext => module \in {"gre"}
      /\ SctpNext => module \in {"sctp"}
      /\ BgpNext => module \in {"bgp"}
      /\ AuthNext => module \in {"esp", "ah"}
      /\ IpNext => module \in {"ipv4"}
      /\ TcpNext => module \in {"tcp"}
      /\ Ip6Next => module \in {"ipv6", "frag", "wesp", "route"}
      /\ RipNext => module \in {"rip", "ripng"}
  BY HopFrame, GreFrame, SctpFrame, BgpFrame, AuthOnly,
     IpFrame, TcpFrame, Ip6Frame, RipFrame
<1>3. ASSUME HopInv PROVE HeadersInv'
  <2>1. module \in {"hop"}
    BY <1>3 DEF HopInv
  <2>2. [HopNext]_vars
    BY <2>1, <1>1, <1>2
  <2> QED BY <2>2, <1>3, HopStep DEF HeadersInv
<1>4. ASSUME GreInv PROVE HeadersInv'
  <2>1. module \in {"gre"}
    BY <1>4 DEF GreInv
  <2>2. [GreNext]_vars
    BY <2>1, <1>1, <1>2
  <2> QED BY <2>2, <1>4, GreStep DEF HeadersInv
<1>5. ASSUME SctpInv PROVE HeadersInv'
  <2>1. module \in {"sctp"}
    BY <1>5 DEF SctpInv
  <2>2. [SctpNext]_vars
    BY <2>1, <1>1, <1>2
  <2> QED BY <2>2, <1>5, SctpStep DEF HeadersInv
<1>6. ASSUME BgpInv /\ BgpTyped(pack) PROVE HeadersInv'
  <2>1. module \in {"bgp"}
    BY <1>6 DEF BgpInv
  <2>2. [BgpNext]_vars
    BY <2>1, <1>1, <1>2
  <2> QED BY <2>2, <1>6, BgpStep, BgpTypedStep DEF HeadersInv
<1>7. ASSUME AuthInv PROVE HeadersInv'
  <2>1. module \in {"esp", "ah"}
    BY <1>7 DEF AuthInv
  <2>2. [AuthNext]_vars
    BY <2>1, <1>1, <1>2
  <2> QED BY <2>2, <1>7, AuthInvStep DEF HeadersInv
<1>8. ASSUME IpInv PROVE HeadersInv'
  <2>1. module \in {"ipv4"}
    BY <1>8 DEF IpInv
  <2>2. [IpNext]_vars
    BY <2>1, <1>1, <1>2
  <2> QED BY <2>2, <1>8, IpStep DEF HeadersInv
<1>9. ASSUME TcpInv PROVE HeadersInv'
  <2>1. module \in {"tcp"}
    BY <1>9 DEF TcpInv
  <2>2. [TcpNext]_vars
    BY <2>1, <1>1, <1>2
  <2> QED BY <2>2, <1>9, TcpStep DEF HeadersInv
<1>10. ASSUME Ip6Inv PROVE HeadersInv'
  <2>1. module \in {"ipv6", "frag", "wesp", "route"}
    BY <1>10 DEF Ip6Inv
  <2>2. [Ip6Next]_vars
    BY <2>1, <1>1, <1>2
  <2> QED BY <2>2, <1>10, Ip6Step DEF HeadersInv
<1>11. ASSUME RipInv PROVE HeadersInv'
  <2>1. module \in {"rip", "ripng"}
    BY <1>11 DEF RipInv
  <2>2. [RipNext]_vars
    BY <2>1, <1>1, <1>2
  <2> QED BY <2>2, <1>11, RipStep DEF HeadersInv
<1> QED BY <1>3, <1>4, <1>5, <1>6, <1>7, <1>8, <1>9, <1>10, <1>11 DEF HeadersInv

\* What the runs check of whatever header is built: its own invariant says it of
\* that header, and of the others there is nothing to say.
LEMMA HeadersProperties == HeadersInv => TypeOK /\ OptionsReadable /\ FieldsAsGiven
<1> SUFFICES ASSUME HeadersInv PROVE TypeOK /\ OptionsReadable /\ FieldsAsGiven
  OBVIOUS
<1>1. /\ (module \notin {"hop"} => HopTypeOK) /\ (module \notin {"gre"} => GreTypeOK)
      /\ (module \notin {"sctp"} => SctpTypeOK) /\ (module \notin {"bgp"} => BgpTypeOK)
      /\ (module \notin {"esp", "ah"} => AuthTypeOK)
      /\ (module \notin {"ipv4", "tcp"} => TlvTypeOK /\ OptionsReadable)
      /\ (module \notin {"ipv6", "frag", "wesp", "route"} => Ip6TypeOK /\ FieldsKept)
      /\ (module \notin {"tcp"} => TcpFlagsAsGiven)
      /\ (module \notin {"rip", "ripng"} => RipTypeOK /\ RipKept)
  BY DEF HopTypeOK, GreTypeOK, SctpTypeOK, BgpTypeOK, AuthTypeOK, TlvTypeOK, OptionsReadable,
         Ip6TypeOK, FieldsKept, TcpFlagsAsGiven, RipTypeOK, RipKept
<1>2. ASSUME HopInv PROVE TypeOK /\ OptionsReadable /\ FieldsAsGiven
  <2>1. module \in {"hop"}
    BY <1>2 DEF HopInv
  <2> QED BY <2>1, <1>1, <1>2, HopTypes DEF TypeOK, FieldsAsGiven
<1>3. ASSUME GreInv PROVE TypeOK /\ OptionsReadable /\ FieldsAsGiven
  <2>1. module \in {"gre"}
    BY <1>3 DEF GreInv
  <2> QED BY <2>1, <1>1, <1>3, GreTyped DEF TypeOK, FieldsAsGiven
<1>4. ASSUME SctpInv PROVE TypeOK /\ OptionsReadable /\ FieldsAsGiven
  <2>1. module \in {"sctp"}
    BY <1>4 DEF SctpInv
  <2> QED BY <2>1, <1>1, <1>4, SctpTyped DEF TypeOK, FieldsAsGiven
<1>5. ASSUME BgpInv /\ BgpTyped(pack) PROVE TypeOK /\ OptionsReadable /\ FieldsAsGiven
  <2>1. module \in {"bgp"}
    BY <1>5 DEF BgpInv
  <2> QED BY <2>1, <1>1, <1>5, BgpTypes DEF TypeOK, FieldsAsGiven
<1>6. ASSUME AuthInv PROVE TypeOK /\ OptionsReadable /\ FieldsAsGiven
  <2>1. module \in {"esp", "ah"}
    BY <1>6 DEF AuthInv
  <2> QED BY <2>1, <1>1, <1>6, AuthTypes DEF TypeOK, FieldsAsGiven
<1>7. ASSUME IpInv PROVE TypeOK /\ OptionsReadable /\ FieldsAsGiven
  <2>1. module \in {"ipv4"}
    BY <1>7 DEF IpInv
  <2> QED BY <2>1, <1>1, <1>7, TlvProperties DEF TypeOK, FieldsAsGiven
<1>8. ASSUME TcpInv PROVE TypeOK /\ OptionsReadable /\ FieldsAsGiven
  <2>1. module \in {"tcp"}
    BY <1>8 DEF TcpInv
  <2> QED BY <2>1, <1>1, <1>8, TlvProperties, TcpProperties DEF TypeOK, FieldsAsGiven
<1>9. ASSUME Ip6Inv PROVE TypeOK /\ OptionsReadable /\ FieldsAsGiven
  <2>1. module \in {"ipv6", "frag", "wesp", "route"}
    BY <1>9 DEF Ip6Inv
  <2> QED BY <2>1, <1>1, <1>9, Ip6Properties DEF TypeOK, FieldsAsGiven
<1>10. ASSUME RipInv PROVE TypeOK /\ OptionsReadable /\ FieldsAsGiven
  <2>1. module \in {"rip", "ripng"}
    BY <1>10 DEF RipInv
  <2> QED BY <2>1, <1>1, <1>10, RipProperties DEF TypeOK, FieldsAsGiven
<1> QED BY <1>2, <1>3, <1>4, <1>5, <1>6, <1>7, <1>8, <1>9, <1>10 DEF HeadersInv

\* Whatever header is built, its invariant is inductive: no option of another
\* module is taken on the way.
LEMMA HeadersInvariance == Spec => []HeadersInv
  BY HeadersStart, HeadersStep, PTL DEF Spec

\* Sizes, lengths and words stay in their ranges whatever header is built, for any
\* options with any values in any number (counters of 16 bits wrap around).
THEOREM HeadersTyped == Spec => []TypeOK
  BY HeadersInvariance, HeadersProperties, PTL

\* A receiver reads out of a finished ipv4 or tcp header each option given up to an
\* end of list, in order and nothing else, for any number of options of any sizes
\* as long as the four bits of the length hold them.
THEOREM TlvReadable == Spec => []OptionsReadable
  BY HeadersInvariance, HeadersProperties, PTL

\* For any sequence of options, whatever the other options did to the words they
\* share: the first word of a finished ipv6 header, offset and flags of frag (as
\* long as the numbers have 16 bits) and the flags of tcp are what the last option
\* for them gave, and a routing header has all addresses of the last list.  Every
\* option of rip and ripng for an entry made one, with the family, address, mask
\* and next hop (rip), the prefix, tag and length (ripng) of its argument or their
\* defaults, and the metric given for ripng; not the tag and metric of rip.
THEOREM SentAsGiven == Spec => []FieldsAsGiven
  BY HeadersInvariance, HeadersProperties, PTL
=============================================================================

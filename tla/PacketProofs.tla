-------------------------- MODULE PacketProofs --------------------------
(***************************************************************************)
(* For every chain of headers, every option sequence and all lengths: the  *)
(* assembly of a packet stays inside its block and implements Assembly.    *)
(***************************************************************************)
EXTENDS Packet, TLAPS

\* Room an ESP header holds beyond SPI and sequence number, until it is
\* finalized.
Room(j) == EspLen + iv[j] + icv[j]
           + IF j \in padset /\ pad[j] > ESP_MIN_PADDING THEN pad[j] - ESP_MIN_PADDING ELSE 0

Building == pc \in {"options", "size", "copy"}

Reserve == \A j \in esp : Building \/ j <= k => len[j] >= Room(j)

\* cum holds the running sums of the lengths below header n.
Sums(n) == \A j \in 1 .. n : cum[j + 1] = cum[j] + len[j]

OptionsInv  == pc = "options" => k = 1 /\ total = 0
SizeInv     == pc = "size" => /\ k >= 1 /\ cum[k] = total /\ Sums(k - 1)
                              /\ \A j \in 1 .. k : cum[j] <= total
CopyInv     == pc = "copy" => /\ k >= 1 /\ pos = cum[k] /\ Sums(N)
                              /\ cum[N + 1] + datalen = total
                              /\ \A j \in 1 .. (N + 1) : cum[j] + datalen <= total
                              /\ \A j \in 1 .. (k - 1) : off[j] = cum[j]
FinalizeInv == pc = "finalize" => /\ k <= N /\ Sums(k)
                                  /\ \A j \in 1 .. k : off[j] = cum[j]
                                  /\ dstart = cum[k + 1] /\ dstart + dlen <= total
DoneInv     == pc = "done" => dstart = 0 /\ sendlen = dlen /\ dlen <= total
HighInv     == high <= total /\ (Building => high = 0)

Inv == /\ TypeOK /\ Reserve /\ cum[1] = 0
       /\ OptionsInv /\ SizeInv /\ CopyInv /\ FinalizeInv /\ DoneInv /\ HighInv


\* Every length a command line can bring in is a natural number.
LEMMA LengthsNat ==
  \A n \in PadLens \cup VarLens \cup HeaderLens \cup DataLens : n \in Nat
  BY LenAssumption

\* The automatic padding is below the preallocated bytes and aligns.
LEMMA AutoPadBound ==
  ASSUME NEW n \in Nat
  PROVE  AutoPad(n) \in 0 .. 3 /\ (n + AutoPad(n) + 2) % 4 = 0
  BY DEF AutoPad

LEMMA InitInv == Init => Inv
<1> SUFFICES ASSUME Init PROVE Inv
  OBVIOUS
<1>0. HeaderLens \cup {EspLen} \subseteq Nat /\ DataLens \subseteq Nat
  BY LengthsNat DEF EspLen, ESP_MIN_PADDING
<1>1. TypeOK
  BY <1>0, NAssumption DEF Init, TypeOK
<1>2. Reserve
  BY DEF Init, Reserve, Room, EspLen, ESP_MIN_PADDING, Headers
<1>3. QED
  BY <1>1, <1>2 DEF Init, Inv, OptionsInv, SizeInv, CopyInv, FinalizeInv, DoneInv,
                    HighInv, Building, TypeOK

\* An option of an ESP header adds at least the room it asks for.
LEMMA OptionInv ==
  ASSUME Inv, NEW j \in Headers, NEW n \in Nat,
         EspPadding(j, n) \/ EspIV(j, n) \/ EspICV(j, n) \/ HeaderOption(j, n)
  PROVE  Inv'
<1>1. /\ TypeOK /\ Reserve /\ pc = "options" /\ Option /\ esp' = esp
  BY DEF Inv, Option, EspPadding, EspIV, EspICV, HeaderOption
<1>2. TypeOK'
  <2>0. /\ len \in [Headers -> Nat] /\ pad \in [Headers -> Nat] /\ iv \in [Headers -> Nat]
        /\ icv \in [Headers -> Nat] /\ len[j] \in Nat /\ padset \subseteq Headers
    BY <1>1 DEF TypeOK
  <2>1. CASE EspPadding(j, n)
    <3>1. ExtraPad(n) \in Nat
      BY DEF ExtraPad, ESP_MIN_PADDING
    <3>2. /\ len' = [len EXCEPT ![j] = @ + ExtraPad(n)] /\ pad' = [pad EXCEPT ![j] = n]
          /\ padset' = padset \cup {j} /\ UNCHANGED <<iv, icv>>
      BY <2>1 DEF EspPadding
    <3>3. len' \in [Headers -> Nat] /\ pad' \in [Headers -> Nat] /\ padset' \subseteq Headers
      BY <2>0, <3>1, <3>2
    <3>4. QED
      BY <1>1, <3>2, <3>3 DEF TypeOK, Option
  <2>2. CASE EspIV(j, n)
    BY <1>1, <2>2 DEF TypeOK, Option, EspIV
  <2>3. CASE EspICV(j, n)
    BY <1>1, <2>3 DEF TypeOK, Option, EspICV
  <2>4. CASE HeaderOption(j, n)
    BY <1>1, <2>4 DEF TypeOK, Option, HeaderOption
  <2>5. QED
    BY <2>1, <2>2, <2>3, <2>4
<1>3. ASSUME NEW i \in esp PROVE len'[i] >= Room(i)'
  <2>1. /\ len[i] >= Room(i) /\ i \in Headers /\ len[i] \in Nat
        /\ pad[i] \in Nat /\ iv[i] \in Nat /\ icv[i] \in Nat
    BY <1>1 DEF Reserve, Building, TypeOK
  <2>0. /\ len \in [Headers -> Nat] /\ pad \in [Headers -> Nat] /\ iv \in [Headers -> Nat]
        /\ icv \in [Headers -> Nat]
    BY <1>1 DEF TypeOK
  <2> DEFINE extra == IF i \in padset /\ pad[i] > 4 THEN pad[i] - 4 ELSE 0
  <2>r. Room(i) = 16 + iv[i] + icv[i] + extra /\ extra \in Nat
    BY <2>1 DEF Room, EspLen, ESP_MIN_PADDING
  <2>2. CASE EspPadding(j, n)
    <3>1. /\ len' = [len EXCEPT ![j] = @ + ExtraPad(n)] /\ pad' = [pad EXCEPT ![j] = n]
          /\ padset' = padset \cup {j} /\ iv' = iv /\ icv' = icv
      BY <2>2 DEF EspPadding
    <3>2. CASE i = j
      <4>1. len'[i] = len[i] + ExtraPad(n) /\ pad'[i] = n /\ i \in padset'
        BY <2>0, <2>1, <3>1, <3>2
      <4>2. Room(i)' = 16 + iv[i] + icv[i] + ExtraPad(n) /\ ExtraPad(n) \in Nat
        BY <2>1, <3>1, <4>1 DEF Room, EspLen, ESP_MIN_PADDING, ExtraPad
      <4> HIDE DEF extra
      <4>3. QED
        BY <2>1, <2>r, <4>1, <4>2
    <3>3. CASE i # j
      <4>1. len'[i] = len[i] /\ pad'[i] = pad[i] /\ (i \in padset' <=> i \in padset)
        BY <2>0, <2>1, <3>1, <3>3
      <4>2. Room(i)' = Room(i)
        BY <3>1, <4>1 DEF Room
      <4>3. QED
        BY <2>1, <4>1, <4>2
    <3>4. QED
      BY <3>2, <3>3
  <2>3. CASE EspIV(j, n)
    <3>1. /\ len' = [len EXCEPT ![j] = @ + n] /\ iv' = [iv EXCEPT ![j] = n]
          /\ pad' = pad /\ padset' = padset /\ icv' = icv
      BY <2>3 DEF EspIV
    <3>2. Room(i)' = 16 + iv'[i] + icv[i] + extra
      BY <3>1 DEF Room, EspLen, ESP_MIN_PADDING
    <3> HIDE DEF extra
    <3>3. CASE i = j
      <4>1. len'[i] = len[i] + n /\ iv'[i] = n
        BY <2>0, <2>1, <3>1, <3>3
      <4>2. QED
        BY <2>1, <2>r, <3>2, <4>1
    <3>4. CASE i # j
      <4>1. len'[i] = len[i] /\ iv'[i] = iv[i]
        BY <2>0, <2>1, <3>1, <3>4
      <4>2. QED
        BY <2>1, <2>r, <3>2, <4>1
    <3>5. QED
      BY <3>3, <3>4
  <2>4. CASE EspICV(j, n)
    <3>1. /\ len' = [len EXCEPT ![j] = @ + n] /\ icv' = [icv EXCEPT ![j] = n]
          /\ pad' = pad /\ padset' = padset /\ iv' = iv
      BY <2>4 DEF EspICV
    <3>2. Room(i)' = 16 + iv[i] + icv'[i] + extra
      BY <3>1 DEF Room, EspLen, ESP_MIN_PADDING
    <3> HIDE DEF extra
    <3>3. CASE i = j
      <4>1. len'[i] = len[i] + n /\ icv'[i] = n
        BY <2>0, <2>1, <3>1, <3>3
      <4>2. QED
        BY <2>1, <2>r, <3>2, <4>1
    <3>4. CASE i # j
      <4>1. len'[i] = len[i] /\ icv'[i] = icv[i]
        BY <2>0, <2>1, <3>1, <3>4
      <4>2. QED
        BY <2>1, <2>r, <3>2, <4>1
    <3>5. QED
      BY <3>3, <3>4
  <2>5. CASE HeaderOption(j, n)
    BY <1>1, <2>1, <2>5 DEF TypeOK, Room, HeaderOption, EspLen, ESP_MIN_PADDING
  <2>6. QED
    BY <2>2, <2>3, <2>4, <2>5
<1>4. QED
  BY <1>1, <1>2, <1>3 DEF Inv, Option, Reserve, OptionsInv, SizeInv, CopyInv, FinalizeInv,
                          DoneInv, HighInv, Building

\* The steps between the options and finalization leave the headers alone.
LEMMA ReserveKept ==
  ASSUME Inv, OptionsEnd \/ Size \/ Malloc \/ CopyHeader \/ CopyData
  PROVE  Reserve' /\ HighInv'
<1>1. UNCHANGED <<esp, len, pad, padset, iv, icv, high>> /\ Building /\ Reserve
  BY DEF OptionsEnd, Size, Malloc, CopyHeader, CopyData, optvars, Building, Inv
<1>2. Reserve'
  BY <1>1 DEF Reserve, Room
<1>3. total \in Nat /\ total' \in Nat
  <2>1. total \in Nat /\ datalen \in Nat /\ k \in Nat /\ (k \in Headers => len[k] \in Nat)
    BY DEF Inv, TypeOK
  <2>2. CASE Size
    <3>1. k \in Headers
      BY <2>1, <2>2 DEF Size, Inv, SizeInv, Headers
    <3>2. total' = total + len[k]
      BY <2>2 DEF Size
    <3>3. QED
      BY <2>1, <3>1, <3>2
  <2>3. CASE Malloc
    BY <2>1, <2>3 DEF Malloc, BlockSize
  <2>4. CASE OptionsEnd \/ CopyHeader \/ CopyData
    BY <2>1, <2>4 DEF OptionsEnd, CopyHeader, CopyData
  <2>5. QED
    BY <2>2, <2>3, <2>4
<1>4. QED
  BY <1>1, <1>2, <1>3 DEF Inv, HighInv, Building

LEMMA OptionsEndInv == Inv /\ OptionsEnd => Inv'
<1> SUFFICES ASSUME Inv, OptionsEnd PROVE Inv'
  OBVIOUS
<1>1. TypeOK'
  BY DEF Inv, TypeOK, OptionsEnd, optvars
<1>2. QED
  BY <1>1, ReserveKept DEF Inv, OptionsEnd, optvars, OptionsInv, SizeInv, Sums, CopyInv,
                           FinalizeInv, DoneInv, TypeOK

\* The first loop builds the running sums.
LEMMA SizeStepInv == Inv /\ Size => Inv'
<1> SUFFICES ASSUME Inv, Size PROVE Inv'
  OBVIOUS
<1>1. /\ TypeOK /\ k >= 1 /\ pc = "size" /\ k' = k + 1 /\ total' = total + len[k]
      /\ UNCHANGED <<pc, esp, len, pad, padset, iv, icv, nopts, datalen, pos, off, dstart,
                     dlen, high, sendlen>>
  BY DEF Inv, SizeInv, Size, optvars
<1>2. k \in Headers /\ len[k] \in Nat /\ total \in Nat
  BY <1>1 DEF TypeOK, Size, Headers
<1>3. total' \in Nat /\ total' >= total /\ k' \in 0 .. (N + 1)
  BY <1>1, <1>2, NAssumption DEF Headers
<1>4. /\ cum' \in [1 .. (N + 1) -> Nat] /\ cum'[k + 1] = total'
      /\ \A j \in 1 .. k : cum'[j] = cum[j]
  <2>1. cum' = [cum EXCEPT ![k + 1] = total'] /\ cum \in [1 .. (N + 1) -> Nat]
    BY DEF Size, Inv, TypeOK
  <2>2. k + 1 \in 1 .. (N + 1) /\ \A j \in 1 .. k : j \in 1 .. (N + 1) /\ j # k + 1
    BY <1>2, NAssumption DEF Headers
  <2>3. QED
    BY <1>3, <2>1, <2>2
<1>5. TypeOK'
  BY <1>1, <1>3, <1>4 DEF TypeOK
<1>6. SizeInv'
  <2>1. cum[k] = total /\ Sums(k - 1) /\ \A j \in 1 .. k : cum[j] <= total
    BY <1>1 DEF Inv, SizeInv
  <2>2. \A j \in 1 .. k : cum'[j + 1] = cum'[j] + len[j]
    <3>1. SUFFICES ASSUME NEW j \in 1 .. k PROVE cum'[j + 1] = cum'[j] + len[j]
      OBVIOUS
    <3>2. CASE j = k
      BY <1>1, <1>2, <1>4, <2>1, <3>2 DEF Headers
    <3>3. CASE j # k
      <4>1. j \in 1 .. (k - 1) /\ j + 1 \in 1 .. k
        BY <3>3, <1>2 DEF Headers
      <4>2. QED
        BY <4>1, <1>4, <2>1 DEF Sums
    <3>4. QED
      BY <3>2, <3>3
  <2>3. \A j \in 1 .. (k + 1) : cum'[j] <= total'
    <3>1. SUFFICES ASSUME NEW j \in 1 .. (k + 1) PROVE cum'[j] <= total'
      OBVIOUS
    <3>2. CASE j = k + 1
      BY <1>3, <1>4, <3>2
    <3>3. CASE j # k + 1
      <4>1. j \in 1 .. k /\ j \in 1 .. (N + 1)
        BY <3>3, <1>2, NAssumption DEF Headers
      <4>2. cum[j] \in Nat /\ cum[j] <= total /\ cum'[j] = cum[j]
        BY <4>1, <1>1, <1>4, <2>1 DEF TypeOK
      <4>3. QED
        BY <4>2, <1>2, <1>3
    <3>4. QED
      BY <3>2, <3>3
  <2>4. k' - 1 = k /\ k' >= 1
    BY <1>1, <1>2 DEF Headers
  <2>5. Sums(k - 1)'
    BY <1>1, <2>2, <2>4 DEF Sums
  <2>6. QED
    BY <1>1, <1>4, <2>3, <2>4, <2>5 DEF SizeInv
<1>7. cum'[1] = 0
  BY <1>2, <1>4 DEF Inv, Headers
<1>8. QED
  BY <1>1, <1>5, <1>6, <1>7, ReserveKept
     DEF Inv, OptionsInv, CopyInv, FinalizeInv, DoneInv

LEMMA MallocInv == Inv /\ Malloc => Inv'
<1> SUFFICES ASSUME Inv, Malloc PROVE Inv'
  OBVIOUS
<1>1. /\ TypeOK /\ k = N + 1 /\ pc = "size" /\ pc' = "copy" /\ k' = 1 /\ pos' = 0
      /\ total' = total + datalen
      /\ UNCHANGED <<esp, len, pad, padset, iv, icv, nopts, datalen, cum, off, dstart, dlen,
                     high, sendlen>>
  BY NAssumption DEF Inv, TypeOK, Malloc, BlockSize, optvars
<1>2. TypeOK'
  BY <1>1, NAssumption DEF TypeOK
<1>3. CopyInv'
  <2>1. cum[N + 1] = total /\ Sums(N) /\ \A j \in 1 .. (N + 1) : cum[j] <= total
    BY <1>1, NAssumption DEF Inv, SizeInv
  <2>2. ASSUME NEW j \in 1 .. (N + 1) PROVE cum[j] + datalen <= total + datalen
    <3>1. cum[j] \in Nat /\ datalen \in Nat /\ total \in Nat /\ cum[j] <= total
      BY <1>1, <2>1 DEF TypeOK
    <3>2. QED
      BY <3>1
  <2>3. Sums(N)'
    BY <1>1, <2>1 DEF Sums
  <2>4. QED
    BY <1>1, <2>1, <2>2, <2>3 DEF CopyInv, Inv
<1>4. QED
  BY <1>1, <1>2, <1>3, ReserveKept DEF Inv, OptionsInv, SizeInv, FinalizeInv, DoneInv

\* The second loop puts header k where the first one counted it.
LEMMA CopyHeaderInv == Inv /\ CopyHeader => Inv'
<1> SUFFICES ASSUME Inv, CopyHeader PROVE Inv'
  OBVIOUS
<1>1. /\ TypeOK /\ k >= 1 /\ pc = "copy" /\ k' = k + 1 /\ pos' = pos + len[k]
      /\ off' = [off EXCEPT ![k] = pos] /\ k <= N
      /\ UNCHANGED <<pc, esp, len, pad, padset, iv, icv, nopts, datalen, total, cum, dstart,
                     dlen, high, sendlen>>
  BY DEF Inv, CopyInv, CopyHeader, optvars
<1>2. k \in Headers /\ len[k] \in Nat /\ pos \in Nat
  BY <1>1 DEF TypeOK, Headers
<1>3. TypeOK'
  <2>1. k' \in 0 .. (N + 1) /\ pos' \in Nat
    BY <1>1, <1>2, NAssumption DEF Headers
  <2>2. off' \in [Headers -> Nat]
    BY <1>1, <1>2 DEF TypeOK
  <2>3. QED
    BY <1>1, <2>1, <2>2 DEF TypeOK
<1>4. CopyInv'
  <2>1. pos = cum[k] /\ Sums(N) /\ \A j \in 1 .. (k - 1) : off[j] = cum[j]
    BY <1>1 DEF Inv, CopyInv
  <2>2. pos' = cum[k + 1]
    BY <1>1, <1>2, <2>1 DEF Sums, Headers
  <2>3. \A j \in 1 .. k : off'[j] = cum[j]
    BY <1>1, <1>2, <2>1 DEF TypeOK, Headers
  <2>4. Sums(N)' /\ k' >= 1 /\ k' - 1 = k
    BY <1>1, <1>2, <2>1 DEF Sums, Headers
  <2>5. QED
    BY <1>1, <2>2, <2>3, <2>4 DEF Inv, CopyInv
<1>5. QED
  BY <1>1, <1>3, <1>4, ReserveKept DEF Inv, OptionsInv, SizeInv, FinalizeInv, DoneInv

LEMMA CopyDataInv == Inv /\ CopyData => Inv'
<1> SUFFICES ASSUME Inv, CopyData PROVE Inv'
  OBVIOUS
<1>1. /\ TypeOK /\ k = N + 1 /\ pc = "copy" /\ pc' = "finalize" /\ k' = N
      /\ dstart' = total - datalen /\ dlen' = datalen
      /\ UNCHANGED <<esp, len, pad, padset, iv, icv, nopts, datalen, total, cum, pos, off,
                     high, sendlen>>
  BY NAssumption DEF Inv, TypeOK, CopyData, optvars
<1>2. /\ cum[N + 1] + datalen = total /\ Sums(N) /\ \A j \in 1 .. N : off[j] = cum[j]
      /\ cum[N + 1] \in Nat /\ datalen \in Nat /\ total \in Nat
  BY <1>1, NAssumption DEF Inv, CopyInv, TypeOK
<1>3. dstart' = cum[N + 1] /\ dstart' + dlen' <= total
  BY <1>1, <1>2
<1>4. TypeOK'
  BY <1>1, <1>2, <1>3, NAssumption DEF TypeOK
<1>5. FinalizeInv'
  BY <1>1, <1>2, <1>3, NAssumption DEF FinalizeInv, Sums
<1>6. QED
  BY <1>1, <1>4, <1>5, ReserveKept DEF Inv, OptionsInv, SizeInv, CopyInv, DoneInv

\* What finalization knows about the header it is at.
LEMMA AtHeader ==
  ASSUME Inv, pc = "finalize", k \in Headers
  PROVE  /\ dstart = off[k] + len[k] /\ off[k] = cum[k] /\ dstart + dlen <= total
         /\ off[k] \in Nat /\ len[k] \in Nat /\ dlen \in Nat /\ total \in Nat
         /\ iv[k] \in Nat /\ icv[k] \in Nat /\ pad[k] \in Nat /\ dstart \in Nat
         /\ k - 1 <= N /\ k - 1 \in 0 .. (N + 1) /\ (k - 1) + 1 = k
<1>1. k \in 1 .. N /\ k \in 1 .. k /\ k + 1 \in 1 .. (N + 1)
  BY NAssumption DEF Headers
<1>2. /\ off[k] \in Nat /\ len[k] \in Nat /\ dlen \in Nat /\ total \in Nat
      /\ iv[k] \in Nat /\ icv[k] \in Nat /\ pad[k] \in Nat /\ dstart \in Nat
  BY DEF Inv, TypeOK
<1>3. /\ \A j \in 1 .. k : cum[j + 1] = cum[j] + len[j] /\ off[j] = cum[j]
      /\ dstart = cum[k + 1] /\ dstart + dlen <= total
  BY DEF Inv, FinalizeInv, Sums
<1>4. dstart = off[k] + len[k] /\ off[k] = cum[k]
  BY <1>1, <1>3
<1>5. k - 1 <= N /\ k - 1 \in 0 .. (N + 1) /\ (k - 1) + 1 = k
  BY <1>1, NAssumption
<1>6. QED
  BY <1>2, <1>3, <1>4, <1>5

\* The reserve is what the trailer needs.
LEMMA TrailerRoom ==
  ASSUME Inv, pc = "finalize", k \in esp
  PROVE  TrailerPad(k) \in Nat /\ EspEnd(k) \in Nat /\ EspEnd(k) <= total
<1>1. k \in Headers
  BY DEF Inv, TypeOK
<1>2. AutoPad(dlen + iv[k]) \in 0 .. 3
  BY <1>1, AtHeader, AutoPadBound
<1>3. len[k] >= Room(k)
  BY <1>1, AtHeader DEF Inv, Reserve
<1>4. QED
  BY <1>1, <1>2, <1>3, AtHeader
     DEF Room, TrailerPad, EspEnd, EspHdrLen, EspLen, ESP_MIN_PADDING

\* Finalizing one header keeps the geometry of the ones outside of it.
LEMMA OuterKept ==
  ASSUME Inv, pc = "finalize", k \in Headers, k' = k - 1,
         UNCHANGED <<pc, esp, iv, icv, padset, cum, off, total>>,
         \A j \in 1 .. (k - 1) : len'[j] = len[j] /\ pad'[j] = pad[j],
         dstart' = off[k], dstart' + dlen' <= total
  PROVE  FinalizeInv' /\ Reserve'
<1>1. Sums(k) /\ \A j \in 1 .. k : off[j] = cum[j]
  BY DEF Inv, FinalizeInv
<1>2. FinalizeInv'
  BY <1>1, AtHeader DEF FinalizeInv, Sums, Headers
<1>3. ASSUME NEW j \in esp, j <= k - 1
      PROVE  len'[j] >= Room(j)'
  <2>1. j \in 1 .. (k - 1) /\ len[j] >= Room(j)
    BY <1>3 DEF Inv, Reserve, TypeOK, Headers
  <2>2. QED
    BY <2>1 DEF Room
<1>4. QED
  BY <1>2, <1>3 DEF Reserve, Building

LEMMA EspFinalizeInv == Inv /\ EspFinalize => Inv'
<1> SUFFICES ASSUME Inv, EspFinalize PROVE Inv'
  OBVIOUS
<1>1. /\ TypeOK /\ pc = "finalize" /\ k \in esp /\ k \in Headers /\ k' = k - 1
      /\ high' = EspEnd(k)
      /\ UNCHANGED <<pc, esp, padset, iv, icv, nopts, datalen, total, cum, pos, off, sendlen>>
  BY DEF Inv, EspFinalize, TypeOK
<1>2. TrailerPad(k) \in Nat /\ EspEnd(k) \in Nat /\ EspEnd(k) <= total
  BY <1>1, TrailerRoom
<1>3. /\ len' \in [Headers -> Nat] /\ pad' \in [Headers -> Nat] /\ len'[k] = EspHdrLen
      /\ \A j \in 1 .. (k - 1) : len'[j] = len[j] /\ pad'[j] = pad[j]
  BY <1>1, <1>2 DEF EspFinalize, MovedTo, TypeOK, EspHdrLen, Headers
<1>4. dstart' = off[k] /\ dstart' + dlen' = EspEnd(k) /\ dlen' \in Nat
  BY <1>1, <1>2, <1>3, AtHeader DEF EspFinalize, MovedTo, EspEnd, EspHdrLen
<1>5. FinalizeInv' /\ Reserve'
  BY <1>1, <1>2, <1>3, <1>4, OuterKept
<1>6. TypeOK'
  BY <1>1, <1>2, <1>3, <1>4, AtHeader DEF TypeOK
<1>7. QED
  BY <1>1, <1>2, <1>5, <1>6 DEF Inv, OptionsInv, SizeInv, CopyInv, DoneInv, HighInv, Building

LEMMA HeaderFinalizeInv == Inv /\ HeaderFinalize => Inv'
<1> SUFFICES ASSUME Inv, HeaderFinalize PROVE Inv'
  OBVIOUS
<1>1. /\ TypeOK /\ pc = "finalize" /\ k \in Headers /\ k' = k - 1
      /\ dstart' = dstart - len[k] /\ dlen' = dlen + len[k]
      /\ UNCHANGED <<pc, esp, len, pad, padset, iv, icv, nopts, datalen, total, cum, pos, off,
                     high, sendlen>>
  BY DEF Inv, HeaderFinalize, optvars
<1>2. dstart' = off[k] /\ dstart' + dlen' <= total /\ dlen' \in Nat
  BY <1>1, AtHeader
<1>3. FinalizeInv' /\ Reserve'
  BY <1>1, <1>2, OuterKept
<1>4. TypeOK'
  BY <1>1, <1>2, AtHeader DEF TypeOK
<1>5. QED
  BY <1>1, <1>3, <1>4 DEF Inv, OptionsInv, SizeInv, CopyInv, DoneInv, HighInv, Building

LEMMA TrimInv == Inv /\ Trim => Inv'
<1> SUFFICES ASSUME Inv, Trim PROVE Inv'
  OBVIOUS
<1>1. /\ TypeOK /\ pc = "finalize" /\ k = 0 /\ pc' = "done"
      /\ UNCHANGED <<esp, len, pad, padset, iv, icv, nopts, datalen, k, total, cum, pos, off,
                     dstart, dlen, high>>
  BY DEF Inv, Trim, optvars
<1>2. dstart = 0 /\ dlen <= total /\ dlen \in Nat /\ total \in Nat
  BY <1>1 DEF Inv, FinalizeInv, TypeOK
<1>3. sendlen' = dlen
  BY <1>2 DEF Trim, Trimmed
<1>4. TypeOK' /\ DoneInv'
  BY <1>1, <1>2, <1>3 DEF TypeOK, DoneInv
<1>5. Reserve'
  BY <1>1 DEF Inv, Reserve, Room, Building
<1>6. QED
  BY <1>1, <1>4, <1>5 DEF Inv, OptionsInv, SizeInv, CopyInv, FinalizeInv, HighInv, Building

LEMMA StepInv == Inv /\ [Next]_vars => Inv'
<1> SUFFICES ASSUME Inv, [Next]_vars PROVE Inv'
  OBVIOUS
<1>1. CASE UNCHANGED vars
  BY <1>1 DEF vars, optvars, Inv, TypeOK, Reserve, Room, Building, Sums, OptionsInv, SizeInv,
              CopyInv, FinalizeInv, DoneInv, HighInv
<1>2. CASE Next
  BY <1>1, <1>2, LengthsNat, OptionInv, OptionsEndInv, SizeStepInv, MallocInv, CopyHeaderInv,
     CopyDataInv, EspFinalizeInv, HeaderFinalizeInv, TrimInv DEF Next, Done
<1>3. QED
  BY <1>1, <1>2

\* The inductive invariant of the assembly.
THEOREM Invariance == Spec => []Inv
  BY InitInv, StepInv, PTL DEF Spec

\* The variables keep their types: no length becomes negative.
THEOREM TypeCorrect == Spec => []TypeOK
<1>1. Inv => TypeOK
  BY DEF Inv
<1>2. QED
  BY <1>1, Invariance, PTL

\* No memcpy() of the assembly leaves the block.
THEOREM CopiesStayInside == Spec => []CopiesFit
<1>1. Inv => CopiesFit
  <2> SUFFICES ASSUME Inv, pc = "copy"
               PROVE  pos + (IF k <= N THEN len[k] ELSE datalen) <= total
    BY DEF CopiesFit
  <2>0. TypeOK /\ CopyInv /\ k \in 1 .. (N + 1) /\ datalen \in Nat
    BY DEF Inv, CopyInv, TypeOK
  <2>1. CASE k <= N
    <3>1. k \in Headers /\ k + 1 \in 1 .. (N + 1)
      BY <2>0, <2>1, NAssumption DEF Headers
    <3>2. pos + len[k] = cum[k + 1] /\ cum[k + 1] \in Nat /\ cum[k + 1] + datalen <= total
      BY <2>0, <3>1 DEF CopyInv, Sums, TypeOK, Headers
    <3>3. QED
      BY <2>0, <2>1, <3>2 DEF TypeOK
  <2>2. CASE k > N
    BY <2>0, <2>2, NAssumption DEF CopyInv
  <2>3. QED
    BY <2>0, <2>1, <2>2, NAssumption
<1>2. QED
  BY <1>1, Invariance, PTL

\* Every finalize() gets its own header and, right behind it, the inner part.
THEOREM FinalizeSeesAdjacentData == Spec => []DataAbutsHeader
<1>1. Inv => DataAbutsHeader
  <2> SUFFICES ASSUME Inv, pc = "finalize"
               PROVE  dstart + dlen <= total /\ (k >= 1 => dstart = off[k] + len[k])
    BY DEF DataAbutsHeader
  <2>1. dstart + dlen <= total /\ (k >= 1 => k \in Headers)
    BY DEF Inv, FinalizeInv, TypeOK, Headers
  <2>2. QED
    BY <2>1, AtHeader
<1>2. QED
  BY <1>1, Invariance, PTL

\* The ESP trailer never leaves the block: finalize never expands the packet.
THEOREM TrailerStaysInside == Spec => []TrailerFits
<1>1. Inv => TrailerFits
  BY TrailerRoom DEF Inv, HighInv, TrailerFits
<1>2. QED
  BY <1>1, Invariance, PTL

\* What is sent begins at the first header and is no longer than the block.
THEOREM WholePacketSent == Spec => []SendsWholePacket
<1>1. Inv => SendsWholePacket
  BY DEF Inv, DoneInv, SendsWholePacket
<1>2. QED
  BY <1>1, Invariance, PTL

\* Automatic ESP padding aligns the trailer, whatever the IV and the data.
THEOREM PaddingAligns == Spec => EspAligned
<1>1. Inv /\ [Next]_vars
      => [EspFinalize /\ k \notin padset => (iv[k] + dlen + pad'[k] + 2) % 4 = 0]_vars
  <2> SUFFICES ASSUME Inv, EspFinalize, k \notin padset
               PROVE  (iv[k] + dlen + pad'[k] + 2) % 4 = 0
    OBVIOUS
  <2>1. k \in Headers /\ iv[k] \in Nat /\ dlen \in Nat /\ pad'[k] = AutoPad(dlen + iv[k])
    <3>1. esp \subseteq Headers /\ pad \in [Headers -> Nat] /\ iv \in [Headers -> Nat]
          /\ dlen \in Nat
      BY DEF Inv, TypeOK
    <3>2. k \in esp /\ pad' = [pad EXCEPT ![k] = TrailerPad(k)]
      BY DEF EspFinalize
    <3>3. TrailerPad(k) = AutoPad(dlen + iv[k])
      BY DEF TrailerPad
    <3>4. QED
      BY <3>1, <3>2, <3>3
  <2>2. ((dlen + iv[k]) + AutoPad(dlen + iv[k]) + 2) % 4 = 0 /\ AutoPad(dlen + iv[k]) \in Nat
    <3>1. dlen + iv[k] \in Nat
      BY <2>1
    <3>2. AutoPad(dlen + iv[k]) \in 0 .. 3 /\ ((dlen + iv[k]) + AutoPad(dlen + iv[k]) + 2) % 4 = 0
      BY <3>1, AutoPadBound
    <3>3. QED
      BY <3>2
  <2>3. iv[k] + dlen + pad'[k] + 2 = (dlen + iv[k]) + AutoPad(dlen + iv[k]) + 2
    BY <2>1, <2>2
  <2>4. QED
    BY <2>2, <2>3
<1>2. QED
  BY <1>1, Invariance, PTL DEF Spec, EspAligned

\* The packet assembly implements the contract main() relies on: every step is
\* a step of Assembly or leaves its variables alone.
THEOREM Refinement == Spec => ImplementsAssembly
<1> USE DEF Abstract!avars
<1>1. Init => Abstract!AInit
  BY DEF Init, Abstract!AInit
<1>2. Inv /\ Inv' /\ [Next]_vars => [Abstract!ANext]_(Abstract!avars)
  <2> SUFFICES ASSUME Inv, Inv', [Next]_vars PROVE [Abstract!ANext]_(Abstract!avars)
    OBVIOUS
  <2> USE DEF Abstract!ANext
  <2>1. CASE \E j \in Headers : \/ \E n \in PadLens : EspPadding(j, n)
                                \/ \E n \in VarLens : EspIV(j, n) \/ EspICV(j, n)
                                \/ \E n \in HeaderLens : HeaderOption(j, n)
    <3>1. Option
      BY <2>1 DEF EspPadding, EspIV, EspICV, HeaderOption
    <3>2. QED
      BY <3>1 DEF Option
  <2>2. CASE OptionsEnd \/ Size \/ Malloc \/ CopyHeader
    <3>1. /\ pc \in {"options", "size", "copy"} /\ pc' \in {"options", "size", "copy"}
      BY <2>2 DEF OptionsEnd, Size, Malloc, CopyHeader
    <3>4. total \in Nat /\ total' \in Nat /\ total' >= total
      <4>1. total \in Nat /\ datalen \in Nat /\ total' \in Nat
        BY DEF Inv, TypeOK
      <4>2. CASE Size
        <5>1. len[k] \in Nat
          BY <4>2 DEF Size, Inv, SizeInv, TypeOK, Headers
        <5>2. QED
          BY <4>1, <4>2, <5>1 DEF Size
      <4>3. CASE OptionsEnd \/ Malloc \/ CopyHeader
        BY <4>1, <4>3 DEF OptionsEnd, Malloc, BlockSize, CopyHeader
      <4>4. QED
        BY <2>2, <4>2, <4>3
    <3>2. Abstract!ASize
      BY <3>1, <3>4 DEF Abstract!ASize
    <3>3. QED
      BY <3>2
  <2>3. CASE CopyData
    <3>1. pc = "copy" /\ pc' = "finalize" /\ total' = total
          /\ dlen' \in 0 .. total /\ dstart' = total - dlen'
      BY <2>3 DEF CopyData, Inv, CopyInv, FinalizeInv, TypeOK
    <3>2. Abstract!ABuilt
      BY <3>1 DEF Abstract!ABuilt
    <3>3. QED
      BY <3>2
  <2>4. CASE EspFinalize \/ HeaderFinalize
    <3>1. pc = "finalize" /\ pc' = "finalize" /\ total' = total /\ k \in Headers
      BY <2>4 DEF EspFinalize, HeaderFinalize, Inv, TypeOK
    <3>2. dstart' <= dstart /\ dlen' >= dlen
      <4>1. CASE EspFinalize
        <5>1. TrailerPad(k) \in Nat
          BY <4>1, TrailerRoom DEF EspFinalize
        <5>2. len'[k] = EspHdrLen
          BY <4>1, <3>1 DEF EspFinalize, Inv, TypeOK
        <5>3. len[k] >= 0 /\ dstart' = off[k]
              /\ dlen' = dlen + iv[k] + TrailerPad(k) + icv[k] + 2 + EspHdrLen
          BY <4>1, <3>1, <5>2, AtHeader DEF EspFinalize, MovedTo, EspHdrLen
        <5>4. QED
          BY <3>1, <5>1, <5>3, AtHeader DEF EspHdrLen
      <4>2. CASE HeaderFinalize
        <5>1. dstart' = dstart - len[k] /\ dlen' = dlen + len[k]
          BY <4>2 DEF HeaderFinalize
        <5>2. len[k] \in Nat /\ dstart \in Nat /\ dlen \in Nat
          BY <3>1, AtHeader
        <5>3. QED
          BY <5>1, <5>2
      <4>3. QED
        BY <2>4, <4>1, <4>2
    <3>3. dstart' + dlen' <= total /\ dstart' \in Nat /\ dlen' \in Nat /\ dstart \in Nat
          /\ dlen \in Nat /\ total \in Nat
      BY <3>1 DEF Inv, FinalizeInv, TypeOK
    <3>4. Abstract!AFinalize
      BY <3>1, <3>2, <3>3 DEF Abstract!AFinalize
    <3>5. QED
      BY <3>4
  <2>5. CASE Trim
    <3>1. pc = "finalize" /\ pc' = "done" /\ dstart = 0 /\ UNCHANGED <<total, dstart, dlen>>
      BY <2>5 DEF Trim, Inv, FinalizeInv, TypeOK
    <3>2. Abstract!ASend
      BY <3>1 DEF Abstract!ASend
    <3>3. QED
      BY <3>2
  <2>6. CASE UNCHANGED vars \/ Done
    BY <2>6 DEF vars, Done
  <2>7. QED
    BY <2>1, <2>2, <2>3, <2>4, <2>5, <2>6 DEF Next
<1>3. QED
  BY <1>1, <1>2, Invariance, PTL DEF Spec, ImplementsAssembly, Abstract!ASpec
=============================================================================

--------------------------------- MODULE Hop ---------------------------------
\* hop.c: the hop-by-hop and the destination options header.  The length used so
\* far is not a variable: it is spread over the header's hdrlen byte (length / 8)
\* and the low three bits of pack->modified (length % 8).  The option bytes are
\* abstracted to the place and the size of every option.
EXTENDS Header

CONSTANTS
  PadSizes,   \* the sizes -Hp is given
  MaxPads     \* bound: options on a command line that repeats the longest pad

HDR_ALLOC == 8
OCTET_MAX == 255
MaxPad    == OCTET_MAX + 2

ASSUME HopAssumption == PadSizes \subseteq Nat /\ MaxPads \in Nat

\* sizeof(hop_header) = 2 goes into the low bits of modified; hdrlen is 0.
HopInit ==
  /\ module = "hop" /\ opts = <<>> /\ pc = "options"
  /\ pack = [alloc |-> HDR_ALLOC, hdrlen |-> 0, part |-> 2, nexthdr |-> "zero",
             tlvs |-> <<>>, zeroed |-> HDR_ALLOC]

Used(p) == p.hdrlen * HDR_ALLOC + p.part

\* Mutant: (hoplen + optlen) / 8 without the extra unit.
Grown_tight(p, size) ==
  IF Used(p) + size > p.alloc
  THEN ((Used(p) + size) \div HDR_ALLOC) * HDR_ALLOC ELSE p.alloc

Grown(p, size) ==
  IF Used(p) + size > p.alloc
  THEN (1 + (Used(p) + size) \div HDR_ALLOC) * HDR_ALLOC ELSE p.alloc

\* hdrlen is one byte.
Stored(len) == (len \div HDR_ALLOC) % (OCTET_MAX + 1)

\* Mutant: The low bits are not reset before the new ones are stored.
addopt_sticky(p, size) ==
  [p EXCEPT !.alloc  = Grown(p, size),
            !.tlvs   = Append(@, [at |-> Used(p), size |-> size]),
            !.hdrlen = Stored(Used(p) + size),
            !.part   = IF (Used(p) + size) % HDR_ALLOC = 0 THEN @
                       ELSE (Used(p) + size) % HDR_ALLOC]

addopt(p, size) ==
  [p EXCEPT !.alloc  = Grown(p, size),
            !.tlvs   = Append(@, [at |-> Used(p), size |-> size]),
            !.hdrlen = Stored(Used(p) + size),
            !.part   = (Used(p) + size) % HDR_ALLOC]

Room ==
  \/ Len(opts) < MaxOpts
  \/ Len(opts) < MaxPads /\ \A i \in DOMAIN opts : opts[i] = <<"p", MaxPad>>

\* -H0, and -Ha with type 0: the single byte of a pad 0.
HopPad0 == module = "hop" /\ Room /\ Apply(<<"0", 1>>, addopt(pack, 1))

\* -Hp: a pad of 2 to 257 bytes.
HopPadN(n) ==
  /\ module = "hop" /\ Room
  /\ 2 <= n /\ n <= MaxPad
  /\ Apply(<<"p", n>>, addopt(pack, n))

\* -Hr, -Hj, -Hh: a two byte header and a value of fixed size.
HopFixed(o) ==
  /\ module = "hop" /\ Room
  /\ Apply(o, addopt(pack, o[2]))

FixedSizes == {<<"r", 4>>, <<"j", 6>>, <<"h", 18>>}

\* -Ha: the length is parsed from the text at the dot, so it is always 0 and only
\* the two byte header of the option is copied.
HopArbitrary == module = "hop" /\ Room /\ Apply(<<"a", 2>>, addopt(pack, 2))

\* -Hn
HopNextHeader ==
  /\ module = "hop" /\ Room
  /\ Apply(<<"n", 0>>, [pack EXCEPT !.nexthdr = "given"])

\* A pad out of range, a type of -Ha above 255 or an address that does not parse.
\* The MOD bit that is already set is never read.
HopRefused == module = "hop" /\ Room /\ Refuse

FinalLen(p) == IF Used(p) # p.alloc THEN (p.alloc \div HDR_ALLOC) - 1 ELSE p.hdrlen

HopFinalize ==
  /\ module = "hop"
  /\ FinalizeWith([pack EXCEPT
       !.nexthdr = IF @ = "given" THEN @ ELSE "type",
       !.zeroed  = IF Used(pack) < pack.alloc THEN Used(pack) ELSE pack.alloc,
       !.hdrlen  = FinalLen(pack) % (OCTET_MAX + 1)])

HopNext ==
  \/ HopPad0 \/ HopArbitrary \/ HopNextHeader \/ HopRefused \/ HopFinalize
  \/ \E n \in PadSizes : HopPadN(n)
  \/ \E o \in FixedSizes : HopFixed(o)

HopSpec == HopInit /\ [][HopNext]_vars

-----------------------------------------------------------------------------
\* Properties.

Start(tlvs, i) == IF i = 1 THEN 2 ELSE tlvs[i - 1].at + tlvs[i - 1].size
End(tlvs) == Start(tlvs, Len(tlvs) + 1)

\* The lengths hdrlen can hold: a header of up to 256 units.
MaxHeader == (OCTET_MAX + 1) * HDR_ALLOC

Representable(tlvs) ==
  \A i \in DOMAIN tlvs : tlvs[i].at + tlvs[i].size < MaxHeader

\* Types and ranges; the block is a whole number of 8 byte units.
HopTypeOK ==
  module = "hop" =>
    /\ pack.alloc \in Nat /\ pack.alloc % HDR_ALLOC = 0
    /\ pack.hdrlen \in 0..OCTET_MAX /\ pack.part \in 0..(HDR_ALLOC - 1)
    /\ pack.nexthdr \in {"zero", "given", "type"}
    /\ pack.tlvs \in Seq([at : Nat, size : Nat])

\* addopt() copies no option past the end of the block it has just grown, also
\* after hdrlen has wrapped around.
HopWritesFit ==
  module = "hop" =>
    \A i \in DOMAIN pack.tlvs : pack.tlvs[i].at + pack.tlvs[i].size <= pack.alloc

\* What a receiver reads once the header is done.  The split length has lost
\* nothing as long as hdrlen can hold it: every option lies right behind the one
\* before it, the first behind the two header bytes; and where finalize() has
\* filled a tail with zeros, the options and the tail cover the header up to
\* exactly the length it announces.
HopReadable ==
  module = "hop" /\ pc = "done" /\ Representable(pack.tlvs) =>
    /\ \A i \in DOMAIN pack.tlvs : pack.tlvs[i].at = Start(pack.tlvs, i)
    /\ End(pack.tlvs) # pack.alloc =>
         /\ pack.zeroed = End(pack.tlvs)
         /\ (pack.hdrlen + 1) * HDR_ALLOC = pack.alloc

\* hop.c:57-58: "We then adjust the header length field if necessary", to the
\* "proper final value ((length - 8) / 8)" of hop.c:47.
HopHeaderLen ==
  module = "hop" /\ pc = "done" /\ Representable(pack.tlvs) =>
    (pack.hdrlen + 1) * HDR_ALLOC = pack.alloc

=============================================================================

--------------------------------- MODULE Gre ---------------------------------
\* gre.c: the GRE header, whose optional words have to be in place after every
\* option.  The block is the flags and protocol (4 bytes) and a word for every
\* slot; a word is its two halves, named by what was last written to them.
EXTENDS Header, FiniteSets

GreFlags == {"C", "K", "S", "R"}  \* GRE_CSUM, GRE_KEY, GRE_SEQ, GRE_ROUTING

Word(v) == <<v, v>>

\* sizeof(gre_header) is 8: the first optional word is part of it.
HdrSize == 8

Slots(size) == 0..((size - 4) \div 4 - 1)

GreInit ==
  /\ module = "gre" /\ opts = <<>> /\ pc = "options"
  /\ pack = [alloc |-> HdrSize, flags |-> {}, slots |-> [i \in {0} |-> Word("zero")],
             sumGiven |-> FALSE, protocol |-> "zero", overrun |-> FALSE]

One(b) == IF b THEN 1 ELSE 0

\* Mutant: The routing word is placed without looking for a sequence number.
gre_where_early(flags, add) ==
  CASE add = "C" -> 0
    [] add = "K" -> One("C" \in flags)
    [] add = "S" -> One("C" \in flags) + One("K" \in flags)
    [] add = "R" -> 1 + One("K" \in flags)

gre_where(flags, add) ==
  CASE add = "C" -> 0
    [] add = "K" -> One("C" \in flags)
    [] add = "S" -> One("C" \in flags) + One("K" \in flags)
    [] add = "R" -> 1 + One("K" \in flags) + One("S" \in flags)

\* realloc() to size, and the words from spot on move up one; the last word of
\* the larger block is not written, nor is any other word realloc() adds.
Shifted(p, size, spot) ==
  IF p.alloc >= size THEN p
  ELSE LET last == (size - HdrSize) \div 4
           old  == [i \in Slots(size) |->
                      IF i \in DOMAIN p.slots THEN p.slots[i] ELSE Word("junk")]
       IN [p EXCEPT
             !.alloc = size,
             !.overrun = @ \/ spot \notin Slots(size),
             !.slots = [i \in Slots(size) |->
                          IF i = spot THEN Word("zero")
                          ELSE IF spot < i /\ i < last THEN old[i - 1] ELSE old[i]]]

Size(flags) ==
  HdrSize + 4 * Cardinality(flags) + 4 * One("R" \in flags /\ "C" \notin flags)

\* Routing makes room for the checksum word first, by a call of its own that can
\* not call again: C is among its flags then.
gre_resize(p, add) ==
  LET new == p.flags \union {add}
      p1  == IF "R" \in new /\ "C" \notin new
             THEN Shifted(p, Size(p.flags \union {"C"}), 0) ELSE p
  IN IF new = p.flags THEN p ELSE Shifted(p1, Size(new), gre_where(p.flags, add))

\* A write behind the block is recorded.
Store(p, spot, word) ==
  IF spot \in DOMAIN p.slots THEN [p EXCEPT !.slots[spot] = word]
  ELSE [p EXCEPT !.overrun = TRUE]

Half(p, h, v) == [p.slots[0] EXCEPT ![h] = v]

Flagged(p, f) == [p EXCEPT !.flags = @ \union {f}]

More == Len(opts) < MaxOpts

\* -gr, -gk, -gs: the place is computed again after the header has grown.
GreField(f) ==
  /\ module = "gre" /\ More
  /\ LET p == gre_resize(pack, f) IN
     Apply(f, Flagged(Store(p, gre_where(p.flags, f), Word(f)), f))

\* -gc
GreChecksum ==
  /\ module = "gre" /\ More
  /\ "C" \notin pack.flags
  /\ LET p == Flagged(gre_resize(pack, "C"), "C") IN
     Apply("c", [Store(p, 0, Half(p, 1, "C")) EXCEPT !.sumGiven = TRUE])

\* -gC: the sum is left to finalize().
GreComputed ==
  /\ module = "gre" /\ More
  /\ "C" \notin pack.flags
  /\ Apply("C", Flagged(gre_resize(pack, "C"), "C"))

\* -go: room for the checksum word without its flag.  htonl() of a 16 bit value
\* stored in 16 bits is 0 on the little endian machines the build supports.
GreOffset ==
  /\ module = "gre" /\ More
  /\ LET p == gre_resize(pack, "C") IN Apply("o", Store(p, 0, Half(p, 2, "zero")))

\* -gp; -gS, -ge and -gv set bits of the flag word that no layout depends on.
GreProtocol ==
  /\ module = "gre" /\ More /\ Apply("p", [pack EXCEPT !.protocol = "given"])

\* A second checksum (-gc, -gC), or -ge or -gv out of range.
GreRefused == module = "gre" /\ More /\ Refuse

\* inner: the IP header finalize() finds inside, if any.
GreFinalized(p, inner) ==
  LET q == IF p.protocol = "given" \/ inner = "none" THEN p
           ELSE [p EXCEPT !.protocol = inner]
  IN IF "C" \in p.flags /\ ~p.sumGiven THEN Store(q, 0, Half(q, 1, "C")) ELSE q

GreFinalize ==
  /\ module = "gre"
  /\ \E inner \in {"ip", "ipv6", "none"} : FinalizeWith(GreFinalized(pack, inner))

GreNext ==
  \/ GreChecksum \/ GreComputed \/ GreOffset \/ GreProtocol \/ GreRefused \/ GreFinalize
  \/ \E f \in GreFlags \ {"C"} : GreField(f)

GreSpec == GreInit /\ [][GreNext]_vars

-----------------------------------------------------------------------------
\* Properties.

\* The options that take or move the checksum word without its flag.
Unflagged == {"o", "R"}

\* Every key and sequence number is given before the checksum word is taken, or
\* after its flag is set.
Orderly ==
  \A i, j \in DOMAIN opts :
    i < j /\ opts[i] \in Unflagged /\ opts[j] \in {"K", "S"}
      => \E k \in 1..(j - 1) : opts[k] \in {"c", "C"}

\* The words in front of f in the order of gre.c:61-66.
Place(f) ==
  LET sum == One(Unflagged \intersect {opts[i] : i \in DOMAIN opts} # {}
                 \/ "C" \in pack.flags)
  IN CASE f = "C" -> 0
       [] f = "K" -> sum
       [] f = "S" -> sum + One("K" \in pack.flags)
       [] f = "R" -> sum + One("K" \in pack.flags) + One("S" \in pack.flags)

InPlace ==
  /\ \A f \in pack.flags \ {"C"} : pack.slots[Place(f)] = Word(f)
  /\ "C" \in pack.flags /\ (pack.sumGiven \/ pc = "done") => pack.slots[0][1] = "C"

\* Types; the words are exactly those of the block.
GreTypeOK ==
  module = "gre" =>
    /\ pack.alloc \in Nat /\ DOMAIN pack.slots = Slots(pack.alloc)
    /\ pack.flags \subseteq GreFlags
    /\ pack.sumGiven \in BOOLEAN /\ pack.protocol \in {"zero", "given", "ip", "ipv6"}

\* However the words were shoved around, no option has written behind the block;
\* every field is where a receiver looks for it and none has overwritten another,
\* when the options come in an orderly sequence.
GreInPlace == module = "gre" => ~pack.overrun /\ (Orderly => InPlace)

\* gre.c:61-66, "Order of options: 0: checksum : offset 1: key 2: sequence
\* 3: routing", for any order of the options that set a flag (-go takes the word without).
GreAnyOrder ==
  module = "gre" /\ (\A i \in DOMAIN opts : opts[i] # "o") => InPlace

=============================================================================

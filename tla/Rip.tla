--------------------------------- MODULE Rip ---------------------------------
\* rip.c and ripng.c: a header of four bytes and the entries that options append
\* to it.  The argument of an entry is a text with bars; here it is the sequence
\* of the texts between them.
EXTENDS Header, FiniteSets

CONSTANTS
  MaxRipOpts,  \* bound: options of the header
  RipArgs      \* arguments of entries

Empty == 0    \* a text without characters; others are numbers
Text  == 1..255

ASSUME RipAssumption == MaxRipOpts \in Nat /\ RipArgs \subseteq Seq({Empty} \union Text)

\* The defaults of a family, a tag, a mask, a prefix length and a metric, as the
\* code has them.
RipFamily == 2
RipTag    == 2
RipMask   == 24
RipLen    == 128
RipMetric == 16
Swapped16 == 2^20  \* htons(16) in the four bytes of a metric

RipInit ==
  /\ module \in {"rip", "ripng"} /\ opts = <<>> /\ pc = "options"
  /\ pack = [command |-> 0, version |-> 0, res |-> 0, entries |-> <<>>]

RipMore == module \in {"rip", "ripng"} /\ Len(opts) < MaxRipOpts

\* NEXT_FIELD for the i-th time; behind the last text it finds the end of the
\* argument again.
Field(arg, i) == IF i \in DOMAIN arg THEN arg[i] ELSE Empty

Or(text, default) == IF text = Empty THEN default ELSE text

WithEntry(p, e) == [p EXCEPT !.entries = Append(@, e)]

\* -v, -c, -r
RipSet(f, n) == RipMore /\ Apply(<<f, n>>, [pack EXCEPT ![f] = n])

\* -re.  The metric is the default if it is given, and 0, the number of an empty
\* text, if it is not.
RipRoute(arg) ==
  [family |-> Or(Field(arg, 1), RipFamily), tag |-> Or(Field(arg, 2), RipTag),
   address |-> Field(arg, 3), mask |-> Or(Field(arg, 4), RipMask), hop |-> Field(arg, 5),
   metric |-> IF Field(arg, 6) = Empty THEN 0 ELSE RipMetric]

\* -Re
RipngRoute(arg) ==
  [prefix |-> Field(arg, 1), tag |-> Field(arg, 2),
   len |-> Or(Field(arg, 3), RipLen), metric |-> Or(Field(arg, 4), RipMetric)]

RipEntry(arg) ==
  /\ RipMore
  /\ Apply(<<"entry", arg>>,
           WithEntry(pack, IF module = "rip" THEN RipRoute(arg) ELSE RipngRoute(arg)))

\* -ra: a single text is the password, of two the first is the type.
RipAuth(arg) ==
  /\ RipMore /\ module = "rip"
  /\ Apply(<<"auth", arg>>,
           WithEntry(pack, IF Len(arg) < 2
                           THEN [family |-> WORD - 1, type |-> 2, password |-> Field(arg, 1)]
                           ELSE [family |-> WORD - 1, type |-> arg[1], password |-> arg[2]]))

\* -rd.  The command is set through a pointer into the block as it was before the
\* entry was added; if realloc() has moved it, that is lost.
RipRequest(moved) ==
  /\ RipMore /\ module = "rip"
  /\ Apply(<<"request", moved>>,
           [WithEntry(pack, [family |-> 0, tag |-> 0, address |-> 0, mask |-> 0, hop |-> 0,
                             metric |-> Swapped16])
              EXCEPT !.command = IF moved THEN @ ELSE 1])

\* -Rd.  The metric is one byte, into which htons(16) does not fit.
RipngRequest ==
  /\ RipMore /\ module = "ripng"
  /\ Apply(<<"request", FALSE>>,
           [WithEntry(pack, [prefix |-> 0, tag |-> 0, len |-> 0, metric |-> 0])
              EXCEPT !.command = 1, !.version = 1, !.res = 0])

\* An option rip does not know; ripng accepts any.
RipRefused == RipMore /\ module = "rip" /\ Refuse

\* finalize() fills in nothing.
RipFinalize == module \in {"rip", "ripng"} /\ FinalizeWith(pack)

RipNext ==
  \/ \E f \in {"version", "command", "res"}, n \in {0, 5} : RipSet(f, n)
  \/ \E arg \in RipArgs : RipEntry(arg) \/ RipAuth(arg)
  \/ \E moved \in BOOLEAN : RipRequest(moved)
  \/ RipngRequest \/ RipRefused \/ RipFinalize

-----------------------------------------------------------------------------
\* Properties.

\* Types and ranges.
RipTypeOK ==
  module \in {"rip", "ripng"} =>
    /\ {pack.command, pack.version, pack.res} \subseteq 0..255
    /\ Len(pack.entries) <= Len(opts)
    /\ \A i \in DOMAIN pack.entries : \A f \in DOMAIN pack.entries[i] : pack.entries[i][f] \in Nat

\* The text for a field of an entry, and what rip.1 and ripng.1 promise for one
\* that is left out.  The tag and the metric of rip are not what they promise
\* (rip.c:90, 98: the tag is 2, a metric that is given becomes 16) and left out here.  What a metric of ripng is by default is not promised:
\* ripng.1:25 says 16, as the code does, and ripng.h:29 says 1.
RouteFields ==
  IF module = "rip"
  THEN [family |-> <<1, RipFamily>>, address |-> <<3, 0>>, mask |-> <<4, RipMask>>, hop |-> <<5, 0>>]
  ELSE [prefix |-> <<1, 0>>, tag |-> <<2, 0>>, len |-> <<3, RipLen>>]

\* The options that make an entry, and the number of the one that i makes.
Entries == {i \in DOMAIN opts : opts[i][1] \in {"entry", "auth", "request"}}
Number(i) == Cardinality({j \in Entries : j <= i})

\* The last option that concerns field f, or 0.
LastRip(f) ==
  LET at == {i \in DOMAIN opts : opts[i][1] \in {f, "request"}}
  IN IF at = {} THEN 0 ELSE CHOOSE i \in at : \A j \in at : j <= i

\* Every option made an entry of its own, in their order, and a field that is left
\* out in between takes its default without moving those behind it.  The command
\* is the last one given, or that of a request, as long as the block of rip stays
\* where it is (rip.c:107 writes it into the old block).
RipKept ==
  module \in {"rip", "ripng"} /\ pc = "done" =>
    /\ Len(pack.entries) = Cardinality(Entries)
    /\ \A i \in Entries : opts[i][1] = "entry" =>
         \A f \in DOMAIN RouteFields :
           pack.entries[Number(i)][f] = LET text == Field(opts[i][2], RouteFields[f][1])
                                        IN IF text # Empty THEN text ELSE RouteFields[f][2]
    /\ \A i \in Entries : module = "ripng" /\ opts[i][1] = "entry" /\ Field(opts[i][2], 4) # Empty
         => pack.entries[Number(i)].metric = Field(opts[i][2], 4)
    /\ LET i == LastRip("command") IN
       i > 0 => \/ opts[i][1] = "request" /\ (opts[i][2] \/ pack.command = 1)
                \/ opts[i][1] = "command" /\ pack.command = opts[i][2]

=============================================================================

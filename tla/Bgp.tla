--------------------------------- MODULE Bgp ---------------------------------
\* bgp.c: a BGP message, appended part by part to a block of fixed size.  Which
\* part came last and where the length fields lie is kept in statics, which all
\* bgp headers of a command line share.  There are two headers here: main()
\* initializes both, the second last, before it applies the first option.
\* A length field is the value GETSHORT() reads back from what PUTSHORT() stored;
\* a peer reads another number on a little-endian host.
EXTENDS Header

CONSTANTS
  MaxBgpOpts,  \* bound: options of both headers, and -p
  Bytes,       \* how many numbers a list of bytes has
  NlriArgs     \* prefix length and byte count of a route; NotGiven: left out

NotGiven == -1

ASSUME BgpAssumption == /\ MaxBgpOpts \in Nat /\ Bytes \subseteq Nat
                        /\ NlriArgs \subseteq Nat \X (Nat \union {NotGiven})

Unknown == -2  \* the low half of an address

BadRoute == <<NotGiven, NotGiven>>  \* its first number is out of range

MessageStart == 19  \* marker, length and type

BgpInit ==
  /\ module = "bgp" /\ opts = <<>> /\ pc = "options"
  /\ pack = [blocks |-> [h \in {1, 2} |->
                           [alloc |-> MessageStart, len |-> MessageStart, mod |-> {}, parts |-> <<>>]],
             cur |-> 1, prev |-> "header", len_ptr |-> 2,
             opt_len_ptr |-> <<0, 0>>, wdr_len_ptr |-> <<0, 0>>, attr_len_ptr |-> <<0, 0>>]

\* An option goes to the header named last; behind a header of another module
\* (cur = 3) it goes to the first one with the letter b.
Target(p) == IF p.cur = 2 THEN 2 ELSE 1
Block(p)  == p.blocks[Target(p)]

\* The part the statics are about to point to.
Next_part(p) == <<Target(p), Len(Block(p).parts) + 1>>

\* A part of size bytes goes to the end; len is the value of its length field.
Put(p, kind, size, len) ==
  LET b    == Block(p)
      part == [kind |-> kind, at |-> b.alloc, size |-> size, len |-> len]
  IN [p EXCEPT !.prev = kind,
               !.blocks[Target(p)] = [b EXCEPT !.alloc = @ + size, !.parts = Append(@, part)]]

\* The field behind a length pointer grows by n, unless the user gave its value.
Bump(p, flag, ptr, n, width) ==
  IF flag \in Block(p).mod THEN p
  ELSE [p EXCEPT !.blocks[ptr[1]].parts[ptr[2]].len =
          IF Unknown \in {@, n} THEN Unknown ELSE (@ + n) % width]

Flag(p, flag) == [p EXCEPT !.blocks[Target(p)].mod = @ \union {flag}]

\* The end of do_opt().
Close(p) ==
  IF "length" \in Block(p).mod THEN p
  ELSE [p EXCEPT !.blocks[p.len_ptr].len = Block(p).alloc % WORD]

BgpMore == module = "bgp" /\ Len(opts) < MaxBgpOpts

BgpApply(o, p) == Apply(<<o, Target(pack)>>, Close(p))

\* -p
BgpNextHeader ==
  BgpMore /\ pack.cur < 3 /\ Apply(<<"-p", pack.cur>>, [pack EXCEPT !.cur = @ + 1])

\* -bm, -bt: a field of a fixed place.
BgpField == BgpMore /\ BgpApply("t", pack)

\* -bl
BgpLength(n) ==
  BgpMore /\ BgpApply("l", Flag([pack EXCEPT !.blocks[Target(pack)].len = n % WORD], "length"))

\* -bo: version, AS number, hold time, ID and olen, 10 bytes.
BgpOpen(olen) ==
  /\ BgpMore /\ pack.prev = "header"
  /\ LET p == [Put(pack, "open", 10, IF olen = NotGiven THEN 0 ELSE olen)
                 EXCEPT !.opt_len_ptr = Next_part(pack)]
     IN BgpApply("o", IF olen = NotGiven THEN p ELSE Flag(p, "opt"))

\* -boo: type, length and n bytes; the length left out counts all of it.
BgpOpenOpt(n, len) ==
  /\ BgpMore /\ pack.prev \in {"open", "opt"}
  /\ LET size == 2 + n
         p == Put(pack, "opt", size, (IF len = NotGiven THEN size ELSE len) % BYTE)
     IN BgpApply(IF len = NotGiven THEN "oo" ELSE "oo:len", Bump(p, "opt", p.opt_len_ptr, size, BYTE))

\* -bul
BgpWithdrawnLen(n) ==
  /\ BgpMore /\ pack.prev = "header"
  /\ BgpApply("ul", Flag([Put(pack, "wdrlen", 2, n % WORD) EXCEPT !.wdr_len_ptr = Next_part(pack)], "wdr"))

\* Mutant: The pointer to the length of the withdrawn routes is not set.
Withdrawn_late(p) == IF p.prev # "header" THEN p ELSE Put(p, "wdrlen", 2, 0)

\* The length fields an option of an update needs in front of it.
Withdrawn(p) ==
  IF p.prev # "header" THEN p
  ELSE [Put(p, "wdrlen", 2, 0) EXCEPT !.wdr_len_ptr = Next_part(p)]

Attributes(p) ==
  IF p.prev \notin {"wdrlen", "wdr"} THEN p
  ELSE [Put(p, "attrlen", 2, 0) EXCEPT !.attr_len_ptr = Next_part(p)]

\* bgp_parse_nlri(): the prefix byte and as many bytes as are asked for, or as
\* the prefix takes; nothing at all if the first number is out of range.
NlriSize(route) ==
  IF route = BadRoute THEN 0
  ELSE 1 + (IF route[2] # NotGiven THEN route[2]
            ELSE IF route[1] > 0 THEN ((route[1] - 1) \div 8) + 1 ELSE 0)

\* -buw
BgpWithdraw(route) ==
  /\ BgpMore
  /\ LET p == Withdrawn(pack)
         n == NlriSize(route)
         q == Put(p, "wdr", n, n)
     IN /\ p.prev \in {"wdrlen", "wdr"}
        /\ BgpApply("uw", Bump(q, "wdr", q.wdr_len_ptr, n, WORD))

\* -bus
BgpAttrLen(n) ==
  /\ BgpMore
  /\ LET p == Withdrawn(pack) IN
     /\ p.prev \in {"wdrlen", "wdr"}
     /\ BgpApply("us", Flag([Put(p, "attrlen", 2, n % WORD) EXCEPT !.attr_len_ptr = Next_part(p)], "attr"))

\* -bua: flags, type, the width of the length field (1 or 2), the length and n
\* bytes.  pd is never set, so what the total grows by is an address.
BgpAttr(width, n) ==
  /\ BgpMore
  /\ LET p == Attributes(Withdrawn(pack))
         q == Put(p, "attr", 2 + width + n, n)
     IN /\ p.prev \in {"attrlen", "attr"}
        /\ BgpApply("ua", Bump(q, "attr", q.attr_len_ptr, Unknown, WORD))

\* -bua without the width or the length follows pd, which is NULL.
BgpAttrCrash ==
  /\ BgpMore /\ Attributes(Withdrawn(pack)).prev \in {"attrlen", "attr"}
  /\ pc \in {"options", "failed"} /\ pc' = "crash"
  /\ UNCHANGED <<module, pack, opts>>

\* -bun
BgpNlri(route) ==
  /\ BgpMore
  /\ LET p == Attributes(Withdrawn(pack))
         n == NlriSize(route)
     IN /\ p.prev \in {"attrlen", "attr", "nlri"}
        /\ BgpApply("un", Put(p, "nlri", n, n))

\* -bn: code, subcode and n bytes.
BgpNotification(n) ==
  BgpMore /\ pack.prev = "header" /\ BgpApply("n", Put(pack, "notfn", 2 + n, n))

\* A later number out of range: bgp_parse_bytes() returns a negative count, the
\* end of the message moves back and the next part overwrites this one.
BgpGarbled ==
  /\ BgpMore /\ pack.prev # "notfn"
  /\ pc \in {"options", "failed"} /\ pc' = "garbled"
  /\ UNCHANGED <<module, pack, opts>>

\* A part out of order or an ID that is no number.  Nothing has changed by then
\* that a later option reads.
BgpRefused == BgpMore /\ Refuse

BgpFinalize == module = "bgp" /\ FinalizeWith(pack)

BgpNext ==
  \/ BgpNextHeader \/ BgpField \/ BgpGarbled \/ BgpRefused \/ BgpFinalize \/ BgpAttrCrash
  \/ \E n \in Bytes : BgpLength(n) \/ BgpWithdrawnLen(n) \/ BgpAttrLen(n) \/ BgpNotification(n)
  \/ \E olen \in {NotGiven, 3} : BgpOpen(olen)
  \/ \E n \in Bytes, len \in {NotGiven, 3} : BgpOpenOpt(n, len)
  \/ \E width \in 1..2, n \in Bytes : BgpAttr(width, n)
  \/ \E route \in NlriArgs \union {BadRoute} : BgpWithdraw(route) \/ BgpNlri(route)

BgpSpec == BgpInit /\ [][BgpNext]_vars

-----------------------------------------------------------------------------
\* Properties.

\* Only the header that was initialized last has options.
OneBgp == \A i \in DOMAIN opts : opts[i][1] = "-p" \/ opts[i][2] = 2

\* What a part with a length field at its end counts, and the flag for a value of
\* its own.
Counted == [open |-> "opt", wdrlen |-> "wdr", attrlen |-> "attr"]
FlagOf  == [open |-> "opt", wdrlen |-> "wdr", attrlen |-> "attr"]
Width(kind) == IF kind = "open" THEN BYTE ELSE WORD

\* Where part i of b is, the end of the message for the one behind the last.
PartAt(b, i) == IF i \in DOMAIN b.parts THEN b.parts[i].at ELSE b.alloc

\* The length field of part i leads a peer over all parts of the kind it counts,
\* which follow it, and to the first of another kind.
Leads(b, i) ==
  LET P == b.parts
      kind == Counted[P[i].kind]
  IN \E j \in (i + 1)..(Len(P) + 1) :
       /\ \A k \in (i + 1)..(j - 1) : P[k].kind = kind
       /\ \A k \in j..Len(P) : P[k].kind # kind
       /\ P[i].len = (PartAt(b, j) - PartAt(b, i + 1)) % Width(P[i].kind)

\* Types and ranges.
BgpTypeOK ==
  module = "bgp" =>
    /\ pack.cur \in 1..3 /\ pack.len_ptr \in {1, 2}
    /\ \A h \in {1, 2} :
         /\ pack.blocks[h].alloc \in Nat /\ pack.blocks[h].len \in 0..(WORD - 1)
         /\ pack.blocks[h].mod \subseteq {"length", "opt", "wdr", "attr"}
         /\ pack.blocks[h].parts \in
              Seq([kind : {"open", "opt", "wdrlen", "wdr", "attrlen", "attr", "nlri", "notfn"},
                   at : Nat, size : Nat, len : Int])

\* The parts lie back to back up to the end of the message.
BackToBack(b) ==
  \A i \in DOMAIN b.parts :
    b.parts[i].at + b.parts[i].size = IF i = Len(b.parts) THEN b.alloc ELSE b.parts[i + 1].at

\* Part i is the total length of attributes that are there.
CountsAttributes(b, i) ==
  b.parts[i].kind = "attrlen" /\ \E j \in DOMAIN b.parts : b.parts[j].kind = "attr"

\* The fields behind the three length pointers lead over what they count, unless
\* the user gave their value.  A total that -bua adds to is not covered.
FieldsLead(b) ==
  \A i \in DOMAIN b.parts :
    /\ b.parts[i].kind \in DOMAIN Counted /\ FlagOf[b.parts[i].kind] \notin b.mod
    /\ ~CountsAttributes(b, i)
    => Leads(b, i)

\* The length of the message has 16 bits.
AddsUp(b) ==
  /\ BackToBack(b) /\ FieldsLead(b)
  /\ "length" \notin b.mod => b.len = b.alloc % WORD

\* One field for the withdrawn routes precedes them, one for the attributes
\* precedes these and the routes, and nothing of an OPEN or a NOTIFICATION gets
\* in between.
InOrder(P) ==
  LET Order == [open |-> 1, opt |-> 2, wdrlen |-> 1, wdr |-> 2, attrlen |-> 3,
                attr |-> 4, nlri |-> 5, notfn |-> 1]
      Once  == {"open", "wdrlen", "attrlen", "notfn"}
      Kinds == {P[i].kind : i \in DOMAIN P}
  IN /\ \/ Kinds \subseteq {"open", "opt"}
        \/ Kinds \subseteq {"notfn"}
        \/ Kinds \subseteq {"wdrlen", "wdr", "attrlen", "attr", "nlri"}
     /\ \A i, j \in DOMAIN P :
          /\ i < j => Order[P[i].kind] <= Order[P[j].kind]
          /\ P[i].kind = P[j].kind /\ P[i].kind \in Once => i = j
     /\ Kinds \intersect {"opt", "wdr", "attrlen"} # {} => P[1].kind \in {"open", "wdrlen"}
     /\ Kinds \intersect {"attr", "nlri"} # {} => "attrlen" \in Kinds

\* However the options of a single bgp header are mixed, left out, repeated or
\* refused: its parts lie without gaps in the order of the protocol, the length of
\* the message counts all of them, the length of the optional parameters, that of
\* the withdrawn routes, and a length of the attributes without attributes lead to
\* the part they should.  That is said of the numbers the code computes.  Three
\* things bgp.1 and bgp.h call correct are wrong and not part of it: the total length
\* behind -bua comes from a pointer nobody has set (bgp.c:359), the own length of a
\* -boo counts itself and its type (bgp.c:226), and PUTSHORT stores the two bytes of a
\* length in the order of a little-endian host (bgp.h:25).
BgpWellFormed ==
  module = "bgp" /\ OneBgp => AddsUp(pack.blocks[2]) /\ InOrder(pack.blocks[2].parts)

=============================================================================

-------------------------------- MODULE Ipv6 --------------------------------
\* ipv6.c and three of its extensions, frag.c, wesp.c and route.c: fields that
\* share a word, and parts that an option adds.  What finalize() takes from
\* other headers is in Chain.  Every option is recorded with its value.
EXTENDS Header

CONSTANTS
  MaxIp6Opts,  \* bound: options of the header
  Numbers,     \* values the user gives
  RouteSizes   \* how many addresses a routing header is given

ASSUME Ip6Assumption == MaxIp6Opts \in Nat /\ Numbers \subseteq Nat /\ RouteSizes \subseteq Nat

\* Bits low .. low + width - 1 of w become the lowest ones of v.
SetBits(w, low, width, v) ==
  w + (((v % 2^width) - ((w \div 2^low) % 2^width)) * 2^low)

\* htons(), ntohs() on a little-endian host
Swap(w) == ((w % BYTE) * BYTE) + (w \div BYTE)

RtSize == 8  \* sizeof(struct rt0_hdr)

Ip6Init ==
  /\ opts = <<>> /\ pc = "options"
  /\ \/ module = "ipv6"  /\ pack = [high |-> 0, low |-> 0, mod |-> {}]
     \/ module = "frag"  /\ pack = [frag_off |-> 0]
     \/ module = "wesp"  /\ pack = [alloc |-> 4, padded |-> 0, mod |-> {}]
     \/ module = "route" /\ pack = [alloc |-> RtSize, hdrlen |-> 0, addrs |-> 0]

Ip6More(m) == module = m /\ Len(opts) < MaxIp6Opts

-----------------------------------------------------------------------------
\* ipv6.c.  The first word in two halves: version (4 bits), class (6), ECN (2)
\* and flow label (20, 16 of them in the lower half).

Ip6Set(opt, n, low, width) ==
  Ip6More("ipv6") /\ Apply(<<opt, n>>, [pack EXCEPT !.high = SetBits(@, low, width, n)])

\* -6v
Ip6Version(n) ==
  Ip6More("ipv6") /\ Apply(<<"v", n>>, [pack EXCEPT !.high = SetBits(@, 12, 4, n),
                                                    !.mod = @ \union {"version"}])

\* -6p: the first four bits of the class
Ip6Priority(n) == Ip6Set("p", n, 8, 4)

\* Mutant: The mask of the class clears the bits of ECN as well.
Ip6Class_wide(n) == Ip6Set("t", (n % 64) * 4, 4, 8)

\* -6t, -6e
Ip6Class(n) == Ip6Set("t", n, 6, 6)
Ip6Ecn(n)   == Ip6Set("e", n, 4, 2)

\* -6f
Ip6Flow(n) ==
  Ip6More("ipv6") /\ Apply(<<"f", n>>, [pack EXCEPT !.high = SetBits(@, 0, 4, n \div WORD),
                                                    !.low = n % WORD])

\* -6l, -6n, -6h, -6s, -6d: fields of their own.
Ip6Field == Ip6More("ipv6") /\ Apply(<<"field", 0>>, pack)

\* finalize(): the version, unless the user gave it.
Ip6Finalize ==
  /\ module = "ipv6"
  /\ FinalizeWith(IF "version" \in pack.mod THEN pack ELSE [pack EXCEPT !.high = SetBits(@, 12, 4, 6)])

-----------------------------------------------------------------------------
\* frag.c: offset (13 bits) and flags (3) in one word, in network order.

FragMax == 8191  \* IPV6_FRAG_MAXOFFSET

frag_setoffset(w, offset) == Swap(SetBits(Swap(w), 3, 13, offset))
frag_setflags(w, flags)   == Swap(SetBits(Swap(w), 0, 3, flags))

\* -Fo: opt2inth() cuts the number to 16 bits before its range is tested.
FragOffset(n) ==
  /\ Ip6More("frag")
  /\ IF n % WORD > FragMax THEN Refuse
     ELSE Apply(<<"o", n>>, [pack EXCEPT !.frag_off = frag_setoffset(@, n % WORD)])

\* -Ff
FragFlags(n) ==
  /\ Ip6More("frag")
  /\ IF n % WORD > 7 THEN Refuse
     ELSE Apply(<<"f", n>>, [pack EXCEPT !.frag_off = frag_setflags(@, n % WORD)])

\* -Fn, -Fr, -Fi: fields of their own.
FragField == Ip6More("frag") /\ (Apply(<<"field", 0>>, pack) \/ Refuse)

-----------------------------------------------------------------------------
\* wesp.c: padding of four bytes, and the flag that says so.

\* -wp
WespPad(n) ==
  /\ Ip6More("wesp")
  /\ IF n % WORD > 1 THEN Refuse
     ELSE Apply(<<"p", n>>,
                [pack EXCEPT !.alloc = IF n % WORD = 1 /\ "padded" \notin pack.mod THEN @ + 4 ELSE @,
                             !.padded = n % WORD,
                             !.mod = @ \union {"padded"}])

\* -wv, -we, -wr, -wh, -wt, -wn: fields of their own.
WespField == Ip6More("wesp") /\ (Apply(<<"field", 0>>, pack) \/ Refuse)

-----------------------------------------------------------------------------
\* route.c: the list of addresses.

AddrMax == 127  \* ADDRMAX

\* parsenargs() leaves the rest of a list too long in its last element, which
\* then is no address.
Parsed(n) == n <= AddrMax

\* -oa: the block takes the new size before the addresses are converted; valid:
\* each is an address.
RouteAddrs(n, valid) ==
  /\ Ip6More("route")
  /\ LET count == IF n <= AddrMax THEN n ELSE AddrMax
         sized == [pack EXCEPT !.alloc = RtSize + 16 * count]
     IN IF valid /\ Parsed(n)
        THEN Apply(<<"a", n>>, [sized EXCEPT !.hdrlen = (4 * count) % BYTE, !.addrs = count])
        ELSE /\ pc \in {"options", "failed"} /\ pc' = "failed" /\ pack' = sized
             /\ UNCHANGED <<module, opts>>

\* -on, -ot, -os, -or: fields of their own.
RouteField == Ip6More("route") /\ Apply(<<"field", 0>>, pack)

\* finalize() of the extensions changes nothing here.
ExtFinalize == module \in {"frag", "wesp", "route"} /\ FinalizeWith(pack)

-----------------------------------------------------------------------------

Ip6Next ==
  \/ Ip6Field \/ Ip6Finalize \/ FragField \/ WespField \/ RouteField \/ ExtFinalize
  \/ \E n \in Numbers : Ip6Version(n) \/ Ip6Priority(n) \/ Ip6Class(n) \/ Ip6Ecn(n) \/ Ip6Flow(n)
                        \/ FragOffset(n) \/ FragFlags(n) \/ WespPad(n)
  \/ \E n \in RouteSizes, valid \in BOOLEAN : RouteAddrs(n, valid)

Ip6Spec == Ip6Init /\ [][Ip6Next]_vars

-----------------------------------------------------------------------------
\* Properties.

\* Types and ranges.
Ip6TypeOK ==
  /\ module = "ipv6" => {pack.high, pack.low} \subseteq 0..(WORD - 1) /\ pack.mod \subseteq {"version"}
  /\ module = "frag" => pack.frag_off \in 0..(WORD - 1)
  /\ module = "wesp" => pack.alloc \in {4, 8} /\ pack.padded \in {0, 1} /\ pack.mod \subseteq {"padded"}
  /\ module = "route" => pack.alloc \in Nat /\ pack.hdrlen \in 0..(BYTE - 1) /\ pack.addrs \in 0..AddrMax

\* The value of the last of some options, by default d.
Given(names, d) ==
  LET at == {i \in DOMAIN opts : opts[i][1] \in names} IN
  IF at = {} THEN d ELSE opts[CHOOSE i \in at : \A j \in at : j <= i][2]

\* Which option set the first bits of the class last; these take a class by its
\* upper four of six bits.
ClassHigh ==
  LET at == {i \in DOMAIN opts : opts[i][1] \in {"p", "t"}}
      last == opts[CHOOSE i \in at : \A j \in at : j <= i]
  IN IF at = {} THEN 0 ELSE IF last[1] = "p" THEN last[2] % 16 ELSE (last[2] \div 4) % 16

\* Fields that share a word do not disturb each other, however their options
\* follow each other and how often they are repeated: in the finished header
\* each has its last value, cut to its width (priority and class overlap by
\* intent, ipv6.1), or its default; those of frag as long as their numbers have 16
\* bits (frag.c:107 cuts larger ones, which frag.1:10 allows).  A routing header has all the addresses of
\* the last list, and never part of a list that is too long.
FieldsKept ==
  pc = "done" =>
    /\ module = "ipv6" =>
         /\ pack.high = ((Given({"v"}, 6) % 16) * 2^12) + (ClassHigh * 2^8)
                        + ((Given({"t"}, 0) % 4) * 2^6) + ((Given({"e"}, 0) % 4) * 2^4)
                        + ((Given({"f"}, 0) \div WORD) % 16)
         /\ pack.low = Given({"f"}, 0) % WORD
    /\ module = "frag" =>
         /\ Given({"o"}, 0) < WORD => Swap(pack.frag_off) \div 8 = Given({"o"}, 0)
         /\ Given({"f"}, 0) < WORD => Swap(pack.frag_off) % 8 = Given({"f"}, 0)
    /\ module = "route" =>
         /\ pack.addrs = Given({"a"}, 0)
         /\ pack.alloc = RtSize + 16 * pack.addrs
=============================================================================

--------------------------------- MODULE Tlv ---------------------------------
\* Options that ipv4.c and tcp.c append to their fixed header of 20 bytes, and
\* what a receiver of the header makes of them: kind, length and data, or the
\* kind alone.
EXTENDS Header

CONSTANTS
  MaxTlvOpts,  \* bound: options of the header
  NumSizes     \* how many bytes the argument of -ionum and -tonum has

ASSUME TlvAssumption == MaxTlvOpts \in Nat /\ NumSizes \subseteq Nat

Fixed == 20  \* sizeof(ip_header), sizeof(tcp_header)

Eol    == 0
Nop    == 1
Other  == 2   \* any kind that has a length
Unset  == -1  \* a byte nobody wrote

\* initialize()
TlvPack == [alloc |-> Fixed, mod |-> {}, nibble |-> 0, list |-> <<>>]

\* Mutant: The byte of the length counts the data only.
addoption_data(p, kind, size) ==
  [p EXCEPT !.alloc = @ + (size % BYTE),
            !.list = Append(@, [kind |-> kind, at |-> p.alloc, size |-> size,
                                len |-> IF size > 1 THEN (size - 2) % BYTE ELSE Unset])]

\* An option of size bytes at the end of the header; its length is an u_int8_t.
\* The kind is always written, the length only into a second byte.
addoption(p, kind, size) ==
  LET len == size % BYTE IN
  [p EXCEPT !.alloc = @ + len,
            !.list = Append(@, [kind |-> kind, at |-> p.alloc, size |-> size,
                                len |-> IF len > 1 THEN len ELSE Unset])]

\* -onum of both modules: str2val() fills eight bytes (sizeof(dst), a pointer)
\* of n in the argument.
NumBytes(n) == IF n > 8 THEN 8 ELSE n

\* Mutant: The length is not cut to four bits.
TlvLength_wide(p) == IF "nibble" \in p.mod THEN p ELSE [p EXCEPT !.nibble = (p.alloc + 3) \div 4]

\* The length of the header in words, four bits.
TlvLength(p) == IF "nibble" \in p.mod THEN p ELSE [p EXCEPT !.nibble = ((p.alloc + 3) \div 4) % 16]

-----------------------------------------------------------------------------
\* The receiver.

\* Where it looks for an option behind the first i of s.
Reach(s, i) ==
  IF i = 0 THEN Fixed ELSE s[i].at + (IF s[i].kind = Nop THEN 1 ELSE s[i].len)

\* A receiver of the header of p, going from kind to kind up to an Eol or the end
\* of the header, reads the options s and takes no other byte for one.
Reads(p, s) ==
  LET end == 4 * p.nibble IN
  /\ \A i \in DOMAIN s :
       /\ \E j \in DOMAIN p.list : s[i] = p.list[j]
       /\ s[i].at = Reach(s, i - 1) /\ s[i].at < end
       /\ s[i].kind \in {Eol, Nop} \/ (s[i].kind = Other /\ s[i].len >= 2)
       /\ s[i].kind = Eol => i = Len(s)
  /\ Reach(s, Len(s)) = end \/ (s # <<>> /\ s[Len(s)].kind = Eol)

\* The options up to the first Eol.
Meant(p) ==
  LET eols == {i \in DOMAIN p.list : p.list[i].kind = Eol}
  IN IF eols = {} THEN p.list
     ELSE SubSeq(p.list, 1, CHOOSE i \in eols : \A j \in eols : i <= j)

\* An option as the protocol defines it, of a size a byte can count.
Ordinary(o) == IF o.kind \in {Eol, Nop} THEN o.size = 1 ELSE o.kind = Other /\ o.size \in 2..(BYTE - 1)

\* Types and ranges.
TlvTypeOK ==
  module \in {"ipv4", "tcp"} =>
    /\ pack.alloc \in Nat /\ pack.nibble \in 0..15
    /\ pack.list \in Seq([kind : {Unset, Eol, Nop, Other}, at : Nat, size : Nat, len : {Unset} \union 0..(BYTE - 1)])

\* A receiver that walks from kind to kind by the lengths it finds, through the
\* header as long as the header says it is, reads every option that was given up
\* to an end of list, in the order given, and takes no other byte for one: provided
\* each option is one the protocol knows, the user left the length alone, it fits
\* into its four bits, and the list is closed or ends at a whole word (nothing
\* pads it).
OptionsReadable ==
  (module \in {"ipv4", "tcp"} /\ pc = "done") =>
    LET closed == \E i \in DOMAIN pack.list : pack.list[i].kind = Eol IN
    (/\ "nibble" \notin pack.mod /\ pack.alloc <= 60
     /\ closed \/ pack.alloc % 4 = 0
     /\ \A i \in DOMAIN pack.list : Ordinary(pack.list[i]))
      => Reads(pack, Meant(pack))

=============================================================================

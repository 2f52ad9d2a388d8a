------------------------------- MODULE Chain -------------------------------
(***************************************************************************)
(* finalize(): main() calls it for one header after the other, from the    *)
(* inside out.  Each call fills in the fields of its own header that name  *)
(* the next header or sum up the bytes inside; tcp, udp and icmp also write*)
(* into an IPv4 header further out, ah looks at one.                       *)
(*                                                                         *)
(* A header is its option letter, as in the array hdrs of the code; a      *)
(* protocol number is the letter header_type() has it from.  Of all bytes  *)
(* the ones finalize() writes are modelled: a checksum is the tuple of     *)
(* fields it was computed from.                                            *)
(***************************************************************************)
EXTENDS Integers, Sequences, FiniteSets

CONSTANTS Chains,   \* sequences of option letters explored
          Tails,    \* values of the byte behind hdrs (there is no '\0' there)
          MaxUser   \* fields a command line sets

IP == {"i", "6"}
Transport == {"t", "u", "c"}
NextHdr == {"6", "F", "H", "d", "o", "a", "e"}   \* have a next-header field only they set
Letter == IP \cup Transport \cup NextHdr \cup {"g", "s", "w", "n"}

HasProto == IP \cup NextHdr \cup {"g", "w"}
HasCheck == Transport \cup {"i", "s", "g", "a", "e", "w"}

ASSUME ChainsAssumption == Chains \subseteq Seq(Letter) /\ Tails \subseteq Letter \cup {"end"}
ASSUME MaxUserAssumption == MaxUser \in Nat

\* Protocol numbers: the letters of the table, IPPROTO_ICMP, IPPROTO_NONE, and a
\* number given by the user.  IPPROTO_HOPOPTS is 0, what memset() leaves.
Zero == "H"
Proto == Letter \cup {"icmp", "none", "user"}

VARIABLES
  pc,
  hdrs, tail,
  auth,    \* cryptoah ("a"), authesp ("e"): xorauth was loaded by -am, -ea
  user,    \* <<header, "proto" or "check">>: fields set by options
  fixed,   \* headers with the MOD_PROTOCOL (MOD_NXT, MOD_NEXTHDR) bit
  k,       \* header to finalize
  proto,   \* protocol or next-header field of each header
  check    \* checksum or ICV of each header

vars == <<pc, hdrs, tail, auth, user, fixed, k, proto, check>>

Last == Len(hdrs)
Index == 1 .. Last

NoSum == [to |-> 0, bytes |-> <<>>, pseudo |-> "none"]

\* initialize() and do_opt() of every module have run.
Init ==
  /\ pc = "finalize" /\ hdrs \in Chains /\ tail \in Tails
  /\ auth \in SUBSET ({"a", "e"} \cap {hdrs[j] : j \in Index})
  /\ user \in {u \in SUBSET (({j \in Index : hdrs[j] \in HasProto} \X {"proto"})
                              \cup ({j \in Index : hdrs[j] \in HasCheck} \X {"check"})) :
                Cardinality(u) <= MaxUser}
  /\ fixed = {j \in Index : <<j, "proto">> \in user}
  /\ k = Last
  /\ proto = [j \in Index |-> IF j \in fixed THEN "user" ELSE Zero]
  /\ check = [j \in Index |-> NoSum]

-----------------------------------------------------------------------------
\* headers.c

\* hdrs[j]; one element behind the array is read for the last header.
At(j) == IF j <= Last THEN hdrs[j] ELSE tail

header_type(c) == IF c \in {"n", "end"} THEN "none" ELSE c

\* outer_header(hdrs, j, "i6"): 0 stands for -1.
outer_header_in(j, from) ==
  LET found == {i \in Index : /\ i < from /\ hdrs[i] \in IP
                              /\ \A m \in (i + 1) .. (from - 1) : hdrs[m] \notin IP}
  IN  IF found = {} THEN 0 ELSE CHOOSE i \in found : TRUE
outer_header_far(j) == outer_header_in(j, Last + 1)   \* mutant: from the innermost header
outer_header_wide(j) == outer_header_in(j, j - 1)     \* mutant: for (i = index - 2; ...)
outer_header(j) == outer_header_in(j, j)

\* inner_header(hdrs, j, "i6") within the array.
inner_header(j) ==
  LET found == {i \in Index : /\ i > j /\ hdrs[i] \in IP
                              /\ \A m \in (j + 1) .. (i - 1) : hdrs[m] \notin IP}
  IN  IF found = {} THEN 0 ELSE CHOOSE i \in found : TRUE

-----------------------------------------------------------------------------

\* What a checksum over headers from .. to and a pseudo header covers when the
\* fields are p; the payload is header Last + 1.
Sum(p, from, to, pseudo) ==
  [to |-> to, bytes |-> [j \in (from .. to) \cap Index |-> p[j]], pseudo |-> pseudo]

\* The option that leaves finalize() nothing to compute: -ic, -tc, -uc, -cc, -sc;
\* for gre the absence of -gC; for ah -ad and for esp -eI, which give the ICV its
\* room; for wesp -wh and -wt.
UserCheck(j) == <<j, "check">> \in user

\* One call of finalize() of a module with one of the letters in set.
Finalize(set) ==
  /\ pc = "finalize" /\ k >= 1 /\ hdrs[k] \in set
  /\ k' = k - 1
  /\ UNCHANGED <<hdrs, tail, auth, user>>

\* The field of header k a finalize() sets to the type of the following header.
NextType_char == At(k + 1)           \* mutant: the letter, not looked up
NextType == header_type(At(k + 1))
OwnProto_always(p) == [proto EXCEPT ![k] = p]   \* mutant: no look at the MOD bit
OwnProto(p) == IF k \in fixed THEN proto ELSE [proto EXCEPT ![k] = p]

\* ipv4: the header checksum first, then the protocol.
Ipv4Sum == Sum(proto, k, k, "none")
Ipv4Finalize ==
  /\ Finalize({"i"})
  /\ check' = IF UserCheck(k) THEN check ELSE [check EXCEPT ![k] = Ipv4Sum]
  /\ proto' = OwnProto(NextType)
  /\ UNCHANGED <<pc, fixed>>

\* ipv6, frag, hop, dest and route.
NextHeaderFinalize ==
  /\ Finalize(NextHdr \ {"a", "e"})
  /\ proto' = OwnProto(NextType)
  /\ UNCHANGED <<pc, fixed, check>>

\* ah with the xorauth module.  The protocol of the fake IP header the ICV is
\* computed over is the one the real header has so far, or the header behind ah.
\* Without room for the ICV xoricv() divides by zero; without an enclosing IP
\* header headers[-1] is read: the process dies, finds NULL or some pointer.
FakeProto(i) == IF i \in fixed THEN proto[i] ELSE NextType

AhLoaded == "a" \in auth

AhFinalize ==
  /\ Finalize({"a"})
  /\ proto' = OwnProto(NextType)
  /\ LET i == outer_header(k)
     IN  /\ check' = IF ~AhLoaded \/ i = 0 \/ ~UserCheck(k) THEN check
                     ELSE [check EXCEPT ![k] = Sum(proto', k + 1, Last + 1, FakeProto(i))]
         /\ pc' \in IF ~AhLoaded THEN {pc}
                    ELSE IF i = 0 THEN {pc, "crash"}
                    ELSE {IF UserCheck(k) THEN pc ELSE "crash"}
  /\ UNCHANGED fixed

\* esp with the xorauth module: the ICV is over esp itself, its trailer and all
\* that is inside; without room for it xoricv() divides by zero.  Outside of IP
\* headers[-1] decides whether the module does anything.  (A cryptoesp module
\* encrypts in place what follows, after the ICV was made; module Auth has the
\* keys.)
EspIcv == Sum(proto', k, Last + 1, "none")
EspAuthenticates(found) == "e" \in auth /\ found
EspFinalize ==
  /\ Finalize({"e"})
  /\ proto' = OwnProto(NextType)
  /\ \E found \in {TRUE, outer_header(k) # 0} :
       /\ check' = IF EspAuthenticates(found) /\ UserCheck(k)
                   THEN [check EXCEPT ![k] = EspIcv] ELSE check
       /\ pc' = IF EspAuthenticates(found) /\ ~UserCheck(k) THEN "crash" ELSE pc
  /\ UNCHANGED fixed

\* tcp and udp: the protocol of the nearest enclosing IPv4 header unless it is
\* set already, then the checksum, with that protocol in the pseudo header; over
\* IPv6 udp puts in its own number, tcp none.  Outside of IP hdrs[-1] is read.
Pseudo6_none(c) == Zero   \* mutant: nexthdr forgotten by udp, too
Pseudo6(c) == IF c = "t" THEN Zero ELSE c

Claimed(i, p) == IF i = 0 \/ hdrs[i] = "6" \/ i \in fixed THEN proto
                 ELSE [proto EXCEPT ![i] = p]
NewlyFixed_not(i) == fixed   \* mutant: modified |= IP_MOD_PROTOCOL forgotten
NewlyFixed(i) == IF i = 0 \/ hdrs[i] = "6" THEN fixed ELSE fixed \cup {i}

TransportFinalize ==
  /\ Finalize({"t", "u"})
  /\ LET i == outer_header(k)
     IN  /\ proto' = Claimed(i, hdrs[k]) /\ fixed' = NewlyFixed(i)
         /\ check' = IF UserCheck(k) \/ i = 0 THEN check
                     ELSE [check EXCEPT ![k] =
                             Sum(proto', k, Last + 1, IF hdrs[i] = "i" THEN proto'[i]
                                                      ELSE Pseudo6(hdrs[k]))]
         /\ pc' \in IF i = 0 THEN {pc, "crash"} ELSE {pc}

\* icmp: the same, with IPPROTO_ICMP and no pseudo header over IPv4.
IcmpFinalize ==
  /\ Finalize({"c"})
  /\ LET i == outer_header(k)
     IN  /\ proto' = Claimed(i, "icmp") /\ fixed' = NewlyFixed(i)
         /\ check' = IF UserCheck(k) \/ i = 0 THEN check
                     ELSE [check EXCEPT ![k] =
                             Sum(proto', k, Last + 1, IF hdrs[i] = "6" THEN "c" ELSE "none")]
  /\ UNCHANGED pc

\* gre: the protocol is the first IP header inside; if there is none the search
\* goes on behind the array and may end at any byte.  The checksum is computed
\* if -gC asked for it ("check" not set by the user).
GreProto == IF inner_header(k) = 0 THEN IP \cup {proto[k]} ELSE {hdrs[inner_header(k)]}
GreFinalize ==
  /\ Finalize({"g"})
  /\ proto' \in {OwnProto(p) : p \in GreProto}
  /\ check' = IF UserCheck(k) THEN check
              ELSE [check EXCEPT ![k] = Sum(proto', k, Last + 1, "none")]
  /\ UNCHANGED <<pc, fixed>>

\* sctp: the CRC of the header with its chunks.
SctpFinalize ==
  /\ Finalize({"s"})
  /\ check' = IF UserCheck(k) THEN check ELSE [check EXCEPT ![k] = Sum(proto, k, k, "none")]
  /\ UNCHANGED <<pc, fixed, proto>>

\* wesp, not encrypted: the type of the header behind esp.  The lengths of IV
\* and ICV come from the private data of whatever header follows: ah has set that
\* pointer to NULL, other modules and the array's end leave any value.
WespNext == IF k = Last THEN {Zero, header_type(tail)}
            ELSE {IF hdrs[k + 1] = "e" THEN header_type(At(k + 2)) ELSE Zero}
WespOutcome == IF k = Last THEN {pc, "crash"}
               ELSE IF UserCheck(k) \/ hdrs[k + 1] = "e" THEN {pc}
               ELSE IF hdrs[k + 1] = "a" THEN {"crash"} ELSE {pc, "crash"}
WespFinalize ==
  /\ Finalize({"w"})
  /\ proto' \in {OwnProto(p) : p \in WespNext}
  /\ pc' \in WespOutcome
  /\ UNCHANGED <<fixed, check>>

\* rip, ripng, ntp, bgp: only warnings.
AppFinalize ==
  /\ Finalize({"n"})
  /\ UNCHANGED <<pc, fixed, proto, check>>

\* main() looks at the outermost header only now.
Send ==
  /\ pc = "finalize" /\ k = 0
  /\ pc' = IF Last > 0 /\ hdrs[1] \in IP THEN "sent" ELSE "refused"
  /\ UNCHANGED <<hdrs, tail, auth, user, fixed, k, proto, check>>

Done == pc \in {"sent", "refused", "crash"} /\ UNCHANGED vars

Next == \/ Ipv4Finalize \/ NextHeaderFinalize \/ AhFinalize \/ EspFinalize \/ TransportFinalize
        \/ IcmpFinalize \/ GreFinalize \/ SctpFinalize \/ WespFinalize \/ AppFinalize
        \/ Send \/ Done

Spec == Init /\ [][Next]_vars

-----------------------------------------------------------------------------
\* Properties.

Finished == pc \in {"sent", "refused"}

\* Every variable keeps its type: the fields hold protocol numbers of the table,
\* sums are over headers of this packet.
TypeOK ==
  /\ pc \in {"finalize", "sent", "refused", "crash"}
  /\ hdrs \in Chains /\ tail \in Tails /\ auth \subseteq {"a", "e"}
  /\ user \in SUBSET (Index \X {"proto", "check"}) /\ fixed \in SUBSET Index
  /\ k \in 0 .. Last
  /\ proto \in [Index -> Proto]
  /\ DOMAIN check = Index
  /\ \A j \in Index : /\ check[j].to \in 0 .. (Last + 1) /\ check[j].pseudo \in Proto
                       /\ DOMAIN check[j].bytes \subseteq Index
                       /\ \A m \in DOMAIN check[j].bytes : check[j].bytes[m] \in Proto

\* The headers finalize() of a transport header takes for its IP header, and the
\* number a transport header puts in there.
Under(i) == {j \in Index : hdrs[j] \in Transport /\ outer_header(j) = i}
Number(c) == IF c = "c" THEN "icmp" ELSE c
Innermost(j) == \A m \in Under(outer_header(j)) : m <= j

\* The bytes a checksum or ICV was computed from are the ones that are sent, for
\* every header that sums up what is inside it: no finalize() of a header further
\* out changes one of them (tcp, udp and icmp write into other headers).
ChecksumsCurrent ==
  \A j \in Index : hdrs[j] # "i" =>
    \A m \in DOMAIN check[j].bytes : check[j].bytes[m] = proto[m]

\* Once a field is set by an option, or by the header it belongs to, it stays:
\* finalize() of its own module and of other headers inside respect the MOD bit.
FixedFieldsStay == [][\A j \in fixed : proto'[j] = proto[j]]_vars

\* The number of a header of letter c behind ipv4.
Ipv4Number(c) == IF c \in Transport THEN Number(c) ELSE header_type(c)

\* A receiver that follows the next header fields of ipv6, its extension headers,
\* ah and esp meets the headers of the command line in their order, unless an
\* option says otherwise.  So it does behind ipv4 when no tcp, udp or icmp header
\* other than the following one takes that ipv4 header for its own; with such a
\* header the field names that one (Ipv4ProtocolCorrect is violated).  Nothing is
\* said of the last header, whose field is read from behind the array.
NextHeadersName ==
  Finished =>
    /\ \A j \in 1 .. (Last - 1) : hdrs[j] \in NextHdr /\ <<j, "proto">> \notin user
         => proto[j] = header_type(hdrs[j + 1])
    /\ \A i \in 1 .. (Last - 1) : hdrs[i] = "i" =>
         /\ <<i, "proto">> \in user => proto[i] = "user"
         /\ <<i, "proto">> \notin user /\ Under(i) \subseteq {i + 1}
              => proto[i] = Ipv4Number(hdrs[i + 1])

\* A receiver verifies the checksum of tcp or udp over IPv4 and of udp or icmp
\* over IPv6: the pseudo header has the protocol of the header itself.  Under such
\* a header, or an option, that of ipv4 is right as well, although it is computed
\* before finalize() of ipv4 fills in the protocol.
TransportChecksumValid ==
  Finished =>
    /\ \A j \in Index :
         LET i == outer_header(j)
         IN  hdrs[j] \in Transport /\ i # 0 /\ ~UserCheck(j) =>
               /\ check[j].to = Last + 1 /\ DOMAIN check[j].bytes = j .. Last
               /\ hdrs[i] = "i" /\ hdrs[j] # "c" /\ Innermost(j) /\ <<i, "proto">> \notin user
                    => check[j].pseudo = hdrs[j] /\ proto[i] = hdrs[j]
               /\ hdrs[i] = "6" /\ hdrs[j] # "t" => check[j].pseudo = hdrs[j]
    /\ \A i \in Index :
         hdrs[i] = "i" /\ ~UserCheck(i) /\ (<<i, "proto">> \in user \/ Under(i) # {})
           => check[i].bytes[i] = proto[i]

\* No finalize() dies of the headers[-1] or hdrs[-1] it reads, of a NULL pointer or
\* of a division by zero, if the outermost header is IP, wesp stands in front of
\* esp, and every ah and esp header of a module that computes an ICV has room for
\* it (-ad, -eI).  (hdrs[index + 1] of the last header is read, one byte behind
\* the array; it only decides that header's field.)
NoCrashInsideIP ==
  pc = "crash" =>
    \/ hdrs[1] \notin IP
    \/ \E j \in Index : hdrs[j] = "w" /\ (j = Last \/ hdrs[j + 1] # "e")
    \/ \E j \in Index : hdrs[j] \in auth /\ ~UserCheck(j)

-----------------------------------------------------------------------------
\* What the help text says and finalize() does not do.

\* ipv4.h:81: the default of the protocol is "Correct"; ipv4.c:443: "the actual
\* type of following header".
Ipv4ProtocolCorrect ==
  Finished => \A i \in 1 .. (Last - 1) : hdrs[i] = "i" /\ <<i, "proto">> \notin user
                => proto[i] = Ipv4Number(hdrs[i + 1])
=============================================================================

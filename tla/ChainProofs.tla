---------------------------- MODULE ChainProofs ----------------------------
(***************************************************************************)
(* For chains of any length and any fields set by options: what finalize() *)
(* leaves behind is typed, sums over inner headers stay current, and fields*)
(* with the MOD bit are never overwritten.                                 *)
(*                                                                         *)
(* The inductive invariant adds to TypeOK that a sum covers finalized      *)
(* headers only.  A call for header k writes fields of k and of headers    *)
(* further out (outer_header returns less than k), so no sum that exists   *)
(* covers what it writes, and the one it may make is of the new fields.    *)
(*                                                                         *)
(* The second part is about what the fields say.  Only transport headers   *)
(* fix the protocol of an IPv4 header, the innermost one that takes it for *)
(* its own comes first, and those after it find it fixed (MarkInv,         *)
(* FieldInv); so its number is the one its checksum was made with (SumInv).*)
(***************************************************************************)
EXTENDS Chain, TLAPS, WellFoundedInduction

Covered ==
  \A j \in Index : hdrs[j] # "i" =>
    \A m \in DOMAIN check[j].bytes : m > k /\ check[j].bytes[m] = proto[m]

IInv == TypeOK /\ Covered

\* What one call does, whatever the module.
GoodSum(s) ==
  /\ s.to \in 0 .. (Last + 1) /\ s.pseudo \in Proto /\ DOMAIN s.bytes \subseteq Index
  /\ \A m \in DOMAIN s.bytes :
       s.bytes[m] \in Proto /\ (hdrs[k] # "i" => m >= k /\ s.bytes[m] = proto'[m])

Call ==
  /\ k \in Index /\ k' = k - 1 /\ UNCHANGED <<hdrs, tail, auth, user>>
  /\ pc' \in {"finalize", "crash"}
  /\ fixed' \in SUBSET Index
  /\ proto' \in [Index -> Proto]
  /\ \A m \in Index : m > k => proto'[m] = proto[m]
  /\ \A j \in fixed : proto'[j] = proto[j]
  /\ check' = check \/ \E s : check' = [check EXCEPT ![k] = s] /\ GoodSum(s)

LEMMA LastNat == ASSUME hdrs \in Chains PROVE hdrs \in Seq(Letter) /\ Last \in Nat
  BY ChainsAssumption DEF Last

\* A number of the table is a protocol number.
LEMMA HeaderTypeProto ==
  ASSUME NEW c \in Letter \cup {"end"}
  PROVE  header_type(c) \in Proto
  BY DEF header_type, Proto

LEMMA AtLetter ==
  ASSUME TypeOK, NEW j \in Nat \ {0}
  PROVE  At(j) \in Letter \cup {"end"}
  <1>1. hdrs \in Seq(Letter) /\ Last \in Nat BY LastNat DEF TypeOK
  <1>2. tail \in Letter \cup {"end"} BY ChainsAssumption DEF TypeOK
  <1>3. CASE j <= Last BY <1>1, <1>3 DEF At, Last
  <1>4. CASE ~(j <= Last) BY <1>2, <1>4 DEF At
  <1> QED BY <1>3, <1>4

\* outer_header() finds an IP header further out, or nothing.
LEMMA OuterRange ==
  ASSUME TypeOK, NEW j \in Index
  PROVE  outer_header(j) \in 0 .. (j - 1)
  <1>1. Last \in Nat BY LastNat DEF TypeOK
  <1> DEFINE found == {i \in Index : /\ i < j /\ hdrs[i] \in IP
                                     /\ \A m \in (i + 1) .. (j - 1) : hdrs[m] \notin IP}
  <1>2. outer_header(j) = IF found = {} THEN 0 ELSE CHOOSE i \in found : TRUE
    BY DEF outer_header, outer_header_in
  <1>3. CASE found = {} BY <1>1, <1>2, <1>3 DEF Index
  <1>4. CASE found # {}
    <2>1. outer_header(j) \in found BY <1>2, <1>4
    <2> QED BY <1>1, <2>1 DEF Index
  <1> QED BY <1>3, <1>4

LEMMA InnerIsIP ==
  ASSUME TypeOK, NEW j \in Index, inner_header(j) # 0
  PROVE  hdrs[inner_header(j)] \in IP
  <1> DEFINE found == {i \in Index : /\ i > j /\ hdrs[i] \in IP
                                     /\ \A m \in (j + 1) .. (i - 1) : hdrs[m] \notin IP}
  <1>1. inner_header(j) = IF found = {} THEN 0 ELSE CHOOSE i \in found : TRUE
    BY DEF inner_header
  <1>2. inner_header(j) \in found BY <1>1
  <1> QED BY <1>2

\* The header's own field: written unless it is fixed.
LEMMA OwnProtoWrites ==
  ASSUME TypeOK, k \in Index, NEW p \in Proto
  PROVE  /\ OwnProto(p) \in [Index -> Proto]
         /\ \A m \in Index : m > k => OwnProto(p)[m] = proto[m]
         /\ \A j \in fixed : OwnProto(p)[j] = proto[j]
  <1>1. proto \in [Index -> Proto] /\ fixed \subseteq Index BY DEF TypeOK
  <1>2. Index \subseteq Int BY LastNat DEF TypeOK, Index
  <1>3. CASE k \in fixed BY <1>1, <1>3 DEF OwnProto
  <1>4. CASE k \notin fixed
    <2>1. OwnProto(p) = [proto EXCEPT ![k] = p] BY <1>4 DEF OwnProto
    <2> QED BY <1>1, <1>2, <1>4, <2>1
  <1> QED BY <1>3, <1>4

\* The field of the enclosing IPv4 header: the same.
LEMMA ClaimedWrites ==
  ASSUME TypeOK, k \in Index, NEW p \in Proto
  PROVE  /\ Claimed(outer_header(k), p) \in [Index -> Proto]
         /\ \A m \in Index : m > k => Claimed(outer_header(k), p)[m] = proto[m]
         /\ \A j \in fixed : Claimed(outer_header(k), p)[j] = proto[j]
         /\ NewlyFixed(outer_header(k)) \in SUBSET Index
  <1> DEFINE i == outer_header(k)
  <1>1. proto \in [Index -> Proto] /\ fixed \subseteq Index BY DEF TypeOK
  <1>2. Index \subseteq Int /\ i \in 0 .. (k - 1) /\ k <= Last /\ Last \in Nat
    BY LastNat, OuterRange DEF TypeOK, Index
  <1> HIDE DEF i
  <1>3. i # 0 => i \in Index BY <1>2 DEF Index
  <1>4. NewlyFixed(i) \in SUBSET Index BY <1>1, <1>3 DEF NewlyFixed
  <1>5. CASE i = 0 \/ hdrs[i] = "6" \/ i \in fixed
    <2>1. Claimed(i, p) = proto BY <1>5 DEF Claimed
    <2> QED BY <1>1, <1>4, <2>1 DEF i
  <1>6. CASE ~(i = 0 \/ hdrs[i] = "6" \/ i \in fixed)
    <2>1. Claimed(i, p) = [proto EXCEPT ![i] = p] BY <1>6 DEF Claimed
    <2>2. \A m \in Index : m > k => m # i BY <1>2
    <2> QED BY <1>1, <1>3, <1>4, <1>6, <2>1, <2>2 DEF i
  <1> QED BY <1>5, <1>6

\* A sum of the new fields from header k (or the next one) inwards is good.
LEMMA NewSum ==
  ASSUME TypeOK, k \in Index, proto' \in [Index -> Proto],
         NEW from \in {k, k + 1}, NEW to \in {k, Last + 1}, NEW ps \in Proto
  PROVE  GoodSum(Sum(proto', from, to, ps))
  <1> DEFINE s == Sum(proto', from, to, ps)
             D == (from .. to) \cap Index
  <1>1. Last \in Nat /\ k \in 1 .. Last BY LastNat DEF TypeOK, Index
  <1>2. s = [to |-> to, bytes |-> [j \in D |-> proto'[j]], pseudo |-> ps] BY DEF Sum
  <1>3. s.to = to /\ s.pseudo = ps /\ s.bytes = [j \in D |-> proto'[j]] BY <1>2
  <1>4. DOMAIN s.bytes = D /\ \A m \in D : s.bytes[m] = proto'[m] BY <1>3
  <1>5. \A m \in D : m \in Index /\ m >= k /\ proto'[m] \in Proto BY <1>1
  <1>6. to \in 0 .. (Last + 1) BY <1>1
  <1> HIDE DEF s, D
  <1>7. GoodSum(s) BY <1>3, <1>4, <1>5, <1>6 DEF GoodSum
  <1> QED BY <1>7 DEF s

-----------------------------------------------------------------------------
\* Every finalize() is a Call.

\* The frame all of them share.
LEMMA FinalizeFrame ==
  ASSUME TypeOK, NEW set, Finalize(set)
  PROVE  /\ k \in Index /\ k' = k - 1 /\ UNCHANGED <<hdrs, tail, auth, user>>
         /\ pc = "finalize" /\ hdrs[k] \in set
  <1>1. k >= 1 /\ k \in 0 .. Last BY DEF TypeOK, Finalize
  <1>2. Last \in Nat BY LastNat DEF TypeOK
  <1>3. k \in Index BY <1>1, <1>2 DEF Index
  <1> QED BY <1>3 DEF Finalize

LEMMA NextTypeProto == ASSUME TypeOK, k \in Index PROVE NextType \in Proto
  <1>1. k + 1 \in Nat \ {0} BY LastNat DEF TypeOK, Index
  <1> QED BY <1>1, AtLetter, HeaderTypeProto DEF NextType

\* A module that fills in its own field and makes no sum.
LEMMA OwnFieldCall ==
  ASSUME TypeOK, NEW set, Finalize(set), NEW p \in Proto, proto' = OwnProto(p),
         fixed' = fixed, check' = check, pc' \in {"finalize", "crash"}
  PROVE  Call
  <1>1. fixed \in SUBSET Index BY DEF TypeOK
  <1> QED BY <1>1, FinalizeFrame, OwnProtoWrites DEF Call

\* One that makes a sum of it, too.
LEMMA OwnSumCall ==
  ASSUME TypeOK, NEW set, Finalize(set), NEW p \in Proto, proto' = OwnProto(p),
         fixed' = fixed, pc' \in {"finalize", "crash"},
         NEW s, check' = [check EXCEPT ![k] = s], GoodSum(s)
  PROVE  Call
  <1>1. fixed \in SUBSET Index BY DEF TypeOK
  <1> QED BY <1>1, FinalizeFrame, OwnProtoWrites DEF Call

LEMMA Ipv4Call == ASSUME TypeOK, Ipv4Finalize PROVE Call
  <1>1. Finalize({"i"}) /\ fixed' = fixed /\ pc' = pc BY DEF Ipv4Finalize
  <1>2. k \in Index /\ pc' \in {"finalize", "crash"} /\ hdrs[k] = "i"
    BY <1>1, FinalizeFrame
  <1>3. NextType \in Proto /\ proto' = OwnProto(NextType)
    BY <1>2, NextTypeProto DEF Ipv4Finalize
  <1>4. CASE UserCheck(k) BY <1>1, <1>2, <1>3, <1>4, OwnFieldCall DEF Ipv4Finalize
  <1>5. CASE ~UserCheck(k)
    <2>1. Last \in Nat /\ k \in 1 .. Last /\ proto \in [Index -> Proto]
      BY <1>2, LastNat DEF TypeOK, Index
    <2>2. Ipv4Sum = [to |-> k, bytes |-> [j \in (k .. k) \cap Index |-> proto[j]],
                     pseudo |-> "none"] BY DEF Ipv4Sum, Sum
    <2>3. /\ Ipv4Sum.to = k /\ Ipv4Sum.pseudo = "none"
          /\ Ipv4Sum.bytes = [j \in (k .. k) \cap Index |-> proto[j]] BY <2>2
    <2>4. GoodSum(Ipv4Sum) BY <1>2, <2>1, <2>3 DEF GoodSum, Proto
    <2> QED BY <1>1, <1>2, <1>3, <1>5, <2>4, OwnSumCall DEF Ipv4Finalize
  <1> QED BY <1>4, <1>5

LEMMA NextHeaderCall == ASSUME TypeOK, NextHeaderFinalize PROVE Call
  <1>1. Finalize(NextHdr \ {"a", "e"}) /\ fixed' = fixed /\ pc' = pc /\ check' = check
    BY DEF NextHeaderFinalize
  <1>2. k \in Index /\ pc' \in {"finalize", "crash"} BY <1>1, FinalizeFrame
  <1>3. NextType \in Proto /\ proto' = OwnProto(NextType)
    BY <1>2, NextTypeProto DEF NextHeaderFinalize
  <1> QED BY <1>1, <1>2, <1>3, OwnFieldCall

LEMMA AhCall == ASSUME TypeOK, AhFinalize PROVE Call
  <1> DEFINE i == outer_header(k)
  <1>1. Finalize({"a"}) /\ fixed' = fixed BY DEF AhFinalize
  <1>2. k \in Index /\ pc = "finalize" BY <1>1, FinalizeFrame
  <1>3. NextType \in Proto /\ proto' = OwnProto(NextType)
    BY <1>2, NextTypeProto DEF AhFinalize
  <1>4. pc' \in {"finalize", "crash"}
    <2>1. pc' \in IF ~AhLoaded THEN {pc} ELSE IF i = 0 THEN {pc, "crash"}
                  ELSE {IF UserCheck(k) THEN pc ELSE "crash"} BY DEF AhFinalize
    <2> QED BY <1>2, <2>1
  <1>5. CASE ~AhLoaded \/ i = 0 \/ ~UserCheck(k)
    <2>1. check' = check BY <1>5 DEF AhFinalize
    <2> QED BY <1>1, <1>3, <1>4, <2>1, OwnFieldCall
  <1>6. CASE ~(~AhLoaded \/ i = 0 \/ ~UserCheck(k))
    <2> DEFINE s == Sum(proto', k + 1, Last + 1, FakeProto(i))
    <2>1. check' = [check EXCEPT ![k] = s] BY <1>6 DEF AhFinalize
    <2>2. proto' \in [Index -> Proto] BY <1>2, <1>3, OwnProtoWrites
    <2>3. FakeProto(i) \in Proto BY <1>3 DEF FakeProto, TypeOK
    <2>4. GoodSum(s) BY <1>2, <2>2, <2>3, NewSum
    <2> QED BY <1>1, <1>3, <1>4, <2>1, <2>4, OwnSumCall
  <1> QED BY <1>5, <1>6

LEMMA EspCall == ASSUME TypeOK, EspFinalize PROVE Call
  <1>1. Finalize({"e"}) /\ fixed' = fixed BY DEF EspFinalize
  <1>2. k \in Index /\ pc = "finalize" BY <1>1, FinalizeFrame
  <1>3. NextType \in Proto /\ proto' = OwnProto(NextType)
    BY <1>2, NextTypeProto DEF EspFinalize
  <1>4. pc' \in {"finalize", "crash"} BY <1>2 DEF EspFinalize
  <1>5. check' = check \/ check' = [check EXCEPT ![k] = EspIcv] BY DEF EspFinalize
  <1>6. proto' \in [Index -> Proto] BY <1>2, <1>3, OwnProtoWrites
  <1>7. "none" \in Proto BY DEF Proto
  <1>8. GoodSum(EspIcv) BY <1>2, <1>6, <1>7, NewSum DEF EspIcv
  <1> HIDE DEF EspIcv, GoodSum
  <1>9. CASE check' = check BY <1>1, <1>3, <1>4, <1>9, OwnFieldCall
  <1>10. CASE check' = [check EXCEPT ![k] = EspIcv]
    BY <1>1, <1>3, <1>4, <1>8, <1>10, OwnSumCall
  <1> QED BY <1>5, <1>9, <1>10

\* tcp, udp, icmp: the field of the enclosing header, then a sum.
LEMMA ClaimCall ==
  ASSUME TypeOK, NEW set, Finalize(set), NEW p \in Proto,
         proto' = Claimed(outer_header(k), p), fixed' = NewlyFixed(outer_header(k)),
         pc' \in {"finalize", "crash"}, NEW ps \in Proto,
         check' = check \/ check' = [check EXCEPT ![k] = Sum(proto', k, Last + 1, ps)]
  PROVE  Call
  <1>1. k \in Index BY FinalizeFrame
  <1>2. proto' \in [Index -> Proto] BY <1>1, ClaimedWrites
  <1>3. GoodSum(Sum(proto', k, Last + 1, ps)) BY <1>1, <1>2, NewSum
  <1>4. check' = check \/ \E s : check' = [check EXCEPT ![k] = s] /\ GoodSum(s) BY <1>3
  <1> HIDE DEF GoodSum
  <1> QED BY <1>1, <1>4, FinalizeFrame, ClaimedWrites DEF Call

LEMMA TransportCall == ASSUME TypeOK, TransportFinalize PROVE Call
  <1> DEFINE i == outer_header(k)
             ps == IF hdrs[i] = "i" THEN proto'[i] ELSE Pseudo6(hdrs[k])
  <1>1. Finalize({"t", "u"}) BY DEF TransportFinalize
  <1>2. k \in Index /\ pc = "finalize" /\ hdrs[k] \in {"t", "u"} BY <1>1, FinalizeFrame
  <1>3. hdrs[k] \in Proto BY <1>2 DEF Proto, Letter, Transport
  <1>4. proto' = Claimed(i, hdrs[k]) /\ fixed' = NewlyFixed(i)
    BY DEF TransportFinalize
  <1>5. pc' \in IF i = 0 THEN {pc, "crash"} ELSE {pc} BY DEF TransportFinalize
  <1>6. pc' \in {"finalize", "crash"} BY <1>2, <1>5
  <1>7. check' = IF UserCheck(k) \/ i = 0 THEN check
                 ELSE [check EXCEPT ![k] = Sum(proto', k, Last + 1, ps)]
    BY DEF TransportFinalize
  <1>8. CASE UserCheck(k) \/ i = 0
    <2>1. check' = check BY <1>7, <1>8
    <2> QED BY <1>1, <1>3, <1>4, <1>6, <2>1, ClaimCall
  <1>9. CASE ~(UserCheck(k) \/ i = 0)
    <2>1. proto' \in [Index -> Proto] BY <1>2, <1>3, <1>4, ClaimedWrites
    <2>2. i \in Index
      <3>1. i \in 0 .. (k - 1) BY <1>2, OuterRange
      <3>2. Last \in Nat BY LastNat DEF TypeOK
      <3> QED BY <1>2, <1>9, <3>1, <3>2 DEF Index
    <2>3. ps \in Proto BY <1>3, <2>1, <2>2 DEF Pseudo6, Zero, Proto, Letter, NextHdr
    <2>4. check' = [check EXCEPT ![k] = Sum(proto', k, Last + 1, ps)] BY <1>7, <1>9
    <2> HIDE DEF ps
    <2> QED BY <1>1, <1>3, <1>4, <1>6, <2>3, <2>4, ClaimCall
  <1> QED BY <1>8, <1>9

LEMMA IcmpCall == ASSUME TypeOK, IcmpFinalize PROVE Call
  <1> DEFINE i == outer_header(k)
             ps == IF hdrs[i] = "6" THEN "c" ELSE "none"
  <1>1. Finalize({"c"}) BY DEF IcmpFinalize
  <1>2. pc' \in {"finalize", "crash"} BY <1>1, FinalizeFrame DEF IcmpFinalize
  <1>3. "icmp" \in Proto /\ ps \in Proto BY DEF Proto, Letter, Transport
  <1>4. proto' = Claimed(i, "icmp") /\ fixed' = NewlyFixed(i) BY DEF IcmpFinalize
  <1>5. check' = check \/ check' = [check EXCEPT ![k] = Sum(proto', k, Last + 1, ps)]
    BY DEF IcmpFinalize
  <1> HIDE DEF ps
  <1> QED BY <1>1, <1>2, <1>3, <1>4, <1>5, ClaimCall

LEMMA GreCall == ASSUME TypeOK, GreFinalize PROVE Call
  <1>1. Finalize({"g"}) /\ fixed' = fixed /\ pc' = pc BY DEF GreFinalize
  <1>2. k \in Index /\ pc' \in {"finalize", "crash"} BY <1>1, FinalizeFrame
  <1>3. GreProto \subseteq Proto
    <2>1. proto[k] \in Proto BY <1>2 DEF TypeOK
    <2>2. IP \subseteq Proto BY DEF Proto, Letter
    <2>3. CASE inner_header(k) = 0 BY <2>1, <2>2, <2>3 DEF GreProto
    <2>4. CASE inner_header(k) # 0
      BY <1>2, <2>2, <2>4, InnerIsIP DEF GreProto
    <2> QED BY <2>3, <2>4
  <1>4. PICK p \in GreProto : proto' = OwnProto(p) BY DEF GreFinalize
  <1>5. p \in Proto BY <1>3, <1>4
  <1>6. CASE UserCheck(k) BY <1>1, <1>2, <1>4, <1>5, <1>6, OwnFieldCall DEF GreFinalize
  <1>7. CASE ~UserCheck(k)
    <2>1. proto' \in [Index -> Proto] BY <1>2, <1>4, <1>5, OwnProtoWrites
    <2>2. "none" \in Proto BY DEF Proto
    <2>3. GoodSum(Sum(proto', k, Last + 1, "none")) BY <1>2, <2>1, <2>2, NewSum
    <2> QED BY <1>1, <1>2, <1>4, <1>5, <1>7, <2>3, OwnSumCall DEF GreFinalize
  <1> QED BY <1>6, <1>7

LEMMA SctpCall == ASSUME TypeOK, SctpFinalize PROVE Call
  <1>1. /\ Finalize({"s"}) /\ fixed' = fixed /\ pc' = pc /\ proto' = proto
        BY DEF SctpFinalize
  <1>2. k \in Index /\ pc' \in {"finalize", "crash"} BY <1>1, FinalizeFrame
  <1>3. proto \in [Index -> Proto] /\ fixed \in SUBSET Index BY DEF TypeOK
  <1>4. "none" \in Proto BY DEF Proto
  <1>5. GoodSum(Sum(proto', k, k, "none")) BY <1>1, <1>2, <1>3, <1>4, NewSum
  <1>6. check' = check \/ \E s : check' = [check EXCEPT ![k] = s] /\ GoodSum(s)
    BY <1>1, <1>5 DEF SctpFinalize
  <1> QED BY <1>1, <1>2, <1>3, <1>6, FinalizeFrame DEF Call

LEMMA WespCall == ASSUME TypeOK, WespFinalize PROVE Call
  <1>1. Finalize({"w"}) /\ fixed' = fixed /\ check' = check BY DEF WespFinalize
  <1>2. k \in Index /\ pc = "finalize" BY <1>1, FinalizeFrame
  <1>3. pc' \in {"finalize", "crash"}
    <2>1. WespOutcome \subseteq {"finalize", "crash"} BY <1>2 DEF WespOutcome
    <2> QED BY <2>1 DEF WespFinalize
  <1>4. WespNext \subseteq Proto
    <2>1. Zero \in Proto BY DEF Zero, Proto, Letter, NextHdr
    <2>2. tail \in Letter \cup {"end"} BY ChainsAssumption DEF TypeOK
    <2>3. header_type(tail) \in Proto BY <2>2, HeaderTypeProto
    <2>4. k + 2 \in Nat \ {0} BY <1>2, LastNat DEF TypeOK, Index
    <2>5. header_type(At(k + 2)) \in Proto BY <2>4, AtLetter, HeaderTypeProto
    <2> QED BY <2>1, <2>3, <2>5 DEF WespNext
  <1>5. PICK p \in WespNext : proto' = OwnProto(p) BY DEF WespFinalize
  <1> QED BY <1>1, <1>3, <1>4, <1>5, OwnFieldCall

LEMMA AppCall == ASSUME TypeOK, AppFinalize PROVE Call
  <1>1. Finalize({"n"}) /\ UNCHANGED <<pc, fixed, proto, check>> BY DEF AppFinalize
  <1>2. proto \in [Index -> Proto] /\ fixed \in SUBSET Index BY DEF TypeOK
  <1> QED BY <1>1, <1>2, FinalizeFrame DEF Call
-----------------------------------------------------------------------------
\* Next is a Call, or ends the run.
LEMMA NextIsCall ==
  ASSUME TypeOK, Next
  PROVE  Call \/ Send \/ UNCHANGED vars
  BY Ipv4Call, NextHeaderCall, AhCall, EspCall, TransportCall, IcmpCall, GreCall, SctpCall,
     WespCall, AppCall DEF Next, Done

LEMMA CallKeepsType == ASSUME TypeOK, Call PROVE TypeOK'
  <1>1. hdrs' = hdrs /\ Index' = Index /\ Last' = Last BY DEF Call, Index, Last
  <1>2. k' \in 0 .. Last BY LastNat DEF TypeOK, Call, Index
  <1>3. DOMAIN check' = Index /\ \A j \in Index :
          /\ check'[j].to \in 0 .. (Last + 1) /\ check'[j].pseudo \in Proto
          /\ DOMAIN check'[j].bytes \subseteq Index
          /\ \A m \in DOMAIN check'[j].bytes : check'[j].bytes[m] \in Proto
    <2>1. CASE check' = check BY <2>1 DEF TypeOK
    <2>2. CASE check' # check
      <3>1. PICK s : check' = [check EXCEPT ![k] = s] /\ GoodSum(s) BY <2>2 DEF Call
      <3>2. \A j \in Index : check'[j] = IF j = k THEN s ELSE check[j]
        BY <3>1 DEF TypeOK
      <3>3. DOMAIN check' = Index BY <3>1 DEF TypeOK
      <3>4. /\ s.to \in 0 .. (Last + 1) /\ s.pseudo \in Proto /\ DOMAIN s.bytes \subseteq Index
            /\ \A m \in DOMAIN s.bytes : s.bytes[m] \in Proto BY <3>1 DEF GoodSum
      <3>5. SUFFICES ASSUME NEW j \in Index
                     PROVE  /\ check'[j].to \in 0 .. (Last + 1) /\ check'[j].pseudo \in Proto
                            /\ DOMAIN check'[j].bytes \subseteq Index
                            /\ \A m \in DOMAIN check'[j].bytes : check'[j].bytes[m] \in Proto
        BY <3>3
      <3>6. CASE j = k
        <4>1. check'[j] = s BY <3>2, <3>6
        <4> QED BY <4>1, <3>4
      <3>7. CASE j # k
        <4>1. check'[j] = check[j] BY <3>2, <3>7
        <4> QED BY <4>1 DEF TypeOK
      <3> QED BY <3>6, <3>7
    <2> QED BY <2>1, <2>2
  <1>4. /\ hdrs' \in Chains /\ tail' \in Tails /\ auth' \subseteq {"a", "e"}
        /\ user' \in SUBSET (Index \X {"proto", "check"})
        /\ pc' \in {"finalize", "sent", "refused", "crash"}
        /\ fixed' \in SUBSET Index /\ proto' \in [Index -> Proto]
    BY DEF Call, TypeOK
  <1> QED BY <1>1, <1>2, <1>3, <1>4 DEF TypeOK

LEMMA CallKeepsCovered == ASSUME TypeOK, Covered, Call PROVE Covered'
  <1>1. hdrs' = hdrs /\ Index' = Index /\ k' = k - 1 BY DEF Call, Index, Last
  <1>2. k \in Index /\ Index \subseteq Int BY LastNat DEF TypeOK, Call, Index
  <1>3. SUFFICES ASSUME NEW j \in Index, hdrs[j] # "i", NEW m \in DOMAIN check'[j].bytes
                 PROVE  m > k - 1 /\ check'[j].bytes[m] = proto'[m]
    BY <1>1 DEF Covered
  <1>4. CASE check'[j] = check[j]
    <2>1. m \in Index BY <1>4 DEF TypeOK
    <2>2. m > k /\ check[j].bytes[m] = proto[m] BY <1>3, <1>4 DEF Covered
    <2>3. proto'[m] = proto[m] BY <2>1, <2>2 DEF Call
    <2> QED BY <1>2, <1>4, <2>1, <2>2, <2>3
  <1>5. CASE check'[j] # check[j]
    <2>1. PICK s : check' = [check EXCEPT ![k] = s] /\ GoodSum(s) BY <1>5 DEF Call
    <2>2. j = k /\ check'[j] = s BY <1>5, <2>1 DEF TypeOK
    <2>3. m \in Index /\ m >= k /\ s.bytes[m] = proto'[m]
      BY <1>3, <2>1, <2>2 DEF GoodSum
    <2> QED BY <1>2, <2>2, <2>3
  <1> QED BY <1>4, <1>5

LEMMA SendKeeps == ASSUME IInv, Send PROVE IInv'
  <1>1. UNCHANGED <<hdrs, tail, auth, user, fixed, k, proto, check>>
        /\ pc' \in {"sent", "refused"} BY DEF Send
  <1>2. Index' = Index /\ Last' = Last BY <1>1 DEF Index, Last
  <1>3. TypeOK' BY <1>1, <1>2 DEF IInv, TypeOK
  <1>4. Covered' BY <1>1, <1>2 DEF IInv, Covered
  <1> QED BY <1>3, <1>4 DEF IInv

LEMMA InitEstablishes == Init => IInv
  <1> SUFFICES ASSUME Init PROVE IInv OBVIOUS
  <1>1. hdrs \in Chains /\ tail \in Tails /\ auth \subseteq {"a", "e"} /\ k = Last BY DEF Init
  <1>2. Last \in Nat BY <1>1, LastNat
  <1>3. user \in SUBSET (Index \X {"proto", "check"}) BY DEF Init
  <1>4. fixed \in SUBSET Index BY DEF Init
  <1>5. proto \in [Index -> Proto] BY DEF Init, Proto, Zero, Letter, NextHdr
  <1>6. DOMAIN check = Index /\ \A j \in Index : check[j] = NoSum BY DEF Init
  <1>7. NoSum.to = 0 /\ NoSum.bytes = <<>> /\ NoSum.pseudo = "none" BY DEF NoSum
  <1>8. DOMAIN NoSum.bytes = {} BY <1>7
  <1>9. \A j \in Index : /\ check[j].to \in 0 .. (Last + 1) /\ check[j].pseudo \in Proto
                         /\ DOMAIN check[j].bytes = {}
    BY <1>2, <1>6, <1>7, <1>8 DEF Proto
  <1>10. pc = "finalize" BY DEF Init
  <1>11. TypeOK BY <1>1, <1>2, <1>3, <1>4, <1>5, <1>6, <1>9, <1>10 DEF TypeOK
  <1>12. Covered BY <1>9 DEF Covered
  <1> QED BY <1>11, <1>12 DEF IInv

LEMMA NextKeeps == IInv /\ [Next]_vars => IInv'
  <1> SUFFICES ASSUME IInv, [Next]_vars PROVE IInv' OBVIOUS
  <1>1. TypeOK /\ Covered BY DEF IInv
  <1>2. CASE Call BY <1>1, <1>2, CallKeepsType, CallKeepsCovered DEF IInv
  <1>3. CASE Send BY <1>3, SendKeeps
  <1>4. CASE UNCHANGED vars
    <2>1. UNCHANGED <<pc, hdrs, tail, auth, user, fixed, k, proto, check>>
      BY <1>4 DEF vars
    <2>2. Index' = Index /\ Last' = Last BY <2>1 DEF Index, Last
    <2>3. TypeOK' BY <1>1, <2>1, <2>2 DEF TypeOK
    <2>4. Covered' BY <1>1, <2>1, <2>2 DEF Covered
    <2> QED BY <2>3, <2>4 DEF IInv
  <1> QED BY <1>1, <1>2, <1>3, <1>4, NextIsCall

THEOREM Invariance == Spec => []IInv
  BY InitEstablishes, NextKeeps, PTL DEF Spec

\* Every run keeps the types (Chain: all finalize() and main() at 640-691).
THEOREM TypeCorrect == Spec => []TypeOK
  <1>1. IInv => TypeOK BY DEF IInv
  <1> QED BY <1>1, Invariance, PTL

\* Whatever chain: the fields a tcp, udp, icmp, gre or sctp checksum or an ah or
\* esp ICV was computed from are those of the packet that is sent.
THEOREM SumsStayCurrent == Spec => []ChecksumsCurrent
  <1>1. IInv => ChecksumsCurrent BY DEF IInv, Covered, ChecksumsCurrent
  <1> QED BY <1>1, Invariance, PTL

\* Whatever chain: no finalize() overwrites a field whose MOD bit is set.
THEOREM FixedStay == Spec => FixedFieldsStay
  <1>1. TypeOK /\ [Next]_vars => [\A j \in fixed : proto'[j] = proto[j]]_vars
    <2> SUFFICES ASSUME TypeOK, Next PROVE \A j \in fixed : proto'[j] = proto[j]
      BY DEF vars
    <2>1. CASE Call BY <2>1 DEF Call
    <2>2. CASE Send BY <2>2 DEF Send
    <2>3. CASE UNCHANGED vars BY <2>3 DEF vars
    <2> QED BY <2>1, <2>2, <2>3, NextIsCall
  <1> QED BY <1>1, TypeCorrect, PTL DEF Spec, FixedFieldsStay
-----------------------------------------------------------------------------
\* What the fields say at the end.

\* finalize() has run for a transport header that takes i for its IP header.
Named(i) == \E m \in Under(i) : m > k

Given(j) == <<j, "proto">> \in user

\* A field is fixed by an option, or once a transport header has written it.
MarkInv == \A j \in Index : j \in fixed <=> Given(j) \/ (hdrs[j] = "i" /\ Named(j))

FieldInv ==
  \A j \in Index :
    /\ Given(j) => proto[j] = "user"
    /\ hdrs[j] \in NextHdr /\ ~Given(j) /\ j > k => proto[j] = header_type(At(j + 1))
    /\ hdrs[j] = "i" /\ ~Given(j) /\ Named(j) =>
         \E m \in Under(j) : Innermost(m) /\ proto[j] = Number(hdrs[m])
    /\ hdrs[j] = "i" /\ ~Given(j) /\ ~Named(j) /\ j > k => proto[j] = header_type(At(j + 1))

SumInv ==
  \A j \in Index : j > k /\ ~UserCheck(j) =>
    /\ hdrs[j] \in Transport /\ outer_header(j) # 0 =>
         LET i == outer_header(j)
         IN  /\ check[j].to = Last + 1 /\ DOMAIN check[j].bytes = j .. Last
             /\ hdrs[i] = "i" /\ hdrs[j] # "c" /\ Innermost(j) /\ ~Given(i)
                  => check[j].pseudo = hdrs[j] /\ proto[i] = hdrs[j]
             /\ hdrs[i] = "6" /\ hdrs[j] # "t" => check[j].pseudo = hdrs[j]
    /\ hdrs[j] = "i" /\ j \in fixed => check[j].bytes[j] = proto[j]

EndInv == Finished => k = 0

FInv == TypeOK /\ MarkInv /\ FieldInv /\ SumInv /\ EndInv

-----------------------------------------------------------------------------
\* What one call does to the fields.

\* The IPv4 header whose field a transport header's finalize() writes, if it may.
Writes(i) == hdrs[k] \in Transport /\ i = outer_header(k) /\ i # 0 /\ hdrs[i] = "i"

Step ==
  /\ k \in Index /\ k' = k - 1 /\ UNCHANGED <<hdrs, tail, auth, user>>
  /\ pc' \in {"finalize", "crash"}
  /\ \A m \in Index : m # k => check'[m] = check[m]
  /\ \A m \in Index : m # k /\ ~(Writes(m) /\ m \notin fixed) => proto'[m] = proto[m]
  /\ \A m \in Index : Writes(m) /\ m \notin fixed => proto'[m] = Number(hdrs[k])
  /\ k \in fixed => proto'[k] = proto[k]
  /\ hdrs[k] \in NextHdr \cup {"i"} /\ k \notin fixed => proto'[k] = header_type(At(k + 1))
  /\ \A m \in Index : m \in fixed' <=> m \in fixed \/ Writes(m)
  /\ hdrs[k] = "i" /\ ~UserCheck(k) => check'[k].bytes[k] = proto[k]
  /\ hdrs[k] \in Transport /\ outer_header(k) # 0 /\ ~UserCheck(k) =>
       /\ check'[k].to = Last + 1 /\ DOMAIN check'[k].bytes = k .. Last
       /\ hdrs[outer_header(k)] = "i" /\ hdrs[k] # "c"
            => check'[k].pseudo = proto'[outer_header(k)]
       /\ hdrs[outer_header(k)] = "6" /\ hdrs[k] # "t" => check'[k].pseudo = hdrs[k]

\* outer_header() is what its callers take it for.
LEMMA OuterIsIP ==
  ASSUME TypeOK, NEW j \in Index, outer_header(j) # 0
  PROVE  hdrs[outer_header(j)] \in IP /\ outer_header(j) \in Index
  <1> DEFINE found == {i \in Index : /\ i < j /\ hdrs[i] \in IP
                                     /\ \A m \in (i + 1) .. (j - 1) : hdrs[m] \notin IP}
  <1>1. outer_header(j) = IF found = {} THEN 0 ELSE CHOOSE i \in found : TRUE
    BY DEF outer_header, outer_header_in
  <1>2. outer_header(j) \in found BY <1>1
  <1> QED BY <1>2

\* A module that writes its own field and, if any, its own sum.
LEMMA OwnStep ==
  ASSUME TypeOK, NEW set, Finalize(set), set \cap Transport = {},
         NEW p \in Proto, proto' = OwnProto(p),
         hdrs[k] \in NextHdr \cup {"i"} => p = NextType, fixed' = fixed,
         pc' \in {"finalize", "crash"},
         check' = check \/ \E s : check' = [check EXCEPT ![k] = s],
         hdrs[k] = "i" /\ ~UserCheck(k) => check'[k].bytes[k] = proto[k]
  PROVE  Step
  <1>1. /\ k \in Index /\ k' = k - 1 /\ UNCHANGED <<hdrs, tail, auth, user>>
        /\ hdrs[k] \in set
    BY FinalizeFrame
  <1>2. proto \in [Index -> Proto] /\ DOMAIN check = Index BY DEF TypeOK
  <1>3. hdrs[k] \notin Transport BY <1>1
  <1>4. \A m : ~Writes(m) BY <1>3 DEF Writes
  <1>5. \A m \in Index : m # k => check'[m] = check[m] BY <1>2
  <1>6. \A m \in Index : m # k => proto'[m] = proto[m]
    BY <1>1, <1>2 DEF OwnProto
  <1>7. k \in fixed => proto'[k] = proto[k] BY DEF OwnProto
  <1>8. k \notin fixed => proto'[k] = p BY <1>1, <1>2 DEF OwnProto
  <1>9. hdrs[k] \in NextHdr \cup {"i"} /\ k \notin fixed => proto'[k] = header_type(At(k + 1))
    BY <1>8 DEF NextType
  <1> QED BY <1>1, <1>3, <1>4, <1>5, <1>6, <1>7, <1>9 DEF Step

LEMMA Ipv4Step == ASSUME TypeOK, Ipv4Finalize PROVE Step
  <1>1. Finalize({"i"}) /\ fixed' = fixed /\ pc' = pc BY DEF Ipv4Finalize
  <1>2. k \in Index /\ pc' \in {"finalize", "crash"} BY <1>1, FinalizeFrame
  <1>3. NextType \in Proto /\ proto' = OwnProto(NextType)
    BY <1>2, NextTypeProto DEF Ipv4Finalize
  <1>4. check' = check \/ check' = [check EXCEPT ![k] = Ipv4Sum] BY DEF Ipv4Finalize
  <1>5. ~UserCheck(k) => check'[k].bytes[k] = proto[k]
    <2>1. Last \in Nat /\ k \in 1 .. Last /\ DOMAIN check = Index
      BY <1>2, LastNat DEF TypeOK, Index
    <2>2. Ipv4Sum.bytes = [j \in (k .. k) \cap Index |-> proto[j]] BY DEF Ipv4Sum, Sum
    <2>3. k \in (k .. k) \cap Index BY <1>2, <2>1
    <2>4. Ipv4Sum.bytes[k] = proto[k] BY <2>2, <2>3
    <2>5. ~UserCheck(k) => check' = [check EXCEPT ![k] = Ipv4Sum] BY DEF Ipv4Finalize
    <2>6. ~UserCheck(k) => check'[k] = Ipv4Sum BY <1>2, <2>1, <2>5
    <2> QED BY <2>4, <2>6
  <1>6. {"i"} \cap Transport = {} BY DEF Transport
  <1> QED BY <1>1, <1>2, <1>3, <1>4, <1>5, <1>6, OwnStep

LEMMA NextHeaderStep == ASSUME TypeOK, NextHeaderFinalize PROVE Step
  <1>1. Finalize(NextHdr \ {"a", "e"}) /\ fixed' = fixed /\ pc' = pc /\ check' = check
    BY DEF NextHeaderFinalize
  <1>2. k \in Index /\ pc' \in {"finalize", "crash"} /\ hdrs[k] # "i"
    BY <1>1, FinalizeFrame DEF NextHdr
  <1>3. NextType \in Proto /\ proto' = OwnProto(NextType)
    BY <1>2, NextTypeProto DEF NextHeaderFinalize
  <1>4. (NextHdr \ {"a", "e"}) \cap Transport = {} BY DEF Transport, NextHdr
  <1> QED BY <1>1, <1>2, <1>3, <1>4, OwnStep

LEMMA AhStep == ASSUME TypeOK, AhFinalize PROVE Step
  <1> DEFINE i == outer_header(k)
             s == Sum(proto', k + 1, Last + 1, FakeProto(i))
  <1>1. Finalize({"a"}) /\ fixed' = fixed BY DEF AhFinalize
  <1>2. k \in Index /\ pc = "finalize" /\ hdrs[k] # "i" BY <1>1, FinalizeFrame
  <1>3. NextType \in Proto /\ proto' = OwnProto(NextType)
    BY <1>2, NextTypeProto DEF AhFinalize
  <1>4. pc' \in {"finalize", "crash"}
    <2>1. pc' \in IF ~AhLoaded THEN {pc} ELSE IF i = 0 THEN {pc, "crash"}
                  ELSE {IF UserCheck(k) THEN pc ELSE "crash"} BY DEF AhFinalize
    <2> QED BY <1>2, <2>1
  <1>5. check' = check \/ check' = [check EXCEPT ![k] = s] BY DEF AhFinalize
  <1>6. {"a"} \cap Transport = {} BY DEF Transport
  <1> HIDE DEF s
  <1> QED BY <1>1, <1>2, <1>3, <1>4, <1>5, <1>6, OwnStep

LEMMA EspStep == ASSUME TypeOK, EspFinalize PROVE Step
  <1>1. Finalize({"e"}) /\ fixed' = fixed BY DEF EspFinalize
  <1>2. k \in Index /\ pc = "finalize" /\ hdrs[k] # "i" BY <1>1, FinalizeFrame
  <1>3. NextType \in Proto /\ proto' = OwnProto(NextType)
    BY <1>2, NextTypeProto DEF EspFinalize
  <1>4. pc' \in {"finalize", "crash"} BY <1>2 DEF EspFinalize
  <1>5. check' = check \/ check' = [check EXCEPT ![k] = EspIcv] BY DEF EspFinalize
  <1>6. {"e"} \cap Transport = {} BY DEF Transport
  <1> HIDE DEF EspIcv
  <1> QED BY <1>1, <1>2, <1>3, <1>4, <1>5, <1>6, OwnStep

LEMMA GreStep == ASSUME TypeOK, GreFinalize PROVE Step
  <1> DEFINE s == Sum(proto', k, Last + 1, "none")
  <1>1. Finalize({"g"}) /\ fixed' = fixed /\ pc' = pc BY DEF GreFinalize
  <1>2. k \in Index /\ pc' \in {"finalize", "crash"} /\ hdrs[k] = "g" BY <1>1, FinalizeFrame
  <1>3. GreProto \subseteq Proto
    <2>1. proto[k] \in Proto BY <1>2 DEF TypeOK
    <2>2. IP \subseteq Proto BY DEF Proto, Letter
    <2> QED BY <1>2, <2>1, <2>2, InnerIsIP DEF GreProto
  <1>4. PICK p \in GreProto : proto' = OwnProto(p) BY DEF GreFinalize
  <1>5. check' = check \/ check' = [check EXCEPT ![k] = s] BY DEF GreFinalize
  <1>6. {"g"} \cap Transport = {} /\ "g" \notin NextHdr \cup {"i"} BY DEF Transport, NextHdr
  <1> HIDE DEF s
  <1> QED BY <1>1, <1>2, <1>3, <1>4, <1>5, <1>6, OwnStep

LEMMA WespStep == ASSUME TypeOK, WespFinalize PROVE Step
  <1>1. Finalize({"w"}) /\ fixed' = fixed /\ check' = check BY DEF WespFinalize
  <1>2. k \in Index /\ hdrs[k] = "w" BY <1>1, FinalizeFrame
  <1>3. proto' \in [Index -> Proto] /\ pc' \in {"finalize", "crash"} BY WespCall DEF Call
  <1>4. PICK p \in WespNext : proto' = OwnProto(p) BY DEF WespFinalize
  <1>5. "w" \notin Transport \cup NextHdr \cup {"i"} BY DEF Transport, NextHdr
  <1>6. \A m \in Index : m # k => proto'[m] = proto[m]
    BY <1>2, <1>4 DEF OwnProto, TypeOK
  <1>7. k \in fixed => proto'[k] = proto[k] BY <1>4 DEF OwnProto
  <1>8. \A m : ~Writes(m) BY <1>2, <1>5 DEF Writes
  <1> QED BY <1>1, <1>2, <1>3, <1>5, <1>6, <1>7, <1>8, FinalizeFrame DEF Step

LEMMA QuietStep == ASSUME TypeOK, SctpFinalize \/ AppFinalize PROVE Step
  <1>1. PICK c \in {"s", "n"} : Finalize({c}) BY DEF SctpFinalize, AppFinalize
  <1>2. /\ k \in Index /\ k' = k - 1 /\ UNCHANGED <<hdrs, tail, auth, user>> /\ hdrs[k] = c
        /\ pc = "finalize"
    BY <1>1, FinalizeFrame
  <1>3. UNCHANGED <<pc, fixed, proto>> BY DEF SctpFinalize, AppFinalize
  <1>4. \A m \in Index : m # k => check'[m] = check[m]
    <2> DEFINE s == Sum(proto, k, k, "none")
    <2>1. check' = check \/ check' = [check EXCEPT ![k] = s] BY DEF SctpFinalize, AppFinalize
    <2> HIDE DEF s
    <2> QED BY <2>1 DEF TypeOK
  <1>5. c \notin Transport \cup NextHdr \cup {"i"} BY DEF Transport, NextHdr
  <1>6. \A m : ~Writes(m) BY <1>2, <1>5 DEF Writes
  <1> QED BY <1>2, <1>3, <1>4, <1>5, <1>6 DEF Step

\* A sum over the packet from header k on.
LEMMA SumParts ==
  ASSUME TypeOK, k \in Index, NEW ps, NEW s, s = Sum(proto', k, Last + 1, ps)
  PROVE  s.to = Last + 1 /\ DOMAIN s.bytes = k .. Last /\ s.pseudo = ps
  <1>1. Last \in Nat /\ k \in 1 .. Last BY LastNat DEF TypeOK, Index
  <1>2. (k .. (Last + 1)) \cap Index = k .. Last BY <1>1 DEF Index
  <1>3. s.bytes = [j \in (k .. (Last + 1)) \cap Index |-> proto'[j]] BY DEF Sum
  <1> QED BY <1>2, <1>3 DEF Sum

\* tcp, udp and icmp.
LEMMA ClaimStep ==
  ASSUME TypeOK, NEW set, Finalize(set), set \subseteq Transport,
         proto' = Claimed(outer_header(k), Number(hdrs[k])),
         fixed' = NewlyFixed(outer_header(k)), pc' \in {"finalize", "crash"}, NEW ps,
         hdrs[outer_header(k)] = "i" /\ hdrs[k] # "c" => ps = proto'[outer_header(k)],
         hdrs[outer_header(k)] = "6" /\ hdrs[k] # "t" => ps = hdrs[k],
         check' = IF UserCheck(k) \/ outer_header(k) = 0 THEN check
                  ELSE [check EXCEPT ![k] = Sum(proto', k, Last + 1, ps)]
  PROVE  Step
  <1> DEFINE i == outer_header(k)
             s == Sum(proto', k, Last + 1, ps)
  <1>1. /\ k \in Index /\ k' = k - 1 /\ UNCHANGED <<hdrs, tail, auth, user>>
        /\ hdrs[k] \in Transport
    BY FinalizeFrame
  <1>2. proto \in [Index -> Proto] /\ DOMAIN check = Index BY DEF TypeOK
  <1>3. i # 0 => i \in Index /\ hdrs[i] \in {"i", "6"} BY <1>1, OuterIsIP DEF IP
  <1>4. i # k
    <2>1. i \in 0 .. (k - 1) /\ k \in Int BY <1>1, OuterRange, LastNat DEF TypeOK, Index
    <2> QED BY <2>1
  <1>5. hdrs[k] \notin NextHdr \cup {"i"} BY <1>1 DEF Transport, NextHdr
  <1> HIDE DEF i
  <1>6. \A m \in Index : Writes(m) <=> m = i /\ hdrs[m] = "i" /\ i # 0
    BY <1>1 DEF Writes, i
  <1>7. proto' = Claimed(i, Number(hdrs[k])) /\ fixed' = NewlyFixed(i) BY DEF i
  <1>8. \A m \in Index : /\ Writes(m) /\ m \notin fixed => proto'[m] = Number(hdrs[k])
                         /\ ~(Writes(m) /\ m \notin fixed) => proto'[m] = proto[m]
    <2>1. CASE i = 0 \/ hdrs[i] = "6" \/ i \in fixed
      <3>1. proto' = proto BY <1>7, <2>1 DEF Claimed
      <3> QED BY <1>6, <2>1, <3>1
    <2>2. CASE ~(i = 0 \/ hdrs[i] = "6" \/ i \in fixed)
      <3>1. proto' = [proto EXCEPT ![i] = Number(hdrs[k])] BY <1>7, <2>2 DEF Claimed
      <3>2. i \in Index /\ hdrs[i] = "i" BY <1>3, <2>2
      <3> QED BY <1>2, <1>6, <2>2, <3>1, <3>2
    <2> QED BY <2>1, <2>2
  <1>9. \A m \in Index : m \in fixed' <=> m \in fixed \/ Writes(m)
    <2>1. CASE i = 0 \/ hdrs[i] = "6" BY <1>6, <1>7, <2>1 DEF NewlyFixed
    <2>2. CASE ~(i = 0 \/ hdrs[i] = "6")
      <3>1. fixed' = fixed \cup {i} /\ hdrs[i] = "i" BY <1>3, <1>7, <2>2 DEF NewlyFixed
      <3> QED BY <1>6, <2>2, <3>1
    <2> QED BY <2>1, <2>2
  <1>10. s.to = Last + 1 /\ DOMAIN s.bytes = k .. Last /\ s.pseudo = ps BY <1>1, SumParts
  <1>11. check' = IF UserCheck(k) \/ i = 0 THEN check ELSE [check EXCEPT ![k] = s] BY DEF i
  <1>12. /\ hdrs[i] = "i" /\ hdrs[k] # "c" => ps = proto'[i]
         /\ hdrs[i] = "6" /\ hdrs[k] # "t" => ps = hdrs[k]
    BY DEF i
  <1> HIDE DEF s
  <1>13. \A m \in Index : m # k => check'[m] = check[m] BY <1>2, <1>11
  <1>14. i # 0 /\ ~UserCheck(k) =>
           /\ check'[k].to = Last + 1 /\ DOMAIN check'[k].bytes = k .. Last
           /\ hdrs[i] = "i" /\ hdrs[k] # "c" => check'[k].pseudo = proto'[i]
           /\ hdrs[i] = "6" /\ hdrs[k] # "t" => check'[k].pseudo = hdrs[k]
    <2>1. i # 0 /\ ~UserCheck(k) => check'[k] = s BY <1>1, <1>2, <1>11
    <2> QED BY <1>10, <1>12, <2>1
  <1>15. k \in fixed => proto'[k] = proto[k] BY <1>1, <1>4, <1>6, <1>8
  <1>16. \A m \in Index : m # k /\ ~(Writes(m) /\ m \notin fixed) => proto'[m] = proto[m]
    BY <1>8
  <1> QED BY <1>1, <1>5, <1>8, <1>9, <1>13, <1>14, <1>15, <1>16 DEF Step, i

LEMMA TransportStep == ASSUME TypeOK, TransportFinalize PROVE Step
  <1> DEFINE i == outer_header(k)
             ps == IF hdrs[i] = "i" THEN proto'[i] ELSE Pseudo6(hdrs[k])
  <1>1. Finalize({"t", "u"}) BY DEF TransportFinalize
  <1>2. k \in Index /\ pc = "finalize" /\ hdrs[k] \in {"t", "u"} BY <1>1, FinalizeFrame
  <1>3. proto' = Claimed(i, Number(hdrs[k])) /\ fixed' = NewlyFixed(i)
    BY <1>2 DEF TransportFinalize, Number
  <1>4. pc' \in {"finalize", "crash"}
    <2>1. pc' \in IF i = 0 THEN {pc, "crash"} ELSE {pc} BY DEF TransportFinalize
    <2> QED BY <1>2, <2>1
  <1>5. check' = IF UserCheck(k) \/ i = 0 THEN check
                 ELSE [check EXCEPT ![k] = Sum(proto', k, Last + 1, ps)]
    BY DEF TransportFinalize
  <1>6. /\ hdrs[i] = "i" => ps = proto'[i]
        /\ hdrs[i] = "6" /\ hdrs[k] # "t" => ps = hdrs[k]
    BY DEF Pseudo6
  <1>7. {"t", "u"} \subseteq Transport BY DEF Transport
  <1> HIDE DEF ps
  <1> QED BY <1>1, <1>3, <1>4, <1>5, <1>6, <1>7, ClaimStep

LEMMA IcmpStep == ASSUME TypeOK, IcmpFinalize PROVE Step
  <1> DEFINE i == outer_header(k)
             ps == IF hdrs[i] = "6" THEN "c" ELSE "none"
  <1>1. Finalize({"c"}) BY DEF IcmpFinalize
  <1>2. hdrs[k] = "c" /\ pc' \in {"finalize", "crash"}
    BY <1>1, FinalizeFrame DEF IcmpFinalize
  <1>3. proto' = Claimed(i, Number(hdrs[k])) /\ fixed' = NewlyFixed(i)
    BY <1>2 DEF IcmpFinalize, Number
  <1>4. check' = IF UserCheck(k) \/ i = 0 THEN check
                 ELSE [check EXCEPT ![k] = Sum(proto', k, Last + 1, ps)]
    BY DEF IcmpFinalize
  <1>5. hdrs[i] = "6" => ps = hdrs[k] BY <1>2
  <1>6. {"c"} \subseteq Transport BY DEF Transport
  <1> HIDE DEF ps
  <1> QED BY <1>1, <1>2, <1>3, <1>4, <1>5, <1>6, ClaimStep

LEMMA NextIsStep == ASSUME TypeOK, Next PROVE Step \/ Send \/ UNCHANGED vars
  BY Ipv4Step, NextHeaderStep, AhStep, EspStep, TransportStep, IcmpStep, GreStep, WespStep,
     QuietStep
  DEF Next, Done

-----------------------------------------------------------------------------
\* A step keeps what the fields say.

\* Only the transport header that is finalized now joins the ones that were.
LEMMA NamedStep ==
  ASSUME TypeOK, Step
  PROVE  /\ \A j : Under(j)' = Under(j)
         /\ \A j \in Index : Named(j)' <=> Named(j) \/ k \in Under(j)
         /\ \A j \in Index : hdrs[j] = "i" => (k \in Under(j) <=> Writes(j))
         /\ \A j : Innermost(j)' = Innermost(j)
         /\ \A j : At(j)' = At(j)
         /\ Index' = Index /\ Last' = Last /\ Index \subseteq Nat \ {0}
         /\ \A j : outer_header(j)' = outer_header(j)
  <1>1. /\ k \in Index /\ k' = k - 1 /\ UNCHANGED <<hdrs, tail, user>> BY DEF Step
  <1>2. Index' = Index /\ Last' = Last /\ \A j : At(j)' = At(j) BY <1>1 DEF Index, Last, At
  <1>3. Index \subseteq Nat \ {0} BY LastNat DEF TypeOK, Index
  <1>4. \A j : outer_header(j)' = outer_header(j)
    BY <1>1, <1>2 DEF outer_header, outer_header_in
  <1>5. \A j : Under(j)' = Under(j) BY <1>1, <1>2, <1>4 DEF Under
  <1>6. \A j : Innermost(j)' = Innermost(j) BY <1>4, <1>5 DEF Innermost
  <1>7. ASSUME NEW j \in Index PROVE Named(j)' <=> Named(j) \/ k \in Under(j)
    <2>1. \A m \in Under(j) : m \in Nat BY <1>3 DEF Under
    <2>2. \A m \in Nat : m > k - 1 <=> m > k \/ m = k BY <1>1, <1>3
    <2>3. Under(j)' = Under(j) BY <1>5
    <2> QED BY <1>1, <2>1, <2>2, <2>3 DEF Named
  <1>8. ASSUME NEW j \in Index, hdrs[j] = "i" PROVE k \in Under(j) <=> Writes(j)
    <2>1. j # 0 BY <1>3
    <2> QED BY <1>1, <1>8, <2>1 DEF Under, Writes
  <1> QED BY <1>2, <1>3, <1>4, <1>5, <1>6, <1>7, <1>8

LEMMA StepMarks == ASSUME TypeOK, MarkInv, Step PROVE MarkInv'
  <1>1. Index' = Index /\ UNCHANGED <<hdrs, user>> BY NamedStep DEF Step
  <1>2. \A j \in Index : Writes(j) => hdrs[j] = "i" BY DEF Writes
  <1>3. \A j \in Index : j \in fixed' <=> j \in fixed \/ Writes(j) BY DEF Step
  <1>4. SUFFICES ASSUME NEW j \in Index
                 PROVE  j \in fixed' <=> Given(j)' \/ (hdrs[j] = "i" /\ Named(j)')
    BY <1>1 DEF MarkInv
  <1>5. Given(j)' = Given(j) BY <1>1 DEF Given
  <1>6. hdrs[j] = "i" => (Named(j)' <=> Named(j) \/ Writes(j)) BY NamedStep
  <1>7. j \in fixed <=> Given(j) \/ (hdrs[j] = "i" /\ Named(j)) BY DEF MarkInv
  <1> QED BY <1>2, <1>3, <1>5, <1>6, <1>7

LEMMA StepFields == ASSUME TypeOK, MarkInv, FieldInv, Step PROVE FieldInv'
  <1>1. /\ Index' = Index /\ UNCHANGED <<hdrs, user>> /\ k \in Index /\ k' = k - 1
        /\ Index \subseteq Nat \ {0}
    BY NamedStep DEF Step
  <1>2. SUFFICES
          ASSUME NEW j \in Index
          PROVE  /\ Given(j) => proto'[j] = "user"
                 /\ hdrs[j] \in NextHdr /\ ~Given(j) /\ j > k - 1
                      => proto'[j] = header_type(At(j + 1))
                 /\ hdrs[j] = "i" /\ ~Given(j) /\ (Named(j) \/ Writes(j)) =>
                      \E m \in Under(j) : Innermost(m) /\ proto'[j] = Number(hdrs[m])
                 /\ hdrs[j] = "i" /\ ~Given(j) /\ ~(Named(j) \/ Writes(j)) /\ j > k - 1
                      => proto'[j] = header_type(At(j + 1))
    <2>1. \A j \in Index : Given(j)' = Given(j) /\ At(j + 1)' = At(j + 1)
                           /\ Under(j)' = Under(j)
      BY <1>1, NamedStep DEF Given
    <2>2. \A j \in Index : hdrs[j] = "i" => (Named(j)' <=> Named(j) \/ Writes(j))
      BY NamedStep
    <2>3. \A m : Innermost(m)' = Innermost(m) BY NamedStep
    <2> QED BY <1>1, <2>1, <2>2, <2>3 DEF FieldInv
  <1>3. j > k - 1 => j > k \/ j = k BY <1>1
  <1>4. j \in fixed <=> Given(j) \/ (hdrs[j] = "i" /\ Named(j)) BY DEF MarkInv
  <1>5. j \in fixed => proto'[j] = proto[j] BY DEF Step
  <1>6. hdrs[j] \in NextHdr => hdrs[j] # "i" BY DEF NextHdr
  <1>7. Writes(j) => hdrs[j] = "i" BY DEF Writes
  <1>8. j # k /\ ~Writes(j) => proto'[j] = proto[j] BY DEF Step
  <1>9. j = k /\ j \notin fixed /\ hdrs[j] \in NextHdr \cup {"i"}
          => proto'[j] = header_type(At(j + 1))
    BY DEF Step
  <1>10. Given(j) => proto'[j] = "user" BY <1>4, <1>5 DEF FieldInv
  <1>11. ASSUME hdrs[j] \in NextHdr, ~Given(j), j > k - 1
         PROVE  proto'[j] = header_type(At(j + 1))
    BY <1>3, <1>4, <1>6, <1>7, <1>8, <1>9, <1>11 DEF FieldInv
  <1>12. ASSUME hdrs[j] = "i", ~Given(j), Named(j) \/ Writes(j)
         PROVE  \E m \in Under(j) : Innermost(m) /\ proto'[j] = Number(hdrs[m])
    <2>1. CASE Named(j)
      <3>1. j \in fixed BY <1>4, <1>12, <2>1
      <3>2. proto'[j] = proto[j] BY <1>5, <3>1
      <3> QED BY <1>12, <2>1, <3>2 DEF FieldInv
    <2>2. CASE ~Named(j)
      <3>1. Writes(j) /\ j \notin fixed BY <1>4, <1>12, <2>2
      <3>2. proto'[j] = Number(hdrs[k]) BY <3>1 DEF Step
      <3>3. k \in Under(j) BY <1>12, <3>1, NamedStep
      <3>4. Innermost(k)
        <4>1. outer_header(k) = j BY <3>1 DEF Writes
        <4>2. \A m \in Under(j) : m \in Nat /\ ~(m > k) BY <1>1, <2>2 DEF Named, Under
        <4> QED BY <1>1, <4>1, <4>2 DEF Innermost
      <3> QED BY <3>2, <3>3, <3>4
    <2> QED BY <2>1, <2>2
  <1>13. ASSUME hdrs[j] = "i", ~Given(j), ~(Named(j) \/ Writes(j)), j > k - 1
         PROVE  proto'[j] = header_type(At(j + 1))
    BY <1>3, <1>4, <1>8, <1>9, <1>13 DEF FieldInv
  <1> QED BY <1>10, <1>11, <1>12, <1>13

\* An IP header's transport headers are behind it.
LEMMA UnderBehind ==
  ASSUME TypeOK, NEW j \in Index, NEW m \in Under(j)
  PROVE  m > j
  <1>1. m \in Index /\ outer_header(m) = j BY DEF Under
  <1>2. outer_header(m) \in 0 .. (m - 1) /\ m \in Int
    BY <1>1, OuterRange, LastNat DEF TypeOK, Index
  <1> QED BY <1>1, <1>2

LEMMA StepSums == ASSUME TypeOK, MarkInv, SumInv, Step PROVE SumInv'
  <1>1. /\ Index' = Index /\ Last' = Last /\ UNCHANGED <<hdrs, user>> /\ k \in Index
        /\ k' = k - 1 /\ Index \subseteq Nat \ {0}
    BY NamedStep DEF Step
  <1>2. SUFFICES
          ASSUME NEW j \in Index, j > k - 1, ~UserCheck(j)
          PROVE  /\ hdrs[j] \in Transport /\ outer_header(j) # 0 =>
                      /\ check'[j].to = Last + 1 /\ DOMAIN check'[j].bytes = j .. Last
                      /\ hdrs[outer_header(j)] = "i" /\ hdrs[j] # "c" /\ Innermost(j)
                         /\ ~Given(outer_header(j))
                           => /\ check'[j].pseudo = hdrs[j]
                              /\ proto'[outer_header(j)] = hdrs[j]
                      /\ hdrs[outer_header(j)] = "6" /\ hdrs[j] # "t"
                           => check'[j].pseudo = hdrs[j]
                 /\ hdrs[j] = "i" /\ j \in fixed' => check'[j].bytes[j] = proto'[j]
    <2>1. \A i : Given(i)' = Given(i) /\ UserCheck(i)' = UserCheck(i)
      BY <1>1 DEF Given, UserCheck
    <2>2. \A i : outer_header(i)' = outer_header(i) /\ Innermost(i)' = Innermost(i)
      BY NamedStep
    <2> QED BY <1>1, <2>1, <2>2 DEF SumInv
  <1> DEFINE i == outer_header(j)
  <1>3. j > k \/ j = k BY <1>1, <1>2
  <1>4. i # 0 => i \in Index BY OuterIsIP
  <1>5. \A m \in fixed : m \in Index /\ proto'[m] = proto[m]
    <2>1. fixed \subseteq Index BY DEF TypeOK
    <2> QED BY <1>1, <2>1 DEF Step
  <1>6. CASE j > k
    <2>1. check'[j] = check[j] BY <1>1, <1>6 DEF Step
    <2>2. hdrs[j] \in Transport /\ i # 0 /\ hdrs[i] = "i" => i \in fixed
      <3> SUFFICES ASSUME hdrs[j] \in Transport, i # 0, hdrs[i] = "i" PROVE i \in fixed
        OBVIOUS
      <3>1. j \in Under(i) BY DEF Under
      <3>2. Named(i) BY <1>6, <3>1 DEF Named
      <3> QED BY <1>4, <3>2 DEF MarkInv
    <2>3. hdrs[j] = "i" /\ j \in fixed' => j \in fixed
      <3>1. Writes(j) => j < k
        <4>1. Writes(j) => outer_header(k) = j BY DEF Writes
        <4>2. outer_header(k) \in 0 .. (k - 1) BY <1>1, OuterRange
        <4> QED BY <1>1, <4>1, <4>2
      <3>2. ~Writes(j) BY <1>1, <1>6, <3>1
      <3> QED BY <3>2 DEF Step
    <2> HIDE DEF i
    <2>4. i \in fixed => proto'[i] = proto[i] BY <1>5
    <2>5. /\ hdrs[j] \in Transport /\ i # 0 =>
              /\ check[j].to = Last + 1 /\ DOMAIN check[j].bytes = j .. Last
              /\ hdrs[i] = "i" /\ hdrs[j] # "c" /\ Innermost(j) /\ ~Given(i)
                   => check[j].pseudo = hdrs[j] /\ proto[i] = hdrs[j]
              /\ hdrs[i] = "6" /\ hdrs[j] # "t" => check[j].pseudo = hdrs[j]
          /\ hdrs[j] = "i" /\ j \in fixed => check[j].bytes[j] = proto[j]
      BY <1>2, <1>6 DEF SumInv, i
    <2>6. hdrs[j] = "i" /\ j \in fixed' => check'[j].bytes[j] = proto'[j]
      BY <1>5, <2>1, <2>3, <2>5
    <2> QED BY <2>1, <2>2, <2>4, <2>5, <2>6 DEF i
  <1>7. CASE j = k
    <2>1. ASSUME hdrs[k] = "i", k \in fixed' PROVE check'[k].bytes[k] = proto'[k]
      <3>1. check'[k].bytes[k] = proto[k] BY <1>2, <1>7, <2>1 DEF Step
      <3>2. ~Writes(k) BY <2>1 DEF Writes, Transport
      <3>3. k \in fixed BY <1>1, <2>1, <3>2 DEF Step
      <3> QED BY <1>5, <3>1, <3>3
    <2>2. ASSUME hdrs[k] \in Transport, i # 0, hdrs[i] = "i", hdrs[k] # "c", Innermost(k),
                 ~Given(i)
          PROVE  check'[k].pseudo = hdrs[k] /\ proto'[i] = hdrs[k]
      <3>1. i \in Index /\ i = outer_header(k) BY <1>4, <1>7, <2>2
      <3>2. ~Named(i)
        <4>1. \A m \in Under(i) : m \in Nat /\ m <= k BY <1>1, <2>2, <3>1 DEF Innermost, Under
        <4> QED BY <1>1, <4>1 DEF Named
      <3>3. i \notin fixed BY <2>2, <3>1, <3>2 DEF MarkInv
      <3>4. Writes(i) BY <2>2, <3>1 DEF Writes
      <3>5. proto'[i] = Number(hdrs[k]) BY <3>1, <3>3, <3>4 DEF Step
      <3>6. check'[k].pseudo = proto'[i] BY <1>2, <1>7, <2>2, <3>1 DEF Step
      <3> QED BY <2>2, <3>5, <3>6 DEF Number
    <2>3. hdrs[k] \in Transport /\ i # 0 =>
            /\ check'[k].to = Last + 1 /\ DOMAIN check'[k].bytes = k .. Last
            /\ hdrs[i] = "6" /\ hdrs[k] # "t" => check'[k].pseudo = hdrs[k]
      BY <1>2, <1>7 DEF Step
    <2> QED BY <1>7, <2>1, <2>2, <2>3
  <1> QED BY <1>3, <1>6, <1>7

LEMMA FieldsStay ==
  ASSUME FInv, UNCHANGED <<hdrs, tail, auth, user, fixed, k, proto, check>>
  PROVE  MarkInv' /\ FieldInv' /\ SumInv'
  <1>1. Index' = Index /\ Last' = Last /\ \A j : At(j)' = At(j) BY DEF Index, Last, At
  <1>2. \A j : outer_header(j)' = outer_header(j) BY <1>1 DEF outer_header, outer_header_in
  <1>3. \A j : Under(j)' = Under(j) /\ UserCheck(j)' = UserCheck(j) /\ Given(j)' = Given(j)
    BY <1>1, <1>2 DEF Under, UserCheck, Given
  <1>4. \A j : Named(j)' = Named(j) /\ Innermost(j)' = Innermost(j)
    BY <1>2, <1>3 DEF Named, Innermost
  <1>5. MarkInv' BY <1>1, <1>3, <1>4 DEF FInv, MarkInv
  <1>6. FieldInv' BY <1>1, <1>3, <1>4 DEF FInv, FieldInv
  <1>7. SumInv' BY <1>1, <1>2, <1>3, <1>4 DEF FInv, SumInv
  <1> QED BY <1>5, <1>6, <1>7

LEMMA InitFields == Init => FInv
  <1> SUFFICES ASSUME Init PROVE FInv OBVIOUS
  <1>1. TypeOK BY InitEstablishes DEF IInv
  <1>2. Index \subseteq Nat /\ k = Last /\ \A j \in Index : ~(j > k)
    BY <1>1, LastNat DEF TypeOK, Index, Init
  <1>3. \A j \in Index : j \in fixed <=> Given(j) BY DEF Init, Given
  <1>4. \A j \in Index : ~Named(j) BY <1>2 DEF Named, Under
  <1>5. \A j \in fixed \cap Index : proto[j] = "user" BY DEF Init
  <1>6. pc = "finalize" BY DEF Init
  <1>7. MarkInv BY <1>3, <1>4 DEF MarkInv
  <1>8. FieldInv BY <1>2, <1>3, <1>4, <1>5 DEF FieldInv
  <1>9. SumInv BY <1>2 DEF SumInv
  <1>10. EndInv BY <1>6 DEF EndInv, Finished
  <1> QED BY <1>1, <1>7, <1>8, <1>9, <1>10 DEF FInv

LEMMA NextFields == FInv /\ [Next]_vars => FInv'
  <1> SUFFICES ASSUME FInv, [Next]_vars PROVE FInv' OBVIOUS
  <1>1. TypeOK /\ MarkInv /\ FieldInv /\ SumInv /\ EndInv BY DEF FInv
  <1>2. CASE Next
    <2>1. TypeOK'
      <3>1. CASE Call BY <1>1, <3>1, CallKeepsType
      <3>2. CASE Send
        <4>1. /\ UNCHANGED <<hdrs, tail, auth, user, fixed, k, proto, check>>
              /\ pc' \in {"sent", "refused"}
          BY <3>2 DEF Send
        <4>2. Index' = Index /\ Last' = Last BY <4>1 DEF Index, Last
        <4> QED BY <1>1, <4>1, <4>2 DEF TypeOK
      <3>3. CASE UNCHANGED vars
        <4>1. UNCHANGED <<pc, hdrs, tail, auth, user, fixed, k, proto, check>>
          BY <3>3 DEF vars
        <4>2. Index' = Index /\ Last' = Last BY <4>1 DEF Index, Last
        <4> QED BY <1>1, <4>1, <4>2 DEF TypeOK
      <3> QED BY <1>1, <1>2, <3>1, <3>2, <3>3, NextIsCall
    <2>2. CASE Step
      <3>1. EndInv' BY <2>2 DEF Step, EndInv, Finished
      <3> QED BY <1>1, <2>1, <2>2, <3>1, StepMarks, StepFields, StepSums DEF FInv
    <2>3. CASE Send
      <3>1. EndInv' BY <2>3 DEF Send, EndInv
      <3>2. UNCHANGED <<hdrs, tail, auth, user, fixed, k, proto, check>> BY <2>3 DEF Send
      <3> QED BY <1>1, <2>1, <3>1, <3>2, FieldsStay DEF FInv
    <2>4. CASE UNCHANGED vars
      <3>1. UNCHANGED <<pc, hdrs, tail, auth, user, fixed, k, proto, check>>
        BY <2>4 DEF vars
      <3>2. EndInv' BY <1>1, <3>1 DEF EndInv, Finished
      <3> QED BY <1>1, <2>1, <3>1, <3>2, FieldsStay DEF FInv
    <2> QED BY <1>1, <1>2, <2>2, <2>3, <2>4, NextIsStep
  <1>3. CASE UNCHANGED vars
    <2>1. UNCHANGED <<pc, hdrs, tail, auth, user, fixed, k, proto, check>>
      BY <1>3 DEF vars
    <2>2. Index' = Index /\ Last' = Last BY <2>1 DEF Index, Last
    <2>3. TypeOK' BY <1>1, <2>1, <2>2 DEF TypeOK
    <2>4. EndInv' BY <1>1, <2>1 DEF EndInv, Finished
    <2> QED BY <1>1, <2>1, <2>3, <2>4, FieldsStay DEF FInv
  <1> QED BY <1>2, <1>3

LEMMA EndNamed ==
  ASSUME TypeOK, k = 0, NEW i
  PROVE  Named(i) <=> Under(i) # {}
  <1>1. \A m \in Under(i) : m \in Nat \ {0} BY LastNat DEF TypeOK, Under, Index
  <1>2. \A m \in Under(i) : m > k BY <1>1
  <1> QED BY <1>2 DEF Named

LEMMA FieldsInvariance == Spec => []FInv
  BY InitFields, NextFields, PTL DEF Spec

\* A transport header right behind ipv4 takes that for its IP header.
LEMMA NextUnder ==
  ASSUME TypeOK, NEW i \in Index, NEW j \in Index, j = i + 1, hdrs[i] = "i",
         hdrs[j] \in Transport
  PROVE  j \in Under(i)
  <1> DEFINE found == {n \in Index : /\ n < j /\ hdrs[n] \in IP
                                     /\ \A m \in (n + 1) .. (j - 1) : hdrs[m] \notin IP}
  <1>1. Last \in Nat /\ i \in 1 .. Last BY LastNat DEF TypeOK, Index
  <1>2. outer_header(j) = IF found = {} THEN 0 ELSE CHOOSE n \in found : TRUE
    BY DEF outer_header, outer_header_in
  <1>3. i \in found BY <1>1 DEF IP
  <1>4. outer_header(j) \in found BY <1>2, <1>3
  <1>5. PICK o \in 1 .. Last : o = outer_header(j) /\ o < j
                              /\ \A m \in (o + 1) .. (j - 1) : hdrs[m] \notin IP
    BY <1>4 DEF Index
  <1>6. o < i => i \in (o + 1) .. (j - 1) BY <1>1, <1>5
  <1>7. ~(o < i) BY <1>5, <1>6 DEF IP
  <1>8. o = i BY <1>1, <1>5, <1>7
  <1> QED BY <1>5, <1>8 DEF Under

\* Whatever chain, tail and options: following the next header fields one meets
\* the headers of the command line; the protocol of an IPv4 header in front of
\* another header is the option's, else that of the following header, if no other
\* transport header takes this IPv4 header for its own.
THEOREM FieldsName == Spec => []NextHeadersName
  <1>1. FInv => NextHeadersName
    <2> SUFFICES ASSUME FInv, Finished PROVE NextHeadersName
      BY DEF NextHeadersName
    <2>1. TypeOK /\ FieldInv /\ k = 0 BY DEF FInv, EndInv
    <2>2. Last \in Nat /\ Index \subseteq Nat \ {0} BY <2>1, LastNat DEF TypeOK, Index
    <2>3. ASSUME NEW j \in 1 .. (Last - 1)
          PROVE  j \in Index /\ j > k /\ j + 1 \in Index /\ At(j + 1) = hdrs[j + 1]
      BY <2>1, <2>2 DEF Index, At
    <2>4. ASSUME NEW j \in 1 .. (Last - 1), hdrs[j] \in NextHdr, <<j, "proto">> \notin user
          PROVE  proto[j] = header_type(hdrs[j + 1])
      BY <2>1, <2>3, <2>4 DEF FieldInv, Given
    <2>5. ASSUME NEW i \in 1 .. (Last - 1), hdrs[i] = "i", <<i, "proto">> \notin user,
                 Under(i) \subseteq {i + 1}
          PROVE  proto[i] = Ipv4Number(hdrs[i + 1])
      <3>1. Named(i) <=> Under(i) # {} BY <2>1, EndNamed
      <3>2. i \in Index /\ i > k /\ i + 1 \in Index /\ At(i + 1) = hdrs[i + 1] BY <2>3
      <3>3. CASE Under(i) = {}
        <4>1. hdrs[i + 1] \notin Transport BY <2>1, <2>5, <3>2, <3>3, NextUnder
        <4>2. proto[i] = header_type(hdrs[i + 1])
          BY <2>1, <2>5, <3>1, <3>2, <3>3 DEF FieldInv, Given
        <4> QED BY <4>1, <4>2 DEF Ipv4Number
      <3>4. CASE Under(i) # {}
        <4>1. PICK m \in Under(i) : proto[i] = Number(hdrs[m])
          BY <2>1, <2>5, <3>1, <3>2, <3>4 DEF FieldInv, Given
        <4>2. m = i + 1 /\ hdrs[m] \in Transport BY <2>5, <4>1 DEF Under
        <4> QED BY <4>1, <4>2 DEF Ipv4Number
      <3> QED BY <3>3, <3>4
    <2>6. ASSUME NEW i \in 1 .. (Last - 1), <<i, "proto">> \in user
          PROVE  proto[i] = "user"
      BY <2>1, <2>3, <2>6 DEF FieldInv, Given
    <2> QED BY <2>4, <2>5, <2>6 DEF NextHeadersName
  <1> QED BY <1>1, FieldsInvariance, PTL

\* Whatever chain: the sums of transport headers cover their header with all that
\* is inside and the pseudo header has the right protocol; that of an ipv4 header
\* whose protocol is set by then is current.
THEOREM TransportSums == Spec => []TransportChecksumValid
  <1>1. FInv => TransportChecksumValid
    <2> SUFFICES ASSUME FInv, Finished PROVE TransportChecksumValid
      BY DEF TransportChecksumValid
    <2>1. TypeOK /\ MarkInv /\ SumInv /\ k = 0 BY DEF FInv, EndInv
    <2>2. Index \subseteq Nat \ {0} BY <2>1, LastNat DEF TypeOK, Index
    <2>3. \A j \in Index : j > k BY <2>1, <2>2
    <2>4. ASSUME NEW i \in Index, hdrs[i] = "i", <<i, "proto">> \in user \/ Under(i) # {}
          PROVE  i \in fixed
      <3>1. Under(i) # {} => Named(i) BY <2>1, EndNamed
      <3> QED BY <2>1, <2>4, <3>1 DEF MarkInv, Given
    <2> QED BY <2>1, <2>3, <2>4 DEF SumInv, TransportChecksumValid, Given
  <1> QED BY <1>1, FieldsInvariance, PTL

-----------------------------------------------------------------------------
\* Where finalize() may die.

\* A bounded set of numbers has a greatest one.
LEMMA Greatest ==
  ASSUME NEW n \in Nat, NEW S \in SUBSET (0 .. n), S # {}
  PROVE  \E m \in S : \A i \in S : i <= m
  <1> DEFINE T == {n - i : i \in S}
  <1>0. \A i \in S : i \in Nat /\ n - i \in Nat OBVIOUS
  <1>1. T \in SUBSET Nat /\ T # {} BY <1>0
  <1>2. \E m \in T : \A i \in T : ~(<<i, m>> \in OpToRel(<, Nat))
    BY <1>1, NatLessThanWellFounded, WFMin
  <1>3. \A m, i \in Nat : <<i, m>> \in OpToRel(<, Nat) <=> i < m BY DEF OpToRel
  <1>4. PICK m \in S : \A i \in S : ~(<<n - i, n - m>> \in OpToRel(<, Nat)) BY <1>2
  <1>5. ASSUME NEW i \in S PROVE i <= m
    <2>1. n - i \in Nat /\ n - m \in Nat /\ i \in Nat /\ m \in Nat BY <1>0, <1>4
    <2>2. ~(n - i < n - m) BY <1>3, <1>4, <2>1
    <2> QED BY <2>1, <2>2
  <1> QED BY <1>5

\* Behind an outermost IP header every header has an enclosing one.
LEMMA OuterExists ==
  ASSUME TypeOK, k \in Index, outer_header(k) = 0, hdrs[k] \notin IP
  PROVE  hdrs[1] \notin IP
  <1> SUFFICES ASSUME hdrs[1] \in IP PROVE FALSE OBVIOUS
  <1>1. Last \in Nat /\ k \in 1 .. Last /\ 1 \in Index BY LastNat DEF TypeOK, Index
  <1> DEFINE found == {i \in Index : /\ i < k /\ hdrs[i] \in IP
                                     /\ \A m \in (i + 1) .. (k - 1) : hdrs[m] \notin IP}
             S == {i \in 0 .. (k - 1) : i \in Index /\ hdrs[i] \in IP}
  <1>2. k # 1 BY <1>1
  <1>3. 1 \in S BY <1>1, <1>2
  <1>4. k - 1 \in Nat /\ S \in SUBSET (0 .. (k - 1)) BY <1>1
  <1>5. PICK i \in S : \A m \in S : m <= i
    <2> HIDE DEF S
    <2> QED BY <1>3, <1>4, Greatest
  <1>6. \A m \in (i + 1) .. (k - 1) : hdrs[m] \notin IP
    <2> SUFFICES ASSUME NEW m \in (i + 1) .. (k - 1), hdrs[m] \in IP PROVE FALSE OBVIOUS
    <2>1. i \in 1 .. Last /\ m \in Index /\ ~(m <= i) BY <1>1, <1>5 DEF Index
    <2>2. m \in S BY <1>1, <2>1
    <2> QED BY <1>5, <2>1, <2>2
  <1>7. i \in found BY <1>1, <1>5, <1>6 DEF Index
  <1>8. outer_header(k) = IF found = {} THEN 0 ELSE CHOOSE x \in found : TRUE
    BY DEF outer_header, outer_header_in
  <1>9. outer_header(k) \in found BY <1>7, <1>8
  <1>10. 0 \notin found BY <1>1 DEF Index
  <1> QED BY <1>9, <1>10

\* The crashes NoCrashInsideIP speaks of.
Excused ==
  \/ hdrs[1] \notin IP
  \/ \E j \in Index : hdrs[j] = "w" /\ (j = Last \/ hdrs[j + 1] # "e")
  \/ \E j \in Index : hdrs[j] \in auth /\ ~UserCheck(j)

LEMMA CallExcused ==
  ASSUME TypeOK, Next, pc' = "crash", pc # "crash"
  PROVE  Excused
  <1>1. CASE AhFinalize
    <2>1. Finalize({"a"}) BY <1>1 DEF AhFinalize
    <2>2. k \in Index /\ hdrs[k] = "a" /\ pc = "finalize" BY <2>1, FinalizeFrame
    <2>3. pc' \in IF ~AhLoaded THEN {pc} ELSE IF outer_header(k) = 0 THEN {pc, "crash"}
                  ELSE {IF UserCheck(k) THEN pc ELSE "crash"}
      BY <1>1 DEF AhFinalize
    <2>4. "a" \in auth /\ (outer_header(k) = 0 \/ ~UserCheck(k))
      BY <2>2, <2>3 DEF AhLoaded
    <2>5. outer_header(k) = 0 => hdrs[1] \notin IP BY <2>2, OuterExists DEF IP
    <2> QED BY <2>2, <2>4, <2>5 DEF Excused
  <1>6. CASE EspFinalize
    <2>1. Finalize({"e"}) BY <1>6 DEF EspFinalize
    <2>2. k \in Index /\ hdrs[k] = "e" /\ pc = "finalize" BY <2>1, FinalizeFrame
    <2>3. "e" \in auth /\ ~UserCheck(k)
      BY <1>6, <2>2 DEF EspFinalize, EspAuthenticates
    <2> QED BY <2>2, <2>3 DEF Excused
  <1>2. CASE TransportFinalize
    <2>1. Finalize({"t", "u"}) BY <1>2 DEF TransportFinalize
    <2>2. k \in Index /\ hdrs[k] \in {"t", "u"} /\ pc = "finalize" BY <2>1, FinalizeFrame
    <2>3. pc' \in IF outer_header(k) = 0 THEN {pc, "crash"} ELSE {pc}
      BY <1>2 DEF TransportFinalize
    <2>4. hdrs[1] \notin IP BY <2>2, <2>3, OuterExists DEF IP
    <2> QED BY <2>4 DEF Excused
  <1>3. CASE WespFinalize
    <2>1. Finalize({"w"}) BY <1>3 DEF WespFinalize
    <2>2. k \in Index /\ hdrs[k] = "w" /\ pc = "finalize" BY <2>1, FinalizeFrame
    <2>3. pc' \in WespOutcome BY <1>3 DEF WespFinalize
    <2>4. k = Last \/ hdrs[k + 1] # "e" BY <2>2, <2>3 DEF WespOutcome
    <2> QED BY <2>2, <2>4 DEF Excused
  <1>4. CASE Ipv4Finalize \/ NextHeaderFinalize \/ IcmpFinalize \/ GreFinalize
             \/ SctpFinalize \/ AppFinalize
    BY <1>4 DEF Ipv4Finalize, NextHeaderFinalize, IcmpFinalize, GreFinalize, SctpFinalize,
                AppFinalize
  <1>5. CASE Send \/ Done BY <1>5 DEF Send, Done, vars
  <1> QED BY <1>1, <1>2, <1>3, <1>4, <1>5, <1>6 DEF Next

\* Whatever chain: a command line whose outermost header is IP, with wesp only in
\* front of esp and room for every ICV of ah and esp that is computed, gets through
\* the finalize() calls, the ICVs of ah and esp included, alive.
THEOREM AliveInsideIP == Spec => []NoCrashInsideIP
  <1>1. NoCrashInsideIP <=> (pc = "crash" => Excused) BY DEF NoCrashInsideIP, Excused
  <1>2. Init => NoCrashInsideIP BY <1>1 DEF Init
  <1>3. TypeOK /\ NoCrashInsideIP /\ [Next]_vars => NoCrashInsideIP'
    <2> SUFFICES ASSUME TypeOK, NoCrashInsideIP, [Next]_vars, pc' = "crash"
                 PROVE  NoCrashInsideIP'
      BY DEF NoCrashInsideIP
    <2>1. UNCHANGED <<hdrs, auth, user>>
      <3>1. CASE Next BY <3>1, NextIsCall DEF Call, Send, vars
      <3>2. CASE UNCHANGED vars BY <3>2 DEF vars
      <3> QED BY <3>1, <3>2
    <2>2. Excused
      <3>1. CASE pc = "crash" BY <1>1, <3>1
      <3>2. CASE pc # "crash" BY <3>2, CallExcused DEF vars
      <3> QED BY <3>1, <3>2
    <2>3. Excused' = Excused BY <2>1 DEF Excused, Index, Last, UserCheck
    <2> QED BY <2>2, <2>3 DEF NoCrashInsideIP, Excused
  <1> QED BY <1>2, <1>3, TypeCorrect, PTL DEF Spec
=============================================================================

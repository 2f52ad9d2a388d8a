-------------------------- MODULE SendipOrderProofs --------------------------
(***************************************************************************)
(* What a sent packet says about its command line, for every command line: *)
(* one header per -p in their order, every option applied once and to the  *)
(* header main()'s comments promise, and nothing left over from one packet *)
(* in the next.                                                            *)
(*                                                                         *)
(* current_e and the headers' options are state of pass 2; the proof gives *)
(* them as functions of the command line alone.  current_e at argument k is*)
(* the number of -p in front of k, modulo the length of the list plus one  *)
(* (Where); option k changes the header Goes names.  Pass 2 then leaves in *)
(* every iteration what these say (Options), and so does the packet sent.  *)
(***************************************************************************)
EXTENDS SendipProofs

Where(k) == ProtosBefore(k) % (Len(mods) + 1)

\* Option k of the command line goes to element j.
Goes(k, j) ==
  /\ Where(k) # 0
  /\ IF OptChar[mods[Where(k)].mod] = argv[k].c THEN j = Where(k) ELSE IsFirst(j, argv[k].c)

\* Options some loaded module takes.
Taken == {k \in Options : argv[k].c \in opts \ BaseFlag}

\* What pass 2 has given to element j when it stands at argument n.
Given(j, n) == {k \in Taken : k < n /\ Goes(k, j)}

\* The list in the order of the -p arguments, as far as pass 1 has come.
Read == IF pc = "pass1" THEN optind ELSE Len(argv) + 1
ListInv ==
  AllLoaded /\ Live =>
    /\ Len(mods) = ProtosBefore(Read)
    /\ \A k \in DOMAIN argv : k < Read /\ argv[k].k = "p" =>
         mods[ProtosBefore(k + 1)].mod = argv[k].mod

\* Pass 2 has stopped at the last argument, the hostname.
AtHost == optind = Len(argv) /\ optind \in DOMAIN argv /\ argv[optind].k = "host"

Pass2Inv ==
  pc \in {"pass2", "assemble", "send"} =>
    /\ pc # "pass2" => AtHost /\ ~usage
    /\ current = Where(optind)
    /\ \A j \in DOMAIN mods : mods[j].opts = Given(j, optind)
    /\ \A k \in Taken : k < optind => Where(k) # 0
    /\ ~usage => \A k \in Options : k < optind /\ argv[k].c \notin BaseFlag => k \in Taken

\* Every packet is what the command line makes of the list.
OneValued == \A k \in DOMAIN argv : argv[k].k = "d" => Cardinality(argv[k].lens) = 1
SentInv ==
  Live => /\ \A n \in DOMAIN sent :
               /\ sent[n].mods = [j \in DOMAIN mods |-> mods[j].mod]
               /\ sent[n].opts = [j \in DOMAIN mods |-> Given(j, Len(argv) + 1)]
               /\ OneValued => sent[n].len = datalen
          /\ OneValued /\ datarg # Null => datarg = {datalen}

Order ==
  /\ ListInv /\ Pass2Inv /\ SentInv
  /\ PacketMatchesCommandLine /\ CrashOnlyWithoutModule /\ PacketsBuiltAlike

OrderInv == MemoryInv /\ Order

-----------------------------------------------------------------------------
\* Counting the -p arguments.

LEMMA CountFacts ==
  ASSUME NEW k \in Nat \ {0}
  PROVE  /\ ProtosBefore(k) \in Nat
         /\ ProtosBefore(1) = 0
         /\ argv[k].k = "p" => ProtosBefore(k + 1) = ProtosBefore(k) + 1
         /\ argv[k].k # "p" => ProtosBefore(k + 1) = ProtosBefore(k)
  <1> DEFINE S(n) == {j \in 1 .. (n - 1) : argv[j].k = "p"}
  <1>1. IsFiniteSet(S(k))
    <2>1. IsFiniteSet(1 .. (k - 1)) BY FS_Interval
    <2>2. S(k) \in SUBSET (1 .. (k - 1)) OBVIOUS
    <2> HIDE DEF S
    <2> QED BY <2>1, <2>2, FS_Subset
  <1>2. ProtosBefore(k) \in Nat BY <1>1, FS_CardinalityType DEF ProtosBefore
  <1>3. ProtosBefore(1) = 0
    <2>1. S(1) = {} OBVIOUS
    <2> QED BY <2>1, FS_EmptySet DEF ProtosBefore
  <1>4. ASSUME argv[k].k = "p" PROVE ProtosBefore(k + 1) = ProtosBefore(k) + 1
    <2>1. S(k + 1) = S(k) \cup {k} /\ k \notin S(k) BY <1>4
    <2>2. Cardinality(S(k) \cup {k}) = Cardinality(S(k)) + 1
      <3> HIDE DEF S
      <3> QED BY <1>1, <2>1, FS_AddElement
    <2> QED BY <2>1, <2>2 DEF ProtosBefore
  <1>5. ASSUME argv[k].k # "p" PROVE ProtosBefore(k + 1) = ProtosBefore(k)
    <2>1. S(k + 1) = S(k) BY <1>5
    <2> QED BY <2>1 DEF ProtosBefore
  <1> QED BY <1>2, <1>3, <1>4, <1>5

LEMMA CountGrows ==
  ASSUME NEW m \in Nat \ {0}, NEW n \in Nat \ {0}, m <= n
  PROVE  ProtosBefore(m) <= ProtosBefore(n)
  <1> DEFINE S(i) == {j \in 1 .. (i - 1) : argv[j].k = "p"}
  <1>1. IsFiniteSet(1 .. (n - 1)) BY FS_Interval
  <1>2. S(n) \in SUBSET (1 .. (n - 1)) /\ S(m) \in SUBSET S(n) OBVIOUS
  <1>3. Cardinality(S(m)) <= Cardinality(S(n))
    <2> HIDE DEF S
    <2>1. IsFiniteSet(S(n)) BY <1>1, <1>2, FS_Subset
    <2> QED BY <1>2, <2>1, FS_Subset
  <1> QED BY <1>3 DEF ProtosBefore

LEMMA ModSmall == \A a, n \in Nat : a <= n => (a % (n + 1)) = a
  OBVIOUS

LEMMA ModNext ==
  \A a, n \in Nat : (((a % (n + 1)) + 1) % (n + 1)) = ((a + 1) % (n + 1))
  <1>1. \A a, n \in Nat :
          ((a + 1) % (n + 1)) = IF (a % (n + 1)) = n THEN 0 ELSE (a % (n + 1)) + 1
    OBVIOUS
  <1>2. \A b, n \in Nat : b <= n => ((b + 1) % (n + 1)) = IF b = n THEN 0 ELSE b + 1
    OBVIOUS
  <1>3. \A a, n \in Nat : (a % (n + 1)) \in Nat /\ (a % (n + 1)) <= n OBVIOUS
  <1> SUFFICES ASSUME NEW a \in Nat, NEW n \in Nat
               PROVE  (((a % (n + 1)) + 1) % (n + 1)) = ((a + 1) % (n + 1))
    OBVIOUS
  <1> DEFINE b == a % (n + 1)
  <1> DEFINE c == IF b = n THEN 0 ELSE b + 1
  <1>4. b \in Nat /\ b <= n BY <1>3, Zenon
  <1>5. ((a + 1) % (n + 1)) = c BY <1>1, Zenon
  <1>6. ((b + 1) % (n + 1)) = c
    <2> HIDE DEF b
    <2> QED BY <1>2, <1>4, Zenon
  <1> HIDE DEF b, c
  <1>7. ((b + 1) % (n + 1)) = ((a + 1) % (n + 1)) BY <1>5, <1>6, Zenon
  <1> QED BY <1>7 DEF b

\* current_e moves to the element the next -p stands for.
LEMMA NextWhere ==
  ASSUME TypeOK, NEW k \in Nat \ {0}, current = Where(k), argv[k].k = "p"
  PROVE  NextElement = Where(k + 1)
  <1> DEFINE n == Len(mods)
             a == ProtosBefore(k)
  <1>1. n \in Nat /\ a \in Nat /\ ProtosBefore(k + 1) = a + 1 BY ListFacts, CountFacts
  <1>2. Where(k + 1) = ((a + 1) % (n + 1)) /\ current = (a % (n + 1)) BY <1>1 DEF Where
  <1>3. current \in 0 .. n BY <1>1, <1>2, ModRange
  <1>4. NextElement = ((current + 1) % (n + 1))
    <2>1. CASE current # 0 BY <2>1 DEF NextElement
    <2>2. CASE current = 0
      <3>1. mods = <<>> <=> n = 0 BY EmptySeq DEF TypeOK
      <3>2. n = 0 => (1 % (n + 1)) = 0 OBVIOUS
      <3>3. n # 0 => (1 % (n + 1)) = 1 BY <1>1, ModSmall
      <3> QED BY <2>2, <3>1, <3>2, <3>3 DEF NextElement
    <2> QED BY <2>1, <2>2
  <1> HIDE DEF n, a
  <1>5. (((a % (n + 1)) + 1) % (n + 1)) = ((a + 1) % (n + 1)) BY <1>1, ModNext, Zenon
  <1> QED BY <1>2, <1>4, <1>5, Zenon

-----------------------------------------------------------------------------
\* After pass 1 the list does not change: where options go is fixed.

SameList ==
  /\ argv' = argv /\ DOMAIN mods' = DOMAIN mods /\ Len(mods') = Len(mods)
  /\ \A j \in DOMAIN mods : mods'[j].mod = mods[j].mod /\ mods'[j].counted = mods[j].counted

LEMMA Frozen ==
  ASSUME TypeOK, SameList
  PROVE  /\ \A k : ProtosBefore(k)' = ProtosBefore(k)
         /\ \A k \in Nat \ {0} : Where(k)' = Where(k)
         /\ opts' = opts /\ Taken' = Taken /\ Options' = Options /\ AllLoaded' = AllLoaded
         /\ \A j, n : Given(j, n)' = Given(j, n)
  <1>1. \A k : ProtosBefore(k)' = ProtosBefore(k) BY DEF ProtosBefore, SameList
  <1>2. \A k : Where(k)' = Where(k) BY <1>1 DEF Where, SameList
  <1>3. opts' = opts
    <2>1. {j \in DOMAIN mods : mods[j].counted}' = {j \in DOMAIN mods : mods[j].counted}
      BY DEF SameList
    <2> QED BY <2>1 DEF opts, SameList
  <1>4. Options' = Options /\ AllLoaded' = AllLoaded BY DEF Options, AllLoaded, SameList
  <1>5. Taken' = Taken BY <1>3, <1>4 DEF Taken, SameList
  <1>6. \A j, c : IsFirst(j, c)' <=> IsFirst(j, c)
    <2> SUFFICES ASSUME NEW j, NEW c PROVE IsFirst(j, c)' <=> IsFirst(j, c) OBVIOUS
    <2>1. CASE j \notin DOMAIN mods BY <2>1 DEF IsFirst, SameList
    <2>2. CASE j \in DOMAIN mods
      <3>1. Len(mods) \in Nat /\ DOMAIN mods = 1 .. Len(mods) BY ListFacts
      <3>2. \A i \in 1 .. (j - 1) : i \in DOMAIN mods BY <2>2, <3>1
      <3> QED BY <2>2, <3>2 DEF IsFirst, SameList
    <2> QED BY <2>1, <2>2
  <1>7. ASSUME NEW k \in Taken, NEW j PROVE Goes(k, j)' <=> Goes(k, j)
    <2>1. k \in Nat \ {0} BY ListFacts DEF Taken, Options
    <2>2. Where(k) \in 0 .. Len(mods) /\ DOMAIN mods = 1 .. Len(mods) /\ Len(mods) \in Nat
      BY <2>1, CountFacts, ListFacts, ModRange DEF Where
    <2>3. Where(k) # 0 => mods'[Where(k)].mod = mods[Where(k)].mod
      BY <2>2 DEF SameList
    <2>4. argv' = argv /\ Where(k)' = Where(k) BY <1>2 DEF SameList
    <2>5. IsFirst(j, argv[k].c)' <=> IsFirst(j, argv[k].c) BY <1>6, <2>4
    <2>6. CASE Where(k) = 0 BY <2>4, <2>6 DEF Goes
    <2>7. CASE Where(k) # 0 BY <2>3, <2>4, <2>5, <2>7 DEF Goes
    <2> QED BY <2>6, <2>7
  <1>8. \A j, n : Given(j, n)' = Given(j, n) BY <1>5, <1>7 DEF Given
  <1> QED BY <1>1, <1>2, <1>3, <1>4, <1>5, <1>8

LEMMA WhereRange ==
  ASSUME TypeOK, NEW k \in Nat \ {0}
  PROVE  Where(k) \in 0 .. Len(mods)
  BY CountFacts, ListFacts, ModRange DEF Where

\* Options of one argument are all that reading it can add.
LEMMA GivenNext ==
  ASSUME TypeOK, NEW n \in Nat, NEW j
  PROVE  Given(j, n + 1) = Given(j, n) \cup {k \in Taken : k = n /\ Goes(k, j)}
  <1>1. Taken \subseteq Nat BY ListFacts DEF Taken, Options
  <1>2. \A k \in Taken : k < n + 1 <=> (k < n \/ k = n) BY <1>1
  <1> QED BY <1>2, Zenon DEF Given

\* Exactly one element gets an option behind which current_e is not NULL.
LEMMA GoesToOne ==
  ASSUME TypeOK, NEW k \in Taken, Where(k) # 0
  PROVE  \E j \in DOMAIN mods :
           /\ \A i \in DOMAIN mods : Goes(k, i) <=> i = j
           /\ OptChar[mods[j].mod] = argv[k].c
           /\ OptChar[mods[Where(k)].mod] = argv[k].c => j = Where(k)
  <1>1. k \in Nat \ {0} /\ argv[k].c \in opts BY ListFacts DEF Taken, Options
  <1>2. Where(k) \in DOMAIN mods
    <2>1. Where(k) \in 0 .. Len(mods) BY <1>1, WhereRange
    <2>2. DOMAIN mods = 1 .. Len(mods) /\ Len(mods) \in Nat BY ListFacts
    <2> QED BY <2>1, <2>2
  <1>3. CASE OptChar[mods[Where(k)].mod] = argv[k].c BY <1>2, <1>3 DEF Goes
  <1>4. CASE OptChar[mods[Where(k)].mod] # argv[k].c
    <2>1. PICK j \in DOMAIN mods : IsFirst(j, argv[k].c) BY <1>1, FirstExists
    <2>2. \A i \in DOMAIN mods : Goes(k, i) <=> IsFirst(i, argv[k].c) BY <1>4 DEF Goes
    <2>3. \A i \in DOMAIN mods : IsFirst(i, argv[k].c) => i = j BY <2>1, FirstIsOne
    <2>4. OptChar[mods[j].mod] = argv[k].c BY <2>1 DEF IsFirst
    <2> QED BY <1>4, <2>1, <2>2, <2>3, <2>4
  <1> QED BY <1>3, <1>4

-----------------------------------------------------------------------------
\* What leaves the properties of the packets sent alone.

SentProps == PacketMatchesCommandLine /\ PacketsBuiltAlike

LEMMA SentKept ==
  ASSUME SentProps, UNCHANGED <<argv, sent>>
  PROVE  SentProps'
  <1>1. PacketMatchesCommandLine'
    <2>1. \A k : ProtosBefore(k)' = ProtosBefore(k) BY DEF ProtosBefore
    <2>2. ProtosBefore(Len(argv) + 1)' = ProtosBefore(Len(argv) + 1) BY DEF ProtosBefore
    <2>3. Options' = Options /\ AllLoaded' = AllLoaded BY DEF Options, AllLoaded
    <2> QED BY <2>1, <2>2, <2>3 DEF SentProps, PacketMatchesCommandLine
  <1>2. PacketsBuiltAlike' BY DEF SentProps, PacketsBuiltAlike
  <1> QED BY <1>1, <1>2 DEF SentProps

\* A step of pass 1.
LEMMA Pass1Order ==
  ASSUME OrderInv, pc = "pass1", pc' = "pass1", UNCHANGED <<argv, sent>>, ListInv',
         OneValued /\ datarg' # Null => datarg' = {datalen'}
  PROVE  Order'
  <1>1. sent = <<>> BY DEF OrderInv, MemoryInv, TypeInv, Bounds
  <1>2. OneValued' = OneValued BY DEF OneValued
  <1>3. SentInv' BY <1>1, <1>2 DEF SentInv
  <1>4. Pass2Inv' BY DEF Pass2Inv
  <1>5. SentProps' BY SentKept DEF SentProps, OrderInv, Order
  <1>6. CrashOnlyWithoutModule' BY DEF CrashOnlyWithoutModule
  <1> QED BY <1>3, <1>4, <1>5, <1>6 DEF Order, SentProps

\* main() is gone.
LEMMA GoneOrder ==
  ASSUME OrderInv, pc' = "exit", UNCHANGED <<argv, sent>>
  PROVE  Order'
  <1>1. SentProps' BY SentKept DEF SentProps, OrderInv, Order
  <1>2. ListInv' /\ Pass2Inv' /\ SentInv' /\ CrashOnlyWithoutModule'
    BY DEF ListInv, Pass2Inv, SentInv, CrashOnlyWithoutModule, Live
  <1> QED BY <1>1, <1>2 DEF Order, SentProps

\* A step behind pass 1 that keeps the list, the payload's length and what was sent.
LEMMA LaterOrder ==
  ASSUME OrderInv, SameList, Live, pc # "pass1" \/ optind > Len(argv), pc' # "pass1",
         pc' # "crash", sent' = sent, datarg' = datarg,
         OneValued => datalen' = datalen, Pass2Inv'
  PROVE  Order'
  <1>1. TypeOK BY DEF OrderInv, MemoryInv, TypeInv
  <1>2. Read = Len(argv) + 1 /\ Read' = Read
    <2>1. optind \in 1 .. (Len(argv) + 1) /\ Len(argv) \in Nat BY <1>1, ListFacts DEF TypeOK
    <2>2. pc = "pass1" => optind = Len(argv) + 1 BY <2>1
    <2> QED BY <2>2 DEF Read, SameList
  <1>3. ListInv'
    <2>1. ASSUME AllLoaded
          PROVE  /\ Len(mods') = ProtosBefore(Read)
                 /\ \A k \in DOMAIN argv : k < Read /\ argv[k].k = "p" =>
                      mods'[ProtosBefore(k + 1)].mod = argv[k].mod
      <3>1. /\ Len(mods) = ProtosBefore(Read)
            /\ \A k \in DOMAIN argv : k < Read /\ argv[k].k = "p" =>
                 mods[ProtosBefore(k + 1)].mod = argv[k].mod
        BY <2>1 DEF OrderInv, Order, ListInv
      <3>2. ASSUME NEW k \in DOMAIN argv, k < Read, argv[k].k = "p"
            PROVE  ProtosBefore(k + 1) \in DOMAIN mods
        <4>1. k \in Nat \ {0} /\ Read \in Nat \ {0} /\ k + 1 <= Read
          BY <1>1, <1>2, <3>2, ListFacts
        <4>2. ProtosBefore(k + 1) = ProtosBefore(k) + 1 /\ ProtosBefore(k) \in Nat
          BY <3>2, <4>1, CountFacts
        <4>3. ProtosBefore(k + 1) <= ProtosBefore(Read) BY <4>1, CountGrows
        <4>4. DOMAIN mods = 1 .. Len(mods) /\ Len(mods) \in Nat BY <1>1, ListFacts
        <4> QED BY <3>1, <4>2, <4>3, <4>4
      <3> QED BY <3>1, <3>2 DEF SameList
    <2>2. AllLoaded' = AllLoaded /\ \A k : ProtosBefore(k)' = ProtosBefore(k)
      BY <1>1, Frozen
    <2> QED BY <1>2, <2>1, <2>2 DEF ListInv, SameList
  <1>4. SentInv'
    <2>1. OneValued' = OneValued BY DEF OneValued, SameList
    <2>2. \A j : Given(j, Len(argv) + 1)' = Given(j, Len(argv) + 1)
      <3>1. PICK n : n = Len(argv) + 1 /\ n = (Len(argv) + 1)' BY DEF SameList
      <3>2. \A j : Given(j, n)' = Given(j, n) BY <1>1, Frozen
      <3> QED BY <3>1, <3>2 DEF Given
    <2>3. [j \in DOMAIN mods |-> mods[j].mod]' = [j \in DOMAIN mods |-> mods[j].mod]
      BY DEF SameList
    <2>4. [j \in DOMAIN mods |-> Given(j, Len(argv) + 1)]'
            = [j \in DOMAIN mods |-> Given(j, Len(argv) + 1)]
      BY <2>2 DEF SameList
    <2> QED BY <2>1, <2>3, <2>4 DEF SentInv, OrderInv, Order
  <1>5. SentProps' BY SentKept DEF SentProps, OrderInv, Order, SameList
  <1>6. CrashOnlyWithoutModule' BY DEF CrashOnlyWithoutModule
  <1> QED BY <1>3, <1>4, <1>5, <1>6 DEF Order, SentProps

-----------------------------------------------------------------------------
\* Pass 1.

LEMMA InitOrder == Init => Order
  <1> SUFFICES ASSUME Init PROVE Order OBVIOUS
  <1>1. pc = "pass1" /\ sent = <<>> /\ mods = <<>> /\ optind = 1 /\ datarg = Null BY DEF Init
  <1>2. ListInv
    <2>1. argv \in Seq(Arg) BY CmdLinesAssumption DEF Init
    <2>2. \A k \in DOMAIN argv : ~(k < 1) BY <2>1, LenProperties
    <2>3. ProtosBefore(1) = 0 BY CountFacts
    <2> QED BY <1>1, <2>2, <2>3 DEF ListInv, Read
  <1>3. Pass2Inv /\ SentInv BY <1>1 DEF Pass2Inv, SentInv
  <1>4. PacketMatchesCommandLine /\ CrashOnlyWithoutModule /\ PacketsBuiltAlike
    BY <1>1 DEF PacketMatchesCommandLine, CrashOnlyWithoutModule, PacketsBuiltAlike
  <1> QED BY <1>2, <1>3, <1>4 DEF Order

\* The elements named by the -p arguments that were read.
LEMMA NamedInList ==
  ASSUME TypeOK, ListInv, AllLoaded, Live, NEW k \in DOMAIN argv, k < Read, argv[k].k = "p"
  PROVE  ProtosBefore(k + 1) \in DOMAIN mods
  <1>1. /\ k \in Nat \ {0} /\ Read \in Nat \ {0} /\ k + 1 <= Read
        /\ DOMAIN mods = 1 .. Len(mods) /\ Len(mods) \in Nat
    BY ListFacts DEF Read
  <1>2. ProtosBefore(k + 1) = ProtosBefore(k) + 1 /\ ProtosBefore(k) \in Nat
    BY <1>1, CountFacts
  <1>3. ProtosBefore(k + 1) <= ProtosBefore(Read) BY <1>1, CountGrows
  <1>4. Len(mods) = ProtosBefore(Read) BY DEF ListInv
  <1> QED BY <1>1, <1>2, <1>3, <1>4

LEMMA LoadOrder == OrderInv /\ Pass1Load => Order'
  <1> SUFFICES ASSUME OrderInv, Pass1Load PROVE Order' OBVIOUS
  <1>1. /\ pc = "pass1" /\ pc' = "pass1" /\ optind <= Len(argv) /\ argv[optind].k = "p"
        /\ optind' = optind + 1 /\ UNCHANGED <<argv, sent, datarg, datalen>>
        /\ argv[optind].mod \in Loadable =>
             \E e : mods' = Append(mods, e) /\ e.mod = argv[optind].mod
    BY DEF Pass1Load, Pass1At, payload
  <1>2. /\ TypeOK /\ mods \in Seq(Element) /\ Len(mods) \in Nat /\ DOMAIN mods = 1 .. Len(mods)
        /\ optind \in DOMAIN argv /\ optind \in Nat \ {0}
    BY <1>1, ListFacts DEF OrderInv, MemoryInv, TypeInv, TypeOK
  <1>3. AllLoaded' = AllLoaded /\ \A k : ProtosBefore(k)' = ProtosBefore(k)
    BY <1>1 DEF AllLoaded, ProtosBefore
  <1>4. ASSUME AllLoaded
        PROVE  /\ Len(mods') = ProtosBefore(optind + 1)
               /\ \A k \in DOMAIN argv : k < optind + 1 /\ argv[k].k = "p" =>
                    mods'[ProtosBefore(k + 1)].mod = argv[k].mod
    <2>1. Read = optind /\ Live /\ ListInv BY <1>1 DEF Read, Live, OrderInv, Order
    <2>2. PICK e : mods' = Append(mods, e) /\ e.mod = argv[optind].mod
      BY <1>1, <1>2, <1>4 DEF AllLoaded
    <2>3. /\ Len(mods') = Len(mods) + 1 /\ mods'[Len(mods) + 1] = e
          /\ \A j \in DOMAIN mods : mods'[j] = mods[j]
      BY <1>2, <2>2
    <2>4. Len(mods) = ProtosBefore(optind) /\ ProtosBefore(optind + 1) = Len(mods) + 1
      <3>1. Len(mods) = ProtosBefore(optind) BY <1>4, <2>1 DEF ListInv
      <3> QED BY <1>1, <1>2, <3>1, CountFacts
    <2>5. ASSUME NEW k \in DOMAIN argv, k < optind, argv[k].k = "p"
          PROVE  mods'[ProtosBefore(k + 1)].mod = argv[k].mod
      <3>1. ProtosBefore(k + 1) \in DOMAIN mods BY <1>2, <1>4, <2>1, <2>5, NamedInList
      <3>2. mods[ProtosBefore(k + 1)].mod = argv[k].mod BY <1>4, <2>1, <2>5 DEF ListInv
      <3> QED BY <2>3, <3>1, <3>2
    <2>6. \A k \in DOMAIN argv : k < optind + 1 => k < optind \/ k = optind
      BY <1>2, ListFacts
    <2> QED BY <2>2, <2>3, <2>4, <2>5, <2>6
  <1>5. ListInv' BY <1>1, <1>3, <1>4 DEF ListInv, Read
  <1>6. OneValued /\ datarg' # Null => datarg' = {datalen'}
    BY <1>1 DEF OrderInv, Order, SentInv, Live
  <1> QED BY <1>1, <1>5, <1>6, Pass1Order

\* Any other argument of pass 1 leaves the list alone.
LEMMA KeptList ==
  ASSUME OrderInv, pc = "pass1", pc' = "pass1", optind <= Len(argv), argv[optind].k # "p",
         optind' = optind + 1, UNCHANGED <<argv, mods>>
  PROVE  ListInv'
  <1>1. TypeOK /\ optind \in Nat \ {0} BY ListFacts DEF OrderInv, MemoryInv, TypeInv
  <1>2. AllLoaded' = AllLoaded /\ \A k : ProtosBefore(k)' = ProtosBefore(k)
    BY DEF AllLoaded, ProtosBefore
  <1>3. ProtosBefore(optind + 1) = ProtosBefore(optind) BY <1>1, CountFacts
  <1>4. \A k \in DOMAIN argv : k < optind + 1 => k < optind \/ k = optind
    BY <1>1, ListFacts
  <1>5. Read = optind /\ Read' = optind + 1 /\ Live BY DEF Read, Live
  <1> QED BY <1>2, <1>3, <1>4, <1>5 DEF OrderInv, Order, ListInv

LEMMA DataLensOne ==
  ASSUME TypeOK, NEW k \in DOMAIN argv, argv[k].k \in {"d", "opt"}, OneValued,
         NEW n \in DataLens(argv[k])
  PROVE  DataLens(argv[k]) = {n}
  <1>1. argv[k] \in Arg BY ListFacts
  <1>2. CASE argv[k].k = "opt" BY <1>2 DEF DataLens
  <1>3. CASE argv[k].k = "d"
    <2>1. argv[k].lens \in SUBSET (0 .. MaxData) BY <1>1, <1>3, ArgKinds
    <2>2. IsFiniteSet(0 .. MaxData)
      <3>1. 0 \in Int /\ MaxData \in Int BY BoundAssumption
      <3> QED BY <3>1, FS_Interval, Zenon
    <2>3. IsFiniteSet(argv[k].lens) BY <2>1, <2>2, FS_Subset
    <2>4. \E x : argv[k].lens = {x} BY <1>3, <2>3, FS_Singleton DEF OneValued
    <2> QED BY <1>3, <2>4 DEF DataLens
  <1> QED BY <1>2, <1>3

LEMMA DataOrder == OrderInv /\ Pass1Data => Order'
  <1> SUFFICES ASSUME OrderInv, Pass1Data PROVE Order' OBVIOUS
  <1>1. /\ pc = "pass1" /\ pc' = "pass1" /\ optind <= Len(argv)
        /\ argv[optind].k \in {"d", "opt"}
        /\ optind' = optind + 1 /\ UNCHANGED <<argv, mods, sent>>
    BY DEF Pass1Data
  <1>2. TypeOK /\ optind \in DOMAIN argv
    BY <1>1, ListFacts DEF OrderInv, MemoryInv, TypeInv
  <1>3. ListInv' BY <1>1, KeptList
  <1>4. ASSUME OneValued, datarg' # Null PROVE datarg' = {datalen'}
    <2>1. CASE FileOpen
      <3>1. UNCHANGED <<datarg, datalen>> BY <2>1 DEF Pass1Data, payload
      <3> QED BY <1>1, <1>4, <3>1 DEF OrderInv, Order, SentInv, Live
    <2>2. CASE ~FileOpen
      <3>1. /\ datalen' \in DataLens(argv[optind]) /\ datarg' = DataLens(argv[optind])
        BY <2>2 DEF Pass1Data
      <3> QED BY <1>1, <1>2, <1>4, <3>1, DataLensOne
    <2> QED BY <2>1, <2>2
  <1> QED BY <1>1, <1>3, <1>4, Pass1Order

LEMMA FileOrder == OrderInv /\ Pass1File => Order'
  <1> SUFFICES ASSUME OrderInv, Pass1File PROVE Order' OBVIOUS
  <1>1. /\ pc = "pass1" /\ pc' = "pass1" /\ optind <= Len(argv) /\ argv[optind].k # "p"
        /\ optind' = optind + 1 /\ UNCHANGED <<argv, mods, sent>>
    BY DEF Pass1File, Pass1At
  <1>2. ListInv' BY <1>1, KeptList
  <1>3. datarg' = datarg /\ (datarg # Null => datalen' = datalen)
    <2>1. CASE UNCHANGED <<payload, heap>> BY <2>1 DEF payload
    <2>2. CASE ~DataGiven /\ datarg' = datarg
      BY <2>2 DEF DataGiven, OrderInv, MemoryInv, PayloadOwner, DataRightCall
    <2> QED BY <2>1, <2>2 DEF Pass1File
  <1>4. OneValued /\ datarg' # Null => datarg' = {datalen'}
    BY <1>1, <1>3 DEF OrderInv, Order, SentInv, Live
  <1> QED BY <1>1, <1>2, <1>4, Pass1Order

LEMMA ReadOrder == OrderInv /\ (Pass1Loop \/ Pass1Help \/ Pass1Skip) => Order'
  <1> SUFFICES ASSUME OrderInv, Pass1Loop \/ Pass1Help \/ Pass1Skip PROVE Order' OBVIOUS
  <1>1. /\ pc = "pass1" /\ pc' = "pass1" /\ optind <= Len(argv) /\ argv[optind].k # "p"
        /\ optind' = optind + 1 /\ UNCHANGED <<argv, mods, sent, datarg, datalen>>
    BY DEF Pass1Loop, Pass1Help, Pass1Skip, Pass1At, SkipArgument, payload
  <1>2. ListInv' BY <1>1, KeptList
  <1>3. OneValued /\ datarg' # Null => datarg' = {datalen'}
    BY <1>1 DEF OrderInv, Order, SentInv, Live
  <1> QED BY <1>1, <1>2, <1>3, Pass1Order

-----------------------------------------------------------------------------
\* Behind pass 1.

LEMMA Pass1EndOrder == OrderInv /\ Pass1End => Order'
  <1> SUFFICES ASSUME OrderInv, Pass1End PROVE Order' OBVIOUS
  <1>1. /\ pc = "pass1" /\ pc' = "loop" /\ optind > Len(argv)
        /\ UNCHANGED <<argv, mods, sent, datarg, datalen>>
    BY DEF Pass1End, payload
  <1>2. SameList BY <1>1 DEF SameList
  <1>3. Pass2Inv' BY <1>1 DEF Pass2Inv
  <1> QED BY <1>1, <1>2, <1>3, LaterOrder DEF Live

LEMMA NoRegenOrder == OrderInv /\ NoRegen => Order'
  <1> SUFFICES ASSUME OrderInv, NoRegen PROVE Order' OBVIOUS
  <1>1. /\ pc = "regen" /\ pc' = "loop"
        /\ UNCHANGED <<argv, mods, sent, datarg, datalen>>
    BY DEF NoRegen, payload
  <1>2. SameList BY <1>1 DEF SameList
  <1>3. Pass2Inv' BY <1>1 DEF Pass2Inv
  <1> QED BY <1>1, <1>2, <1>3, LaterOrder DEF Live

LEMMA RegenOrder == OrderInv /\ Regen => Order'
  <1> SUFFICES ASSUME OrderInv, Regen PROVE Order' OBVIOUS
  <1>1. /\ pc = "regen" /\ pc' = "loop" /\ datarg # Null /\ datalen' \in datarg
        /\ UNCHANGED <<argv, mods, sent, datarg>>
    BY DEF Regen
  <1>2. SameList BY <1>1 DEF SameList
  <1>3. Pass2Inv' BY <1>1 DEF Pass2Inv
  <1>4. OneValued => datalen' = datalen BY <1>1 DEF OrderInv, Order, SentInv, Live
  <1> QED BY <1>1, <1>2, <1>3, <1>4, LaterOrder DEF Live

LEMMA EnterOrder == OrderInv /\ LoopEnter => Order'
  <1> SUFFICES ASSUME OrderInv, LoopEnter PROVE Order' OBVIOUS
  <1>1. /\ pc = "loop" /\ pc' = "pass2" /\ optind' = 1 /\ current' = 0
        /\ UNCHANGED <<argv, sent, datarg, datalen>>
    BY DEF LoopEnter, Rewound, payload
  <1>2. TypeOK /\ TypeOK' BY NextType DEF OrderInv, MemoryInv, TypeInv, Next
  <1>3. /\ DOMAIN mods' = DOMAIN mods
        /\ \A j \in DOMAIN mods : /\ mods'[j].mod = mods[j].mod
                                  /\ mods'[j].counted = mods[j].counted
                                  /\ mods'[j].opts = {}
    <2> DEFINE e(j) == [mods[j] EXCEPT !.pack = <<"pack", iter + 1, j>>,
                                       !.data = <<"hdr", iter + 1, j>>,
                                       !.opts = {}, !.addr = FALSE]
    <2>1. mods' = [j \in DOMAIN mods |-> e(j)] BY DEF LoopEnter
    <2>2. ASSUME NEW j \in DOMAIN mods
          PROVE  /\ e(j).mod = mods[j].mod /\ e(j).counted = mods[j].counted
                 /\ e(j).opts = {}
      <3>1. mods[j] \in Element BY <1>2, ListFacts
      <3> QED BY <3>1 DEF Element
    <2> HIDE DEF e
    <2> QED BY <2>1, <2>2
  <1>4. SameList
    <2>1. /\ mods \in Seq(Element) /\ mods' \in Seq(Element) BY <1>2 DEF TypeOK
    <2>2. Len(mods') = Len(mods) BY <1>3, <2>1, LenProperties
    <2> QED BY <1>1, <1>3, <2>2 DEF SameList
  <1>5. Pass2Inv'
    <2>1. Where(1)' = 0
      <3>1. Where(1)' = Where(1) BY <1>2, <1>4, Frozen
      <3>2. ProtosBefore(1) = 0 /\ Len(mods) \in Nat BY <1>2, CountFacts, ListFacts
      <3> QED BY <3>1, <3>2, ModSmall DEF Where
    <2>2. Taken' \subseteq Nat \ {0} /\ Options' \subseteq Nat \ {0}
      <3>1. Taken' = Taken /\ Options' = Options BY <1>2, <1>4, Frozen
      <3> QED BY <1>2, <3>1, ListFacts DEF Taken, Options
    <2>3. \A k \in Taken' \cup Options' : ~(k < 1) BY <2>2
    <2>4. \A j : Given(j, 1)' = {} BY <2>3 DEF Given
    <2>5. \A j : Given(j, optind)' = {} BY <1>1, <2>4 DEF Given
    <2>6. Where(optind)' = 0 BY <1>1, <2>1 DEF Where, ProtosBefore
    <2> QED BY <1>1, <1>3, <2>3, <2>5, <2>6 DEF Pass2Inv
  <1> QED BY <1>1, <1>4, <1>5, LaterOrder DEF Live

\* An argument of pass 2 that is not an option some module takes.
LEMMA PassedOver ==
  ASSUME OrderInv, pc = "pass2", pc' = "pass2", optind <= Len(argv), optind \notin Taken,
         optind' = optind + 1, UNCHANGED <<argv, mods, sent, datarg, datalen>>,
         current' = Where(optind + 1),
         ~usage' => ~usage /\ (optind \in Options => argv[optind].c \in BaseFlag)
  PROVE  Order'
  <1>1. TypeOK /\ optind \in Nat \ {0} /\ Options \subseteq Nat /\ Taken \subseteq Nat
    BY ListFacts DEF OrderInv, MemoryInv, TypeInv, Taken, Options
  <1>2. SameList BY DEF SameList
  <1>3. \A k \in Options : k < optind + 1 => k < optind \/ k = optind BY <1>1
  <1>4. \A k \in Taken : k < optind + 1 => k < optind BY <1>1
  <1>5. \A j : Given(j, optind + 1) = Given(j, optind)
    <2>1. \A k \in Taken : k < optind => k < optind + 1 BY <1>1
    <2> QED BY <1>4, <2>1 DEF Given
  <1>6. PICK n \in Nat \ {0} : n = optind + 1 /\ n = optind' BY <1>1
  <1>7. /\ Options' = Options /\ Taken' = Taken
        /\ Where(n)' = Where(n) /\ \A k \in Taken : Where(k)' = Where(k)
        /\ \A j : Given(j, n)' = Given(j, n)
    <2>1. Taken \subseteq Nat \ {0} BY <1>1, ListFacts DEF Taken, Options
    <2> QED BY <1>1, <1>2, <2>1, Frozen
  <1>8. Where(optind)' = Where(n)' BY <1>6 DEF Where, ProtosBefore
  <1>9. \A j : Given(j, optind)' = Given(j, n)' BY <1>6 DEF Given
  <1>10. Pass2Inv'
    <2>1. current' = Where(optind)' BY <1>6, <1>7, <1>8
    <2>2. \A j \in DOMAIN mods' : mods'[j].opts = Given(j, optind)'
      BY <1>5, <1>6, <1>7, <1>9 DEF OrderInv, Order, Pass2Inv
    <2>3. \A k \in Taken' : k < optind' => Where(k)' # 0
      BY <1>4, <1>7 DEF OrderInv, Order, Pass2Inv
    <2>4. ~usage' => \A k \in Options' : k < optind' /\ argv'[k].c \notin BaseFlag => k \in Taken'
      BY <1>3, <1>7 DEF OrderInv, Order, Pass2Inv
    <2> QED BY <2>1, <2>2, <2>3, <2>4 DEF Pass2Inv
  <1> QED BY <1>2, <1>10, LaterOrder DEF Live

LEMMA ProtoOrder == OrderInv /\ Pass2Proto => Order'
  <1> SUFFICES ASSUME OrderInv, Pass2Proto PROVE Order' OBVIOUS
  <1>1. /\ pc = "pass2" /\ pc' = "pass2" /\ optind <= Len(argv) /\ argv[optind].k = "p"
        /\ optind' = optind + 1 /\ UNCHANGED <<argv, mods, sent, datarg, datalen, usage>>
        /\ current' = NextElement
    BY DEF Pass2Proto, payload
  <1>2. optind \notin Options BY <1>1 DEF Options
  <1>3. TypeOK /\ optind \in Nat \ {0} BY ListFacts DEF OrderInv, MemoryInv, TypeInv
  <1>4. current' = Where(optind + 1)
    <2>1. current = Where(optind) BY <1>1 DEF OrderInv, Order, Pass2Inv
    <2> QED BY <1>1, <1>3, <2>1, NextWhere
  <1> QED BY <1>1, <1>2, <1>4, PassedOver DEF Taken

\* current_e does not move for another argument.
LEMMA SameWhere ==
  ASSUME OrderInv, pc = "pass2", argv[optind].k # "p"
  PROVE  current = Where(optind + 1) /\ Where(optind) = Where(optind + 1)
  <1>1. optind \in Nat \ {0} BY ListFacts DEF OrderInv, MemoryInv, TypeInv
  <1>2. current = Where(optind) BY DEF OrderInv, Order, Pass2Inv
  <1>3. ProtosBefore(optind + 1) = ProtosBefore(optind) BY <1>1, CountFacts
  <1> QED BY <1>2, <1>3 DEF Where

LEMMA SkipOrder == OrderInv /\ Pass2Skip => Order'
  <1> SUFFICES ASSUME OrderInv, Pass2Skip PROVE Order' OBVIOUS
  <1>1. /\ pc = "pass2" /\ pc' = "pass2" /\ optind <= Len(argv) /\ argv[optind].k # "p"
        /\ optind' = optind + 1
        /\ UNCHANGED <<argv, mods, sent, datarg, datalen, usage, current>>
        /\ argv[optind].k = "opt" => argv[optind].c \in BaseFlag
    BY DEF Pass2Skip, payload
  <1>2. optind \in Options => argv[optind].c \in BaseFlag BY <1>1 DEF Options
  <1>3. optind \notin Taken BY <1>2 DEF Taken
  <1>4. current' = Where(optind + 1) BY <1>1, SameWhere
  <1> QED BY <1>1, <1>2, <1>3, <1>4, PassedOver

LEMMA UnknownOrder == OrderInv /\ Pass2Unknown => Order'
  <1> SUFFICES ASSUME OrderInv, Pass2Unknown PROVE Order' OBVIOUS
  <1>1. /\ pc = "pass2" /\ pc' = "pass2" /\ optind <= Len(argv) /\ argv[optind].k = "opt"
        /\ argv[optind].c \notin opts
        /\ optind' = optind + 1 /\ UNCHANGED <<argv, mods, sent, datarg, datalen, current>>
        /\ usage' = (usage \/ argv[optind].c \notin BaseFlag)
    BY DEF Pass2Unknown, payload
  <1>2. optind \notin Taken BY <1>1 DEF Taken
  <1>3. ~usage' => ~usage /\ argv[optind].c \in BaseFlag BY <1>1
  <1>4. current' = Where(optind + 1) BY <1>1, SameWhere
  <1> QED BY <1>1, <1>2, <1>3, <1>4, PassedOver

LEMMA OptOrder == OrderInv /\ Pass2Opt => Order'
  <1> SUFFICES ASSUME OrderInv, Pass2Opt PROVE Order' OBVIOUS
  <1> DEFINE e == Target(argv[optind].c)
  <1>1. /\ pc = "pass2" /\ pc' = "pass2" /\ optind <= Len(argv) /\ argv[optind].k = "opt"
        /\ argv[optind].c \in opts \ BaseFlag /\ current # 0
        /\ optind' = optind + 1 /\ UNCHANGED <<argv, sent, datarg, datalen, current>>
        /\ mods' = [mods EXCEPT ![e].opts = @ \cup {optind}]
        /\ ~usage' => ~usage
    BY DEF Pass2Opt, payload
  <1>2. /\ TypeOK /\ optind \in Nat \ {0} /\ optind \in Taken /\ Len(mods) \in Nat
        /\ Options \subseteq Nat \ {0} /\ Taken \subseteq Nat \ {0}
        /\ DOMAIN mods = 1 .. Len(mods)
    BY <1>1, ListFacts DEF OrderInv, MemoryInv, TypeInv, Taken, Options
  <1>3. current = Where(optind) /\ current = Where(optind + 1) /\ Where(optind) # 0
    BY <1>1, SameWhere
  <1>4. current \in 1 .. Len(mods)
    <2>1. current \in 0 .. Len(mods) BY <1>2, <1>3, WhereRange
    <2> QED BY <1>1, <1>2, <2>1
  <1>5. e \in DOMAIN mods /\ \A j \in DOMAIN mods : Goes(optind, j) <=> j = e
    <2>1. /\ e \in DOMAIN mods
          /\ OptChar[mods[current].mod] = argv[optind].c => e = current
          /\ OptChar[mods[current].mod] # argv[optind].c => IsFirst(e, argv[optind].c)
      BY <1>1, <1>2, <1>4, TargetFacts
    <2>2. Goes(optind, e) BY <1>3, <2>1 DEF Goes
    <2>3. PICK j \in DOMAIN mods : \A i \in DOMAIN mods : Goes(optind, i) <=> i = j
      BY <1>2, <1>3, GoesToOne
    <2> QED BY <2>1, <2>2, <2>3
  <1> HIDE DEF e
  <1>6. \A j \in DOMAIN mods :
          /\ mods'[j].mod = mods[j].mod /\ mods'[j].counted = mods[j].counted
          /\ mods'[j].opts = mods[j].opts \cup (IF j = e THEN {optind} ELSE {})
    <2> SUFFICES ASSUME NEW j \in DOMAIN mods
                 PROVE  /\ mods'[j].mod = mods[j].mod /\ mods'[j].counted = mods[j].counted
                        /\ mods'[j].opts = mods[j].opts \cup (IF j = e THEN {optind} ELSE {})
      OBVIOUS
    <2>1. mods[j] \in Element BY <1>2, ListFacts
    <2>2. mods'[j] = IF j = e THEN [mods[j] EXCEPT !.opts = @ \cup {optind}] ELSE mods[j]
      BY <1>1
    <2> QED BY <2>1, <2>2 DEF Element
  <1>7. SameList
    <2>1. DOMAIN mods' = DOMAIN mods BY <1>1
    <2>2. mods' \in Seq(Element)
      <3>1. TypeOK' BY NextType DEF OrderInv, MemoryInv, TypeInv, Next
      <3> QED BY <3>1 DEF TypeOK
    <2>3. Len(mods') = Len(mods) BY <1>2, <2>1, <2>2, LenProperties
    <2> QED BY <1>1, <1>6, <2>1, <2>3 DEF SameList
  <1>8. PICK n \in Nat \ {0} : n = optind + 1 /\ n = optind' BY <1>1, <1>2
  <1>9. /\ Options' = Options /\ Taken' = Taken
        /\ Where(n)' = Where(n) /\ \A k \in Taken : Where(k)' = Where(k)
        /\ \A j : Given(j, n)' = Given(j, n)
    BY <1>2, <1>7, Frozen
  <1>10. Where(optind)' = Where(n)' BY <1>8 DEF Where, ProtosBefore
  <1>11. \A j : Given(j, optind)' = Given(j, n)' BY <1>8 DEF Given
  <1>12. \A k \in Options \cup Taken : k < n => k < optind \/ k = optind BY <1>2, <1>8
  <1>13. Pass2Inv'
    <2>1. current' = Where(optind)' BY <1>1, <1>3, <1>8, <1>9, <1>10
    <2>2. ASSUME NEW j \in DOMAIN mods PROVE mods'[j].opts = Given(j, n)
      <3>1. mods[j].opts = Given(j, optind) BY <1>1 DEF OrderInv, Order, Pass2Inv
      <3>2. Given(j, n) = Given(j, optind) \cup {k \in Taken : k = optind /\ Goes(k, j)}
        BY <1>2, <1>8, GivenNext
      <3>3. {k \in Taken : k = optind /\ Goes(k, j)} = IF j = e THEN {optind} ELSE {}
        BY <1>2, <1>5
      <3> QED BY <1>6, <3>1, <3>2, <3>3
    <2>3. \A j \in DOMAIN mods' : mods'[j].opts = Given(j, optind)'
      BY <1>7, <1>9, <1>11, <2>2 DEF SameList
    <2>4. \A k \in Taken' : k < optind' => Where(k)' # 0
      BY <1>1, <1>3, <1>8, <1>9, <1>12 DEF OrderInv, Order, Pass2Inv
    <2>5. ~usage' => \A k \in Options' : k < optind' /\ argv'[k].c \notin BaseFlag => k \in Taken'
      BY <1>1, <1>2, <1>8, <1>9, <1>12 DEF OrderInv, Order, Pass2Inv
    <2> QED BY <1>1, <2>1, <2>3, <2>4, <2>5 DEF Pass2Inv
  <1> QED BY <1>1, <1>7, <1>13, LaterOrder DEF Live

\* The headers' options stay until the packet is sent.
LEMMA AssembledPass2 ==
  ASSUME OrderInv, SameList, pc \in {"pass2", "assemble"}, pc' # "usage" => AtHost,
         UNCHANGED <<optind, current>>, pc' \in {"usage", "assemble", "send"},
         pc' # "usage" => ~usage' /\ ~usage,
         \A j \in DOMAIN mods : mods'[j].opts = mods[j].opts
  PROVE  Pass2Inv'
  <1>1. TypeOK /\ optind \in Nat \ {0} /\ Options \subseteq Nat \ {0} /\ Taken \subseteq Nat \ {0}
    BY ListFacts DEF OrderInv, MemoryInv, TypeInv, Taken, Options
  <1>2. PICK n \in Nat \ {0} : n = optind /\ n = optind' BY <1>1
  <1>3. /\ Options' = Options /\ Taken' = Taken
        /\ Where(n)' = Where(n) /\ \A k \in Taken : Where(k)' = Where(k)
        /\ \A j : Given(j, n)' = Given(j, n)
    BY <1>1, Frozen
  <1>4. Where(optind)' = Where(n)' BY <1>2 DEF Where, ProtosBefore
  <1>5. \A j : Given(j, optind)' = Given(j, n)' BY <1>2 DEF Given
  <1>6. /\ current = Where(n) /\ \A j \in DOMAIN mods : mods[j].opts = Given(j, n)
        /\ \A k \in Taken : k < n => Where(k) # 0
        /\ ~usage => \A k \in Options : k < n /\ argv[k].c \notin BaseFlag => k \in Taken
    BY <1>2 DEF OrderInv, Order, Pass2Inv
  <1>7. CASE pc' = "usage" BY <1>7 DEF Pass2Inv
  <1>8. CASE pc' # "usage"
    <2>1. AtHost' /\ ~usage' BY <1>8 DEF SameList, AtHost
    <2>2. current' = Where(optind)' BY <1>3, <1>4, <1>6
    <2>3. \A j \in DOMAIN mods' : mods'[j].opts = Given(j, optind)'
      BY <1>3, <1>5, <1>6 DEF SameList
    <2>4. \A k \in Taken' : k < optind' => Where(k)' # 0 BY <1>2, <1>3, <1>6
    <2>5. \A k \in Options' : k < optind' /\ argv'[k].c \notin BaseFlag => k \in Taken'
      BY <1>2, <1>3, <1>6, <1>8 DEF SameList
    <2> QED BY <2>1, <2>2, <2>3, <2>4, <2>5 DEF Pass2Inv
  <1> QED BY <1>7, <1>8

LEMMA CrashOrder == OrderInv /\ Pass2Crash => Order'
  <1> SUFFICES ASSUME OrderInv, Pass2Crash PROVE Order' OBVIOUS
  <1>1. /\ pc = "pass2" /\ pc' = "crash" /\ optind <= Len(argv) /\ current = 0
        /\ UNCHANGED <<argv, sent, optind>>
    BY DEF Pass2Crash
  <1>2. SentProps' BY <1>1, SentKept DEF SentProps, OrderInv, Order
  <1>3. ListInv' /\ Pass2Inv' /\ SentInv' BY <1>1 DEF ListInv, Pass2Inv, SentInv, Live
  <1>4. AllLoaded => ProtosBefore(optind) = 0
    <2> SUFFICES ASSUME AllLoaded PROVE ProtosBefore(optind) = 0 OBVIOUS
    <2> DEFINE n == Len(mods)
               a == ProtosBefore(optind)
    <2>1. optind \in Nat \ {0} /\ n \in Nat /\ Len(argv) \in Nat
      BY ListFacts DEF OrderInv, MemoryInv, TypeInv
    <2>2. n = ProtosBefore(Len(argv) + 1)
      BY <1>1 DEF OrderInv, Order, ListInv, Live, Read
    <2>3. a \in Nat /\ a <= n BY <1>1, <2>1, <2>2, CountFacts, CountGrows
    <2>4. (a % (n + 1)) = 0 BY <1>1 DEF OrderInv, Order, Pass2Inv, Where
    <2> HIDE DEF a, n
    <2>5. (a % (n + 1)) = a BY <2>1, <2>3, ModSmall
    <2> QED BY <2>4, <2>5 DEF a
  <1>5. CrashOnlyWithoutModule'
    BY <1>1, <1>4 DEF CrashOnlyWithoutModule, AllLoaded, ProtosBefore
  <1> QED BY <1>2, <1>3, <1>5 DEF Order, SentProps

LEMMA Pass2EndOrder == OrderInv /\ Pass2End => Order'
  <1> SUFFICES ASSUME OrderInv, Pass2End PROVE Order' OBVIOUS
  <1>1. /\ pc = "pass2" /\ pc' \in {"usage", "assemble"}
        /\ optind <= Len(argv) => argv[optind].k = "host"
        /\ pc' = "assemble" => ~usage' /\ optind = Len(argv)
        /\ ~usage' => ~usage
        /\ mods' \in {mods, [mods EXCEPT ![1].addr = TRUE]}
        /\ UNCHANGED <<argv, sent, optind, current, datarg, datalen>>
    BY DEF Pass2End, AfterOptions, payload
  <1>2. TypeOK /\ Len(argv) \in Nat BY ListFacts DEF OrderInv, MemoryInv, TypeInv
  <1>3. pc' # "usage" => AtHost BY <1>1, <1>2, ListFacts DEF AtHost
  <1>4. /\ DOMAIN mods' = DOMAIN mods
        /\ \A j \in DOMAIN mods : /\ mods'[j].mod = mods[j].mod
                                  /\ mods'[j].counted = mods[j].counted
                                  /\ mods'[j].opts = mods[j].opts
    <2>1. CASE mods' = mods BY <2>1
    <2>2. CASE mods' = [mods EXCEPT ![1].addr = TRUE]
      <3>1. ASSUME NEW j \in DOMAIN mods
            PROVE  /\ mods'[j].mod = mods[j].mod /\ mods'[j].counted = mods[j].counted
                   /\ mods'[j].opts = mods[j].opts
        <4>1. mods[j] \in Element BY <1>2, ListFacts
        <4>2. mods'[j] = IF j = 1 THEN [mods[j] EXCEPT !.addr = TRUE] ELSE mods[j] BY <2>2
        <4> QED BY <4>1, <4>2 DEF Element
      <3> QED BY <2>2, <3>1
    <2> QED BY <1>1, <2>1, <2>2
  <1>5. SameList
    <2>1. TypeOK' BY NextType DEF OrderInv, MemoryInv, TypeInv, Next
    <2>2. Len(mods') = Len(mods) BY <1>2, <1>4, <2>1, LenProperties DEF TypeOK
    <2> QED BY <1>1, <1>4, <2>2 DEF SameList
  <1>6. Pass2Inv' BY <1>1, <1>2, <1>3, <1>4, <1>5, AssembledPass2
  <1> QED BY <1>1, <1>5, <1>6, LaterOrder DEF Live

LEMMA AssembleOrder == OrderInv /\ Assemble => Order'
  <1> SUFFICES ASSUME OrderInv, Assemble PROVE Order' OBVIOUS
  <1>1. /\ pc = "assemble" /\ pc' = "send"
        /\ mods' = [j \in DOMAIN mods |-> [mods[j] EXCEPT !.data = packet']]
        /\ UNCHANGED <<argv, sent, optind, current, usage, datarg, datalen>>
    BY DEF Assemble, payload
  <1>2. TypeOK /\ Len(argv) \in Nat BY ListFacts DEF OrderInv, MemoryInv, TypeInv
  <1>3. AtHost /\ ~usage BY <1>1 DEF OrderInv, Order, Pass2Inv
  <1>4. /\ DOMAIN mods' = DOMAIN mods
        /\ \A j \in DOMAIN mods : /\ mods'[j].mod = mods[j].mod
                                  /\ mods'[j].counted = mods[j].counted
                                  /\ mods'[j].opts = mods[j].opts
    <2> DEFINE f(j) == [mods[j] EXCEPT !.data = packet']
    <2>1. ASSUME NEW j \in DOMAIN mods
          PROVE  f(j).mod = mods[j].mod /\ f(j).counted = mods[j].counted
                 /\ f(j).opts = mods[j].opts
      <3>1. mods[j] \in Element BY <1>2, ListFacts
      <3> QED BY <3>1 DEF Element
    <2>2. mods' = [j \in DOMAIN mods |-> f(j)] BY <1>1
    <2> HIDE DEF f
    <2> QED BY <2>1, <2>2
  <1>5. SameList
    <2>1. TypeOK' BY NextType DEF OrderInv, MemoryInv, TypeInv, Next
    <2>2. Len(mods') = Len(mods) BY <1>2, <1>4, <2>1, LenProperties DEF TypeOK
    <2> QED BY <1>1, <1>4, <2>2 DEF SameList
  <1>6. Pass2Inv' BY <1>1, <1>2, <1>3, <1>4, <1>5, AssembledPass2
  <1> QED BY <1>1, <1>5, <1>6, LaterOrder DEF Live

-----------------------------------------------------------------------------
\* Sending.

\* What PacketMatchesCommandLine says of one packet.
Matches(s) ==
  /\ Len(s.mods) = ProtosBefore(Len(argv) + 1)
  /\ \A k \in DOMAIN argv : argv[k].k = "p" => s.mods[ProtosBefore(k + 1)] = argv[k].mod
  /\ \A k \in Options : argv[k].c \notin BaseFlag =>
       \E j \in DOMAIN s.mods :
         /\ {i \in DOMAIN s.opts : k \in s.opts[i]} = {j}
         /\ OptChar[s.mods[j]] = argv[k].c
         /\ OptChar[s.mods[ProtosBefore(k)]] = argv[k].c => j = ProtosBefore(k)

\* A packet is only made when the hostname is the last argument and pass 2 has
\* read all that stand in front of it.
LEMMA HostIsLast ==
  ASSUME OrderInv, pc = "send"
  PROVE  /\ \A k \in Options : k < optind
         /\ \A j : Given(j, Len(argv) + 1) = Given(j, optind)
  <1>1. /\ Len(argv) \in Nat /\ DOMAIN argv = 1 .. Len(argv) /\ optind = Len(argv)
        /\ argv[optind].k = "host"
    BY ListFacts DEF OrderInv, MemoryInv, TypeInv, Order, Pass2Inv, AtHost
  <1>2. ASSUME NEW k \in Options PROVE k < optind
    <2>1. k \in DOMAIN argv /\ k # optind BY <1>1 DEF Options
    <2>2. k \in 1 .. Len(argv) BY <1>1, <2>1, Zenon
    <2> QED BY <1>1, <2>1, <2>2
  <1>3. \A k \in Taken : k < Len(argv) + 1 <=> k < optind BY <1>1, <1>2 DEF Taken, Options
  <1> QED BY <1>2, <1>3 DEF Given

\* With every -p loaded, current_e at argument k is the element of the last -p.
LEMMA WhereIsCount ==
  ASSUME OrderInv, pc = "send", AllLoaded, NEW k \in DOMAIN argv
  PROVE  Where(k) = ProtosBefore(k)
  <1>1. k \in Nat \ {0} /\ k <= Len(argv) + 1 /\ Len(argv) + 1 \in Nat \ {0} /\ Len(mods) \in Nat
    BY ListFacts DEF OrderInv, MemoryInv, TypeInv
  <1>2. Len(mods) = ProtosBefore(Len(argv) + 1)
    BY DEF OrderInv, Order, ListInv, Live, Read
  <1>3. ProtosBefore(k) \in Nat /\ ProtosBefore(k) <= Len(mods)
    BY <1>1, <1>2, CountFacts, CountGrows
  <1> QED BY <1>1, <1>3, ModSmall DEF Where

LEMMA SentNowMatches ==
  ASSUME OrderInv, pc = "send", AllLoaded
  PROVE  Matches(SentNow)
  <1>1. /\ TypeOK /\ Len(mods) \in Nat /\ DOMAIN mods = 1 .. Len(mods) /\ Len(argv) \in Nat
        /\ DOMAIN argv = 1 .. Len(argv)
    BY ListFacts DEF OrderInv, MemoryInv, TypeInv
  <1>2. /\ SentNow.mods = [j \in DOMAIN mods |-> mods[j].mod]
        /\ SentNow.opts = [j \in DOMAIN mods |-> mods[j].opts]
        /\ Len(SentNow.mods) = Len(mods)
    <2>1. SentNow \in Sent BY <1>1, SentNowType
    <2>2. SentNow.mods \in Seq(Loadable) BY <2>1 DEF Sent
    <2>3. SentNow.mods = [j \in DOMAIN mods |-> mods[j].mod] BY DEF SentNow
    <2>4. Len(SentNow.mods) = Len(mods) BY <1>1, <2>2, <2>3, LenProperties
    <2> QED BY <2>3, <2>4 DEF SentNow
  <1>3. /\ Len(mods) = ProtosBefore(Len(argv) + 1)
        /\ \A k \in DOMAIN argv : argv[k].k = "p" => mods[ProtosBefore(k + 1)].mod = argv[k].mod
    <2>1. Read = Len(argv) + 1 /\ Live BY DEF Read, Live
    <2>2. \A k \in DOMAIN argv : k < Len(argv) + 1 BY <1>1
    <2> QED BY <2>1, <2>2 DEF OrderInv, Order, ListInv
  <1>4. ASSUME NEW k \in DOMAIN argv, argv[k].k = "p"
        PROVE  SentNow.mods[ProtosBefore(k + 1)] = argv[k].mod
    <2>1. k < Read /\ Live /\ ListInv BY <1>1 DEF Read, Live, OrderInv, Order
    <2>2. ProtosBefore(k + 1) \in DOMAIN mods BY <1>1, <1>4, <2>1, NamedInList
    <2> QED BY <1>2, <1>3, <1>4, <2>2
  <1>5. ASSUME NEW k \in Options, argv[k].c \notin BaseFlag
        PROVE  \E j \in DOMAIN SentNow.mods :
                 /\ {i \in DOMAIN SentNow.opts : k \in SentNow.opts[i]} = {j}
                 /\ OptChar[SentNow.mods[j]] = argv[k].c
                 /\ OptChar[SentNow.mods[ProtosBefore(k)]] = argv[k].c => j = ProtosBefore(k)
    <2>1. k \in DOMAIN argv /\ k < Len(argv) + 1 BY <1>1 DEF Options
    <2>2. /\ k < optind /\ ~usage
          /\ \A j \in DOMAIN mods : mods[j].opts = Given(j, optind)
      BY HostIsLast DEF OrderInv, Order, Pass2Inv
    <2>3. k \in Taken /\ Where(k) # 0
      BY <1>5, <2>1, <2>2 DEF OrderInv, Order, Pass2Inv
    <2>4. PICK j \in DOMAIN mods :
            /\ \A i \in DOMAIN mods : Goes(k, i) <=> i = j
            /\ OptChar[mods[j].mod] = argv[k].c
            /\ OptChar[mods[Where(k)].mod] = argv[k].c => j = Where(k)
      BY <1>1, <2>3, GoesToOne
    <2>5. \A i \in DOMAIN mods : k \in mods[i].opts <=> i = j
      BY <2>1, <2>2, <2>3, <2>4 DEF Given
    <2>6. Where(k) = ProtosBefore(k) BY <2>1, WhereIsCount
    <2>7. Where(k) \in DOMAIN mods
      <3>1. Where(k) \in 0 .. Len(mods) BY <1>1, <2>1, WhereRange
      <3> QED BY <1>1, <2>3, <3>1
    <2>8. {i \in DOMAIN SentNow.opts : k \in SentNow.opts[i]} = {j} BY <1>2, <2>4, <2>5
    <2>9. /\ j \in DOMAIN SentNow.mods /\ SentNow.mods[j] = mods[j].mod
          /\ SentNow.mods[ProtosBefore(k)] = mods[ProtosBefore(k)].mod
      BY <1>2, <2>6, <2>7
    <2>10. /\ OptChar[SentNow.mods[j]] = argv[k].c
           /\ OptChar[SentNow.mods[ProtosBefore(k)]] = argv[k].c => j = ProtosBefore(k)
      BY <2>4, <2>6, <2>9
    <2> QED BY <2>8, <2>9, <2>10
  <1> QED BY <1>2, <1>3, <1>4, <1>5 DEF Matches

LEMMA SendOrder == OrderInv /\ Send => Order'
  <1> SUFFICES ASSUME OrderInv, Send PROVE Order' OBVIOUS
  <1>1. /\ pc = "send" /\ pc' = "regen" /\ sent' = Append(sent, SentNow)
        /\ UNCHANGED <<argv, optind, mods, current, usage, datalen, datarg>>
    BY SendStep DEF payload
  <1>2. /\ TypeOK /\ Len(argv) \in Nat /\ sent \in Seq(Sent) /\ SentNow \in Sent
    BY ListFacts, SentNowType DEF OrderInv, MemoryInv, TypeInv, TypeOK
  <1>3. \A n \in DOMAIN sent' : sent'[n] = SentNow \/ (n \in DOMAIN sent /\ sent'[n] = sent[n])
    BY <1>1, <1>2, LenProperties
  <1>4. SameList BY <1>1 DEF SameList
  <1>5. /\ AllLoaded' = AllLoaded /\ (\A k : ProtosBefore(k)' = ProtosBefore(k))
        /\ OneValued' = OneValued /\ Options' = Options
    BY <1>1 DEF AllLoaded, ProtosBefore, OneValued, Options
  <1>6. ListInv'
    <2>1. Read = Len(argv) + 1 /\ Read' = Read /\ Live BY <1>1 DEF Read, Live
    <2> QED BY <1>1, <1>5, <2>1 DEF OrderInv, Order, ListInv
  <1>7. Pass2Inv' BY <1>1 DEF Pass2Inv
  <1> DEFINE now == [j \in DOMAIN mods |-> mods[j].mod]
             all == [j \in DOMAIN mods |-> Given(j, Len(argv) + 1)]
  <1>8. \A n \in DOMAIN sent' : /\ sent'[n].mods = now /\ sent'[n].opts = all
                                /\ OneValued => sent'[n].len = datalen
    <2>1. SentNow.mods = now /\ SentNow.len = datalen BY DEF SentNow
    <2>2. SentNow.opts = all
      <3>1. \A j \in DOMAIN mods : mods[j].opts = Given(j, Len(argv) + 1)
        BY <1>1, HostIsLast DEF OrderInv, Order, Pass2Inv
      <3> QED BY <3>1 DEF SentNow
    <2>3. \A n \in DOMAIN sent : /\ sent[n].mods = now /\ sent[n].opts = all
                                 /\ OneValued => sent[n].len = datalen
      BY <1>1 DEF OrderInv, Order, SentInv, Live
    <2> HIDE DEF now, all
    <2> QED BY <1>3, <2>1, <2>2, <2>3
  <1>9. now' = now /\ all' = all
    <2>1. PICK n : n = Len(argv) + 1 /\ n = (Len(argv) + 1)' BY <1>1
    <2>2. \A j : Given(j, n)' = Given(j, n) BY <1>2, <1>4, Frozen
    <2>3. \A j : Given(j, Len(argv) + 1)' = Given(j, Len(argv) + 1) BY <2>1, <2>2 DEF Given
    <2> QED BY <1>1, <2>3
  <1>10. SentInv'
    <2>1. OneValued /\ datarg # Null => datarg = {datalen}
      BY <1>1 DEF OrderInv, Order, SentInv, Live
    <2> QED BY <1>1, <1>5, <1>8, <1>9, <2>1 DEF SentInv
  <1>11. PacketMatchesCommandLine'
    <2>1. ProtosBefore(Len(argv) + 1)' = ProtosBefore(Len(argv) + 1)
      BY <1>1 DEF ProtosBefore
    <2>2. AllLoaded => \A n \in DOMAIN sent' : Matches(sent'[n])
      <3>1. AllLoaded => \A n \in DOMAIN sent : Matches(sent[n])
        BY DEF OrderInv, Order, PacketMatchesCommandLine, Matches
      <3> QED BY <1>1, <1>3, <3>1, SentNowMatches
    <2>3. \A s : Matches(s) <=>
            /\ Len(s.mods) = ProtosBefore(Len(argv) + 1)'
            /\ \A k \in DOMAIN argv' :
                 argv'[k].k = "p" => s.mods[ProtosBefore(k + 1)'] = argv'[k].mod
            /\ \A k \in Options' : argv'[k].c \notin BaseFlag =>
                 \E j \in DOMAIN s.mods :
                   /\ {i \in DOMAIN s.opts : k \in s.opts[i]} = {j}
                   /\ OptChar[s.mods[j]] = argv'[k].c
                   /\ OptChar[s.mods[ProtosBefore(k)']] = argv'[k].c => j = ProtosBefore(k)'
      <3>1. \A k : ProtosBefore(k + 1)' = ProtosBefore(k + 1) BY <1>1 DEF ProtosBefore
      <3> QED BY <1>1, <1>5, <2>1, <3>1 DEF Matches
    <2> HIDE DEF Matches
    <2> QED BY <1>5, <2>2, <2>3 DEF PacketMatchesCommandLine
  <1>12. PacketsBuiltAlike'
    <2>1. \A n \in DOMAIN sent' : sent'[n] \in Sent BY <1>2, <1>3, LenProperties
    <2>2. ASSUME OneValued, NEW m \in DOMAIN sent', NEW n \in DOMAIN sent'
          PROVE  sent'[m] = sent'[n]
      <3> HIDE DEF now, all
      <3>1. /\ sent'[m].mods = sent'[n].mods /\ sent'[m].opts = sent'[n].opts
            /\ sent'[m].len = sent'[n].len
        BY <1>8, <2>2
      <3> QED BY <2>1, <3>1 DEF Sent
    <2> QED BY <1>1, <2>2 DEF PacketsBuiltAlike, OneValued
  <1>13. CrashOnlyWithoutModule' BY <1>1 DEF CrashOnlyWithoutModule
  <1> QED BY <1>6, <1>7, <1>10, <1>11, <1>12, <1>13 DEF Order

LEMMA OutOrder ==
  OrderInv /\ (Pass1Version \/ LoopExit \/ Usage \/ SendRefused) => Order'
  BY GoneOrder DEF Pass1Version, LoopExit, Usage, SendRefused, Leave

LEMMA StutterOrder == OrderInv /\ UNCHANGED vars => Order'
  <1> SUFFICES ASSUME OrderInv, UNCHANGED vars PROVE Order' OBVIOUS
  <1>1. UNCHANGED <<pc, argv, optind, mods, current, usage, sent, datalen, datarg>>
    BY DEF vars, payload
  <1>2. ListInv' BY <1>1 DEF OrderInv, Order, ListInv, AllLoaded, Live, Read, ProtosBefore
  <1>3. Pass2Inv'
    <2>1. TypeOK /\ SameList BY <1>1 DEF OrderInv, MemoryInv, TypeInv, SameList
    <2>2. PICK n : n = optind BY <1>1
    <2>3. n \in Nat \ {0} /\ \A k \in Taken : k \in Nat \ {0}
      BY <2>1, <2>2, ListFacts DEF TypeOK, Taken, Options
    <2>4. Where(optind)' = Where(optind)
      <3>1. Where(n)' = Where(n) BY <2>1, <2>3, Frozen
      <3> QED BY <1>1, <2>2, <3>1 DEF Where, ProtosBefore
    <2>5. \A j : Given(j, optind)' = Given(j, optind)
      <3>1. \A j : Given(j, n)' = Given(j, n) BY <2>1, Frozen
      <3> QED BY <1>1, <2>2, <3>1 DEF Given
    <2>6. Taken' = Taken /\ Options' = Options /\ \A k \in Taken : Where(k)' = Where(k)
      BY <2>1, <2>3, Frozen
    <2>7. AtHost' = AtHost BY <1>1 DEF AtHost
    <2> QED BY <1>1, <2>4, <2>5, <2>6, <2>7 DEF OrderInv, Order, Pass2Inv
  <1>4. SentInv'
    <2>1. TypeOK /\ SameList BY <1>1 DEF OrderInv, MemoryInv, TypeInv, SameList
    <2>2. \A j : Given(j, Len(argv) + 1)' = Given(j, Len(argv) + 1)
      <3>1. PICK n : n = Len(argv) + 1 /\ n = (Len(argv) + 1)' BY <1>1
      <3>2. \A j : Given(j, n)' = Given(j, n) BY <2>1, Frozen
      <3> QED BY <3>1, <3>2 DEF Given
    <2>3. [j \in DOMAIN mods |-> Given(j, Len(argv) + 1)]'
          = [j \in DOMAIN mods |-> Given(j, Len(argv) + 1)]
      BY <1>1, <2>2
    <2>4. [j \in DOMAIN mods |-> mods[j].mod]' = [j \in DOMAIN mods |-> mods[j].mod] BY <1>1
    <2>5. OneValued' = OneValued /\ Live' = Live BY <1>1 DEF OneValued, Live
    <2>6. UNCHANGED <<mods, sent, datalen, datarg>> BY <1>1
    <2> QED BY <2>3, <2>4, <2>5, <2>6 DEF OrderInv, Order, SentInv
  <1>5. SentProps' BY <1>1, SentKept DEF SentProps, OrderInv, Order
  <1>6. CrashOnlyWithoutModule'
    BY <1>1 DEF OrderInv, Order, CrashOnlyWithoutModule, AllLoaded, ProtosBefore
  <1> QED BY <1>2, <1>3, <1>4, <1>5, <1>6 DEF Order, SentProps

LEMMA NextOrder == OrderInv /\ [Next]_vars => OrderInv'
  <1> SUFFICES ASSUME OrderInv, [Next]_vars PROVE OrderInv' OBVIOUS
  <1>1. MemoryInv' BY NextMemory DEF OrderInv
  <1>2. Order'
    BY LoadOrder, DataOrder, FileOrder, ReadOrder, OutOrder, Pass1EndOrder, EnterOrder,
       ProtoOrder, SkipOrder, UnknownOrder, OptOrder, CrashOrder, Pass2EndOrder, AssembleOrder,
       SendOrder, RegenOrder, NoRegenOrder, StutterOrder DEF Next, Done
  <1> QED BY <1>1, <1>2 DEF OrderInv

LEMMA DriverOrder == Spec => []OrderInv
  <1>1. Init => OrderInv
    BY InitType, InitMemory, InitOrder DEF OrderInv, MemoryInv, Memory
  <1> QED BY <1>1, NextOrder, PTL DEF Spec

\* Every packet has one header per -p in their order, every module option was
\* applied exactly once, to a header of its letter, and an option of the module
\* named by the last -p in front of it changed that very header.
THEOREM DriverPacketMatches == Spec => []PacketMatchesCommandLine
  <1>1. OrderInv => PacketMatchesCommandLine BY DEF OrderInv, Order
  <1> QED BY <1>1, DriverOrder, PTL

\* The NULL current_e is only dereferenced for an option in front of the first
\* -p, or when a -p could not be loaded.
THEOREM DriverCrash == Spec => []CrashOnlyWithoutModule
  <1>1. OrderInv => CrashOnlyWithoutModule BY DEF OrderInv, Order
  <1> QED BY <1>1, DriverOrder, PTL

\* Packets of one command line whose -d has one value are made of the same
\* modules with the same options and of as much payload.
THEOREM DriverPacketsBuiltAlike == Spec => []PacketsBuiltAlike
  <1>1. OrderInv => PacketsBuiltAlike BY DEF OrderInv, Order
  <1> QED BY <1>1, DriverOrder, PTL

=============================================================================

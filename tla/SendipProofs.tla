---------------------------- MODULE SendipProofs ----------------------------
(***************************************************************************)
(* For every set of modules, every command line and every loop count: the  *)
(* driver's variables stay typed, no block is freed twice or used after it *)
(* was freed, and the payload is released by the call it was obtained for. *)
(*                                                                         *)
(* None of the three is inductive alone.  TypeOK needs the bounds of       *)
(* Bounds: an element of the list stands for an argument that was read, and*)
(* the packets built and the packets left never exceed the loop count.     *)
(* MemorySafe needs to know, at every place of main(), which blocks are    *)
(* live (Ownership): every element owns its pack once the loop was entered,*)
(* and its header only until the headers were copied into the packet.      *)
(***************************************************************************)
EXTENDS Sendip, TLAPS, FiniteSetTheorems, SequenceTheorems, WellFoundedInduction

Live == pc \notin {"exit", "crash"}

Bounds ==
  /\ Len(mods) <= Len(argv)
  /\ pc = "pass1" => Len(mods) < optind /\ iter = 0 /\ current = 0 /\ sent = <<>>
  /\ Live => current <= Len(mods)
  /\ Live => loopcount \in -1 .. MaxLoop /\ iter + loopcount <= MaxLoop
  /\ pc \in {"pass2", "usage", "assemble", "send", "regen"} => loopcount >= 0 /\ iter > 0

TypeInv == TypeOK /\ Bounds

\* Blocks that hold payload, and the ones initialize() made last.
Payload == {"data", "map"} \X Nat \X Nat

OwnPacks == \A j \in DOMAIN mods : mods[j].pack = <<"pack", iter, j>>
OwnHeaders == \A j \in DOMAIN mods : mods[j].data = <<"hdr", iter, j>>

Ownership ==
  /\ data \in Payload \cup {Null}
  /\ (pc = "pass1" \/ (pc = "loop" /\ iter = 0)) =>
       PacketBlocks = {} /\ \A j \in DOMAIN mods : mods[j].pack = Null /\ mods[j].data = Null
  /\ (Live /\ iter > 0) => OwnPacks
  /\ pc \in {"pass2", "usage", "assemble"} =>
       OwnHeaders /\ PacketBlocks = Blocks("pack", iter) \cup Blocks("hdr", iter)
  /\ pc = "send" => /\ packet = <<"packet", iter, 0>>
                    /\ PacketBlocks = Blocks("pack", iter) \cup {packet}
  /\ (pc = "regen" \/ (pc = "loop" /\ iter > 0)) => PacketBlocks = Blocks("pack", iter)
  /\ pc = "exit" => PacketBlocks = {}

MemoryInv == TypeInv /\ ~misuse /\ PayloadOwner /\ Ownership

-----------------------------------------------------------------------------
\* Facts about sequences, arguments and blocks.

LEMMA AFunctionIsASeq ==
  ASSUME NEW S, NEW n \in Nat, NEW f \in [1 .. n -> S]
  PROVE  f \in Seq(S) /\ Len(f) = n /\ DOMAIN f = 1 .. n
  <1>1. f \in Seq(S) BY SeqDef
  <1> QED BY <1>1, LenProperties

LEMMA ListFacts ==
  ASSUME TypeOK
  PROVE  /\ Len(mods) \in Nat /\ DOMAIN mods = 1 .. Len(mods)
         /\ \A j \in DOMAIN mods : mods[j] \in Element
         /\ Len(argv) \in Nat /\ DOMAIN argv = 1 .. Len(argv)
         /\ \A j \in DOMAIN argv : argv[j] \in Arg
         /\ optind \in Nat \ {0}
  <1>1. mods \in Seq(Element) /\ argv \in Seq(Arg) /\ optind \in 1 .. (Len(argv) + 1)
    BY DEF TypeOK
  <1>2. Len(mods) \in Nat /\ DOMAIN mods = 1 .. Len(mods) BY <1>1, LenProperties
  <1>3. Len(argv) \in Nat /\ DOMAIN argv = 1 .. Len(argv) BY <1>1, LenProperties
  <1> QED BY <1>1, <1>2, <1>3, ElementOfSeq

LEMMA NullIsNoBlock == Null \notin Block
  BY NullAssumption DEF Block

LEMMA ABlock ==
  ASSUME NEW kind \in {"pack", "hdr", "packet", "data", "map"}, NEW i \in Nat, NEW j \in Nat
  PROVE  <<kind, i, j>> \in Block /\ <<kind, i, j>> # Null /\ <<kind, i, j>>[1] = kind
  BY NullIsNoBlock DEF Block

\* The values an argument can have, by its kind.
LEMMA ArgKinds ==
  ASSUME NEW a \in Arg
  PROVE  /\ a.k = "p" => a.mod \in Module
         /\ a.k = "opt" => a.c \in Letter /\ a.oks \in (SUBSET BOOLEAN) \ {{}}
         /\ a.k = "d" => a.lens \in (SUBSET (0 .. MaxData)) \ {{}}
         /\ a.k \in {"p", "opt", "d", "f", "L", "h", "V", "host", "misc"}
  BY DEF Arg

LEMMA DataLensType ==
  ASSUME NEW a \in Arg, a.k \in {"d", "opt"}
  PROVE  DataLens(a) \in (SUBSET (0 .. MaxData)) \ {{}}
  <1>1. {1} \in (SUBSET (0 .. MaxData)) \ {{}} BY BoundAssumption
  <1>2. a.k = "d" => a.lens \in (SUBSET (0 .. MaxData)) \ {{}} BY ArgKinds
  <1> QED BY <1>1, <1>2 DEF DataLens

\* A change of fields of the list's elements keeps the list typed.
LEMMA ListChanged ==
  ASSUME TypeOK, NEW f \in [DOMAIN mods -> Element]
  PROVE  f \in Seq(Element) /\ Len(f) = Len(mods) /\ DOMAIN f = DOMAIN mods
  <1>1. Len(mods) \in Nat /\ DOMAIN mods = 1 .. Len(mods) BY ListFacts
  <1> QED BY <1>1, AFunctionIsASeq

-----------------------------------------------------------------------------
\* Types.

LEMMA InitType == Init => TypeInv
  <1> SUFFICES ASSUME Init PROVE TypeInv OBVIOUS
  <1>1. argv \in Seq(Arg) BY CmdLinesAssumption DEF Init
  <1>2. Len(argv) \in Nat BY <1>1, LenProperties
  <1>3. mods \in Seq(Element) /\ Len(mods) = 0 BY EmptySeq DEF Init
  <1>4. sent \in Seq(Sent) BY EmptySeq DEF Init
  <1>5. usage \in BOOLEAN /\ datafile \in BOOLEAN /\ misuse \in BOOLEAN BY Zenon DEF Init
  <1>6. TypeOK BY <1>1, <1>2, <1>3, <1>4, <1>5, BoundAssumption DEF Init, TypeOK
  <1>7. Bounds BY <1>2, <1>3, BoundAssumption DEF Init, Bounds, Live
  <1> QED BY <1>6, <1>7 DEF TypeInv

LEMMA LoadType == TypeInv /\ Pass1Load => TypeInv'
  <1> SUFFICES ASSUME TypeInv, Pass1Load PROVE TypeInv' OBVIOUS
  <1> USE DEF TypeInv
  <1>1. PICK a \in [k : {"p"}, mod : Module] :
          /\ Pass1At(a)
          /\ registry' = registry \cup Loaded(a.mod)
          /\ mods' = IF a.mod \in Loadable
                     THEN Append(mods, [mod |-> a.mod, counted |-> a.mod \notin registry,
                                        pack |-> Null, data |-> Null, opts |-> {},
                                        addr |-> FALSE])
                     ELSE mods
          /\ optind' = optind + 1
          /\ UNCHANGED <<pc, argv, current, usage, loopcount, iter, payload, memory, sent,
                         status>>
    BY DEF Pass1Load
  <1>2. mods \in Seq(Element) /\ Len(mods) \in Nat /\ Len(argv) \in Nat BY ListFacts DEF TypeOK
  <1>3. mods' \in Seq(Element) /\ Len(mods') \in {Len(mods), Len(mods) + 1}
    <2>1. CASE a.mod \in Loadable
      <3> DEFINE e == [mod |-> a.mod, counted |-> a.mod \notin registry, pack |-> Null,
                       data |-> Null, opts |-> {}, addr |-> FALSE]
      <3>1. e \in Element BY <2>1 DEF Element
      <3>2. mods' = Append(mods, e) BY <1>1, <2>1
      <3> HIDE DEF e
      <3> QED BY <1>2, <3>1, <3>2
    <2>2. CASE a.mod \notin Loadable BY <1>1, <1>2, <2>2
    <2> QED BY <2>1, <2>2
  <1>4. registry' \in SUBSET Loadable BY <1>1 DEF Loaded, TypeOK
  <1>5. optind <= Len(argv) /\ pc = "pass1" /\ optind' \in 1 .. (Len(argv) + 1)
    BY <1>1, <1>2 DEF Pass1At, TypeOK
  <1>6. TypeOK' BY <1>1, <1>3, <1>4, <1>5 DEF TypeOK, payload, memory
  <1>7. Bounds' BY <1>1, <1>2, <1>3, <1>5 DEF Bounds, Live, TypeOK, payload, memory
  <1> QED BY <1>6, <1>7

\* Steps that only read an argument.
LEMMA ReadType ==
  TypeInv /\ (Pass1Loop \/ Pass1Help \/ Pass1Version \/ Pass1Skip \/ Pass1End) => TypeInv'
  <1> USE DEF TypeInv, payload, memory
  <1>1. TypeOK => Len(mods) \in Nat /\ Len(argv) \in Nat BY ListFacts
  <1>2. TypeInv /\ Pass1Loop => TypeInv'
    BY <1>1 DEF Pass1Loop, Pass1At, TypeOK, Bounds, Live
  <1>3. TypeInv /\ Pass1Help => TypeInv'
    BY <1>1 DEF Pass1Help, Pass1At, TypeOK, Bounds, Live
  <1>4. TypeInv /\ Pass1Version => TypeInv'
    BY <1>1 DEF Pass1Version, Pass1At, TypeOK, Bounds, Live
  <1>5. TypeInv /\ Pass1Skip => TypeInv'
    BY <1>1 DEF Pass1Skip, SkipArgument, TypeOK, Bounds, Live
  <1>6. TypeInv /\ Pass1End => TypeInv'
    BY <1>1 DEF Pass1End, TypeOK, Bounds, Live
  <1> QED BY <1>2, <1>3, <1>4, <1>5, <1>6

PayloadType ==
  /\ data \in Block \cup {Null} /\ datalen \in 0 .. MaxData /\ cap \in 0 .. MaxData
  /\ datafile \in BOOLEAN /\ datarg \in {Null} \cup SUBSET (0 .. MaxData)
  /\ heap \in SUBSET Block /\ usage \in BOOLEAN

LEMMA DataType == TypeInv /\ Pass1Data => TypeInv'
  <1> SUFFICES ASSUME TypeInv, Pass1Data PROVE TypeInv' OBVIOUS
  <1> USE DEF TypeInv
  <1>1. Len(mods) \in Nat /\ Len(argv) \in Nat /\ optind \in 1 .. Len(argv)
    BY ListFacts DEF Pass1Data, TypeOK
  <1>2. argv[optind] \in Arg /\ argv[optind].k \in {"d", "opt"}
    BY <1>1, ListFacts DEF Pass1Data
  <1>3. DataLens(argv[optind]) \in SUBSET (0 .. MaxData) BY <1>2, DataLensType
  <1>4. PayloadType'
    <2>1. CASE FileOpen BY <2>1 DEF Pass1Data, TypeOK, payload, PayloadType
    <2>2. CASE ~FileOpen
      <3>1. PICK n \in DataLens(argv[optind]) :
              /\ data' = <<"data", 0, optind>> /\ heap' = heap \cup {data'}
              /\ datalen' = n /\ cap' = n /\ datarg' = DataLens(argv[optind])
              /\ UNCHANGED <<datafile, usage>>
        BY <2>2 DEF Pass1Data
      <3>2. data' \in Block BY <1>1, <3>1, ABlock
      <3> QED BY <1>3, <3>1, <3>2 DEF TypeOK, PayloadType
    <2> QED BY <2>1, <2>2
  <1>5. TypeOK' BY <1>1, <1>4 DEF Pass1Data, TypeOK, PayloadType
  <1>6. Bounds' BY <1>1 DEF Pass1Data, Bounds, Live, TypeOK
  <1> QED BY <1>5, <1>6

LEMMA FileType == TypeInv /\ Pass1File => TypeInv'
  <1> SUFFICES ASSUME TypeInv, Pass1File PROVE TypeInv' OBVIOUS
  <1> USE DEF TypeInv
  <1>1. Len(mods) \in Nat /\ Len(argv) \in Nat BY ListFacts
  <1>2. pc = "pass1" /\ optind \in 1 .. Len(argv) BY <1>1 DEF Pass1File, Pass1At, TypeOK
  <1>3. PayloadType'
    <2>1. CASE DataGiven BY <2>1 DEF Pass1File, TypeOK, payload, PayloadType
    <2>2. ASSUME NEW a \in [k : {"f"}, res : {"noopen", "noread", "map"}], a.res = "map",
                 data' = <<"map", 0, optind>>, heap' = heap \cup {data'},
                 datalen' = 1, cap' = 1, datafile' = TRUE, UNCHANGED <<datarg, usage>>
          PROVE  PayloadType'
      <3>1. <<"map", 0, optind>> \in Block BY <1>2, ABlock
      <3>2. datafile' \in BOOLEAN BY <2>2
      <3>3. datalen' \in 0 .. MaxData /\ cap' \in 0 .. MaxData BY <2>2, BoundAssumption
      <3> QED BY <2>2, <3>1, <3>2, <3>3 DEF TypeOK, PayloadType
    <2>3. ASSUME NEW a \in [k : {"f"}, res : {"noopen", "noread", "map"}],
                 datafile' = (a.res = "noread"),
                 datalen' = IF a.res = "noread" THEN NoFileLen ELSE datalen,
                 UNCHANGED <<data, cap, datarg, heap, usage>>
          PROVE  PayloadType'
      <3>1. datalen' \in 0 .. MaxData BY <2>3, BoundAssumption DEF NoFileLen, TypeOK
      <3> QED BY <2>3, <3>1 DEF TypeOK, PayloadType
    <2> QED BY <2>1, <2>2, <2>3 DEF Pass1File
  <1>4. TypeOK' BY <1>1, <1>2, <1>3 DEF Pass1File, TypeOK, PayloadType
  <1>5. Bounds' BY <1>1, <1>2 DEF Pass1File, Bounds, Live, TypeOK
  <1> QED BY <1>4, <1>5

LEMMA BlocksType ==
  ASSUME TypeOK, NEW kind \in {"pack", "hdr"}, NEW i \in Nat
  PROVE  Blocks(kind, i) \subseteq Block
  BY ListFacts, ABlock DEF Blocks

LEMMA EnterType == TypeInv /\ LoopEnter => TypeInv'
  <1> SUFFICES ASSUME TypeInv, LoopEnter PROVE TypeInv' OBVIOUS
  <1> USE DEF TypeInv
  <1>1. Len(mods) \in Nat /\ Len(argv) \in Nat /\ DOMAIN mods = 1 .. Len(mods)
    BY ListFacts
  <1>2. pc = "loop" /\ Live /\ iter \in Nat /\ loopcount \in 1 .. MaxLoop
    <2>1. pc = "loop" /\ loopcount > 0 BY DEF LoopEnter, MorePackets
    <2>2. iter \in 0 .. MaxLoop /\ loopcount \in -2 .. MaxLoop BY DEF TypeOK
    <2> QED BY <2>1, <2>2, BoundAssumption DEF Live
  <1>3. iter' \in 1 .. MaxLoop /\ loopcount' \in 0 .. MaxLoop /\ iter' + loopcount' <= MaxLoop
    <2>1. iter' = iter + 1 /\ loopcount' = loopcount - 1 BY DEF LoopEnter
    <2>2. iter + loopcount <= MaxLoop BY <1>2 DEF Bounds
    <2> QED BY <1>2, <2>1, <2>2, BoundAssumption
  <1>4. mods' \in Seq(Element) /\ Len(mods') = Len(mods)
    <2> DEFINE e(j) == [mods[j] EXCEPT !.pack = <<"pack", iter + 1, j>>,
                                       !.data = <<"hdr", iter + 1, j>>,
                                       !.opts = {}, !.addr = FALSE]
    <2>1. ASSUME NEW j \in DOMAIN mods PROVE e(j) \in Element
      <3>1. mods[j] \in Element /\ j \in Nat BY <1>1, ListFacts
      <3>2. <<"pack", iter + 1, j>> \in Block /\ <<"hdr", iter + 1, j>> \in Block
        BY <1>2, <3>1, ABlock
      <3> QED BY <3>1, <3>2 DEF Element
    <2>2. mods' = [j \in DOMAIN mods |-> e(j)] BY DEF LoopEnter
    <2> HIDE DEF e
    <2>3. mods' \in [DOMAIN mods -> Element] BY <2>1, <2>2
    <2> QED BY <2>3, ListChanged
  <1>5. heap' \in SUBSET Block
    <2>1. Blocks("pack", iter + 1) \subseteq Block /\ Blocks("hdr", iter + 1) \subseteq Block
      BY <1>2, BlocksType
    <2> QED BY <2>1 DEF LoopEnter, TypeOK
  <1>6. misuse' \in BOOLEAN BY DEF LoopEnter
  <1>7. /\ pc' = "pass2" /\ optind' = 1 /\ current' = 0
        /\ UNCHANGED <<argv, registry, usage, payload, packet, sent, status>>
    BY DEF LoopEnter, Rewound
  <1>8. TypeOK'
    <2>1. /\ pc' = "pass2" /\ optind' \in 1 .. (Len(argv') + 1) /\ current' \in 0 .. Len(argv')
          /\ iter' \in 0 .. MaxLoop /\ loopcount' \in -2 .. MaxLoop
      BY <1>1, <1>3, <1>7, BoundAssumption
    <2>2. UNCHANGED <<argv, registry, usage, data, datalen, cap, datafile, datarg, packet, sent, status>>
      BY <1>7 DEF payload
    <2> QED BY <1>4, <1>5, <1>6, <2>1, <2>2 DEF TypeOK
  <1>9. Bounds' BY <1>1, <1>2, <1>3, <1>4, <1>7 DEF Bounds, Live
  <1> QED BY <1>8, <1>9

\* Whatever way out of main() is taken.
LEMMA LeaveType ==
  ASSUME TypeInv, NEW freeit, NEW gone, NEW rc \in {0, 1}, Leave(freeit, gone, rc),
         UNCHANGED <<argv, optind, current, usage, iter, payload, sent>>,
         packet' \in {packet, Null}, loopcount' \in -2 .. MaxLoop
  PROVE  TypeInv'
  <1>1. misuse' \in BOOLEAN /\ heap' \in SUBSET Block /\ mods' \in Seq(Element)
        /\ Len(mods') = 0 /\ pc' = "exit"
    BY EmptySeq DEF Leave, TypeInv, TypeOK
  <1>2. TypeOK' BY <1>1 DEF Leave, TypeInv, TypeOK, payload
  <1>3. Len(argv) \in Nat BY ListFacts DEF TypeInv
  <1> QED BY <1>1, <1>2, <1>3 DEF TypeInv, Bounds, Live

LEMMA OutType == TypeInv /\ (LoopExit \/ Usage \/ SendRefused) => TypeInv'
  <1>1. TypeInv => loopcount \in -2 .. MaxLoop BY DEF TypeInv, TypeOK
  <1>2. ASSUME TypeInv, LoopExit PROVE TypeInv'
    <2>1. loopcount' \in -2 .. MaxLoop
      BY <1>2, BoundAssumption DEF LoopExit, MorePackets, TypeInv, Bounds, Live, Leave
    <2> QED BY <1>2, <2>1, LeaveType DEF LoopExit
  <1>3. ASSUME TypeInv, Usage PROVE TypeInv'
    BY <1>1, <1>3, LeaveType DEF Usage
  <1>4. ASSUME TypeInv, SendRefused PROVE TypeInv'
    BY <1>1, <1>4, LeaveType DEF SendRefused
  <1> QED BY <1>2, <1>3, <1>4

-----------------------------------------------------------------------------
\* Pass 2: the element an option goes to.

LEMMA Least ==
  ASSUME NEW S \in SUBSET Nat, S # {}
  PROVE  \E m \in S : \A n \in S : m <= n
  <1>1. \E m \in S : \A n \in S : ~(<<n, m>> \in OpToRel(<, Nat))
    BY NatLessThanWellFounded, WFMin
  <1>2. \A m, n \in Nat : <<n, m>> \in OpToRel(<, Nat) <=> n < m
    BY DEF OpToRel
  <1>3. PICK m \in S : \A n \in S : ~(<<n, m>> \in OpToRel(<, Nat)) BY <1>1
  <1>4. ASSUME NEW n \in S PROVE m <= n
    <2>1. m \in Nat /\ n \in Nat BY <1>3
    <2>2. ~(<<n, m>> \in OpToRel(<, Nat)) BY <1>3
    <2>3. ~(n < m) BY <1>2, <2>1, <2>2
    <2> QED BY <2>1, <2>3
  <1> QED BY <1>4

IsFirst(j, c) ==
  /\ j \in DOMAIN mods /\ OptChar[mods[j].mod] = c
  /\ \A i \in 1 .. (j - 1) : OptChar[mods[i].mod] # c

\* A letter of the listing has a first element.
LEMMA FirstExists ==
  ASSUME TypeOK, NEW c \in opts
  PROVE  \E j \in DOMAIN mods : IsFirst(j, c)
  <1> DEFINE S == {j \in DOMAIN mods : OptChar[mods[j].mod] = c}
  <1>1. Len(mods) \in Nat /\ DOMAIN mods = 1 .. Len(mods) BY ListFacts
  <1>2. S \in SUBSET Nat /\ S # {} BY <1>1 DEF opts
  <1>3. PICK m \in S : \A n \in S : m <= n BY <1>2, Least
  <1>4. \A i \in 1 .. (m - 1) : OptChar[mods[i].mod] # c
    <2> SUFFICES ASSUME NEW i \in 1 .. (m - 1), OptChar[mods[i].mod] = c PROVE FALSE OBVIOUS
    <2>1. m \in 1 .. Len(mods) BY <1>1, <1>3
    <2>2. i \in DOMAIN mods /\ ~(m <= i) BY <1>1, <2>1
    <2> QED BY <1>3, <2>2
  <1> QED BY <1>3, <1>4 DEF IsFirst

LEMMA FirstIsOne ==
  ASSUME TypeOK, NEW c, NEW i, NEW j, IsFirst(i, c), IsFirst(j, c)
  PROVE  i = j
  <1>1. Len(mods) \in Nat /\ DOMAIN mods = 1 .. Len(mods) BY ListFacts
  <1>2. i \in Nat \ {0} /\ j \in Nat \ {0} BY <1>1 DEF IsFirst
  <1>3. ~(i < j) BY <1>2 DEF IsFirst
  <1>4. ~(j < i) BY <1>2 DEF IsFirst
  <1> QED BY <1>2, <1>3, <1>4

LEMMA TargetFacts ==
  ASSUME TypeOK, NEW c \in opts, current \in 1 .. Len(mods)
  PROVE  /\ Target(c) \in DOMAIN mods
         /\ OptChar[mods[current].mod] = c => Target(c) = current
         /\ OptChar[mods[current].mod] # c => IsFirst(Target(c), c)
  <1>1. DOMAIN mods = 1 .. Len(mods) BY ListFacts
  <1>2. CASE OptChar[mods[current].mod] = c BY <1>1, <1>2 DEF Target
  <1>3. CASE OptChar[mods[current].mod] # c
    <2>1. \E j \in DOMAIN mods : /\ OptChar[mods[j].mod] = c
                                 /\ \A i \in 1 .. (j - 1) : OptChar[mods[i].mod] # c
      BY FirstExists DEF IsFirst
    <2> QED BY <1>3, <2>1 DEF Target, IsFirst
  <1> QED BY <1>2, <1>3

LEMMA ModRange == \A a, n \in Nat : (a % (n + 1)) \in 0 .. n
  OBVIOUS

LEMMA NextRange ==
  ASSUME TypeOK, current <= Len(mods)
  PROVE  NextElement \in 0 .. Len(mods)
  <1>1. Len(mods) \in Nat /\ current \in Nat BY ListFacts DEF TypeOK
  <1>2. CASE current = 0
    <2>1. mods # <<>> => Len(mods) # 0 BY EmptySeq DEF TypeOK
    <2> QED BY <1>1, <1>2, <2>1 DEF NextElement
  <1>3. CASE current # 0
    <2>1. ((current + 1) % (Len(mods) + 1)) \in 0 .. Len(mods) BY <1>1, ModRange
    <2> QED BY <1>3, <2>1 DEF NextElement
  <1> QED BY <1>2, <1>3

LEMMA Pass2Type ==
  TypeInv /\ (Pass2Proto \/ Pass2Skip \/ Pass2Unknown \/ Pass2Crash) => TypeInv'
  <1> USE DEF TypeInv, payload, memory
  <1>1. TypeOK => Len(mods) \in Nat /\ Len(argv) \in Nat BY ListFacts
  <1>2. ASSUME TypeInv, Pass2Proto PROVE TypeInv'
    <2>1. pc = "pass2" /\ current <= Len(mods) /\ Len(mods) <= Len(argv)
      BY <1>2 DEF Pass2Proto, Bounds, Live
    <2>2. current' \in 0 .. Len(mods) BY <1>2, <2>1, NextRange DEF Pass2Proto
    <2>3. current' \in 0 .. Len(argv) BY <1>1, <1>2, <2>1, <2>2
    <2>4. TypeOK' BY <1>1, <1>2, <2>3 DEF Pass2Proto, TypeOK
    <2> QED BY <1>1, <1>2, <2>2, <2>4 DEF Pass2Proto, Bounds, Live
  <1>3. ASSUME TypeInv, Pass2Skip PROVE TypeInv'
    BY <1>1, <1>3 DEF Pass2Skip, TypeOK, Bounds, Live
  <1>4. ASSUME TypeInv, Pass2Unknown PROVE TypeInv'
    <2>1. usage' \in BOOLEAN BY <1>4 DEF Pass2Unknown
    <2>2. TypeOK' BY <1>1, <1>4, <2>1 DEF Pass2Unknown, TypeOK
    <2> QED BY <1>1, <1>4, <2>2 DEF Pass2Unknown, Bounds, Live
  <1>5. ASSUME TypeInv, Pass2Crash PROVE TypeInv'
    BY <1>1, <1>5 DEF Pass2Crash, TypeOK, Bounds, Live
  <1> QED BY <1>2, <1>3, <1>4, <1>5

LEMMA OptType == TypeInv /\ Pass2Opt => TypeInv'
  <1> SUFFICES ASSUME TypeInv, Pass2Opt PROVE TypeInv' OBVIOUS
  <1> USE DEF TypeInv
  <1> DEFINE e == Target(argv[optind].c)
  <1>1. /\ mods' = [mods EXCEPT ![e].opts = @ \cup {optind}]
        /\ misuse' \in BOOLEAN /\ usage' \in BOOLEAN
        /\ optind' = optind + 1 /\ optind <= Len(argv) /\ pc = "pass2"
        /\ UNCHANGED <<pc, argv, registry, current, loopcount, iter, payload, heap, packet,
                       sent, status>>
    BY DEF Pass2Opt
  <1> HIDE DEF e
  <1>2. Len(mods) \in Nat /\ Len(argv) \in Nat /\ optind \in Nat \ {0} BY ListFacts
  <1>3. mods' \in Seq(Element) /\ Len(mods') = Len(mods)
    <2>1. ASSUME NEW j \in DOMAIN mods PROVE mods'[j] \in Element
      <3>1. mods[j] \in Element BY ListFacts
      <3>2. mods'[j] = IF j = e THEN [mods[j] EXCEPT !.opts = @ \cup {optind}] ELSE mods[j]
        BY <1>1
      <3> QED BY <1>2, <3>1, <3>2 DEF Element
    <2>2. mods' = [j \in DOMAIN mods |-> mods'[j]] BY <1>1
    <2>3. mods' \in [DOMAIN mods -> Element] BY <2>1, <2>2
    <2> QED BY <2>3, ListChanged
  <1>4. TypeOK' BY <1>1, <1>2, <1>3 DEF TypeOK, payload
  <1> QED BY <1>1, <1>2, <1>3, <1>4 DEF Bounds, Live

LEMMA EndType == TypeInv /\ Pass2End => TypeInv'
  <1> SUFFICES ASSUME TypeInv, Pass2End PROVE TypeInv' OBVIOUS
  <1> USE DEF TypeInv
  <1>1. /\ mods' \in {mods, [mods EXCEPT ![1].addr = TRUE]}
        /\ usage' \in BOOLEAN /\ pc = "pass2" /\ pc' \in {"usage", "assemble"}
        /\ UNCHANGED <<argv, optind, registry, current, loopcount, iter, payload, memory,
                       sent, status>>
    BY DEF Pass2End, AfterOptions
  <1>2. Len(mods) \in Nat /\ Len(argv) \in Nat BY ListFacts
  <1>3. mods' \in Seq(Element) /\ Len(mods') = Len(mods)
    <2>1. CASE mods' = mods BY <2>1 DEF TypeOK
    <2>2. CASE mods' = [mods EXCEPT ![1].addr = TRUE]
      <3>1. ASSUME NEW j \in DOMAIN mods PROVE mods'[j] \in Element
        <4>1. mods[j] \in Element BY ListFacts
        <4>2. mods'[j] = IF j = 1 THEN [mods[j] EXCEPT !.addr = TRUE] ELSE mods[j] BY <2>2
        <4> QED BY <4>1, <4>2 DEF Element
      <3>2. mods' = [j \in DOMAIN mods |-> mods'[j]] BY <2>2
      <3>3. mods' \in [DOMAIN mods -> Element] BY <3>1, <3>2
      <3> QED BY <3>3, ListChanged
    <2> QED BY <1>1, <2>1, <2>2
  <1>4. TypeOK' BY <1>1, <1>2, <1>3 DEF TypeOK, payload, memory
  <1> QED BY <1>1, <1>2, <1>3, <1>4 DEF Bounds, Live

-----------------------------------------------------------------------------
\* Assembly, sending, regeneration.

LEMMA AssembleType == TypeInv /\ Assemble => TypeInv'
  <1> SUFFICES ASSUME TypeInv, Assemble PROVE TypeInv' OBVIOUS
  <1> USE DEF TypeInv
  <1>1. /\ packet' = <<"packet", iter, 0>> /\ misuse' \in BOOLEAN
        /\ heap' \in SUBSET (heap \cup {packet'})
        /\ mods' = [j \in DOMAIN mods |-> [mods[j] EXCEPT !.data = packet']]
        /\ pc = "assemble" /\ pc' = "send"
        /\ UNCHANGED <<argv, optind, registry, current, usage, loopcount, iter, payload, sent,
                       status>>
    BY DEF Assemble
  <1>2. Len(mods) \in Nat /\ Len(argv) \in Nat /\ iter \in Nat
    BY ListFacts, BoundAssumption DEF TypeOK
  <1>3. packet' \in Block BY <1>1, <1>2, ABlock
  <1>4. mods' \in Seq(Element) /\ Len(mods') = Len(mods)
    <2>1. ASSUME NEW j \in DOMAIN mods PROVE [mods[j] EXCEPT !.data = packet'] \in Element
      <3>1. mods[j] \in Element BY ListFacts
      <3> QED BY <1>3, <3>1 DEF Element
    <2>2. mods' \in [DOMAIN mods -> Element] BY <1>1, <2>1
    <2> QED BY <2>2, ListChanged
  <1>5. heap' \in SUBSET Block BY <1>1, <1>3 DEF TypeOK
  <1>6. TypeOK' BY <1>1, <1>2, <1>3, <1>4, <1>5 DEF TypeOK, payload
  <1> QED BY <1>1, <1>2, <1>4, <1>6 DEF Bounds, Live

\* The record of the packet handed to sendpacket().
SentNow == [opts |-> [j \in DOMAIN mods |-> mods[j].opts],
            mods |-> [j \in DOMAIN mods |-> mods[j].mod], len |-> datalen]

LEMMA SentNowType == ASSUME TypeOK PROVE SentNow \in Sent
  <1>1. Len(mods) \in Nat /\ DOMAIN mods = 1 .. Len(mods)
        /\ \A j \in DOMAIN mods : mods[j].opts \in SUBSET Nat /\ mods[j].mod \in Loadable
    BY ListFacts DEF Element
  <1>2. [j \in DOMAIN mods |-> mods[j].opts] \in Seq(SUBSET Nat)
    <2>1. [j \in DOMAIN mods |-> mods[j].opts] \in [1 .. Len(mods) -> SUBSET Nat] BY <1>1
    <2> QED BY <1>1, <2>1, AFunctionIsASeq
  <1>3. [j \in DOMAIN mods |-> mods[j].mod] \in Seq(Loadable)
    <2>1. [j \in DOMAIN mods |-> mods[j].mod] \in [1 .. Len(mods) -> Loadable] BY <1>1
    <2> QED BY <1>1, <2>1, AFunctionIsASeq
  <1>4. datalen \in 0 .. MaxData BY DEF TypeOK
  <1> QED BY <1>2, <1>3, <1>4 DEF SentNow, Sent

LEMMA SendStep ==
  ASSUME Send
  PROVE  /\ pc = "send" /\ pc' = "regen" /\ sent' = Append(sent, SentNow)
         /\ misuse' = (misuse \/ packet \notin heap)
         /\ heap' = heap \ {packet} /\ packet' = Null
         /\ UNCHANGED <<argv, optind, registry, mods, current, usage, loopcount, iter, payload,
                        status>>
  BY DEF Send, SentNow

LEMMA SendType == TypeInv /\ Send => TypeInv'
  <1> SUFFICES ASSUME TypeInv, Send PROVE TypeInv' OBVIOUS
  <1> USE DEF TypeInv
  <1>1. Len(mods) \in Nat /\ Len(argv) \in Nat BY ListFacts
  <1>2. sent' \in Seq(Sent)
    <2>1. sent \in Seq(Sent) /\ SentNow \in Sent BY SentNowType DEF TypeOK
    <2>2. sent' = Append(sent, SentNow) BY SendStep
    <2> QED BY <2>1, <2>2
  <1>3. misuse' \in BOOLEAN BY SendStep
  <1>4. TypeOK' BY <1>1, <1>2, <1>3, SendStep DEF TypeOK, payload
  <1> QED BY <1>1, <1>4, SendStep DEF Bounds, Live

LEMMA RegenType == TypeInv /\ (Regen \/ NoRegen) => TypeInv'
  <1> USE DEF TypeInv
  <1>1. TypeOK => Len(mods) \in Nat /\ Len(argv) \in Nat BY ListFacts
  <1>2. ASSUME TypeInv, Regen PROVE TypeInv'
    <2>1. PICK newlen \in datarg :
            /\ datalen' = newlen
            /\ IF newlen > datalen
               THEN /\ data' = <<"data", iter, 0>>
                    /\ misuse' = (misuse \/ data \notin heap)
                    /\ heap' = (heap \ {data}) \cup {data'}
                    /\ cap' = RegenCap
               ELSE UNCHANGED <<data, cap, heap, misuse>>
      BY <1>2 DEF Regen
    <2>2. /\ pc = "regen" /\ pc' = "loop" /\ datarg # Null
          /\ UNCHANGED <<argv, optind, registry, mods, current, usage, loopcount, iter, datafile,
                         datarg, packet, sent, status>>
      BY <1>2 DEF Regen
    <2>3. datalen' \in 0 .. MaxData BY <1>2, <2>1, <2>2 DEF TypeOK
    <2>4. <<"data", iter, 0>> \in Block BY <1>2, ABlock, BoundAssumption DEF TypeOK
    <2>5. /\ data' \in Block \cup {Null} /\ heap' \in SUBSET Block /\ cap' \in 0 .. MaxData
          /\ misuse' \in BOOLEAN
      BY <1>2, <2>1, <2>4 DEF TypeOK, RegenCap
    <2>6. TypeOK' BY <1>2, <2>2, <2>3, <2>5 DEF TypeOK
    <2> QED BY <1>1, <1>2, <2>2, <2>6 DEF Bounds, Live
  <1>3. ASSUME TypeInv, NoRegen PROVE TypeInv'
    BY <1>1, <1>3 DEF NoRegen, TypeOK, Bounds, Live, payload, memory
  <1> QED BY <1>2, <1>3

LEMMA StutterType == TypeInv /\ UNCHANGED vars => TypeInv'
  BY DEF TypeInv, TypeOK, Bounds, Live, vars, payload, memory

LEMMA NextType == TypeInv /\ [Next]_vars => TypeInv'
  BY LoadType, ReadType, DataType, FileType, EnterType, OutType, Pass2Type, OptType, EndType,
     AssembleType, SendType, RegenType, StutterType DEF Next, Done

\* Every variable of main() keeps its type: the list never has more elements
\* than the command line has -p, current_e never leaves it, and no more packets
\* are built than -L asks for.
THEOREM DriverTypes == Spec => []TypeOK
  <1>1. TypeInv => TypeOK BY DEF TypeInv
  <1> QED BY <1>1, InitType, NextType, PTL DEF Spec

THEOREM DriverBounds == Spec => []TypeInv
  BY InitType, NextType, PTL DEF Spec

-----------------------------------------------------------------------------
\* Memory.

LEMMA BlocksFacts ==
  ASSUME TypeOK, NEW kind \in {"pack", "hdr"}, NEW i \in Nat
  PROVE  /\ \A b \in Blocks(kind, i) : b[1] = kind /\ b # Null
         /\ \A j \in DOMAIN mods : <<kind, i, j>> \in Blocks(kind, i)
  BY ListFacts, ABlock DEF Blocks

LEMMA PayloadKind ==
  ASSUME NEW b \in Payload
  PROVE  b[1] \in {"data", "map"} /\ b # Null /\ b \in Block
  BY NullIsNoBlock DEF Payload, Block

\* While the packs are one set of blocks, they are what initialize() frees.
LEMMA PacksOwned ==
  ASSUME MemoryInv, Live, iter > 0
  PROVE  /\ {mods[j].pack : j \in DOMAIN mods} = Blocks("pack", iter)
         /\ Null \notin Blocks("pack", iter)
  <1>1. OwnPacks /\ iter \in Nat BY BoundAssumption DEF MemoryInv, Ownership, TypeInv, TypeOK
  <1>2. \A b \in Blocks("pack", iter) : b # Null BY <1>1, BlocksFacts DEF MemoryInv, TypeInv
  <1> QED BY <1>1, <1>2 DEF OwnPacks, Blocks

LEMMA HeadersOwned ==
  ASSUME MemoryInv, pc \in {"pass2", "usage", "assemble"}
  PROVE  /\ {mods[j].data : j \in DOMAIN mods} = Blocks("hdr", iter)
         /\ Null \notin Blocks("hdr", iter)
         /\ iter > 0 /\ iter \in Nat /\ Live
         /\ Blocks("pack", iter) \subseteq heap /\ Blocks("hdr", iter) \subseteq heap
  <1>1. OwnHeaders /\ PacketBlocks = Blocks("pack", iter) \cup Blocks("hdr", iter)
    BY DEF MemoryInv, Ownership
  <1>2. iter > 0 /\ iter \in Nat BY BoundAssumption DEF MemoryInv, TypeInv, TypeOK, Bounds
  <1>3. \A b \in Blocks("hdr", iter) : b # Null BY <1>2, BlocksFacts DEF MemoryInv, TypeInv
  <1> QED BY <1>1, <1>2, <1>3 DEF OwnHeaders, Blocks, PacketBlocks, Live

\* Between two packets what is not payload is what the next iteration frees.
LEMMA LoopOwned ==
  ASSUME MemoryInv, pc = "loop"
  PROVE  OldPacks = PacketBlocks /\ Released(FALSE) = PacketBlocks
  <1>1. iter \in Nat BY BoundAssumption DEF MemoryInv, TypeInv, TypeOK
  <1>2. CASE iter = 0
    <2>1. PacketBlocks = {} /\ \A j \in DOMAIN mods : mods[j].pack = Null
      BY <1>2 DEF MemoryInv, Ownership
    <2> QED BY <2>1 DEF OldPacks, Released
  <1>3. CASE iter > 0
    <2>1. PacketBlocks = Blocks("pack", iter) BY <1>3 DEF MemoryInv, Ownership
    <2>2. /\ {mods[j].pack : j \in DOMAIN mods} = Blocks("pack", iter)
          /\ Null \notin Blocks("pack", iter)
      BY <1>3, PacksOwned DEF Live
    <2>3. Blocks("pack", iter) \ {Null} = Blocks("pack", iter) BY <2>2
    <2>4. OldPacks = PacketBlocks BY <2>1, <2>2, <2>3 DEF OldPacks
    <2>5. Released(FALSE) = Blocks("pack", iter) \ {Null} BY <2>2 DEF Released
    <2> QED BY <2>1, <2>3, <2>4, <2>5
  <1>4. iter = 0 \/ iter > 0 BY <1>1
  <1> QED BY <1>2, <1>3, <1>4, Zenon

LEMMA MemoryInvSafe == MemoryInv => MemorySafe
  <1> SUFFICES ASSUME MemoryInv PROVE MemorySafe OBVIOUS
  <1>1. ASSUME pc = "loop", iter > 0
        PROVE  PacketBlocks = {mods[j].pack : j \in DOMAIN mods}
    BY <1>1, PacksOwned DEF MemoryInv, Ownership, Live
  <1> QED BY <1>1 DEF MemorySafe, MemoryInv, Ownership

Memory == ~misuse /\ PayloadOwner /\ Ownership

LEMMA InitMemory == Init => Memory
  BY DEF Init, Memory, PayloadOwner, DataRightCall, Ownership, PacketBlocks, Live

LEMMA LoadMemory == MemoryInv /\ Pass1Load => Memory'
  <1> SUFFICES ASSUME MemoryInv, Pass1Load PROVE Memory' OBVIOUS
  <1>1. /\ pc = "pass1" /\ UNCHANGED <<pc, iter, payload, memory>>
        /\ mods' = mods \/ \E e : mods' = Append(mods, e) /\ e.pack = Null /\ e.data = Null
    BY DEF Pass1Load, Pass1At
  <1>2. mods \in Seq(Element) BY DEF MemoryInv, TypeInv, TypeOK
  <1>3. \A j \in DOMAIN mods' : mods'[j].pack = Null /\ mods'[j].data = Null
    <2>1. \A j \in DOMAIN mods : mods[j].pack = Null /\ mods[j].data = Null
      BY <1>1 DEF MemoryInv, Ownership
    <2>2. CASE mods' = mods BY <2>1, <2>2
    <2>3. ASSUME NEW e, mods' = Append(mods, e), e.pack = Null, e.data = Null
          PROVE  <1>3
      BY <1>2, <2>1, <2>3
    <2> QED BY <1>1, <2>2, <2>3
  <1>4. iter = 0 BY <1>1 DEF MemoryInv, TypeInv, Bounds
  <1> QED BY <1>1, <1>3, <1>4 DEF Memory, MemoryInv, PayloadOwner, DataRightCall, Ownership,
                                  PacketBlocks, payload, memory

\* Steps that touch neither the list nor a block.
Quiet ==
  /\ UNCHANGED <<mods, iter, data, datalen, cap, datafile, datarg, heap, misuse, packet>>
  /\ \/ pc' = pc
     \/ Live /\ pc' = "crash"
     \/ pc = "pass1" /\ pc' = "exit"
     \/ pc \in {"pass1", "regen"} /\ pc' = "loop"

LEMMA ReadMemory == MemoryInv /\ Quiet => Memory'
  <1> SUFFICES ASSUME MemoryInv, Quiet PROVE Memory' OBVIOUS
  <1> USE DEF Quiet
  <1>1. pc = "pass1" => iter = 0 BY DEF MemoryInv, TypeInv, Bounds
  <1>2. pc = "regen" => iter > 0 BY DEF MemoryInv, TypeInv, Bounds
  <1>3. /\ PacketBlocks' = PacketBlocks /\ OwnPacks' = OwnPacks /\ OwnHeaders' = OwnHeaders
        /\ Blocks("pack", iter)' = Blocks("pack", iter)
        /\ Blocks("hdr", iter)' = Blocks("hdr", iter)
    BY DEF PacketBlocks, OwnPacks, OwnHeaders, Blocks
  <1>4. ~misuse' /\ PayloadOwner'
    BY DEF MemoryInv, PayloadOwner, DataRightCall, Live
  <1>5. Ownership'
    BY <1>1, <1>2, <1>3 DEF MemoryInv, Ownership, Live
  <1> QED BY <1>4, <1>5 DEF Memory

LEMMA DataMemory == MemoryInv /\ Pass1Data => Memory'
  <1> SUFFICES ASSUME MemoryInv, Pass1Data PROVE Memory' OBVIOUS
  <1>1. pc = "pass1" /\ UNCHANGED <<pc, iter, mods, misuse, packet>> BY DEF Pass1Data
  <1>2. PacketBlocks = {} /\ \A j \in DOMAIN mods : mods[j].pack = Null /\ mods[j].data = Null
    BY <1>1 DEF MemoryInv, Ownership
  <1>3. iter = 0 BY <1>1 DEF MemoryInv, TypeInv, Bounds
  <1>4. CASE FileOpen
    <2>1. UNCHANGED <<payload, heap>> BY <1>4 DEF Pass1Data
    <2>2. Quiet BY <1>1, <2>1 DEF payload, Quiet
    <2> QED BY <2>2, ReadMemory
  <1>5. CASE ~FileOpen
    <2>1. /\ data' = <<"data", 0, optind>> /\ heap' = heap \cup {data'}
          /\ datafile' = FALSE
      BY <1>5 DEF Pass1Data, FileOpen, MemoryInv, TypeInv, TypeOK
    <2>2. optind \in Nat BY ListFacts DEF MemoryInv, TypeInv
    <2>3. data' \in Payload BY <2>1, <2>2 DEF Payload
    <2>4. data' # Null /\ data'[1] = "data" BY <2>1, <2>2, ABlock
    <2>5. PayloadOwner' BY <2>1, <2>4 DEF PayloadOwner, DataRightCall
    <2>6. PacketBlocks' = {} BY <1>2, <2>1, <2>4 DEF PacketBlocks
    <2>7. Ownership' BY <1>1, <1>2, <1>3, <2>3, <2>6 DEF Ownership
    <2> QED BY <1>1, <2>5, <2>7 DEF Memory, MemoryInv
  <1> QED BY <1>4, <1>5

LEMMA FileMemory == MemoryInv /\ Pass1File => Memory'
  <1> SUFFICES ASSUME MemoryInv, Pass1File PROVE Memory' OBVIOUS
  <1>1. pc = "pass1" /\ UNCHANGED <<pc, iter, mods, misuse, packet>>
    BY DEF Pass1File, Pass1At
  <1>2. PacketBlocks = {} /\ \A j \in DOMAIN mods : mods[j].pack = Null /\ mods[j].data = Null
    BY <1>1 DEF MemoryInv, Ownership
  <1>3. iter = 0 BY <1>1 DEF MemoryInv, TypeInv, Bounds
  <1>4. data = Null => datarg = Null /\ datalen = 0
    BY DEF MemoryInv, PayloadOwner, DataRightCall
  <1>5. CASE UNCHANGED <<payload, heap>>
    <2>1. Quiet BY <1>1, <1>5 DEF payload, Quiet
    <2> QED BY <2>1, ReadMemory
  <1>6. CASE /\ ~DataGiven /\ datafile' = TRUE /\ datarg' = datarg
             /\ data' = <<"map", 0, optind>> /\ heap' = heap \cup {data'}
    <2>2. optind \in Nat BY ListFacts DEF MemoryInv, TypeInv
    <2>3. data' \in Payload BY <1>6, <2>2 DEF Payload
    <2>4. data' # Null /\ data'[1] = "map" BY <1>6, <2>2, ABlock
    <2>5. PayloadOwner' BY <1>4, <1>6, <2>4 DEF PayloadOwner, DataRightCall, DataGiven
    <2>6. PacketBlocks' = {} BY <1>2, <1>6, <2>4 DEF PacketBlocks
    <2>7. Ownership' BY <1>1, <1>2, <1>3, <2>3, <2>6 DEF Ownership
    <2> QED BY <1>1, <2>5, <2>7 DEF Memory, MemoryInv
  <1>7. CASE /\ ~DataGiven /\ datalen' \in {0, datalen}
             /\ UNCHANGED <<data, cap, datarg, heap>>
    <2>1. PayloadOwner' BY <1>4, <1>7 DEF PayloadOwner, DataRightCall, DataGiven
    <2>2. Ownership' BY <1>1, <1>2, <1>3, <1>7 DEF Ownership, PacketBlocks, MemoryInv
    <2> QED BY <1>1, <2>1, <2>2 DEF Memory, MemoryInv
  <1> QED BY <1>5, <1>6, <1>7 DEF Pass1File, NoFileLen

LEMMA EnterMemory == MemoryInv /\ LoopEnter => Memory'
  <1> SUFFICES ASSUME MemoryInv, LoopEnter PROVE Memory' OBVIOUS
  <1> DEFINE packs == Blocks("pack", iter + 1)
             hdrs == Blocks("hdr", iter + 1)
  <1>1. /\ pc = "loop" /\ pc' = "pass2" /\ iter' = iter + 1
        /\ UNCHANGED <<payload, packet>>
        /\ misuse' = (misuse \/ ~(OldPacks \subseteq heap))
        /\ heap' = (heap \ OldPacks) \cup packs \cup hdrs
    BY DEF LoopEnter
  <1>2. /\ DOMAIN mods' = DOMAIN mods
        /\ \A j \in DOMAIN mods : /\ mods'[j].pack = <<"pack", iter + 1, j>>
                                  /\ mods'[j].data = <<"hdr", iter + 1, j>>
    <2> DEFINE e(j) == [mods[j] EXCEPT !.pack = <<"pack", iter + 1, j>>,
                                       !.data = <<"hdr", iter + 1, j>>,
                                       !.opts = {}, !.addr = FALSE]
    <2>1. mods' = [j \in DOMAIN mods |-> e(j)] BY DEF LoopEnter
    <2>2. ASSUME NEW j \in DOMAIN mods
          PROVE  e(j).pack = <<"pack", iter + 1, j>> /\ e(j).data = <<"hdr", iter + 1, j>>
      <3>1. mods[j] \in Element BY ListFacts DEF MemoryInv, TypeInv
      <3> QED BY <3>1 DEF Element
    <2> HIDE DEF e
    <2> QED BY <2>1, <2>2
  <1>3. iter + 1 \in Nat /\ iter' > 0
    BY <1>1, BoundAssumption DEF MemoryInv, TypeInv, TypeOK
  <1>4. OldPacks = PacketBlocks BY <1>1, LoopOwned
  <1>5. packs = Blocks("pack", iter)' /\ hdrs = Blocks("hdr", iter)'
    BY <1>1, <1>2 DEF Blocks
  <1>6. \A b \in packs \cup hdrs : b[1] \in {"pack", "hdr"}
    <2>1. TypeOK BY DEF MemoryInv, TypeInv
    <2> QED BY <1>3, <2>1, BlocksFacts
  <1> HIDE DEF packs, hdrs
  <1>7. ~misuse' BY <1>1, <1>4 DEF MemoryInv, PacketBlocks
  <1>8. PacketBlocks' = packs \cup hdrs BY <1>1, <1>4, <1>6 DEF PacketBlocks
  <1>9. PayloadOwner'
    <2>1. DataRightCall' /\ (data' = Null => datalen' = 0)
      BY <1>1 DEF MemoryInv, PayloadOwner, DataRightCall, payload
    <2>2. ASSUME data # Null PROVE data \in heap'
      <3>1. data \in heap /\ data \in Payload
        BY <1>1, <2>2 DEF MemoryInv, PayloadOwner, Ownership
      <3> QED BY <1>1, <1>4, <3>1, PayloadKind DEF PacketBlocks
    <2> QED BY <1>1, <2>1, <2>2 DEF PayloadOwner, payload
  <1>10. OwnPacks' /\ OwnHeaders' BY <1>1, <1>2 DEF OwnPacks, OwnHeaders
  <1>11. Ownership'
    BY <1>1, <1>3, <1>5, <1>8, <1>10 DEF Ownership, MemoryInv, payload
  <1> QED BY <1>7, <1>9, <1>11 DEF Memory

\* Every way out of main() frees what is live and belongs to somebody.
LEMMA LeaveMemory ==
  ASSUME MemoryInv, NEW freeit \in BOOLEAN, NEW gone, NEW rc, Leave(freeit, gone, rc),
         Released(freeit) \subseteq heap, gone \subseteq heap,
         PacketBlocks \subseteq Released(freeit) \cup gone,
         UNCHANGED <<data, datalen, datafile, datarg>>
  PROVE  Memory'
  <1>1. ~misuse' /\ pc' = "exit" BY DEF Leave, MemoryInv
  <1>2. PayloadOwner' BY <1>1 DEF MemoryInv, PayloadOwner, DataRightCall
  <1>3. PacketBlocks' = {} BY DEF Leave, PacketBlocks
  <1>4. Ownership' BY <1>1, <1>3 DEF MemoryInv, Ownership, Live
  <1> QED BY <1>1, <1>2, <1>4 DEF Memory

LEMMA DataReleasedLive ==
  ASSUME MemoryInv, Live
  PROVE  DataReleased \subseteq heap
  BY DEF MemoryInv, PayloadOwner, DataReleased, Live

LEMMA OutMemory == MemoryInv /\ (LoopExit \/ Usage \/ SendRefused) => Memory'
  <1>1. ASSUME MemoryInv, LoopExit PROVE Memory'
    <2>1. /\ pc = "loop" /\ Leave(FALSE, DataReleased, 0)
          /\ UNCHANGED <<data, datalen, datafile, datarg>>
      BY <1>1 DEF LoopExit, payload
    <2>2. Released(FALSE) \subseteq heap /\ PacketBlocks \subseteq Released(FALSE)
      <3>1. Released(FALSE) = PacketBlocks BY <1>1, <2>1, LoopOwned
      <3>2. PacketBlocks \subseteq heap BY DEF PacketBlocks
      <3> QED BY <3>1, <3>2
    <2>3. DataReleased \subseteq heap BY <1>1, <2>1, DataReleasedLive DEF Live
    <2> QED BY <1>1, <2>1, <2>2, <2>3, LeaveMemory
  <1>2. ASSUME MemoryInv, Usage PROVE Memory'
    <2>1. /\ pc = "usage" /\ Leave(TRUE, DataReleased, 0)
          /\ UNCHANGED <<data, datalen, datafile, datarg>>
      BY <1>2 DEF Usage, payload
    <2>2. /\ {mods[j].data : j \in DOMAIN mods} = Blocks("hdr", iter)
          /\ Blocks("pack", iter) \subseteq heap /\ Blocks("hdr", iter) \subseteq heap
          /\ iter > 0 /\ Live
      BY <1>2, <2>1, HeadersOwned
    <2>3. {mods[j].pack : j \in DOMAIN mods} = Blocks("pack", iter) BY <1>2, <2>2, PacksOwned
    <2>4. Released(TRUE) \subseteq heap /\ PacketBlocks \subseteq Released(TRUE)
      <3>1. /\ Null \notin Blocks("hdr", iter) /\ Null \notin Blocks("pack", iter)
            /\ PacketBlocks = Blocks("pack", iter) \cup Blocks("hdr", iter)
        BY <1>2, <2>1, <2>2, HeadersOwned, PacksOwned DEF MemoryInv, Ownership
      <3> QED BY <2>2, <2>3, <3>1 DEF Released
    <2>5. DataReleased \subseteq heap BY <1>2, <2>2, DataReleasedLive
    <2> QED BY <1>2, <2>1, <2>4, <2>5, LeaveMemory
  <1>3. ASSUME MemoryInv, SendRefused PROVE Memory'
    <2>1. /\ pc = "send" /\ Leave(FALSE, {packet}, 1)
          /\ UNCHANGED <<data, datalen, datafile, datarg>>
      BY <1>3 DEF SendRefused, payload
    <2>2. PacketBlocks = Blocks("pack", iter) \cup {packet} /\ iter > 0 /\ Live
      BY <1>3, <2>1 DEF MemoryInv, Ownership, TypeInv, Bounds, Live
    <2>3. {mods[j].pack : j \in DOMAIN mods} = Blocks("pack", iter) BY <1>3, <2>2, PacksOwned
    <2>4. /\ Released(FALSE) \subseteq heap /\ {packet} \subseteq heap
          /\ PacketBlocks \subseteq Released(FALSE) \cup {packet}
      <3>1. Null \notin Blocks("pack", iter) BY <1>3, <2>2, PacksOwned
      <3> QED BY <2>2, <2>3, <3>1 DEF Released, PacketBlocks
    <2> QED BY <1>3, <2>1, <2>4, LeaveMemory
  <1> QED BY <1>1, <1>2, <1>3

LEMMA ListMemory ==
  ASSUME MemoryInv, UNCHANGED <<iter, payload, heap, packet>>, ~misuse',
         pc = "pass2", pc' \in {"pass2", "usage", "assemble"}, DOMAIN mods' = DOMAIN mods,
         \A j \in DOMAIN mods : mods'[j].pack = mods[j].pack /\ mods'[j].data = mods[j].data
  PROVE  Memory'
  <1>1. PayloadOwner' BY DEF MemoryInv, PayloadOwner, DataRightCall, payload
  <1>2. OwnPacks /\ OwnHeaders BY DEF MemoryInv, Ownership, Live, TypeInv, Bounds
  <1>3. OwnPacks' /\ OwnHeaders' BY <1>2 DEF OwnPacks, OwnHeaders
  <1>4. PacketBlocks' = PacketBlocks /\ \A kind, i : Blocks(kind, i)' = Blocks(kind, i)
    BY DEF PacketBlocks, Blocks
  <1>5. PacketBlocks' = Blocks("pack", iter)' \cup Blocks("hdr", iter)'
    BY <1>4 DEF MemoryInv, Ownership
  <1>6. Ownership' BY <1>3, <1>5 DEF MemoryInv, Ownership, payload, TypeInv, Bounds
  <1> QED BY <1>1, <1>6 DEF Memory

LEMMA OptMemory == MemoryInv /\ Pass2Opt => Memory'
  <1> SUFFICES ASSUME MemoryInv, Pass2Opt PROVE Memory' OBVIOUS
  <1> DEFINE e == Target(argv[optind].c)
  <1>1. /\ mods' = [mods EXCEPT ![e].opts = @ \cup {optind}]
        /\ misuse' = (misuse \/ ~({mods[e].pack, mods[e].data} \subseteq heap))
        /\ pc = "pass2" /\ current # 0 /\ argv[optind].c \in opts
        /\ UNCHANGED <<pc, iter, payload, heap, packet>>
    BY DEF Pass2Opt
  <1>2. TypeOK BY DEF MemoryInv, TypeInv
  <1>3. current \in 1 .. Len(mods)
    <2>1. Len(mods) \in Nat /\ current \in Nat BY <1>2, ListFacts DEF TypeOK
    <2> QED BY <1>1, <2>1 DEF MemoryInv, TypeInv, Bounds, Live
  <1>4. e \in DOMAIN mods BY <1>1, <1>2, <1>3, TargetFacts
  <1> HIDE DEF e
  <1>5. mods[e].pack \in heap /\ mods[e].data \in heap
    <2>1. Blocks("pack", iter) \subseteq heap /\ Blocks("hdr", iter) \subseteq heap
          /\ {mods[j].data : j \in DOMAIN mods} = Blocks("hdr", iter) /\ Live /\ iter > 0
      BY <1>1, HeadersOwned
    <2>2. {mods[j].pack : j \in DOMAIN mods} = Blocks("pack", iter) BY <2>1, PacksOwned
    <2> QED BY <1>4, <2>1, <2>2
  <1>6. ~misuse' BY <1>1, <1>5 DEF MemoryInv
  <1>7. /\ DOMAIN mods' = DOMAIN mods
        /\ \A j \in DOMAIN mods : mods'[j].pack = mods[j].pack /\ mods'[j].data = mods[j].data
    <2>1. DOMAIN mods' = DOMAIN mods BY <1>1
    <2>2. ASSUME NEW j \in DOMAIN mods
          PROVE  mods'[j].pack = mods[j].pack /\ mods'[j].data = mods[j].data
      <3>1. mods[j] \in Element BY <1>2, ListFacts
      <3>2. mods'[j] = IF j = e THEN [mods[j] EXCEPT !.opts = @ \cup {optind}] ELSE mods[j]
        BY <1>1
      <3> QED BY <3>1, <3>2 DEF Element
    <2> QED BY <2>1, <2>2
  <1> QED BY <1>1, <1>6, <1>7, ListMemory

LEMMA EndMemory == MemoryInv /\ Pass2End => Memory'
  <1> SUFFICES ASSUME MemoryInv, Pass2End PROVE Memory' OBVIOUS
  <1>1. /\ mods' \in {mods, [mods EXCEPT ![1].addr = TRUE]}
        /\ pc = "pass2" /\ pc' \in {"usage", "assemble"}
        /\ UNCHANGED <<iter, payload, heap, misuse, packet>>
    BY DEF Pass2End, AfterOptions, memory
  <1>2. /\ DOMAIN mods' = DOMAIN mods
        /\ \A j \in DOMAIN mods : mods'[j].pack = mods[j].pack /\ mods'[j].data = mods[j].data
    <2>1. CASE mods' = mods BY <2>1
    <2>2. CASE mods' = [mods EXCEPT ![1].addr = TRUE]
      <3>1. ASSUME NEW j \in DOMAIN mods
            PROVE  mods'[j].pack = mods[j].pack /\ mods'[j].data = mods[j].data
        <4>1. mods[j] \in Element BY ListFacts DEF MemoryInv, TypeInv
        <4>2. mods'[j] = IF j = 1 THEN [mods[j] EXCEPT !.addr = TRUE] ELSE mods[j] BY <2>2
        <4> QED BY <4>1, <4>2 DEF Element
      <3> QED BY <2>2, <3>1
    <2> QED BY <1>1, <2>1, <2>2
  <1>3. ~misuse' BY <1>1 DEF MemoryInv
  <1> QED BY <1>1, <1>2, <1>3, ListMemory

LEMMA AssembleMemory == MemoryInv /\ Assemble => Memory'
  <1> SUFFICES ASSUME MemoryInv, Assemble PROVE Memory' OBVIOUS
  <1> DEFINE packs == Blocks("pack", iter)
             hdrs == Blocks("hdr", iter)
  <1>1. /\ pc = "assemble" /\ pc' = "send" /\ UNCHANGED <<iter, payload>>
        /\ packet' = <<"packet", iter, 0>>
        /\ misuse' = (misuse \/ ~((OwnBlocks \cup ({data} \ {Null})) \subseteq heap))
        /\ heap' = (heap \ OwnBlocks) \cup {packet'}
    BY DEF Assemble
  <1>2. /\ DOMAIN mods' = DOMAIN mods
        /\ \A j \in DOMAIN mods : mods'[j].pack = mods[j].pack
    <2> DEFINE f(j) == [mods[j] EXCEPT !.data = packet']
    <2>1. mods' = [j \in DOMAIN mods |-> f(j)] BY DEF Assemble
    <2>2. ASSUME NEW j \in DOMAIN mods PROVE f(j).pack = mods[j].pack
      <3>1. mods[j] \in Element BY ListFacts DEF MemoryInv, TypeInv
      <3> QED BY <3>1 DEF Element
    <2> HIDE DEF f
    <2> QED BY <2>1, <2>2
  <1>3. /\ OwnBlocks = hdrs /\ iter > 0 /\ iter \in Nat /\ Live
        /\ packs \subseteq heap /\ hdrs \subseteq heap
    BY <1>1, HeadersOwned DEF OwnBlocks
  <1>4. PacketBlocks = packs \cup hdrs BY <1>1 DEF MemoryInv, Ownership
  <1>5. packs' = packs BY <1>1, <1>2 DEF Blocks
  <1>6. (\A b \in packs : b[1] = "pack") /\ (\A b \in hdrs : b[1] = "hdr")
    <2>1. TypeOK BY DEF MemoryInv, TypeInv
    <2> QED BY <1>3, <2>1, BlocksFacts
  <1>7. packet'[1] = "packet" BY <1>1
  <1> HIDE DEF packs, hdrs
  <1>8. data # Null => data \in heap /\ data[1] \in {"data", "map"}
    BY <1>3, PayloadKind DEF MemoryInv, PayloadOwner, Ownership, Live
  <1>9. ~misuse' BY <1>1, <1>3, <1>8 DEF MemoryInv
  <1>10. PacketBlocks' = packs \cup {packet'} BY <1>1, <1>3, <1>4, <1>6, <1>7 DEF PacketBlocks
  <1>11. PayloadOwner'
    <2>1. data # Null => data \in heap' BY <1>1, <1>3, <1>6, <1>8
    <2> QED BY <1>1, <2>1 DEF MemoryInv, PayloadOwner, DataRightCall, payload
  <1>12. OwnPacks' BY <1>1, <1>2, <1>3 DEF OwnPacks, MemoryInv, Ownership
  <1>13. Ownership'
    BY <1>1, <1>5, <1>10, <1>12 DEF Ownership, MemoryInv, payload, packs
  <1> QED BY <1>9, <1>11, <1>13 DEF Memory

LEMMA SendMemory == MemoryInv /\ Send => Memory'
  <1> SUFFICES ASSUME MemoryInv, Send PROVE Memory' OBVIOUS
  <1> DEFINE packs == Blocks("pack", iter)
  <1>1. /\ pc = "send" /\ pc' = "regen" /\ misuse' = (misuse \/ packet \notin heap)
        /\ heap' = heap \ {packet} /\ UNCHANGED <<iter, payload, mods>>
    BY SendStep
  <1>2. iter > 0 /\ iter \in Nat /\ Live
    BY <1>1, BoundAssumption DEF MemoryInv, TypeInv, Bounds, TypeOK, Live
  <1>3. packet[1] = "packet" /\ PacketBlocks = packs \cup {packet}
    BY <1>1, <1>2 DEF MemoryInv, Ownership
  <1>4. \A b \in packs : b[1] = "pack"
    <2>1. TypeOK BY DEF MemoryInv, TypeInv
    <2> QED BY <1>2, <2>1, BlocksFacts
  <1>5. packs' = packs BY <1>1 DEF Blocks
  <1> HIDE DEF packs
  <1>6. ~misuse' BY <1>1, <1>3 DEF MemoryInv, PacketBlocks
  <1>7. PacketBlocks' = packs BY <1>1, <1>3, <1>4 DEF PacketBlocks
  <1>8. PayloadOwner'
    <2>1. data # Null => data \in heap /\ data[1] \in {"data", "map"}
      BY <1>2, PayloadKind DEF MemoryInv, PayloadOwner, Ownership, Live
    <2>2. data # Null => data \in heap' BY <1>1, <1>3, <2>1
    <2> QED BY <1>1, <2>2 DEF MemoryInv, PayloadOwner, DataRightCall, payload
  <1>9. OwnPacks' BY <1>1, <1>2 DEF OwnPacks, MemoryInv, Ownership
  <1>10. Ownership' BY <1>1, <1>5, <1>7, <1>9 DEF Ownership, MemoryInv, payload, packs
  <1> QED BY <1>6, <1>8, <1>10 DEF Memory

LEMMA RegenMemory == MemoryInv /\ Regen => Memory'
  <1> SUFFICES ASSUME MemoryInv, Regen PROVE Memory' OBVIOUS
  <1>1. PICK newlen \in datarg :
          /\ datalen' = newlen
          /\ IF newlen > datalen
             THEN /\ data' = <<"data", iter, 0>>
                  /\ misuse' = (misuse \/ data \notin heap)
                  /\ heap' = (heap \ {data}) \cup {data'}
                  /\ cap' = RegenCap
             ELSE UNCHANGED <<data, cap, heap, misuse>>
    BY DEF Regen
  <1>2. /\ pc = "regen" /\ pc' = "loop" /\ datarg # Null
        /\ UNCHANGED <<mods, iter, datafile, datarg, packet>>
    BY DEF Regen
  <1>3. ~datafile /\ data # Null /\ data[1] = "data" /\ data \in heap /\ data \in Payload
    BY <1>2 DEF MemoryInv, PayloadOwner, DataRightCall, Ownership
  <1>4. iter > 0 /\ iter \in Nat /\ Live
    BY <1>2, BoundAssumption DEF MemoryInv, TypeInv, Bounds, TypeOK, Live
  <1>5. /\ ~misuse' /\ data' \in Payload /\ data' # Null /\ data'[1] = "data"
        /\ data' \in heap' /\ PacketBlocks' = PacketBlocks
    <2>1. CASE newlen > datalen
      <3>1. data' = <<"data", iter, 0>> /\ heap' = (heap \ {data}) \cup {data'}
            /\ misuse' = (misuse \/ data \notin heap)
        BY <1>1, <2>1
      <3>2. data' \in Payload /\ data' # Null /\ data'[1] = "data"
        BY <1>4, <3>1, ABlock DEF Payload
      <3> QED BY <1>3, <3>1, <3>2 DEF MemoryInv, PacketBlocks
    <2>2. CASE ~(newlen > datalen)
      BY <1>1, <1>3, <2>2 DEF MemoryInv, PacketBlocks
    <2> QED BY <2>1, <2>2
  <1>6. PayloadOwner' BY <1>2, <1>3, <1>5 DEF PayloadOwner, DataRightCall
  <1>7. OwnPacks' /\ Blocks("pack", iter)' = Blocks("pack", iter)
    BY <1>2, <1>4 DEF OwnPacks, MemoryInv, Ownership, Blocks
  <1>8. Ownership' BY <1>2, <1>4, <1>5, <1>7 DEF Ownership, MemoryInv
  <1> QED BY <1>5, <1>6, <1>8 DEF Memory

LEMMA QuietSteps ==
  \/ Pass1Loop \/ Pass1Help \/ Pass1Version \/ Pass1Skip \/ Pass1End \/ Pass2Proto
  \/ Pass2Skip \/ Pass2Unknown \/ Pass2Crash \/ NoRegen \/ UNCHANGED vars
  => Quiet
  <1> USE DEF Quiet, payload, memory, Pass1At, Live
  <1>1. Pass1Loop => Quiet BY DEF Pass1Loop
  <1>2. Pass1Help => Quiet BY DEF Pass1Help
  <1>3. Pass1Version => Quiet BY DEF Pass1Version
  <1>4. Pass1Skip \/ Pass1End => Quiet BY DEF Pass1Skip, Pass1End
  <1>5. Pass2Proto \/ Pass2Skip => Quiet BY DEF Pass2Proto, Pass2Skip
  <1>6. Pass2Unknown \/ Pass2Crash => Quiet BY DEF Pass2Unknown, Pass2Crash
  <1>7. NoRegen \/ UNCHANGED vars => Quiet BY DEF NoRegen, vars
  <1> QED BY <1>1, <1>2, <1>3, <1>4, <1>5, <1>6, <1>7

LEMMA NextMemory == MemoryInv /\ [Next]_vars => MemoryInv'
  <1> SUFFICES ASSUME MemoryInv, [Next]_vars PROVE MemoryInv' OBVIOUS
  <1>1. TypeInv' BY NextType DEF MemoryInv
  <1>2. Memory'
    BY QuietSteps, ReadMemory, LoadMemory, DataMemory, FileMemory, EnterMemory, OutMemory,
       OptMemory, EndMemory, AssembleMemory, SendMemory, RegenMemory DEF Next, Done
  <1> QED BY <1>1, <1>2 DEF MemoryInv, Memory

LEMMA DriverMemory == Spec => []MemoryInv
  <1>1. Init => MemoryInv BY InitType, InitMemory DEF MemoryInv, Memory
  <1> QED BY <1>1, NextMemory, PTL DEF Spec

\* No block is freed twice or used after it was freed, and no pack, header or
\* packet is lost between two packets or left when main() returns, for every
\* command line and every way out of main().
THEOREM DriverMemorySafe == Spec => []MemorySafe
  BY DriverMemory, MemoryInvSafe, PTL

\* The payload is released by the call it was obtained for: munmap() never sees
\* a -d block, free() never a mapped file.
THEOREM DriverPayloadOwner == Spec => []PayloadOwner
  <1>1. MemoryInv => PayloadOwner BY DEF MemoryInv
  <1> QED BY <1>1, DriverMemory, PTL

=============================================================================

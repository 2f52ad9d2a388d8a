------------------------------- MODULE Sendip -------------------------------
(***************************************************************************)
(* The driver of sendip (main() of sendip.c with unload_mods()).           *)
(*                                                                         *)
(* main() walks the command line twice.  Pass 1 handles the base options   *)
(* and loads one module per -p; then, once per packet of the -L loop, every*)
(* module is initialized, pass 2 hands the module options to the modules,  *)
(* the headers are stuck together and finalized, the packet is sent and    *)
(* the payload of a -d argument is evaluated again.                        *)
(*                                                                         *)
(* The command line is a sequence of arguments already paired with their   *)
(* values (getopt's job).  Header bytes are abstracted to the set of       *)
(* command line positions whose option was applied to the header; module   *)
(* Packet looks at the geometry of the assembled packet.  Heap blocks are  *)
(* named <<kind, i, j>>, a new name for every malloc().                    *)
(***************************************************************************)
EXTENDS Integers, Sequences, FiniteSets

CONSTANTS
  Module,      \* names that can be given to -p
  Loadable,    \* the ones dlopen() and dlsym() succeed for
  OptChar,     \* option letter of each module
  HasSetAddr,  \* modules that export set_addr() (ipv4 and ipv6)
  CmdLines,    \* command lines explored
  MaxLoop,     \* largest loop count a command line asks for
  MaxData,     \* largest payload a -d argument evaluates to
  Null         \* the NULL pointer

\* Letters main() handles itself in both passes (headers.c, getopt string).
BaseFlag == {"D", "d", "f", "h", "L", "p", "S", "T", "V", "v"}

\* Letters of module options; dest uses d although it is a base flag.
Letter == {"i", "6", "t", "u", "c", "b", "r", "R", "n", "a", "e", "w", "s", "g", "H",
           "F", "o", "d"}

\* One command line argument with its value:
\*   p   -p mod          opt  a module option with letter c; oks are the
\*   d   -d; lens are the         results do_opt() may return for its value
\*       lengths opt2val() may    (more than one for random or file values)
\*       return (more than   f    -f; how opening and mapping the file ends
\*       one for a file)     L    -L n      h  -h      V  -V
\*   host  a non-option      misc  -v, -D, -S, -T
Arg == [k : {"p"}, mod : Module]
       \cup [k : {"opt"}, c : Letter, oks : (SUBSET BOOLEAN) \ {{}}]
       \cup [k : {"d"}, lens : (SUBSET (0 .. MaxData)) \ {{}}]
       \cup [k : {"f"}, res : {"noopen", "noread", "map"}]
       \cup [k : {"L"}, n : -1 .. MaxLoop]
       \cup [k : {"h", "V", "host", "misc"}]

ASSUME ModuleAssumption == /\ Loadable \subseteq Module
                           /\ HasSetAddr \subseteq Module
                           /\ OptChar \in [Module -> Letter]
ASSUME BoundAssumption == MaxLoop \in Nat \ {0} /\ MaxData \in Nat \ {0}
ASSUME CmdLinesAssumption == CmdLines \subseteq Seq(Arg)
ASSUME NullAssumption == Null \notin {"pack", "hdr", "packet", "data", "map"} \X Int \X Int

VARIABLES
  pc,         \* where main() is
  argv,       \* the command line
  optind,     \* next argument of the running pass
  registry,   \* modules modload.c has loaded
  mods,       \* list first..last: [mod, num_opts > 0, pack, data, opts, addr]
  current,    \* current_e of pass 2: an index of mods, 0 for NULL
  usage,      \* usage # 0
  loopcount,
  iter,       \* packets built so far; names heap blocks
  data, datalen, cap, \* payload pointer, its length, size of its block
  datafile,   \* datafile # -1
  datarg,     \* the -d argument kept for regeneration, or Null
  heap,       \* live blocks
  misuse,     \* a block was freed or accessed while not live
  packet,     \* packet.data
  sent,       \* what was handed to sendpacket(), in order
  status      \* exit status

payload == <<data, datalen, cap, datafile, datarg>>
memory  == <<heap, misuse, packet>>
vars == <<pc, argv, optind, registry, mods, current, usage, loopcount, iter,
          payload, memory, sent, status>>

Init ==
  /\ pc = "pass1" /\ argv \in CmdLines /\ optind = 1
  /\ registry = {} /\ mods = <<>> /\ current = 0
  /\ usage = FALSE /\ loopcount = 1 /\ iter = 0
  /\ data = Null /\ datalen = 0 /\ cap = 0 /\ datafile = FALSE /\ datarg = Null
  /\ heap = {} /\ misuse = FALSE /\ packet = Null
  /\ sent = <<>> /\ status = 0

-----------------------------------------------------------------------------
\* Pass 1: base options, loading of modules.

Pass1At(a) == pc = "pass1" /\ optind <= Len(argv) /\ a = argv[optind]

\* What the list of modload.c gains.
Loaded_blind(m) == {m}   \* mutant: a module that did not load is listed
Loaded(m) == {m} \cap Loadable

\* -p: load_sendip_module() answers a known name from its list (cached), loads
\* a new one, or fails; only a loaded module gets an element in the list.  The
\* options of a name are counted for its first element only.
Pass1Load ==
  \E a \in [k : {"p"}, mod : Module] :
    /\ Pass1At(a)
    /\ registry' = registry \cup Loaded(a.mod)
    /\ mods' = IF a.mod \in Loadable
               THEN Append(mods, [mod |-> a.mod, counted |-> a.mod \notin registry,
                                  pack |-> Null, data |-> Null, opts |-> {},
                                  addr |-> FALSE])
               ELSE mods
    /\ optind' = optind + 1
    /\ UNCHANGED <<pc, argv, current, usage, loopcount, iter, payload, memory, sent, status>>

\* -d, or an option of a module whose letter is d: pass 1 reads "-dn" as -d
\* with the value "n".  Refused when a file is open, although a second -d is
\* accepted; the first one's block is then lost.
DataLens(a) == IF a.k = "d" THEN a.lens ELSE {1}

FileOpen == datafile

Pass1Data ==
  /\ pc = "pass1" /\ optind <= Len(argv)
  /\ argv[optind].k = "d" \/ (argv[optind].k = "opt" /\ argv[optind].c = "d")
  /\ IF FileOpen
     THEN usage' = TRUE /\ UNCHANGED <<payload, heap>>
     ELSE \E n \in DataLens(argv[optind]) :
            /\ data' = <<"data", 0, optind>> /\ heap' = heap \cup {data'}
            /\ datalen' = n /\ cap' = n /\ datarg' = DataLens(argv[optind])
            /\ UNCHANGED <<datafile, usage>>
  /\ optind' = optind + 1
  /\ UNCHANGED <<pc, argv, registry, mods, current, loopcount, iter, misuse, packet,
                 sent, status>>

DataGiven_unchecked == FALSE   \* mutant: -f after -d is accepted
DataGiven == data # Null

\* datalen after a file that opened but could not be mapped.
NoFileLen == 0

\* -f: the file may not open, may be empty, unseekable or unmappable, or is
\* mapped.  Refused when there is payload already.
Pass1File ==
  \E a \in [k : {"f"}, res : {"noopen", "noread", "map"}] :
    /\ Pass1At(a)
    /\ \/ /\ DataGiven
          /\ usage' = TRUE /\ UNCHANGED <<payload, heap>>
       \/ /\ ~DataGiven /\ a.res = "map"
          /\ data' = <<"map", 0, optind>> /\ heap' = heap \cup {data'}
          /\ datalen' = 1 /\ cap' = 1 /\ datafile' = TRUE
          /\ UNCHANGED <<datarg, usage>>
       \/ /\ ~DataGiven /\ a.res # "map"
          /\ datafile' = (a.res = "noread")
          /\ datalen' = IF a.res = "noread" THEN NoFileLen ELSE datalen
          /\ UNCHANGED <<data, cap, datarg, heap, usage>>
    /\ optind' = optind + 1
    /\ UNCHANGED <<pc, argv, registry, mods, current, loopcount, iter, misuse, packet,
                   sent, status>>

Pass1Loop ==
  \E a \in [k : {"L"}, n : -1 .. MaxLoop] :
    /\ Pass1At(a)
    /\ loopcount' = a.n /\ optind' = optind + 1
    /\ UNCHANGED <<pc, argv, registry, mods, current, usage, iter, payload, memory,
                   sent, status>>

Pass1Help ==
  /\ Pass1At([k |-> "h"])
  /\ usage' = TRUE /\ optind' = optind + 1
  /\ UNCHANGED <<pc, argv, registry, mods, current, loopcount, iter, payload, memory,
                 sent, status>>

\* -V returns from main() at once.
Pass1Version ==
  /\ Pass1At([k |-> "V"])
  /\ pc' = "exit"
  /\ UNCHANGED <<argv, optind, registry, mods, current, usage, loopcount, iter, payload,
                 memory, sent, status>>

SkipArgument_stuck == optind   \* mutant: gnuoptind is not advanced
SkipArgument == optind + 1

\* -v, -D, -S, -T, a non-option, or a module option: unknown to pass 1, which
\* skips the rest of it.
Pass1Skip ==
  /\ pc = "pass1" /\ optind <= Len(argv)
  /\ \/ argv[optind].k \in {"host", "misc"}
     \/ argv[optind].k = "opt" /\ argv[optind].c \notin BaseFlag
  /\ optind' = SkipArgument
  /\ UNCHANGED <<pc, argv, registry, mods, current, usage, loopcount, iter, payload,
                 memory, sent, status>>

Pass1End ==
  /\ pc = "pass1" /\ optind > Len(argv)
  /\ pc' = "loop"
  /\ UNCHANGED <<argv, optind, registry, mods, current, usage, loopcount, iter, payload,
                 memory, sent, status>>

-----------------------------------------------------------------------------
\* The packet loop.

Blocks(kind, i) == {<<kind, i, j>> : j \in DOMAIN mods}

MorePackets == loopcount > 0

\* The pack of the previous iteration, which initialize() is about to replace.
OldPacks == {mods[j].pack : j \in DOMAIN mods} \ {Null}

\* Where pass 2 starts to read the command line.
Rewound_once == IF iter = 0 THEN 1 ELSE optind   \* mutant: reset in front of the loop
Rewound == 1

\* while (--loopcount >= 0): initialize() gives every element a new pack and
\* header; the old pack is freed, its data pointer is not.
LoopEnter ==
  /\ pc = "loop" /\ MorePackets
  /\ loopcount' = loopcount - 1 /\ iter' = iter + 1
  /\ misuse' = (misuse \/ ~(OldPacks \subseteq heap))
  /\ heap' = (heap \ OldPacks) \cup Blocks("pack", iter + 1) \cup Blocks("hdr", iter + 1)
  /\ mods' = [j \in DOMAIN mods |->
                [mods[j] EXCEPT !.pack = <<"pack", iter + 1, j>>,
                                !.data = <<"hdr", iter + 1, j>>,
                                !.opts = {}, !.addr = FALSE]]
  /\ pc' = "pass2" /\ optind' = Rewound /\ current' = 0
  /\ UNCHANGED <<argv, registry, usage, payload, packet, sent, status>>

\* mutant: the header is released whether or not it moved into the packet
Released_always(freeit) ==
  ({mods[j].pack : j \in DOMAIN mods} \cup {mods[j].data : j \in DOMAIN mods}) \ {Null}

\* unload_mods(freeit): every pack, with freeit its header too, then the
\* module list of modload.c.
Released(freeit) ==
  ({mods[j].pack : j \in DOMAIN mods}
   \cup (IF freeit THEN {mods[j].data : j \in DOMAIN mods} ELSE {})) \ {Null}

\* Release of the payload at the end of main(): munmap() for a file, free()
\* for a -d argument.
DataReleased == IF (datafile \/ datarg # Null) /\ data # Null THEN {data} ELSE {}
DataRightCall == /\ datafile /\ data # Null => data[1] = "map"
                 /\ datarg # Null => ~datafile /\ data # Null /\ data[1] = "data"

\* Every way out of the loop ends in unload_mods(), and then the process.
Leave(freeit, gone, rc) ==
  /\ misuse' = (misuse \/ ~((Released(freeit) \cup gone) \subseteq heap))
  /\ heap' = heap \ (Released(freeit) \cup gone)
  /\ mods' = <<>> /\ registry' = {}
  /\ status' = rc /\ pc' = "exit"

\* loopcount has run out: unload, release the payload, return 0.
LoopExit ==
  /\ pc = "loop" /\ ~MorePackets
  /\ Leave(FALSE, DataReleased, 0)
  /\ loopcount' = loopcount - 1
  /\ UNCHANGED <<argv, optind, current, usage, iter, payload, packet, sent>>

-----------------------------------------------------------------------------
\* Pass 2: module options.

\* Letters in the getopt listing main() builds from the counted elements.
opts == {OptChar[mods[j].mod] : j \in {j \in DOMAIN mods : mods[j].counted}}

\* current_e->next, or first.
\* mutant: the last element counts as NULL
NextElement_short == IF mods = <<>> THEN 0 ELSE (current + 1) % Len(mods)
NextElement == IF current = 0 THEN (IF mods = <<>> THEN 0 ELSE 1)
               ELSE (current + 1) % (Len(mods) + 1)

\* -p: current_e moves one element down the list, also when pass 1 could not
\* load that module.
Pass2Proto ==
  /\ pc = "pass2" /\ optind <= Len(argv) /\ argv[optind].k = "p"
  /\ current' = NextElement
  /\ optind' = optind + 1
  /\ UNCHANGED <<pc, argv, registry, mods, usage, loopcount, iter, payload, memory, sent,
                 status>>

\* The base options were processed in pass 1; the case labels of their letters
\* also swallow the options of a module that uses one of them.
Pass2Skip ==
  /\ pc = "pass2" /\ optind <= Len(argv)
  /\ \/ argv[optind].k \in {"d", "f", "L", "h", "misc"}
     \/ argv[optind].k = "opt" /\ argv[optind].c \in BaseFlag \cap opts
  /\ optind' = optind + 1
  /\ UNCHANGED <<pc, argv, registry, mods, current, usage, loopcount, iter, payload,
                 memory, sent, status>>

\* An option no loaded module offers.  A letter that is a base flag is then
\* taken as that base option (-dn without dest is -d again).
Pass2Unknown ==
  /\ pc = "pass2" /\ optind <= Len(argv) /\ argv[optind].k = "opt"
  /\ argv[optind].c \notin opts
  /\ usage' = (usage \/ argv[optind].c \notin BaseFlag)
  /\ optind' = optind + 1
  /\ UNCHANGED <<pc, argv, registry, mods, current, loopcount, iter, payload, memory,
                 sent, status>>

\* mutant: the current element has no priority
Target_first(c) ==
  CHOOSE j \in DOMAIN mods :
    /\ OptChar[mods[j].mod] = c
    /\ \A i \in 1 .. (j - 1) : OptChar[mods[i].mod] # c

\* The element a module option goes to: the current one if its letter matches,
\* otherwise the first one of the list with that letter.
Target(c) ==
  IF OptChar[mods[current].mod] = c THEN current
  ELSE CHOOSE j \in DOMAIN mods :
         /\ OptChar[mods[j].mod] = c
         /\ \A i \in 1 .. (j - 1) : OptChar[mods[i].mod] # c

Pass2Opt ==
  /\ pc = "pass2" /\ optind <= Len(argv) /\ argv[optind].k = "opt"
  /\ argv[optind].c \in opts \ BaseFlag
  /\ current # 0
  /\ LET e == Target(argv[optind].c)
     IN  /\ mods' = [mods EXCEPT ![e].opts = @ \cup {optind}]
         /\ misuse' = (misuse \/ ~({mods[e].pack, mods[e].data} \subseteq heap))
  /\ \E ok \in argv[optind].oks : usage' = (usage \/ ~ok)
  /\ optind' = optind + 1
  /\ UNCHANGED <<pc, argv, registry, current, loopcount, iter, payload, heap, packet, sent,
                 status>>

\* current_e->mod with current_e NULL: the process dies.
Pass2Crash ==
  /\ pc = "pass2" /\ optind <= Len(argv) /\ argv[optind].k = "opt"
  /\ argv[optind].c \in opts \ BaseFlag
  /\ current = 0
  /\ pc' = "crash"
  /\ UNCHANGED <<argv, optind, registry, mods, current, usage, loopcount, iter, payload,
                 memory, sent, status>>

AfterOptions(bad) == IF bad THEN "usage" ELSE "assemble"

\* Pass 2 scans with REQUIRE_ORDER and ends at the first non-option, wherever it
\* stands.  It has to be the last argument (exactly one hostname), and is handed
\* to the outermost module's set_addr().
Pass2End ==
  /\ pc = "pass2"
  /\ optind <= Len(argv) => argv[optind].k = "host"
  /\ usage' = (usage \/ optind # Len(argv))
  /\ mods' = IF ~usage' /\ mods # <<>> /\ mods[1].mod \in HasSetAddr
             THEN [mods EXCEPT ![1].addr = TRUE] ELSE mods
  /\ pc' = AfterOptions(usage')
  /\ UNCHANGED <<argv, optind, registry, current, loopcount, iter, payload, memory, sent,
                 status>>

\* Usage text, then everything is released; headers are still separate blocks.
Usage ==
  /\ pc = "usage"
  /\ Leave(TRUE, DataReleased, 0)
  /\ UNCHANGED <<argv, optind, current, usage, loopcount, iter, payload, packet, sent>>

-----------------------------------------------------------------------------
\* Assembly, sending, regeneration of the payload.

\* The blocks initialize() made, which Assemble frees.
OwnBlocks == {mods[j].data : j \in DOMAIN mods}

\* The headers and the payload are copied into one block; each header's own
\* block is freed and its data pointer moved into the packet.
Assemble ==
  /\ pc = "assemble"
  /\ packet' = <<"packet", iter, 0>>
  /\ misuse' = (misuse \/ ~((OwnBlocks \cup ({data} \ {Null})) \subseteq heap))
  /\ heap' = (heap \ OwnBlocks) \cup {packet'}
  /\ mods' = [j \in DOMAIN mods |-> [mods[j] EXCEPT !.data = packet']]
  /\ pc' = "send"
  /\ UNCHANGED <<argv, optind, registry, current, usage, loopcount, iter, payload, sent,
                 status>>

Outermost == IF mods = <<>> THEN "none" ELSE OptChar[mods[1].mod]

\* No header and no payload, or an outermost header that is not IP: the packet
\* is dropped and main() returns 1 without releasing the payload.
SendRefused ==
  /\ pc = "send"
  /\ IF mods = <<>> THEN data = Null ELSE Outermost \notin {"i", "6"}
  /\ Leave(FALSE, {packet}, 1)
  /\ packet' = Null
  /\ UNCHANGED <<argv, optind, current, usage, loopcount, iter, payload, sent>>

\* sendpacket(): whether it succeeds does not matter to main().
Send ==
  /\ pc = "send"
  /\ IF mods = <<>> THEN data # Null ELSE Outermost \in {"i", "6"}
  /\ sent' = Append(sent, [opts |-> [j \in DOMAIN mods |-> mods[j].opts],
                           mods |-> [j \in DOMAIN mods |-> mods[j].mod],
                           len |-> datalen])
  /\ misuse' = (misuse \/ packet \notin heap)
  /\ heap' = heap \ {packet} /\ packet' = Null
  /\ pc' = "regen"
  /\ UNCHANGED <<argv, optind, registry, mods, current, usage, loopcount, iter, payload,
                 status>>

\* The -d argument is evaluated again for the next packet; a longer value gets
\* a new block, of the size of the previous value.
RegenCap == datalen

Regen ==
  /\ pc = "regen" /\ loopcount # 0 /\ datarg # Null
  /\ \E newlen \in datarg :
       /\ datalen' = newlen
       /\ IF newlen > datalen
          THEN /\ data' = <<"data", iter, 0>>
               /\ misuse' = (misuse \/ data \notin heap)
               /\ heap' = (heap \ {data}) \cup {data'}
               /\ cap' = RegenCap
          ELSE UNCHANGED <<data, cap, heap, misuse>>
  /\ pc' = "loop"
  /\ UNCHANGED <<argv, optind, registry, mods, current, usage, loopcount, iter, datafile,
                 datarg, packet, sent, status>>

NoRegen ==
  /\ pc = "regen" /\ (loopcount = 0 \/ datarg = Null)
  /\ pc' = "loop"
  /\ UNCHANGED <<argv, optind, registry, mods, current, usage, loopcount, iter, payload,
                 memory, sent, status>>

Done == pc \in {"exit", "crash"} /\ UNCHANGED vars

Next ==
  \/ Pass1Load \/ Pass1Data \/ Pass1File \/ Pass1Loop \/ Pass1Help \/ Pass1Version
  \/ Pass1Skip \/ Pass1End
  \/ LoopEnter \/ LoopExit
  \/ Pass2Proto \/ Pass2Skip \/ Pass2Unknown \/ Pass2Opt \/ Pass2Crash \/ Pass2End
  \/ Usage \/ Assemble \/ SendRefused \/ Send \/ Regen \/ NoRegen
  \/ Done

Spec == Init /\ [][Next]_vars

\* main() is sequential and never waits for itself: it keeps taking steps.
FairSpec == Spec /\ WF_vars(Next)
-----------------------------------------------------------------------------
\* Properties.

Block == {"pack", "hdr", "packet", "data", "map"} \X Nat \X Nat
Element == [mod : Loadable, counted : BOOLEAN, pack : Block \cup {Null},
            data : Block \cup {Null}, opts : SUBSET Nat, addr : BOOLEAN]
Sent == [opts : Seq(SUBSET Nat), mods : Seq(Loadable), len : 0 .. MaxData]

\* Types of the driver's variables.
TypeOK ==
  /\ pc \in {"pass1", "loop", "pass2", "usage", "assemble", "send", "regen", "exit",
             "crash"}
  /\ argv \in Seq(Arg) /\ optind \in 1 .. (Len(argv) + 1)
  /\ registry \in SUBSET Loadable /\ mods \in Seq(Element)
  /\ current \in 0 .. Len(argv)
  /\ usage \in BOOLEAN /\ loopcount \in -2 .. MaxLoop /\ iter \in 0 .. MaxLoop
  /\ data \in Block \cup {Null} /\ datalen \in 0 .. MaxData /\ cap \in 0 .. MaxData
  /\ datafile \in BOOLEAN /\ datarg \in {Null} \cup SUBSET (0 .. MaxData)
  /\ heap \in SUBSET Block /\ misuse \in BOOLEAN /\ packet \in Block \cup {Null}
  /\ sent \in Seq(Sent) /\ status \in {0, 1}

\* No pack, header, packet or payload block is freed twice or used after it was
\* freed, in any order of iterations and on every way out of main(): the header
\* pointers that unload_mods() and the next initialize() see are either fresh
\* blocks or pointers into a packet that is gone and that nobody follows.  Nor is
\* one of a pack, a header or a packet lost: between two packets only the packs
\* are left, and none of them when main() returns.  (The payload is not part of
\* this: SendRefused returns without releasing it, and a second -d loses the
\* first one's block.)
PacketBlocks == {b \in heap : b[1] \notin {"data", "map"}}

MemorySafe ==
  /\ ~misuse
  /\ pc = "loop" /\ iter > 0 => PacketBlocks = {mods[j].pack : j \in DOMAIN mods}
  /\ pc = "exit" => PacketBlocks = {}

\* The payload is released by the call that matches how it was obtained: a
\* mapped file is never given to free() and a -d block never to munmap(), for
\* every order of -d and -f options with every way -f can fail.  Finalization
\* relies on datalen being 0 when there is no payload.
PayloadOwner == /\ DataRightCall
                /\ data = Null => datalen = 0
                /\ pc # "exit" /\ data # Null => data \in heap

ProtosBefore(k) == Cardinality({j \in 1 .. (k - 1) : argv[j].k = "p"})
AllLoaded == \A k \in DOMAIN argv : argv[k].k = "p" => argv[k].mod \in Loadable
Options == {k \in DOMAIN argv : argv[k].k = "opt"}

\* What a sent packet says about the command line when every -p could be
\* loaded: one header per -p, in their order; every module option was applied
\* exactly once, to a header of its letter; and an option of the module named
\* by the -p just in front of it changed that very instance (sendip.1: ipip
\* tunnels).  Holds in every iteration of the loop.
PacketMatchesCommandLine ==
  AllLoaded => \A n \in DOMAIN sent : LET s == sent[n] IN
    /\ Len(s.mods) = ProtosBefore(Len(argv) + 1)
    /\ \A k \in DOMAIN argv :
         argv[k].k = "p" => s.mods[ProtosBefore(k + 1)] = argv[k].mod
    /\ \A k \in Options : argv[k].c \notin BaseFlag =>
         \E j \in DOMAIN s.mods :
           /\ {i \in DOMAIN s.opts : k \in s.opts[i]} = {j}
           /\ OptChar[s.mods[j]] = argv[k].c
           /\ OptChar[s.mods[ProtosBefore(k)]] = argv[k].c => j = ProtosBefore(k)

\* main() only dereferences a NULL current_e for an option in front of the
\* first -p, or when some -p failed to load.
CrashOnlyWithoutModule ==
  pc = "crash" => ~AllLoaded \/ ProtosBefore(optind) = 0

\* Every packet of a run is made of the same modules in the same order, with the
\* same options of the command line applied to each of them, and of as many bytes
\* of payload when the value of -d has one length: the list, current_e, the
\* position of getopt and the -d block of one iteration do not leak into the
\* next.  That is what main() contributes to sendip.1's "each packet sent will be
\* identical"; `sent` holds no bytes, so the property says nothing of what the
\* modules keep or draw themselves: the static pointer of sctp.c (SctpWritesInside
\* of module Sctp is violated) and the rand() values of finalize().
PacketsBuiltAlike ==
  (\A k \in DOMAIN argv : argv[k].k = "d" => Cardinality(argv[k].lens) = 1) =>
    \A m, n \in DOMAIN sent : sent[m] = sent[n]

\* The last -L asks for 0 packets.
LoopZero == \E k \in DOMAIN argv :
              /\ argv[k].k = "L" /\ argv[k].n = 0
              /\ \A j \in DOMAIN argv : argv[j].k = "L" => j <= k

\* main() ends, whatever the command line; one whose last -L is 0 is left out,
\* sendip.1:67 promises packets without end for it, and main() sends none.
Termination == ~LoopZero => <>(pc \in {"exit", "crash"})

-----------------------------------------------------------------------------
\* What comments of sendip.c say and the code does not do.

\* sendip.c: "Apply options to the most recently invoked module first": the
\* header that gets an option of letter c directly behind a loaded -p of that
\* letter is that -p's header, also when an earlier -p could not be loaded.
LoadedBefore(k) ==
  Cardinality({j \in 1 .. (k - 1) : argv[j].k = "p" /\ argv[j].mod \in Loadable})

MostRecentFirst ==
  \A n \in DOMAIN sent : \A k \in Options :
    (/\ k > 1 /\ argv[k - 1].k = "p" /\ argv[k - 1].mod \in Loadable
     /\ OptChar[argv[k - 1].mod] = argv[k].c)
    => k \in sent[n].opts[LoadedBefore(k)]

\* sendip.c: "Regenerate data on subsequent loop calls": the regenerated
\* payload fits the block it is copied to.
RegeneratedDataFits == data # Null => datalen <= cap
=============================================================================

---------------------------- MODULE GetoptProofs ----------------------------
\* Proofs about Getopt.tla, for any command line and any options of the modules.
EXTENDS Getopt, SequenceTheorems, FiniteSetTheorems, TLAPS

Ends(rest) == \E n \in DOMAIN This : n > 2 /\ rest = SubSeq(This, n, Len(This))

\* The words pass 2 has used up; the one it is in the middle of counts.
Consumed ==
  LET at  == {e.at : e \in seen[2]}
      arg == {e.arg : e \in seen[2]} \ {0}
  IN  /\ at \intersect arg = {}
      /\ \A e \in seen[2] : e.arg # 0 => e.arg = e.at + 1
      /\ \A e, f \in seen[2] : e.arg = f.arg => e.arg = 0 \/ e = f
      /\ at \union arg = 1..(IF nextchar = <<>> THEN gnuoptind - 1 ELSE gnuoptind)
      /\ nextchar # <<>> => gnuoptind \in at

GetoptInv ==
  /\ TypeOK
  /\ nextchar # <<>> => Ends(nextchar)
  /\ pc = "pass1" => seen[2] = {}
  /\ pc = "pass2" => gnuoptind <= argc /\ Consumed
  /\ pc = "done" => EachWordOnce

\* How a call moves on: behind the word, into it, or behind its value.
Moves(opt, arg, val, ind, rest) ==
  /\ opt \in Char \union {"?", "nonopt"} /\ val \in Word
  /\ \/ arg = 0 /\ rest = <<>> /\ ind = gnuoptind + 1
     \/ arg = 0 /\ rest \in Word \ {<<>>} /\ Ends(rest) /\ ind = gnuoptind
     \/ arg = gnuoptind + 1 /\ rest = <<>> /\ ind = gnuoptind + 2 /\ ind <= argc

-----------------------------------------------------------------------------
\* The type invariant gives argc and the current word their types.
LEMMA ArgcType ==
  ASSUME TypeOK
  PROVE  /\ Len(argv) \in Nat /\ argc = Len(argv) + 1 /\ argc \in Nat
         /\ DOMAIN argv = 1..Len(argv)
         /\ gnuoptind \in Nat /\ gnuoptind >= 1 /\ gnuoptind <= argc + 1
         /\ This \in Word
         /\ gnuoptind < argc => gnuoptind \in DOMAIN argv /\ This = argv[gnuoptind]
<1>1. argv \in Seq(Word) /\ gnuoptind \in 1..(argc + 1)
  BY DEF TypeOK
<1>2. Len(argv) \in Nat /\ DOMAIN argv = 1..Len(argv)
  BY <1>1
<1>3. argc = Len(argv) + 1 /\ argc \in Nat
  BY <1>2 DEF argc
<1>4. gnuoptind \in Nat /\ gnuoptind >= 1 /\ gnuoptind <= argc + 1
  BY <1>1, <1>3
<1>5. gnuoptind < argc => gnuoptind \in DOMAIN argv
  BY <1>2, <1>3, <1>4
<1>6. This \in Word
  <2>1. CASE gnuoptind \in DOMAIN argv
    BY <2>1, <1>1 DEF This
  <2>2. CASE gnuoptind \notin DOMAIN argv
    BY <2>2 DEF This, Word
  <2> QED BY <2>1, <2>2
<1> QED BY <1>2, <1>3, <1>4, <1>5, <1>6 DEF This

\* A word with a letter left is not behind the last one.
LEMMA WordLeft ==
  ASSUME GetoptInv, nextchar # <<>>
  PROVE  gnuoptind < argc
<1>1. TypeOK /\ \E n \in DOMAIN This : n > 2
  BY DEF GetoptInv, Ends
<1>2. gnuoptind \in DOMAIN argv
  <2> SUFFICES ASSUME gnuoptind \notin DOMAIN argv PROVE FALSE
    OBVIOUS
  <2>1. This = <<>>
    BY DEF This
  <2>2. DOMAIN This = {}
    BY <2>1
  <2> QED BY <2>2, <1>1
<1> QED BY <1>1, <1>2, ArgcType

\* Where an option is decoded, there is a word, and what is left of it is the
\* end of that word; what its first letter leaves is the end of it, too.
LEMMA Decoding ==
  ASSUME GetoptInv, AtOption
  PROVE  /\ gnuoptind < argc /\ gnuoptind \in DOMAIN argv /\ pc \in {"pass1", "pass2"}
         /\ Text \in Word /\ Text # <<>> /\ Len(Text) \in Nat \ {0} /\ Text[1] \in Char
         /\ Tail(Text) \in Word
         /\ Len(Text) = 1 => Tail(Text) = <<>>
         /\ Len(Text) # 1 => Tail(Text) # <<>> /\ Ends(Tail(Text))
<1>1. TypeOK /\ Call
  BY DEF GetoptInv, AtOption
<1>2. pc \in {"pass1", "pass2"} /\ (pc = "pass1" => gnuoptind < argc)
  BY <1>1 DEF Call
<1>3. gnuoptind < argc
  <2>1. CASE nextchar # <<>>
    BY <2>1, WordLeft
  <2>2. CASE nextchar = <<>>
    <3>1. gnuoptind # argc
      BY <2>2 DEF AtOption
    <3>2. pc = "pass2" => gnuoptind <= argc
      BY DEF GetoptInv
    <3> QED BY <3>1, <3>2, <1>1, <1>2, ArgcType
  <2> QED BY <2>1, <2>2
<1>4. gnuoptind \in DOMAIN argv /\ This \in Word
  BY <1>1, <1>3, ArgcType
<1>5. Len(This) \in Nat /\ DOMAIN This = 1..Len(This) /\ This \in Seq(Char)
  BY <1>4, LenProperties DEF Word
<1>6. \E m \in 1..Len(This) : m >= 2 /\ Text = SubSeq(This, m, Len(This))
  <2>1. CASE nextchar # <<>>
    <3>1. Ends(nextchar) /\ Text = nextchar
      BY <2>1 DEF GetoptInv, Text
    <3>2. PICK n \in DOMAIN This : n > 2 /\ nextchar = SubSeq(This, n, Len(This))
      BY <2>1, <3>1 DEF Ends
    <3>3. n \in 1..Len(This) /\ n >= 2
      BY <3>2, <1>5
    <3> QED BY <3>1, <3>2, <3>3
  <2>2. CASE nextchar = <<>>
    <3>1. This # DoubleDash /\ ~NonOption
      BY <2>2 DEF AtOption
    <3>2. Len(This) > 1 /\ This[1] = "-"
      BY <3>1 DEF NonOption
    <3>3. CASE pc = "pass2" /\ This[2] = "-"
      <4>1. Text = SubSeq(This, 3, Len(This))
        BY <2>2, <3>3 DEF Text
      <4>2. Len(This) # 2
        <5> SUFFICES ASSUME Len(This) = 2 PROVE FALSE
          OBVIOUS
        <5>1. This = <<"-", "-">>
          BY <1>5, <3>2, <3>3
        <5> QED BY <5>1, <3>1 DEF DoubleDash
      <4>3. 3 \in 1..Len(This)
        BY <4>2, <3>2, <1>5
      <4> QED BY <4>1, <4>3
    <3>4. CASE ~(pc = "pass2" /\ This[2] = "-")
      <4>1. Text = SubSeq(This, 2, Len(This))
        BY <2>2, <3>4 DEF Text
      <4>2. 2 \in 1..Len(This)
        BY <3>2, <1>5
      <4> QED BY <4>1, <4>2
    <3> QED BY <3>3, <3>4
  <2> QED BY <2>1, <2>2
<1>7. PICK m \in 1..Len(This) : m >= 2 /\ Text = SubSeq(This, m, Len(This))
  BY <1>6
<1>8. /\ Text \in Seq(Char) /\ Len(Text) = Len(This) - m + 1
      /\ Text[1] = This[m] /\ Text[1] \in Char
  <2>1. \A i \in m..Len(This) : This[i] \in Char
    BY <1>5, <1>7
  <2>2. m \in Int /\ Len(This) \in Int /\ m <= Len(This) /\ 1 \in 1..(Len(This) - m + 1)
        /\ m + 1 - 1 = m
    BY <1>5, <1>7
  <2>3. /\ SubSeq(This, m, Len(This)) \in Seq(Char)
        /\ Len(SubSeq(This, m, Len(This))) = Len(This) - m + 1
        /\ SubSeq(This, m, Len(This))[1] = This[m + 1 - 1]
    BY <2>1, <2>2, SubSeqProperties
  <2> QED BY <2>1, <2>2, <2>3, <1>7
<1>9. Len(Text) \in Nat \ {0} /\ Text # <<>>
  <2>1. m \in Nat /\ m <= Len(This)
    BY <1>5, <1>7
  <2>2. Len(This) - m + 1 \in Nat \ {0}
    BY <2>1, <1>5
  <2>3. Len(<<>>) = 0
    OBVIOUS
  <2> QED BY <2>2, <2>3, <1>8
<1>10. Tail(Text) \in Seq(Char) /\ Len(Tail(Text)) = Len(Text) - 1
  BY <1>8, <1>9, HeadTailProperties
<1>11. Tail(Text) = SubSeq(This, m + 1, Len(This))
  <2>1. Len(This) \in m..Len(This)
    BY <1>5, <1>7
  <2> QED BY <1>5, <1>7, <2>1, HeadTailOfSubSeq
<1>12. ASSUME Len(Text) = 1 PROVE Tail(Text) = <<>>
  <2>1. Len(Tail(Text)) = 0
    BY <1>10, <1>12
  <2> QED BY <2>1, <1>10, EmptySeq
<1>13. ASSUME Len(Text) # 1 PROVE Tail(Text) # <<>> /\ Ends(Tail(Text))
  <2>1. Len(Tail(Text)) # 0
    BY <1>9, <1>10, <1>13
  <2>2. m + 1 \in DOMAIN This /\ m + 1 > 2
    BY <1>5, <1>7, <1>8, <1>9, <1>13
  <2>3. Len(<<>>) = 0
    OBVIOUS
  <2>4. \E n \in DOMAIN This : n > 2 /\ Tail(Text) = SubSeq(This, n, Len(This))
    BY <2>2, <1>11
  <2> QED BY <2>1, <2>3, <2>4 DEF Ends
<1> QED BY <1>2, <1>3, <1>4, <1>8, <1>9, <1>10, <1>12, <1>13 DEF Word

\* What moves on in a shape of Moves stays within the command line.
LEMMA MovesType ==
  ASSUME TypeOK, gnuoptind < argc, NEW opt, NEW arg, NEW val, NEW ind, NEW rest,
         Moves(opt, arg, val, ind, rest)
  PROVE  /\ [opt |-> opt, at |-> gnuoptind, arg |-> arg, val |-> val] \in Entry
         /\ ind \in gnuoptind..argc /\ ind + 1 \in 1..(argc + 1) /\ ind \in 1..(argc + 1)
         /\ rest \in Word
         /\ rest # <<>> => ind = gnuoptind /\ Ends(rest)
<1>1. gnuoptind \in Nat /\ argc \in Nat /\ gnuoptind >= 1
  BY ArgcType
<1>2. arg \in Nat /\ ind \in gnuoptind..argc
  BY <1>1 DEF Moves
<1>3. ind + 1 \in 1..(argc + 1) /\ ind \in 1..(argc + 1)
  BY <1>1, <1>2
<1>4. rest \in Word
  BY EmptySeq DEF Moves, Word
<1>5. [opt |-> opt, at |-> gnuoptind, arg |-> arg, val |-> val] \in Entry
  BY <1>1, <1>2 DEF Moves, Entry
<1> QED BY <1>2, <1>3, <1>4, <1>5 DEF Moves

\* A returned option in pass 1 changes nothing pass 2 will look at but the words.
LEMMA ReturnPass1 ==
  ASSUME GetoptInv, pc = "pass1", gnuoptind < argc,
         NEW opt, NEW arg, NEW val, NEW ind, NEW rest,
         Moves(opt, arg, val, ind, rest), Return(opt, arg, val, ind, rest)
  PROVE  GetoptInv'
<1> DEFINE e == [opt |-> opt, at |-> gnuoptind, arg |-> arg, val |-> val]
<1>1. TypeOK /\ seen[2] = {} /\ Pass = 1
  BY DEF GetoptInv, Pass
<1>2. /\ e \in Entry /\ ind + 1 \in 1..(argc + 1) /\ ind \in 1..(argc + 1) /\ rest \in Word
      /\ rest # <<>> => ind = gnuoptind /\ Ends(rest)
  BY <1>1, MovesType
<1>3. /\ argv' = argv /\ seen' = [seen EXCEPT ![1] = @ \union {e}]
      /\ pc' \in {"pass1", "exit"}
      /\ \/ gnuoptind' = ind + 1 /\ nextchar' = <<>>
         \/ gnuoptind' = ind /\ nextchar' = rest
  BY <1>1 DEF Return, SkipRest
<1>4. argc' = argc
  BY <1>3 DEF argc
<1>5. seen' \in [{1, 2} -> SUBSET Entry] /\ seen'[2] = {}
  BY <1>1, <1>2, <1>3 DEF TypeOK
<1>6. gnuoptind' \in 1..(argc' + 1) /\ nextchar' \in Word
  BY <1>2, <1>3, <1>4, EmptySeq DEF Word
<1>7. TypeOK'
  BY <1>1, <1>3, <1>5, <1>6 DEF TypeOK
<1>8. ASSUME nextchar' # <<>> PROVE Ends(nextchar)'
  <2>1. gnuoptind' = gnuoptind /\ nextchar' = rest /\ Ends(rest)
    BY <1>2, <1>3, <1>8
  <2>2. This' = This
    BY <1>3, <2>1 DEF This
  <2> QED BY <2>1, <2>2 DEF Ends
<1> QED BY <1>3, <1>5, <1>7, <1>8 DEF GetoptInv

\* Pass 2 uses up one more word, or a value with it.
LEMMA ReturnConsumes ==
  ASSUME TypeOK, Consumed, gnuoptind < argc,
         NEW opt, NEW arg, NEW val, NEW ind, NEW rest,
         Moves(opt, arg, val, ind, rest),
         seen'[2] = seen[2] \union {[opt |-> opt, at |-> gnuoptind, arg |-> arg, val |-> val]},
         gnuoptind' = ind, nextchar' = rest
  PROVE  Consumed'
<1> DEFINE e  == [opt |-> opt, at |-> gnuoptind, arg |-> arg, val |-> val]
           A  == {x.at : x \in seen[2]}
           B  == {x.arg : x \in seen[2]} \ {0}
           A1 == {x.at : x \in seen'[2]}
           B1 == {x.arg : x \in seen'[2]} \ {0}
<1>1. gnuoptind \in Nat /\ argc \in Nat /\ gnuoptind >= 1
  BY ArgcType
<1>2. e.at = gnuoptind /\ e.arg = arg
  OBVIOUS
<1>3. A1 = A \union {gnuoptind}
  BY <1>2
<1>4. B1 = B \union ({arg} \ {0})
  BY <1>2
<1>5. /\ A \intersect B = {}
      /\ \A x \in seen[2] : x.arg # 0 => x.arg = x.at + 1
      /\ \A x, y \in seen[2] : x.arg = y.arg => x.arg = 0 \/ x = y
      /\ A \union B = 1..(IF nextchar = <<>> THEN gnuoptind - 1 ELSE gnuoptind)
      /\ nextchar # <<>> => gnuoptind \in A
  BY DEF Consumed
<1>6. arg = 0 \/ arg = gnuoptind + 1
  BY DEF Moves
<1> HIDE DEF A, B, A1, B1, e
<1>7. gnuoptind \notin B /\ gnuoptind + 1 \notin A \union B
  <2>1. CASE nextchar = <<>>
    BY <2>1, <1>1, <1>5
  <2>2. CASE nextchar # <<>>
    BY <2>2, <1>1, <1>5
  <2> QED BY <2>1, <2>2
<1>8. A1 \intersect B1 = {}
  <2>1. arg # 0 => arg # gnuoptind /\ arg \notin A
    BY <1>1, <1>6, <1>7
  <2> QED BY <2>1, <1>3, <1>4, <1>5, <1>7
<1>9. \A x \in seen'[2] : x.arg # 0 => x.arg = x.at + 1
  BY <1>2, <1>5, <1>6 DEF e
<1>10. \A x \in seen[2] : arg # 0 => x.arg # arg
  BY <1>1, <1>6, <1>7 DEF B
<1>11. \A x, y \in seen'[2] : x.arg = y.arg => x.arg = 0 \/ x = y
  BY <1>2, <1>5, <1>10 DEF e
<1>12. A1 \union B1 = 1..(IF rest = <<>> THEN ind - 1 ELSE ind)
  <2>1. A \union B \union {gnuoptind} = 1..gnuoptind
    BY <1>1, <1>5
  <2>2. A1 \union B1 = (1..gnuoptind) \union ({arg} \ {0})
    BY <2>1, <1>3, <1>4
  <2>3. CASE arg = 0 /\ rest = <<>> /\ ind = gnuoptind + 1
    BY <2>2, <2>3, <1>1
  <2>4. CASE arg = 0 /\ rest # <<>> /\ ind = gnuoptind
    BY <2>2, <2>4, <1>1
  <2>5. CASE arg = gnuoptind + 1 /\ rest = <<>> /\ ind = gnuoptind + 2
    BY <2>2, <2>5, <1>1
  <2> QED BY <2>3, <2>4, <2>5 DEF Moves
<1>13. rest # <<>> => ind \in A1
  BY <1>3 DEF Moves
<1> QED
  BY <1>8, <1>9, <1>11, <1>12, <1>13 DEF Consumed, A1, B1

\* A returned option in pass 2.
LEMMA ReturnPass2 ==
  ASSUME GetoptInv, pc = "pass2", gnuoptind < argc,
         NEW opt, NEW arg, NEW val, NEW ind, NEW rest,
         Moves(opt, arg, val, ind, rest), Return(opt, arg, val, ind, rest)
  PROVE  GetoptInv'
<1> DEFINE e == [opt |-> opt, at |-> gnuoptind, arg |-> arg, val |-> val]
<1>1. TypeOK /\ Consumed /\ Pass = 2
  BY DEF GetoptInv, Pass
<1>2. /\ e \in Entry /\ ind \in gnuoptind..argc /\ ind \in 1..(argc + 1) /\ rest \in Word
      /\ rest # <<>> => ind = gnuoptind /\ Ends(rest)
  BY <1>1, MovesType
<1>3. /\ argv' = argv /\ seen' = [seen EXCEPT ![2] = @ \union {e}] /\ pc' = "pass2"
      /\ gnuoptind' = ind /\ nextchar' = rest
  BY <1>1 DEF Return
<1>4. argc' = argc /\ (gnuoptind \in Nat /\ argc \in Nat)
  BY <1>1, <1>3, ArgcType DEF argc
<1>5. seen' \in [{1, 2} -> SUBSET Entry] /\ seen'[2] = seen[2] \union {e}
  BY <1>1, <1>2, <1>3 DEF TypeOK
<1>6. TypeOK'
  BY <1>1, <1>2, <1>3, <1>4, <1>5 DEF TypeOK
<1>7. ASSUME nextchar' # <<>> PROVE Ends(nextchar)'
  <2>1. This' = This /\ Ends(rest)
    BY <1>2, <1>3, <1>7 DEF This
  <2> QED BY <2>1, <1>3 DEF Ends
<1>8. Consumed'
  BY <1>1, <1>3, <1>5, ReturnConsumes
<1>9. gnuoptind' <= argc'
  BY <1>2, <1>3, <1>4
<1> QED BY <1>3, <1>6, <1>7, <1>8, <1>9 DEF GetoptInv

LEMMA ReturnKeeps ==
  ASSUME GetoptInv, pc \in {"pass1", "pass2"}, gnuoptind < argc,
         NEW opt, NEW arg, NEW val, NEW ind, NEW rest,
         Moves(opt, arg, val, ind, rest), Return(opt, arg, val, ind, rest)
  PROVE  GetoptInv'
BY ReturnPass1, ReturnPass2

\* When a pass ends: pass 1 has used nothing of what pass 2 will; pass 2 stops in
\* front of the first word it did not use, or behind a double dash.
LEMMA EndKeeps ==
  ASSUME GetoptInv, pc \in {"pass1", "pass2"}, NEW ind, EndPass(ind),
         pc = "pass2" =>
           /\ nextchar = <<>>
           /\ \/ ind = gnuoptind
              \/ ind = gnuoptind + 1 /\ gnuoptind < argc /\ argv[gnuoptind] = DoubleDash
  PROVE  GetoptInv'
<1>1. TypeOK /\ argv' = argv /\ seen' = seen /\ nextchar' = <<>>
  BY DEF GetoptInv, EndPass
<1>2. argc' = argc /\ argc \in Nat /\ argc >= 1 /\ gnuoptind \in Nat /\ gnuoptind >= 1
  BY <1>1, ArgcType DEF argc
<1>3. CASE pc = "pass1"
  <2>1. pc' = "pass2" /\ gnuoptind' = 1 /\ seen'[2] = {}
    BY <1>1, <1>3 DEF EndPass, GetoptInv
  <2>2. TypeOK'
    BY <1>1, <1>2, <2>1, EmptySeq DEF TypeOK, Word
  <2>3. 1 - 1 = 0 /\ 1..0 = {}
    OBVIOUS
  <2>4. Consumed'
    BY <1>1, <2>1, <2>3 DEF Consumed
  <2> QED BY <1>1, <1>2, <2>1, <2>2, <2>4 DEF GetoptInv
<1>4. CASE pc = "pass2"
  <2>1. pc' = "done" /\ gnuoptind' = ind /\ Consumed /\ gnuoptind <= argc /\ nextchar = <<>>
    BY <1>4 DEF EndPass, GetoptInv
  <2>2. ind \in 1..(argc + 1) /\ ind \in Nat
    BY <1>2, <1>4, <2>1
  <2>3. TypeOK'
    BY <1>1, <1>2, <2>1, <2>2, EmptySeq DEF TypeOK, Word
  <2>4. EachWordOnce'
    <3> DEFINE A == {x.at : x \in seen[2]}
               B == {x.arg : x \in seen[2]} \ {0}
    <3>1. /\ A \intersect B = {}
          /\ \A x \in seen[2] : x.arg # 0 => x.arg = x.at + 1
          /\ \A x, y \in seen[2] : x.arg = y.arg => x.arg = 0 \/ x = y
          /\ A \union B = 1..(gnuoptind - 1)
      BY <2>1 DEF Consumed
    <3> HIDE DEF A, B
    <3>2. A \union B \subseteq 1..(ind - 1)
      BY <1>2, <1>4, <2>2, <3>1
    <3>3. \A k \in (1..(ind - 1)) \ (A \union B) : k = ind - 1 /\ argv[k] = DoubleDash
      BY <1>2, <1>4, <2>2, <3>1
    <3> QED
      BY <1>1, <2>1, <3>1, <3>2, <3>3 DEF EachWordOnce, A, B
  <2> QED BY <1>1, <2>1, <2>3, <2>4 DEF GetoptInv
<1> QED BY <1>3, <1>4

-----------------------------------------------------------------------------
\* One lemma per kind of step.

LEMMA InitInv == ASSUME Init PROVE GetoptInv
<1>1. argv \in Seq(Word) /\ Len(argv) \in Nat
  BY CmdLinesAssumption DEF Init
<1>2. gnuoptind \in 1..(argc + 1)
  BY <1>1 DEF Init, argc
<1>3. TypeOK
  BY <1>1, <1>2, EmptySeq DEF Init, TypeOK, Word
<1> QED BY <1>3 DEF Init, GetoptInv

\* A pass that ends.
LEMMA EndingStep ==
  ASSUME GetoptInv, Pass1Over \/ AllWords \/ Dashes
  PROVE  GetoptInv'
<1>1. TypeOK
  BY DEF GetoptInv
<1>2. CASE Pass1Over
  BY <1>2, EndKeeps DEF Pass1Over
<1>3. CASE AllWords
  BY <1>3, EndKeeps DEF AllWords
<1>4. CASE Dashes
  <2>1. pc \in {"pass1", "pass2"} /\ gnuoptind # argc /\ nextchar = <<>>
        /\ EndPass(gnuoptind + 1) /\ This = DoubleDash
    BY <1>4 DEF Dashes, Call
  <2>2. pc = "pass2" => gnuoptind < argc
    BY <1>1, <2>1, ArgcType DEF GetoptInv
  <2>3. pc = "pass2" => argv[gnuoptind] = DoubleDash
    BY <1>1, <2>1, <2>2, ArgcType
  <2> QED BY <2>1, <2>2, <2>3, EndKeeps
<1> QED BY <1>2, <1>3, <1>4

LEMMA PlainStep ==
  ASSUME GetoptInv, Plain
  PROVE  GetoptInv'
<1>1. TypeOK /\ pc \in {"pass1", "pass2"} /\ nextchar = <<>> /\ gnuoptind # argc
  BY DEF GetoptInv, Plain, Call
<1>2. CASE pc = "pass1"
  <2>1. gnuoptind < argc /\ Return("nonopt", 0, This, gnuoptind + 1, <<>>)
    BY <1>2 DEF Plain, Call
  <2>2. This \in Word
    BY <1>1, ArgcType
  <2>3. Moves("nonopt", 0, This, gnuoptind + 1, <<>>)
    BY <2>2 DEF Moves
  <2> QED BY <1>2, <2>1, <2>3, ReturnKeeps
<1>3. CASE pc = "pass2"
  <2>1. EndPass(gnuoptind)
    BY <1>3 DEF Plain
  <2> QED BY <1>1, <1>3, <2>1, EndKeeps
<1> QED BY <1>1, <1>2, <1>3

\* An unknown, ambiguous or incomplete option.
LEMMA QuestionStep ==
  ASSUME GetoptInv, AtOption, Return("?", 0, <<>>, gnuoptind + 1, <<>>)
  PROVE  GetoptInv'
<1>1. pc \in {"pass1", "pass2"} /\ gnuoptind < argc
  BY Decoding
<1>2. Moves("?", 0, <<>>, gnuoptind + 1, <<>>)
  BY EmptySeq DEF Moves, Word
<1> QED BY <1>1, <1>2, ReturnKeeps

LEMMA OptionType ==
  ASSUME NEW o \in Found
  PROVE  o.name \in Word /\ o.name # <<>> /\ o.name[1] \in Char /\ o.has_arg \in BOOLEAN
<1>1. o \in longopts
  BY DEF Found, Exact, Matches
<1>2. PICK m \in DOMAIN Options : o \in Options[m]
  BY <1>1 DEF longopts
<1>3. o \in [name : Word \ {<<>>}, has_arg : BOOLEAN]
  BY <1>2, OptionsAssumption
<1>4. Len(o.name) \in Nat \ {0} /\ o.name \in Seq(Char)
  BY <1>3, EmptySeq DEF Word
<1>5. 1 \in 1..Len(o.name)
  BY <1>4
<1> QED BY <1>3, <1>4, <1>5, ElementOfSeq

LEMMA LongStep ==
  ASSUME GetoptInv, LongAmbiguous \/ LongFound \/ LongUnknown
  PROVE  GetoptInv'
<1>1. AtOption /\ TypeOK
  BY DEF LongAmbiguous, LongFound, LongUnknown, GetoptInv
<1>2. pc \in {"pass1", "pass2"} /\ gnuoptind < argc /\ Text \in Seq(Char)
  BY <1>1, Decoding DEF Word
<1>3. CASE LongAmbiguous
  BY <1>1, <1>3, QuestionStep DEF LongAmbiguous
<1>4. CASE LongUnknown
  BY <1>1, <1>4, QuestionStep DEF LongUnknown, PastUnknown
<1>5. CASE LongFound
  <2>1. PICK o \in Found :
          \/ Return(o.name[1], 0, SubSeq(Text, NameLen + 2, Len(Text)), gnuoptind + 1, <<>>)
          \/ /\ HasNext
             /\ LET next == gnuoptind + 1
                IN  Return(o.name[1], next, IF next \in DOMAIN argv THEN argv[next] ELSE <<>>,
                           next + 1, <<>>)
          \/ Return(o.name[1], 0, <<>>, gnuoptind + 1, <<>>)
          \/ Return("?", 0, <<>>, gnuoptind + 1, <<>>)
    BY <1>5 DEF LongFound
  <2>2. o.name[1] \in Char
    BY OptionType
  <2>3. CASE Return(o.name[1], 0, SubSeq(Text, NameLen + 2, Len(Text)), gnuoptind + 1, <<>>)
    <3>1. NameLen \in Nat
      <4>1. Len(Text) \in Nat /\ DOMAIN Text = 1..Len(Text)
        BY <1>2, LenProperties
      <4>2. IsFiniteSet(DOMAIN Text)
        BY <4>1, FS_Interval
      <4>3. IsFiniteSet({n \in DOMAIN Text : \A k \in 1..n : Text[k] # "="})
        BY <4>2, FS_Subset
      <4> QED BY <4>3, FS_CardinalityType DEF NameLen
    <3>2. \A i \in (NameLen + 2)..Len(Text) : Text[i] \in Char
      <4>1. Len(Text) \in Nat
        BY <1>2, LenProperties
      <4>2. \A i \in (NameLen + 2)..Len(Text) : i \in 1..Len(Text)
        BY <3>1, <4>1
      <4> QED BY <1>2, <4>2, ElementOfSeq
    <3>3. NameLen + 2 \in Int /\ Len(Text) \in Int
      BY <1>2, <3>1, LenProperties
    <3>4. SubSeq(Text, NameLen + 2, Len(Text)) \in Seq(Char)
      BY <3>2, <3>3, SubSeqProperties
    <3>5. Moves(o.name[1], 0, SubSeq(Text, NameLen + 2, Len(Text)), gnuoptind + 1, <<>>)
      BY <2>2, <3>4 DEF Moves, Word
    <3> QED BY <1>2, <2>3, <3>5, ReturnKeeps
  <2>4. CASE /\ HasNext
             /\ LET next == gnuoptind + 1
                IN  Return(o.name[1], next, IF next \in DOMAIN argv THEN argv[next] ELSE <<>>,
                           next + 1, <<>>)
    <3> DEFINE next == gnuoptind + 1
               val  == IF next \in DOMAIN argv THEN argv[next] ELSE <<>>
    <3>1. next + 1 = gnuoptind + 2 /\ next + 1 <= argc
      BY <1>1, <2>4, ArgcType DEF HasNext
    <3>2. val \in Word
      <4>1. CASE next \in DOMAIN argv
        <5>1. argv \in Seq(Word) /\ DOMAIN argv = 1..Len(argv)
          BY <1>1, ArgcType DEF TypeOK
        <5> QED BY <4>1, <5>1, ElementOfSeq
      <4>2. CASE next \notin DOMAIN argv
        BY <4>2, EmptySeq DEF Word
      <4> QED BY <4>1, <4>2
    <3> HIDE DEF val
    <3>3. Moves(o.name[1], next, val, next + 1, <<>>)
      BY <2>2, <3>1, <3>2 DEF Moves
    <3>4. Return(o.name[1], next, val, next + 1, <<>>)
      BY <2>4 DEF val
    <3> QED BY <1>2, <3>3, <3>4, ReturnKeeps
  <2>5. CASE Return(o.name[1], 0, <<>>, gnuoptind + 1, <<>>)
    <3>1. Moves(o.name[1], 0, <<>>, gnuoptind + 1, <<>>)
      BY <2>2, EmptySeq DEF Moves, Word
    <3> QED BY <1>2, <2>5, <3>1, ReturnKeeps
  <2>6. CASE Return("?", 0, <<>>, gnuoptind + 1, <<>>)
    BY <1>1, <2>6, QuestionStep
  <2> QED BY <2>1, <2>3, <2>4, <2>5, <2>6
<1> QED BY <1>3, <1>4, <1>5

LEMMA LetterStep ==
  ASSUME GetoptInv, LetterUnknown \/ LetterAlone \/ LetterValue
  PROVE  GetoptInv'
<1>1. AtOption /\ TypeOK
  BY DEF LetterUnknown, LetterAlone, LetterValue, AtLetter, GetoptInv
<1>2. pc \in {"pass1", "pass2"} /\ gnuoptind < argc /\ Len(Text) \in Nat \ {0}
      /\ Text[1] \in Char /\ Tail(Text) \in Word
  BY <1>1, Decoding
<1>3. \/ Tail(Text) = <<>> /\ Index = gnuoptind + 1
      \/ Tail(Text) \in Word \ {<<>>} /\ Ends(Tail(Text)) /\ Index = gnuoptind
  BY <1>1, Decoding DEF Index
<1>4. CASE LetterUnknown
  <2>1. Moves("?", 0, <<>>, Index, Tail(Text))
    BY <1>3, EmptySeq DEF Moves, Word
  <2> QED BY <1>2, <1>4, <2>1, ReturnKeeps DEF LetterUnknown
<1>5. CASE LetterAlone
  <2>1. Moves(Text[1], 0, <<>>, Index, Tail(Text))
    BY <1>2, <1>3, EmptySeq DEF Moves, Word
  <2> QED BY <1>2, <1>5, <2>1, ReturnKeeps DEF LetterAlone
<1>6. CASE LetterValue
  <2>1. CASE Len(Text) > 1
    <3>1. Moves(Text[1], 0, Tail(Text), gnuoptind + 1, <<>>)
      BY <1>2 DEF Moves
    <3> QED BY <1>2, <1>6, <2>1, <3>1, ReturnKeeps DEF LetterValue
  <2>2. CASE ~(Len(Text) > 1)
    <3>. \A n \in Nat \ {0} : ~(n > 1) => n = 1
      OBVIOUS
    <3>0. Len(Text) = 1
      BY <1>2, <2>2, Zenon
    <3>1. Index = gnuoptind + 1
      BY <3>0 DEF Index
    <3>2. CASE Index = argc
      BY <1>1, <1>6, <2>2, <3>1, <3>2, QuestionStep DEF LetterValue
    <3>3. CASE Index # argc
      <4>1. Return(Text[1], Index, argv[Index], PastValue, <<>>)
        BY <1>6, <2>2, <3>3 DEF LetterValue
      <4>2. Index \in 1..Len(argv) /\ PastValue = gnuoptind + 2 /\ PastValue <= argc
        BY <1>1, <1>2, <3>1, <3>3, ArgcType DEF PastValue
      <4>3. argv[Index] \in Word
        BY <1>1, <4>2, ElementOfSeq DEF TypeOK
      <4>4. Moves(Text[1], Index, argv[Index], PastValue, <<>>)
        BY <1>2, <3>1, <4>2, <4>3 DEF Moves
      <4> QED BY <1>2, <4>1, <4>4, ReturnKeeps
    <3> QED BY <3>2, <3>3
  <2> QED BY <2>1, <2>2
<1> QED BY <1>4, <1>5, <1>6

LEMMA StutterStep ==
  ASSUME GetoptInv, UNCHANGED vars
  PROVE  GetoptInv'
BY DEF GetoptInv, vars, TypeOK, Ends, This, argc, Consumed, EachWordOnce

-----------------------------------------------------------------------------
\* The inductive invariant of both scans.
THEOREM Invariance == Spec => []GetoptInv
<1>1. Init => GetoptInv
  BY InitInv
<1>2. GetoptInv /\ [Next]_vars => GetoptInv'
  <2> SUFFICES ASSUME GetoptInv, [Next]_vars PROVE GetoptInv'
    OBVIOUS
  <2>1. CASE Pass1Over \/ AllWords \/ Dashes
    BY <2>1, EndingStep
  <2>2. CASE Plain
    BY <2>2, PlainStep
  <2>3. CASE LongAmbiguous \/ LongFound \/ LongUnknown
    BY <2>3, LongStep
  <2>4. CASE LetterUnknown \/ LetterAlone \/ LetterValue
    BY <2>4, LetterStep
  <2>5. CASE Stop \/ UNCHANGED vars
    BY <2>5, StutterStep DEF Stop
  <2> QED BY <2>1, <2>2, <2>3, <2>4, <2>5 DEF Next
<1> QED BY <1>1, <1>2, PTL DEF Spec

\* Types, with gnuoptind at most one behind argc.
THEOREM TypeCorrect == Spec => []TypeOK
<1>1. GetoptInv => TypeOK
  BY DEF GetoptInv
<1> QED BY <1>1, Invariance, PTL

\* Pass 2 never reads behind argv, for any command line.
THEOREM ReadsInBounds == Spec => []InBounds
<1>1. GetoptInv => InBounds
  BY DEF GetoptInv, InBounds, Ends
<1> QED BY <1>1, Invariance, PTL

\* When pass 2 ends, every word in front of gnuoptind was used exactly once.
THEOREM WordsUsedOnce == Spec => []EachWordOnce
<1>1. GetoptInv => EachWordOnce
  <2> SUFFICES ASSUME GetoptInv, pc = "done" PROVE EachWordOnce
    BY DEF EachWordOnce
  <2> QED BY DEF GetoptInv
<1> QED BY <1>1, Invariance, PTL
-----------------------------------------------------------------------------
\* The two scans agree.  Pass 1 leaves in seen[1] an entry for every word it has
\* begun to decode, so seen[1] alone tells how it went through the command line.

PlainWord(w) == ~(Len(w) > 1 /\ w[1] = "-")

\* The names a pass has found for -p in word k.
Names(n, k) == {e.val : e \in {e \in seen[n] : e.opt = "p" /\ e.at = k}}

\* The words pass 1 has begun to decode.
Begun == {e.at : e \in seen[1]}

\* Pass 1 has gone through the letters in front of the m-th of word w.
Passed(w, m) == \A j \in 2..(m - 1) : w[j] \in {"v", "h", "-"}

\* Pass 1 does not know the m-th letter.
Unknown(w, m) == w[m] \notin BaseLetters /\ (w[m] = "-" => m = 2)

\* What pass 1 makes of option word k, whose first letter that is not passed over
\* is the m-th: where it goes on, and the names it finds.
Decodes(k, m, next) ==
  LET w == argv[k]
  IN  \/ /\ m = Len(w) + 1
         /\ next = k + 1 /\ Names(1, k) = {}
      \/ /\ m \in 2..Len(w) /\ Unknown(w, m)
         /\ next = (IF m < Len(w) THEN k + 1 ELSE k + 2) /\ Names(1, k) = {}
      \/ /\ m \in 2..Len(w) /\ w[m] \in TakesValue /\ m < Len(w)
         /\ next = k + 1
         /\ Names(1, k) = (IF w[m] = "p" THEN {SubSeq(w, m + 1, Len(w))} ELSE {})
      \/ /\ m = Len(w) /\ w[m] \in TakesValue /\ k + 1 < argc
         /\ next = k + 2
         /\ Names(1, k) = (IF w[m] = "p" THEN {argv[k + 1]} ELSE {})
      \/ /\ m = Len(w) /\ w[m] \in TakesValue /\ k + 1 = argc
         /\ next = k + 2 /\ Names(1, k) = {}

\* Pass 1 is through with word k and goes on with word next.
Leaves(k, next) ==
  IF PlainWord(argv[k]) THEN next = k + 1 /\ Names(1, k) = {}
  ELSE \E m \in 2..(Len(argv[k]) + 1) : Passed(argv[k], m) /\ Decodes(k, m, next)

\* Pass 1 is in front of gnuoptind, or in the middle of that word.
Scanning ==
  /\ Begun \subseteq 1..Len(argv) /\ \A k \in Begun : k <= gnuoptind
  /\ 1 \in Begun \union {gnuoptind}
  /\ \A k \in Begun : argv[k] # DoubleDash
  /\ \A k \in Begun : k < gnuoptind =>
       \E next \in {k + 1, k + 2} : next \in Begun \union {gnuoptind} /\ Leaves(k, next)
  /\ IF nextchar = <<>> THEN gnuoptind \notin Begun
     ELSE /\ gnuoptind \in Begun /\ ~PlainWord(This) /\ Names(1, gnuoptind) = {}
          /\ \E m \in 3..Len(This) : nextchar = SubSeq(This, m, Len(This)) /\ Passed(This, m)

\* Pass 1 came to word k, and stopped there if that is a double dash.
Boundary(k) == k \in Begun \/ (argv[k] = DoubleDash /\ \A j \in Begun : j < k)

\* Pass 1 went on to the end or to a double dash.
Scanned ==
  /\ Begun \subseteq 1..Len(argv)
  /\ 1 < argc => Boundary(1)
  /\ \A k \in Begun : argv[k] # DoubleDash
  /\ \A k \in Begun : \E next \in {k + 1, k + 2} :
       Leaves(k, next) /\ (next < argc => Boundary(next))

\* Pass 2 has found every option, and no value looks like an option.
Regular ==
  /\ \A e \in seen[2] : e.opt # "?"
  /\ \A e \in seen[2] : e.arg # 0 => PlainWord(e.val)

\* Pass 2 comes to the words pass 1 came to, and finds the same names there.
Meeting ==
  /\ \A k \in 1..(gnuoptind - 1) : Names(1, k) = Names(2, k)
  /\ IF nextchar = <<>> THEN gnuoptind < argc => Boundary(gnuoptind)
     ELSE /\ gnuoptind \in Begun /\ ~PlainWord(This) /\ Names(2, gnuoptind) = {}
          /\ \E m \in 3..Len(This) :
               /\ nextchar = SubSeq(This, m, Len(This))
               /\ \A j \in 2..(m - 1) : This[j] \in {"v", "h"}

AgreeInv ==
  /\ pc = "pass1" => Scanning
  /\ pc \in {"pass2", "done"} => Scanned
  /\ pc = "pass2" /\ Regular => Meeting
  /\ pc = "done" => PassesAgree
-----------------------------------------------------------------------------
\* What a return adds to the names of its pass, and what it leaves alone.
LEMMA NamesAdded ==
  ASSUME NEW n, NEW e, seen'[n] = seen[n] \union {e}
  PROVE  /\ \A k : k # e.at => Names(n, k)' = Names(n, k)
         /\ Names(n, e.at)' = Names(n, e.at) \union (IF e.opt = "p" THEN {e.val} ELSE {})
BY DEF Names

LEMMA NamesNever ==
  ASSUME NEW k, k \notin Begun
  PROVE  Names(1, k) = {}
BY DEF Names, Begun

LEMMA LeavesSame ==
  ASSUME NEW k, NEW next, argv' = argv, Names(1, k)' = Names(1, k)
  PROVE  Leaves(k, next)' = Leaves(k, next)
<1>1. argc' = argc
  BY DEF argc
<1>2. \A m : Decodes(k, m, next)' = Decodes(k, m, next)
  BY <1>1 DEF Decodes, Unknown
<1> QED BY <1>2 DEF Leaves, Passed, PlainWord

\* The letters from the m-th on.
LEMMA TextAt ==
  ASSUME This \in Word, gnuoptind \in Nat, NEW m \in 2..Len(This),
         Text = SubSeq(This, m, Len(This))
  PROVE  /\ Len(This) \in Nat /\ m \in Nat /\ m <= Len(This) /\ m >= 2
         /\ Len(Text) = Len(This) - m + 1 /\ Text[1] = This[m]
         /\ Tail(Text) = SubSeq(This, m + 1, Len(This))
         /\ m = Len(This) <=> Tail(Text) = <<>>
         /\ Index = IF m = Len(This) THEN gnuoptind + 1 ELSE gnuoptind
<1>1. This \in Seq(Char) /\ Len(This) \in Nat /\ m \in Nat /\ m <= Len(This) /\ m >= 2
  BY LenProperties DEF Word
<1>2. \A i \in m..Len(This) : This[i] \in Char
  BY <1>1
<1>3. /\ Text \in Seq(Char) /\ Len(Text) = Len(This) - m + 1
      /\ Text[1] = This[m + 1 - 1]
  <2>1. m \in Int /\ Len(This) \in Int /\ m <= Len(This) /\ 1 \in 1..(Len(This) - m + 1)
    BY <1>1
  <2> QED BY <1>2, <2>1, SubSeqProperties
<1>4. m + 1 - 1 = m /\ Len(Text) \in Nat \ {0}
  BY <1>1, <1>3
<1>5. Tail(Text) = SubSeq(This, m + 1, Len(This))
  <2>1. Len(This) \in m..Len(This)
    BY <1>1
  <2> QED BY <1>1, <2>1, HeadTailOfSubSeq
<1>6. Tail(Text) \in Seq(Char) /\ Len(Tail(Text)) = Len(Text) - 1
  <2>1. Text # <<>>
    BY <1>4
  <2> QED BY <1>3, <2>1, HeadTailProperties
<1>7. m = Len(This) <=> Tail(Text) = <<>>
  <2>1. m = Len(This) <=> Len(Tail(Text)) = 0
    BY <1>1, <1>3, <1>6
  <2>2. Len(Tail(Text)) = 0 <=> Tail(Text) = <<>>
    BY <1>6, EmptySeq
  <2> QED BY <2>1, <2>2
<1>8. Len(Text) = 1 <=> m = Len(This)
  BY <1>1, <1>3
<1> QED BY <1>1, <1>3, <1>4, <1>5, <1>7, <1>8 DEF Index

-----------------------------------------------------------------------------
\* Pass 1.

\* The word it is at, and the letter.
LEMMA PlaceInPass1 ==
  ASSUME GetoptInv, Scanning, pc = "pass1", AtOption
  PROVE  /\ ~PlainWord(This) /\ This # DoubleDash /\ Names(1, gnuoptind) = {}
         /\ \E m \in 2..Len(This) :
              Text = SubSeq(This, m, Len(This)) /\ Passed(This, m) /\ (m > 2 => seen[1] # {})
<1>1. TypeOK /\ gnuoptind < argc /\ This \in Word /\ This = argv[gnuoptind]
  BY Decoding, ArgcType DEF GetoptInv
<1>2. CASE nextchar = <<>>
  <2>1. This # DoubleDash /\ ~PlainWord(This) /\ gnuoptind \notin Begun
    BY <1>2 DEF AtOption, NonOption, PlainWord, Scanning
  <2>2. Text = SubSeq(This, 2, Len(This))
    BY <1>2 DEF Text
  <2>3. 2 \in 2..Len(This) /\ Passed(This, 2)
    <3>1. Len(This) \in Nat /\ Len(This) > 1
      BY <1>1, <2>1, LenProperties DEF PlainWord, Word
    <3> QED BY <3>1 DEF Passed
  <2> QED BY <2>1, <2>2, <2>3, NamesNever
<1>3. CASE nextchar # <<>>
  <2>1. Text = nextchar /\ gnuoptind \in Begun
    BY <1>3 DEF Text, Scanning
  <2>2. PICK m \in 3..Len(This) : nextchar = SubSeq(This, m, Len(This)) /\ Passed(This, m)
    BY <1>3 DEF Scanning
  <2>3. Len(This) \in Nat
    BY <1>1, LenProperties DEF Word
  <2>4. m \in 2..Len(This) /\ seen[1] # {}
    BY <2>1, <2>2, <2>3 DEF Begun
  <2>5. ~PlainWord(This) /\ Names(1, gnuoptind) = {} /\ This # DoubleDash
    BY <1>1, <1>3, <2>1 DEF Scanning
  <2> QED BY <2>1, <2>2, <2>4, <2>5
<1> QED BY <1>2, <1>3

\* An entry is added for the word, and pass 1 goes on behind it.
LEMMA WordLeft1 ==
  ASSUME GetoptInv, Scanning, gnuoptind < argc, This # DoubleDash,
         NEW e, e.at = gnuoptind, seen'[1] = seen[1] \union {e}, argv' = argv,
         NEW k, k = gnuoptind, NEW next \in {k + 1, k + 2},
         gnuoptind' = next, nextchar' = <<>>, Leaves(k, next)'
  PROVE  Scanning'
<1>1. /\ TypeOK /\ gnuoptind \in Nat /\ argc \in Nat /\ This = argv[k] /\ k \in 1..Len(argv)
      /\ k \in Nat /\ next > k
  BY ArgcType DEF GetoptInv
<1>2. Begun' = Begun \union {k}
  BY DEF Begun
<1>3. \A j \in Begun : j <= k /\ j \in Nat
  BY <1>1 DEF Scanning
<1>4. next \notin Begun' /\ \A j \in Begun' : j <= next
  BY <1>1, <1>2, <1>3
<1>5. 1 \in Begun' \union {next}
  BY <1>2 DEF Scanning
<1>6. ASSUME NEW j \in Begun'
      PROVE  \E b \in {j + 1, j + 2} : b \in Begun' \union {next} /\ Leaves(j, b)'
  <2>1. CASE j = k
    BY <2>1
  <2>2. CASE j # k
    <3>1. j \in Begun /\ j < gnuoptind
      BY <1>1, <1>2, <1>3, <2>2
    <3>2. PICK b \in {j + 1, j + 2} : b \in Begun \union {gnuoptind} /\ Leaves(j, b)
      BY <3>1 DEF Scanning
    <3>3. Names(1, j)' = Names(1, j)
      BY <2>2, NamesAdded
    <3>4. Leaves(j, b)'
      BY <3>2, <3>3, LeavesSame
    <3> QED BY <1>2, <3>2, <3>4
  <2> QED BY <2>1, <2>2
<1>7. Begun' \subseteq 1..Len(argv') /\ \A j \in Begun' : argv'[j] # DoubleDash
  BY <1>1, <1>2 DEF Scanning
<1> QED BY <1>4, <1>5, <1>6, <1>7 DEF Scanning

\* One more letter is passed over.
LEMMA LetterPassed1 ==
  ASSUME GetoptInv, Scanning, gnuoptind < argc, This # DoubleDash, ~PlainWord(This),
         Names(1, gnuoptind) = {},
         NEW e, e.at = gnuoptind, e.opt # "p", seen'[1] = seen[1] \union {e}, argv' = argv,
         NEW m \in 3..Len(This), Passed(This, m),
         gnuoptind' = gnuoptind, nextchar' = SubSeq(This, m, Len(This)), nextchar' # <<>>
  PROVE  Scanning'
<1> DEFINE k == gnuoptind
<1>1. /\ TypeOK /\ gnuoptind \in Nat /\ argc \in Nat /\ This = argv[k] /\ k \in 1..Len(argv)
      /\ This' = This
  BY ArgcType DEF GetoptInv, This
<1>2. Begun' = Begun \union {k}
  BY DEF Begun
<1>3. Names(1, k)' = {}
  BY NamesAdded
<1>4. ASSUME NEW j \in Begun', j < gnuoptind
      PROVE  \E b \in {j + 1, j + 2} : b \in Begun' \union {gnuoptind'} /\ Leaves(j, b)'
  <2>1. j \in Begun /\ j # k /\ j \in Nat
    BY <1>1, <1>2, <1>4 DEF Scanning
  <2>2. PICK b \in {j + 1, j + 2} : b \in Begun \union {gnuoptind} /\ Leaves(j, b)
    BY <1>4, <2>1 DEF Scanning
  <2>3. Names(1, j)' = Names(1, j)
    BY <2>1, NamesAdded
  <2>4. Leaves(j, b)'
    BY <2>2, <2>3, LeavesSame
  <2> QED BY <1>2, <2>2, <2>4
<1>5. Begun' \subseteq 1..Len(argv') /\ (\A j \in Begun' : argv'[j] # DoubleDash)
      /\ (\A j \in Begun' : j <= gnuoptind') /\ 1 \in Begun' \union {gnuoptind'}
  BY <1>1, <1>2 DEF Scanning
<1>6. gnuoptind' \in Begun' /\ (~PlainWord(This))' /\ Names(1, gnuoptind)' = {}
  BY <1>1, <1>2, <1>3 DEF PlainWord, Names
<1>7. \E n \in 3..Len(This') : nextchar' = SubSeq(This', n, Len(This')) /\ Passed(This', n)
  BY <1>1 DEF Passed
<1> QED BY <1>4, <1>5, <1>6, <1>7 DEF Scanning, Passed, PlainWord

\* What a letter is to pass 1 that is at the m-th one of its word.
LEMMA LetterInPass1 ==
  ASSUME pc = "pass1", NEW m \in Nat, m >= 2, m > 2 => seen[1] # {}
  PROVE  /\ ~LongTried
         /\ This[m] \notin Letters => Unknown(This, m)
         /\ This[m] \in Letters \ TakesValue => This[m] \in {"v", "h", "-", "V"}
<1>1. ~LongTried
  BY DEF LongTried
<1>2. ASSUME This[m] \notin Letters PROVE Unknown(This, m)
  BY <1>2 DEF Letters, Unknown
<1>3. ASSUME This[m] \in Letters \ TakesValue PROVE This[m] \in {"v", "h", "-", "V"}
  BY <1>3 DEF Letters, TakesValue, BaseLetters
<1> QED BY <1>1, <1>2, <1>3

LEMMA LetterStep1 ==
  ASSUME GetoptInv, Scanning, pc = "pass1", pc' = "pass1",
         LetterUnknown \/ LetterAlone \/ LetterValue
  PROVE  Scanning'
<1>0. PICK k : k = gnuoptind
  OBVIOUS
<1>1. k = gnuoptind /\ AtOption /\ TypeOK /\ gnuoptind < argc /\ This \in Word /\ This = argv[k]
      /\ k \in Nat /\ argc \in Nat /\ Pass = 1
  BY <1>0, Decoding, ArgcType DEF LetterUnknown, LetterAlone, LetterValue, AtLetter, GetoptInv, Pass
<1>2. ~PlainWord(This) /\ This # DoubleDash /\ Names(1, k) = {}
  BY <1>0, <1>1, PlaceInPass1
<1>3. PICK m \in 2..Len(This) :
        Text = SubSeq(This, m, Len(This)) /\ Passed(This, m) /\ (m > 2 => seen[1] # {})
  BY <1>1, PlaceInPass1
<1>4. /\ Len(This) \in Nat /\ m \in Nat /\ m <= Len(This) /\ m >= 2
      /\ Len(Text) = Len(This) - m + 1 /\ Text[1] = This[m]
      /\ Tail(Text) = SubSeq(This, m + 1, Len(This))
      /\ m = Len(This) <=> Tail(Text) = <<>>
      /\ Index = IF m = Len(This) THEN k + 1 ELSE k
  BY <1>0, <1>1, <1>3, TextAt
<1>5. argv' = argv /\ This[m] = argv[k][m] /\ argc' = argc
  BY <1>1 DEF LetterUnknown, LetterAlone, LetterValue, Return, argc
<1>6. /\ \A w, n : PlainWord(w)' = PlainWord(w) /\ Passed(w, n)' = Passed(w, n)
      /\ \A w, n : Unknown(w, n)' = Unknown(w, n)
  BY DEF PlainWord, Passed, Unknown
<1>7. \A next : Decodes(k, m, next)' => Leaves(k, next)'
  <2>1. m \in 2..(Len(argv[k]) + 1)
    BY <1>1, <1>4
  <2> QED BY <1>1, <1>2, <1>3, <1>5, <1>6, <2>1 DEF Leaves, PlainWord, Passed
<1>8. CASE LetterUnknown
  <2>0. PICK e, next : /\ e = [opt |-> "?", at |-> k, arg |-> 0, val |-> <<>>]
                       /\ next = IF m < Len(This) THEN k + 1 ELSE k + 2
    OBVIOUS
  <2>1. Return("?", 0, <<>>, Index, Tail(Text)) /\ This[m] \notin Letters
    BY <1>8, <1>4 DEF LetterUnknown
  <2>2. /\ seen' = [seen EXCEPT ![1] = @ \union {e}]
        /\ gnuoptind' = Index + 1 /\ nextchar' = <<>>
    BY <1>1, <2>0, <2>1 DEF Return, SkipRest
  <2>3. seen'[1] = seen[1] \union {e} /\ e.at = k /\ e.opt # "p"
    BY <1>1, <2>0, <2>2 DEF TypeOK
  <2>4. gnuoptind' = next
    BY <1>1, <1>4, <2>0, <2>2
  <2>5. Names(1, k)' = {}
    BY <1>2, <2>3, NamesAdded
  <2>6. Unknown(argv[k], m)
    BY <1>1, <1>3, <2>1, LetterInPass1
  <2>7. Decodes(k, m, next)'
    BY <1>1, <1>3, <1>5, <1>6, <2>0, <2>5, <2>6 DEF Decodes
  <2>8. next \in {k + 1, k + 2}
    BY <2>0
  <2>9. Leaves(k, next)'
    BY <2>7, <1>7
  <2> QED BY <1>1, <1>2, <1>5, <2>2, <2>3, <2>4, <2>8, <2>9, WordLeft1
<1>9. CASE LetterAlone
  <2>0. PICK e : e = [opt |-> Text[1], at |-> k, arg |-> 0, val |-> <<>>]
    OBVIOUS
  <2>1. Return(Text[1], 0, <<>>, Index, Tail(Text)) /\ This[m] \in Letters \ TakesValue
    BY <1>9, <1>4 DEF LetterAlone
  <2>2. This[m] \in {"v", "h", "-"}
    <3>1. This[m] \in {"v", "h", "-", "V"}
      BY <1>3, <2>1, LetterInPass1
    <3>2. This[m] # "V"
      BY <2>1, <1>4 DEF Return
    <3> QED BY <3>1, <3>2
  <2>3. Text[1] # "?" /\ Text[1] # "p"
    BY <2>2, <1>4
  <2>4. /\ seen' = [seen EXCEPT ![1] = @ \union {e}]
        /\ gnuoptind' = Index /\ nextchar' = Tail(Text)
    BY <1>1, <2>0, <2>1, <2>3 DEF Return
  <2>5. seen'[1] = seen[1] \union {e} /\ e.at = k /\ e.opt # "p"
    BY <1>1, <2>0, <2>3, <2>4 DEF TypeOK
  <2>6. Names(1, k)' = {}
    BY <1>2, <2>5, NamesAdded
  <2>7. Passed(This, m + 1)
    BY <1>3, <1>4, <2>2 DEF Passed
  <2>8. CASE m = Len(This)
    <3>1. gnuoptind' = k + 1 /\ nextchar' = <<>>
      BY <1>4, <2>4, <2>8
    <3>2. Decodes(k, m + 1, k + 1)'
      BY <1>1, <1>5, <2>6, <2>8 DEF Decodes
    <3>3. Leaves(k, k + 1)'
      <4>1. m + 1 \in 2..(Len(argv[k]) + 1)
        BY <1>1, <1>4
      <4> QED BY <1>1, <1>2, <1>5, <1>6, <2>7, <3>2, <4>1 DEF Leaves, PlainWord, Passed
    <3> QED BY <1>1, <1>2, <1>5, <2>5, <3>1, <3>3, WordLeft1
  <2>9. CASE m # Len(This)
    <3>1. gnuoptind' = k /\ nextchar' = SubSeq(This, m + 1, Len(This)) /\ nextchar' # <<>>
      BY <1>4, <2>4, <2>9
    <3>2. m + 1 \in 3..Len(This)
      BY <1>4, <2>9
    <3> QED BY <1>1, <1>2, <1>5, <2>5, <2>7, <3>1, <3>2, LetterPassed1
  <2> QED BY <2>8, <2>9
<1>10. CASE LetterValue
  <2>1. This[m] \in TakesValue
    BY <1>10, <1>4 DEF LetterValue
  <2>2. Text[1] # "?" /\ Text[1] # "V"
    BY <2>1, <1>4 DEF TakesValue, BaseLetters
  <2>3. CASE m < Len(This)
    <3>0. PICK e : e = [opt |-> Text[1], at |-> k, arg |-> 0, val |-> Tail(Text)]
      OBVIOUS
    <3>1. Return(Text[1], 0, Tail(Text), k + 1, <<>>)
      BY <1>1, <1>10, <1>4, <2>3 DEF LetterValue
    <3>2. /\ seen' = [seen EXCEPT ![1] = @ \union {e}]
          /\ gnuoptind' = k + 1 /\ nextchar' = <<>>
      BY <1>1, <3>0, <2>2, <3>1 DEF Return
    <3>3. seen'[1] = seen[1] \union {e} /\ e.at = k /\ e.opt = This[m]
          /\ e.val = SubSeq(This, m + 1, Len(This))
      BY <1>1, <3>0, <1>4, <3>2 DEF TypeOK
    <3>4. Names(1, k)' = IF This[m] = "p" THEN {SubSeq(This, m + 1, Len(This))} ELSE {}
      <4>1. Names(1, e.at)' = Names(1, e.at) \union (IF e.opt = "p" THEN {e.val} ELSE {})
        BY <3>3, NamesAdded
      <4> QED BY <4>1, <1>2, <3>3
    <3>5. Decodes(k, m, k + 1)'
      BY <1>1, <1>3, <1>5, <2>1, <2>3, <3>4 DEF Decodes
    <3>6. Leaves(k, k + 1)'
      BY <3>5, <1>7
    <3> QED BY <1>1, <1>2, <1>5, <3>2, <3>3, <3>6, WordLeft1
  <2>4. CASE ~(m < Len(This)) /\ Index = argc
    <3>0. PICK e : e = [opt |-> "?", at |-> k, arg |-> 0, val |-> <<>>]
      OBVIOUS
    <3>1. m = Len(This) /\ ~(Len(Text) > 1) /\ k + 1 = argc
      BY <1>4, <2>4
    <3>2. Return("?", 0, <<>>, Index, <<>>)
      BY <1>10, <2>4, <3>1 DEF LetterValue
    <3>3. /\ seen' = [seen EXCEPT ![1] = @ \union {e}]
          /\ gnuoptind' = Index + 1 /\ nextchar' = <<>>
      BY <1>1, <3>0, <3>2 DEF Return, SkipRest
    <3>4. seen'[1] = seen[1] \union {e} /\ e.at = k /\ e.opt # "p" /\ gnuoptind' = k + 2
      BY <1>1, <3>0, <1>4, <3>1, <3>3 DEF TypeOK
    <3>5. Names(1, k)' = {}
      BY <1>2, <3>4, NamesAdded
    <3>6. Decodes(k, m, k + 2)'
      BY <1>1, <1>5, <2>1, <3>1, <3>5 DEF Decodes
    <3>7. Leaves(k, k + 2)'
      BY <3>6, <1>7
    <3> QED BY <1>1, <1>2, <1>5, <3>3, <3>4, <3>7, WordLeft1
  <2>5. CASE ~(m < Len(This)) /\ Index # argc
    <3>0. PICK e : e = [opt |-> Text[1], at |-> k, arg |-> Index, val |-> argv[Index]]
      OBVIOUS
    <3>1. m = Len(This) /\ ~(Len(Text) > 1) /\ Index = k + 1 /\ k + 1 < argc
      BY <1>1, <1>4, <2>5
    <3>2. Return(Text[1], Index, argv[Index], PastValue, <<>>)
      BY <1>10, <2>5, <3>1 DEF LetterValue
    <3>3. /\ seen' = [seen EXCEPT ![1] = @ \union {e}]
          /\ gnuoptind' = k + 2 /\ nextchar' = <<>>
      BY <1>1, <3>0, <2>2, <3>1, <3>2 DEF Return, PastValue
    <3>4. seen'[1] = seen[1] \union {e} /\ e.at = k /\ e.opt = This[m] /\ e.val = argv[k + 1]
      BY <1>1, <3>0, <1>4, <3>1, <3>3 DEF TypeOK
    <3>5. Names(1, k)' = IF This[m] = "p" THEN {argv[k + 1]} ELSE {}
      <4>1. Names(1, e.at)' = Names(1, e.at) \union (IF e.opt = "p" THEN {e.val} ELSE {})
        BY <3>4, NamesAdded
      <4> QED BY <4>1, <1>2, <3>4
    <3>6. Decodes(k, m, k + 2)'
      BY <1>1, <1>5, <2>1, <3>1, <3>5 DEF Decodes
    <3>7. Leaves(k, k + 2)'
      BY <3>6, <1>7
    <3> QED BY <1>1, <1>2, <1>5, <3>3, <3>4, <3>7, WordLeft1
  <2> QED BY <2>3, <2>4, <2>5
<1> QED BY <1>8, <1>9, <1>10

LEMMA PlainStep1 ==
  ASSUME GetoptInv, Scanning, pc = "pass1", Plain
  PROVE  Scanning'
<1>0. PICK k, e : k = gnuoptind /\ e = [opt |-> "nonopt", at |-> k, arg |-> 0, val |-> This]
  OBVIOUS
<1>1. /\ k = gnuoptind /\ TypeOK /\ gnuoptind < argc /\ This = argv[k] /\ Pass = 1 /\ nextchar = <<>>
      /\ PlainWord(This) /\ Return("nonopt", 0, This, k + 1, <<>>)
  BY <1>0, ArgcType DEF Plain, Call, GetoptInv, Pass, NonOption, PlainWord
<1>2. /\ seen' = [seen EXCEPT ![1] = @ \union {e}] /\ argv' = argv
      /\ gnuoptind' = k + 1 /\ nextchar' = <<>>
  BY <1>0, <1>1 DEF Return
<1>3. seen'[1] = seen[1] \union {e} /\ e.at = k /\ e.opt # "p"
  BY <1>0, <1>1, <1>2 DEF TypeOK
<1>4. Names(1, k)' = {}
  <2>1. Names(1, k) = {}
    BY <1>1, NamesNever DEF Scanning
  <2> QED BY <2>1, <1>3, NamesAdded
<1>5. This # DoubleDash
  <2>1. PlainWord(This)
    BY <1>1
  <2>2. PICK w : w = This
    OBVIOUS
  <2>3. w # DoubleDash
    BY <2>1, <2>2 DEF PlainWord, DoubleDash
  <2> QED BY <2>2, <2>3
<1>6. Leaves(k, k + 1)'
  BY <1>1, <1>2, <1>4 DEF Leaves, PlainWord
<1> QED BY <1>1, <1>2, <1>3, <1>5, <1>6, WordLeft1

\* Pass 2 does not touch what pass 1 has left.
LEMMA ScannedSame ==
  ASSUME argv' = argv, seen'[1] = seen[1]
  PROVE  /\ argc' = argc /\ Begun' = Begun
         /\ \A k : Names(1, k)' = Names(1, k) /\ Boundary(k)' = Boundary(k)
         /\ Scanned => Scanned'
<1>1. argc' = argc /\ Begun' = Begun /\ \A k : Names(1, k)' = Names(1, k)
  BY DEF argc, Begun, Names
<1>2. \A k : Boundary(k)' = Boundary(k)
  BY <1>1 DEF Boundary
<1>3. \A k, next : Leaves(k, next)' = Leaves(k, next)
  BY <1>1, LeavesSame
<1> QED BY <1>1, <1>2, <1>3 DEF Scanned

\* When pass 1 ends it is behind the last word or at a double dash.
LEMMA EndStep1 ==
  ASSUME GetoptInv, Scanning, pc = "pass1", Pass1Over \/ Dashes
  PROVE  Scanned'
<1>1. /\ TypeOK /\ gnuoptind \in Nat /\ argc \in Nat /\ argv' = argv /\ seen' = seen
      /\ \A k \in 1..Len(argv) : k < argc /\ k \in Nat
  BY ArgcType DEF GetoptInv, Pass1Over, Dashes, EndPass
<1>2. gnuoptind >= argc \/ (argv[gnuoptind] = DoubleDash /\ nextchar = <<>>)
  <2>1. CASE Pass1Over
    BY <2>1 DEF Pass1Over
  <2>2. CASE Dashes
    <3>1. gnuoptind < argc /\ This = DoubleDash /\ nextchar = <<>>
      BY <2>2 DEF Dashes, Call
    <3> QED BY <3>1, <1>1, ArgcType
  <2> QED BY <2>1, <2>2
<1>3. \A k \in Begun : k \in Nat /\ k < argc /\ k <= gnuoptind
  BY <1>1 DEF Scanning
<1>4. \A k \in Begun : k < gnuoptind
  <2> SUFFICES ASSUME gnuoptind \in Begun PROVE FALSE
    BY <1>1, <1>3
  <2>1. gnuoptind < argc
    BY <1>3
  <2>2. argv[gnuoptind] # DoubleDash
    BY DEF Scanning
  <2> QED BY <2>1, <2>2, <1>1, <1>2
<1>5. \A b \in Nat : b \in Begun \union {gnuoptind} /\ b < argc => Boundary(b)
  <2> SUFFICES ASSUME gnuoptind < argc PROVE Boundary(gnuoptind)
    BY DEF Boundary
  <2>1. argv[gnuoptind] = DoubleDash
    BY <1>1, <1>2
  <2> QED BY <2>1, <1>4 DEF Boundary
<1>6. \A k \in Begun : \E next \in {k + 1, k + 2} : Leaves(k, next) /\ (next < argc => Boundary(next))
  <2> TAKE k \in Begun
  <2>1. k \in Nat /\ k < gnuoptind
    BY <1>3, <1>4
  <2>2. PICK next \in {k + 1, k + 2} : next \in Begun \union {gnuoptind} /\ Leaves(k, next)
    BY <2>1 DEF Scanning
  <2>3. next \in Nat
    BY <2>1
  <2> QED BY <2>2, <2>3, <1>5
<1>7. 1 < argc => Boundary(1)
  BY <1>5 DEF Scanning
<1>8. Scanned
  BY <1>6, <1>7 DEF Scanned, Scanning
<1> QED BY <1>1, <1>8, ScannedSame

-----------------------------------------------------------------------------
\* Pass 2.

\* The options of the modules: none is of one letter, and no letter is one's own.
LEMMA OptionShape ==
  ASSUME NEW o \in longopts
  PROVE  /\ o.name \in Seq(Char) /\ Len(o.name) \in Nat /\ Len(o.name) > 1
         /\ o.name[1] \notin {"p", "-", "v", "h", "V"}
         /\ \E q \in longopts : q # o /\ q.name[1] = o.name[1]
<1>1. PICK m \in DOMAIN Options : o \in Options[m] /\ Options[m] \subseteq longopts
  BY DEF longopts
<1>2. o.name \in Seq(Char)
  BY <1>1, OptionsAssumption DEF Word
<1>3. Len(o.name) > 1 /\ o.name[1] \notin {"p", "-"} \union (BaseLetters \ TakesValue)
      /\ \E q \in Options[m] \ {o} : q.name[1] = o.name[1]
  BY <1>1, OptionNames
<1>4. o.name[1] \notin {"p", "-", "v", "h", "V"}
  BY <1>3 DEF BaseLetters, TakesValue
<1> QED BY <1>1, <1>2, <1>3, <1>4, LenProperties

\* An option is found by two letters or more, so a word of one letter is none.
LEMMA OptionText ==
  ASSUME Text \in Seq(Char), Cardinality(Found) = 1, NEW o \in Found
  PROVE  Len(Text) > 1 /\ Text[1] = o.name[1] /\ o \in longopts
<1>1. Len(Text) \in Nat /\ DOMAIN Text = 1..Len(Text)
  BY LenProperties
<1>2. NameLen \in Nat /\ NameLen <= Len(Text)
  <2> DEFINE S == {n \in DOMAIN Text : \A k \in 1..n : Text[k] # "="}
  <2>1. IsFiniteSet(1..Len(Text)) /\ Cardinality(1..Len(Text)) = Len(Text)
    BY <1>1, FS_Interval
  <2>2. S \subseteq 1..Len(Text)
    BY <1>1
  <2> HIDE DEF S
  <2>3. IsFiniteSet(S) /\ Cardinality(S) <= Cardinality(1..Len(Text))
    BY <2>1, <2>2, FS_Subset
  <2>4. Cardinality(S) \in Nat
    BY <2>3, FS_CardinalityType
  <2> QED BY <2>1, <2>3, <2>4 DEF NameLen, S
<1>3. Len(Name) = NameLen /\ (NameLen >= 1 => Name[1] = Text[1])
  <2>1. \A i \in 1..NameLen : Text[i] \in Char
    BY <1>1, <1>2
  <2>2. 1 \in Int /\ NameLen \in Int /\ NameLen - 1 + 1 = NameLen
    BY <1>2
  <2>3. Len(SubSeq(Text, 1, NameLen)) = (IF 1 <= NameLen THEN NameLen - 1 + 1 ELSE 0)
        /\ \A i \in 1..(NameLen - 1 + 1) : SubSeq(Text, 1, NameLen)[i] = Text[1 + i - 1]
    BY <2>1, <2>2, SubSeqProperties
  <2>4. NameLen >= 1 => 1 \in 1..(NameLen - 1 + 1) /\ 1 + 1 - 1 = 1
    BY <1>2
  <2>5. ASSUME NameLen >= 1 PROVE SubSeq(Text, 1, NameLen)[1] = Text[1]
    <3>1. 1 \in 1..(NameLen - 1 + 1) /\ 1 + 1 - 1 = 1
      BY <2>4, <2>5
    <3>2. SubSeq(Text, 1, NameLen)[1] = Text[1 + 1 - 1]
      BY <2>3, <3>1
    <3> QED BY <3>1, <3>2
  <2>6. Len(SubSeq(Text, 1, NameLen)) = NameLen
    BY <1>2, <2>3
  <2> QED BY <2>5, <2>6 DEF Name
<1>4. o \in Matches /\ Found \subseteq longopts
  BY DEF Found, Exact, Matches
<1>5. /\ o \in longopts /\ o.name \in Seq(Char) /\ Len(o.name) \in Nat /\ Len(o.name) > 1
      /\ NameLen <= Len(o.name) /\ SubSeq(o.name, 1, NameLen) = Name
  BY <1>3, <1>4, OptionShape DEF Matches
<1>6. ASSUME NEW q \in longopts, NEW r \in longopts, q.name[1] = r.name[1], NEW n \in {0, 1}
      PROVE  SubSeq(q.name, 1, n) = SubSeq(r.name, 1, n)
  <2>1. /\ q.name \in Seq(Char) /\ Len(q.name) \in Nat /\ Len(q.name) > 1
        /\ r.name \in Seq(Char) /\ Len(r.name) \in Nat /\ Len(r.name) > 1
    BY OptionShape
  <2>2. /\ \A i \in 1..n : q.name[i] \in Char /\ r.name[i] \in Char
        /\ 1 \in Int /\ n \in Int
    BY <2>1
  <2> DEFINE x == SubSeq(q.name, 1, n)  y == SubSeq(r.name, 1, n)
  <2>3. /\ x \in Seq(Char) /\ Len(x) = (IF 1 <= n THEN n - 1 + 1 ELSE 0)
        /\ \A i \in 1..(n - 1 + 1) : x[i] = q.name[1 + i - 1]
    BY <2>2, SubSeqProperties
  <2>4. /\ y \in Seq(Char) /\ Len(y) = (IF 1 <= n THEN n - 1 + 1 ELSE 0)
        /\ \A i \in 1..(n - 1 + 1) : y[i] = r.name[1 + i - 1]
    BY <2>2, SubSeqProperties
  <2> HIDE DEF x, y
  <2>5. \A i \in 1..(n - 1 + 1) : 1 + i - 1 = 1
    BY <1>6
  <2>6. \A i \in 1..Len(x) : x[i] = y[i]
    BY <1>6, <2>3, <2>4, <2>5
  <2>7. x = y
    BY <2>3, <2>4, <2>6, SeqEqual
  <2> QED BY <2>7 DEF x, y
<1>7. NameLen >= 2
  <2> SUFFICES ASSUME NameLen = 0 \/ NameLen = 1 PROVE FALSE
    BY <1>2
  <2>1. Exact = {}
    BY <1>2, <1>3, OptionShape DEF Exact, Matches
  <2>2. PICK q \in longopts : q # o /\ q.name[1] = o.name[1]
    BY <1>5, OptionShape
  <2>3. SubSeq(q.name, 1, NameLen) = Name
    BY <1>5, <1>6, <2>2
  <2>4. Len(Name) <= Len(q.name)
    BY <1>3, OptionShape
  <2>5. q \in Found
    BY <1>3, <2>1, <2>3, <2>4 DEF Found, Matches
  <2>6. IsFiniteSet(Found)
    <3>1. longopts \subseteq UNION {Options[m] : m \in DOMAIN Options}
      BY DEF longopts
    <3> QED BY <1>4, <3>1, OptionNames, FS_Subset
  <2>7. PICK x : Found = {x}
    BY <2>6, FS_Singleton
  <2> QED BY <2>2, <2>5, <2>7
<1>8. Name[1] = o.name[1]
  <2>1. \A i \in 1..NameLen : o.name[i] \in Char
    BY <1>2, <1>5
  <2>2. 1 \in Int /\ NameLen \in Int /\ 1 \in 1..(NameLen - 1 + 1) /\ 1 + 1 - 1 = 1
    BY <1>2, <1>7
  <2>3. SubSeq(o.name, 1, NameLen)[1] = o.name[1 + 1 - 1]
    BY <2>1, <2>2, SubSeqProperties
  <2> QED BY <2>2, <2>3, <1>5
<1> QED BY <1>1, <1>2, <1>3, <1>5, <1>7, <1>8

\* The word pass 2 is at is one pass 1 has decoded, and the letters in front of
\* the m-th are flags, or the second dash.
Ahead(w, m) == (\A j \in 2..(m - 1) : w[j] \in {"v", "h"}) \/ (m = 3 /\ w[2] = "-")

LEMMA PlaceInPass2 ==
  ASSUME GetoptInv, Scanned, Meeting, pc = "pass2", AtOption
  PROVE  /\ gnuoptind \in Begun /\ ~PlainWord(This) /\ Names(2, gnuoptind) = {}
         /\ \E m \in 2..Len(This) : Text = SubSeq(This, m, Len(This)) /\ Ahead(This, m)
<1>1. TypeOK /\ gnuoptind < argc /\ This \in Word /\ This = argv[gnuoptind] /\ gnuoptind \in Nat
  BY Decoding, ArgcType DEF GetoptInv
<1>2. This \in Seq(Char) /\ Len(This) \in Nat
  BY <1>1, LenProperties DEF Word
<1>3. CASE nextchar = <<>>
  <2>1. This # DoubleDash /\ ~PlainWord(This) /\ Boundary(gnuoptind)
    BY <1>1, <1>3 DEF AtOption, NonOption, PlainWord, Meeting
  <2>2. gnuoptind \in Begun
    BY <1>1, <2>1 DEF Boundary
  <2>3. \A e \in seen[2] : e.at # gnuoptind
    <3>1. {e.at : e \in seen[2]} \subseteq 1..(gnuoptind - 1)
      BY <1>3 DEF GetoptInv, Consumed
    <3> QED BY <1>1, <3>1
  <2>4. Names(2, gnuoptind) = {}
    BY <2>3 DEF Names
  <2>5. Len(This) > 1 /\ This[1] = "-"
    BY <2>1 DEF PlainWord
  <2>6. CASE This[2] = "-"
    <3>1. Len(This) # 2
      <4> SUFFICES ASSUME Len(This) = 2 PROVE FALSE
        OBVIOUS
      <4>1. This = <<"-", "-">>
        BY <1>2, <2>5, <2>6
      <4> QED BY <4>1, <2>1 DEF DoubleDash
    <3>2. 3 \in 2..Len(This) /\ Ahead(This, 3)
      <4>. \A n \in Nat : n > 1 /\ n # 2 => 3 \in 2..n
        OBVIOUS
      <4>1. 3 \in 2..Len(This)
        BY <1>2, <2>5, <3>1
      <4> QED BY <4>1, <2>6 DEF Ahead
    <3>3. Text = SubSeq(This, 3, Len(This))
      BY <1>3, <2>6 DEF Text
    <3> QED BY <2>1, <2>2, <2>4, <3>2, <3>3
  <2>7. CASE This[2] # "-"
    <3>1. 2 \in 2..Len(This) /\ Ahead(This, 2)
      BY <1>2, <2>5 DEF Ahead
    <3>2. Text = SubSeq(This, 2, Len(This))
      BY <1>3, <2>7 DEF Text
    <3> QED BY <2>1, <2>2, <2>4, <3>1, <3>2
  <2> QED BY <2>6, <2>7
<1>4. CASE nextchar # <<>>
  <2>1. PICK m \in 3..Len(This) :
          nextchar = SubSeq(This, m, Len(This)) /\ \A j \in 2..(m - 1) : This[j] \in {"v", "h"}
    BY <1>4 DEF Meeting
  <2>2. m \in 2..Len(This) /\ Text = nextchar /\ Ahead(This, m)
    BY <1>2, <1>4, <2>1 DEF Text, Ahead
  <2> QED BY <1>4, <2>1, <2>2 DEF Meeting
<1> QED BY <1>3, <1>4

\* Pass 1 stopped at the same letter, or already at a second dash.
LEMMA SameLetter ==
  ASSUME NEW k, NEW w, w = argv[k], Len(w) \in Nat, NEW m \in 2..Len(w), Ahead(w, m),
         w[m] \notin {"v", "h", "-"},
         NEW n \in 2..(Len(w) + 1), Passed(w, n), NEW next, Decodes(k, n, next)
  PROVE  n = m \/ (n = 2 /\ m = 3 /\ w[2] = "-")
<1>1. m \in Nat /\ n \in Nat /\ m >= 2 /\ n >= 2
  OBVIOUS
<1>2. ~(n > m)
  BY <1>1 DEF Passed
<1>3. ASSUME n < m PROVE n = 2 /\ m = 3 /\ w[2] = "-"
  <2>1. n \in 2..(m - 1) /\ n # Len(w) + 1
    BY <1>1, <1>3
  <2>2. Unknown(w, n) \/ w[n] \in TakesValue
    BY <2>1 DEF Decodes
  <2>3. w[n] \notin {"v", "h"}
    BY <2>2 DEF Unknown, TakesValue, BaseLetters
  <2> QED BY <1>1, <2>1, <2>3 DEF Ahead
<1> QED BY <1>1, <1>2, <1>3

\* A returned option in pass 2.
LEMMA Returned2 ==
  ASSUME TypeOK, pc = "pass2", NEW opt, NEW arg, NEW val, NEW ind, NEW rest,
         Return(opt, arg, val, ind, rest)
  PROVE  /\ argv' = argv /\ pc' = "pass2" /\ gnuoptind' = ind /\ nextchar' = rest
         /\ seen'[1] = seen[1]
         /\ seen'[2] = seen[2] \union {[opt |-> opt, at |-> gnuoptind, arg |-> arg, val |-> val]}
BY DEF TypeOK, Return, Pass

LEMMA Questioned ==
  ASSUME TypeOK, pc = "pass2", NEW ind, NEW rest, Return("?", 0, <<>>, ind, rest)
  PROVE  ~Regular'
<1>1. [opt |-> "?", at |-> gnuoptind, arg |-> 0, val |-> <<>>] \in seen'[2]
  BY Returned2
<1> QED BY <1>1 DEF Regular

\* No word behind gnuoptind has an entry of pass 2.
LEMMA NotYet ==
  ASSUME GetoptInv, pc = "pass2"
  PROVE  /\ \A k : Names(2, k) # {} => k \in 1..gnuoptind
         /\ nextchar = <<>> => \A k : Names(2, k) # {} => k \in 1..(gnuoptind - 1)
<1>1. gnuoptind \in Nat
  BY ArgcType DEF GetoptInv
<1>2. {e.at : e \in seen[2]} \subseteq 1..(IF nextchar = <<>> THEN gnuoptind - 1 ELSE gnuoptind)
  BY DEF GetoptInv, Consumed
<1>3. \A e \in seen[2] : e.at \in 1..gnuoptind /\ (nextchar = <<>> => e.at \in 1..(gnuoptind - 1))
  BY <1>1, <1>2
<1> QED BY <1>3 DEF Names

\* Pass 2 goes on behind the word, where pass 1 went on, too, or passed by.
LEMMA WordLeft2 ==
  ASSUME GetoptInv, Meeting, pc = "pass2", gnuoptind < argc,
         NEW k, k = gnuoptind, NEW e, e.at = k,
         seen'[1] = seen[1], seen'[2] = seen[2] \union {e}, argv' = argv,
         Names(2, k) = {}, Names(1, k) = (IF e.opt = "p" THEN {e.val} ELSE {}),
         NEW next \in {k + 1, k + 2}, gnuoptind' = next, nextchar' = <<>>,
         next < argc => Boundary(next),
         next = k + 2 => Names(1, k + 1) = {}
  PROVE  Meeting'
<1>1. k \in Nat /\ argc' = argc
  BY ArgcType DEF GetoptInv, argc
<1>2. \A j : j # k => Names(2, j)' = Names(2, j)
  BY NamesAdded
<1>3. Names(2, k)' = IF e.opt = "p" THEN {e.val} ELSE {}
  <2>1. Names(2, e.at)' = Names(2, e.at) \union (IF e.opt = "p" THEN {e.val} ELSE {})
    BY NamesAdded
  <2> QED BY <2>1
<1>4. \A j : Names(1, j)' = Names(1, j) /\ Boundary(j)' = Boundary(j)
  BY ScannedSame
<1>5. Names(2, k + 1)' = {}
  <2>1. k + 1 \notin 1..gnuoptind /\ k + 1 # k
    BY <1>1
  <2>2. Names(2, k + 1) = {}
    BY <2>1, NotYet
  <2> QED BY <2>1, <2>2, <1>2
<1>6. \A j \in 1..(next - 1) : Names(1, j)' = Names(2, j)'
  <2> TAKE j \in 1..(next - 1)
  <2>1. CASE j = k
    BY <2>1, <1>3, <1>4
  <2>2. CASE j = k + 1
    <3>1. next = k + 2
      BY <1>1, <2>2
    <3> QED BY <2>2, <3>1, <1>4, <1>5
  <2>3. CASE j # k /\ j # k + 1
    <3>1. j \in 1..(gnuoptind - 1)
      BY <1>1, <2>3
    <3> QED BY <2>3, <3>1, <1>2, <1>4 DEF Meeting
  <2> QED BY <2>1, <2>2, <2>3
<1>7. next < argc => Boundary(next)'
  BY <1>4
<1> QED BY <1>1, <1>6, <1>7 DEF Meeting, Names, Boundary, Begun

LEMMA LetterPassed2 ==
  ASSUME GetoptInv, Meeting, pc = "pass2", gnuoptind < argc,
         NEW k, k = gnuoptind, NEW e, e.at = k, e.opt # "p",
         seen'[1] = seen[1], seen'[2] = seen[2] \union {e}, argv' = argv,
         gnuoptind \in Begun, ~PlainWord(This), Names(2, k) = {},
         NEW m \in 3..Len(This), \A j \in 2..(m - 1) : This[j] \in {"v", "h"},
         gnuoptind' = gnuoptind, nextchar' = SubSeq(This, m, Len(This)), nextchar' # <<>>
  PROVE  Meeting'
<1>1. k \in Nat /\ This' = This /\ Begun' = Begun
  BY ArgcType, ScannedSame DEF GetoptInv, This
<1>2. \A j : j # k => Names(2, j)' = Names(2, j)
  BY NamesAdded
<1>3. Names(2, k)' = {}
  <2>1. Names(2, e.at)' = Names(2, e.at) \union (IF e.opt = "p" THEN {e.val} ELSE {})
    BY NamesAdded
  <2> QED BY <2>1
<1>4. \A j : Names(1, j)' = Names(1, j)
  BY ScannedSame
<1>5. \A j \in 1..(gnuoptind' - 1) : Names(1, j)' = Names(2, j)'
  <2> TAKE j \in 1..(gnuoptind' - 1)
  <2>1. j \in 1..(gnuoptind - 1) /\ j # k
    BY <1>1
  <2> QED BY <2>1, <1>2, <1>4 DEF Meeting
<1>6. Names(2, gnuoptind)' = {}
  BY <1>3 DEF Names
<1> QED BY <1>1, <1>5, <1>6 DEF Meeting, PlainWord, Names

\* A plain word brings pass 1 no name, whether it came to it or not.
LEMMA PlainNames ==
  ASSUME Scanned, NEW k, PlainWord(argv[k])
  PROVE  Names(1, k) = {}
<1>1. CASE k \in Begun
  BY <1>1 DEF Scanned, Leaves
<1>2. CASE k \notin Begun
  BY <1>2, NamesNever
<1> QED BY <1>1, <1>2

LEMMA PlainNoDashes ==
  ASSUME NEW w, PlainWord(w)
  PROVE  w # DoubleDash
BY DEF PlainWord, DoubleDash

\* A letter: pass 1 has decoded it alike.
LEMMA LetterStep2 ==
  ASSUME GetoptInv, Scanned, Meeting, pc = "pass2", Regular',
         LetterUnknown \/ LetterAlone \/ LetterValue
  PROVE  Meeting'
<1>0. PICK k : k = gnuoptind
  OBVIOUS
<1>1. k = gnuoptind /\ AtOption /\ TypeOK /\ gnuoptind < argc /\ This \in Word /\ This = argv[k]
      /\ k \in Nat /\ argc \in Nat
  BY <1>0, Decoding, ArgcType DEF LetterUnknown, LetterAlone, LetterValue, AtLetter, GetoptInv
<1>2. gnuoptind \in Begun /\ ~PlainWord(This) /\ Names(2, k) = {}
  BY <1>1, PlaceInPass2
<1>3. PICK m \in 2..Len(This) : Text = SubSeq(This, m, Len(This)) /\ Ahead(This, m)
  BY <1>1, PlaceInPass2
<1>4. /\ Len(This) \in Nat /\ m \in Nat /\ m <= Len(This) /\ m >= 2
      /\ Len(Text) = Len(This) - m + 1 /\ Text[1] = This[m]
      /\ Tail(Text) = SubSeq(This, m + 1, Len(This))
      /\ m = Len(This) <=> Tail(Text) = <<>>
      /\ Index = IF m = Len(This) THEN k + 1 ELSE k
  BY <1>1, <1>3, TextAt
<1>5. PICK next \in {k + 1, k + 2} : Leaves(k, next) /\ (next < argc => Boundary(next))
  BY <1>1, <1>2 DEF Scanned
<1>6. PICK n \in 2..(Len(This) + 1) : Passed(This, n) /\ Decodes(k, n, next)
  BY <1>1, <1>2, <1>5 DEF Leaves
<1>7. This[2] # "-" /\ \A j \in 2..(m - 1) : This[j] \in {"v", "h"}
  <2>1. ASSUME LetterUnknown PROVE FALSE
    BY <2>1, <1>1, Questioned DEF LetterUnknown
  <2>2. AtLetter
    BY <2>1 DEF LetterAlone, LetterValue
  <2>3. This[2] # "-"
    BY <2>2, <1>1 DEF AtLetter, LongTried, NotShort
  <2> QED BY <2>3, <1>3 DEF Ahead
<1>8. CASE LetterAlone
  <2>0. PICK e : e = [opt |-> Text[1], at |-> k, arg |-> 0, val |-> <<>>]
    OBVIOUS
  <2>1. Return(Text[1], 0, <<>>, Index, Tail(Text)) /\ This[m] \in Letters \ TakesValue
    BY <1>8, <1>4 DEF LetterAlone
  <2>2. This[m] \in {"v", "h", "V"}
    BY <1>1, <2>1 DEF Letters, TakesValue, BaseLetters
  <2>3. This[m] # "V"
    <3> SUFFICES ASSUME This[m] = "V" PROVE FALSE
      OBVIOUS
    <3>1. n = m
      BY <1>1, <1>3, <1>4, <1>6, <1>7, SameLetter
    <3>2. m # Len(This) + 1
      BY <1>4
    <3> QED BY <1>1, <1>6, <3>1, <3>2 DEF Decodes, Unknown, TakesValue, BaseLetters
  <2>4. This[m] \in {"v", "h"}
    BY <2>2, <2>3
  <2>5. /\ seen'[1] = seen[1] /\ seen'[2] = seen[2] \union {e} /\ argv' = argv
        /\ gnuoptind' = Index /\ nextchar' = Tail(Text)
    <3> DEFINE a == Text[1]
               i == Index
               t == Tail(Text)
    <3>1. Return(a, 0, <<>>, i, t) /\ TypeOK /\ pc = "pass2"
      BY <1>1, <2>1
    <3> HIDE DEF a, i, t
    <3>2. /\ seen'[1] = seen[1] /\ argv' = argv /\ gnuoptind' = i /\ nextchar' = t
          /\ seen'[2] = seen[2] \union {[opt |-> a, at |-> gnuoptind, arg |-> 0, val |-> <<>>]}
      BY <3>1, Returned2
    <3> QED BY <3>2, <2>0, <1>1 DEF a, i, t
  <2>6. e.at = k /\ e.opt # "p"
    BY <2>0, <2>4, <1>4
  <2>7. \A j \in 2..m : This[j] \in {"v", "h"}
    <3> TAKE j \in 2..m
    <3>1. j = m \/ j \in 2..(m - 1)
      BY <1>4
    <3> QED BY <3>1, <1>7, <2>4
  <2>8. CASE m = Len(This)
    <3>1. gnuoptind' = k + 1 /\ nextchar' = <<>>
      BY <1>4, <2>5, <2>8
    <3>2. n = Len(This) + 1
      <4> SUFFICES ASSUME n \in 2..m PROVE FALSE
        BY <1>4, <2>8
      <4>1. This[n] \in {"v", "h"} /\ n # Len(This) + 1
        BY <1>4, <2>7
      <4> QED BY <1>1, <1>6, <4>1 DEF Decodes, Unknown, TakesValue, BaseLetters
    <3>3. next = k + 1 /\ Names(1, k) = {}
      <4>1. ~(n \in 2..Len(This)) /\ n # Len(This)
        BY <1>4, <3>2
      <4> QED BY <1>1, <1>6, <4>1 DEF Decodes
    <3>4. next # k + 2
      BY <1>1, <3>3
    <3>5. Names(1, k) = IF e.opt = "p" THEN {e.val} ELSE {}
      BY <2>6, <3>3
    <3>6. gnuoptind' = next
      BY <3>1, <3>3
    <3> QED BY <1>1, <1>2, <1>5, <2>5, <2>6, <3>1, <3>4, <3>5, <3>6, WordLeft2
  <2>9. CASE m # Len(This)
    <3>0. PICK l : l = m + 1
      OBVIOUS
    <3>1. gnuoptind' = gnuoptind /\ nextchar' = SubSeq(This, l, Len(This)) /\ nextchar' # <<>>
      BY <1>1, <1>4, <2>5, <2>9, <3>0
    <3>2. l \in 3..Len(This) /\ l - 1 = m
      BY <1>4, <2>9, <3>0
    <3>3. \A j \in 2..(l - 1) : This[j] \in {"v", "h"}
      BY <2>7, <3>2
    <3> QED BY <1>1, <1>2, <2>5, <2>6, <3>1, <3>2, <3>3, LetterPassed2
  <2> QED BY <2>8, <2>9
<1>9. CASE LetterValue
  <2>1. This[m] \in TakesValue
    BY <1>9, <1>4 DEF LetterValue
  <2>2. n = m /\ ~Unknown(This, m) /\ m # Len(This) + 1
    <3>1. This[m] \notin {"v", "h", "-"} /\ ~Unknown(This, m)
      BY <2>1 DEF TakesValue, BaseLetters, Unknown
    <3>2. n = m
      BY <1>1, <1>3, <1>4, <1>6, <1>7, <3>1, SameLetter
    <3> QED BY <1>4, <3>1, <3>2
  <2>3. CASE m < Len(This)
    <3>0. PICK e, rest : /\ rest = Tail(Text)
                         /\ e = [opt |-> Text[1], at |-> k, arg |-> 0, val |-> rest]
      OBVIOUS
    <3>1. Len(Text) > 1
      BY <1>4, <2>3
    <3>2. Return(Text[1], 0, rest, k + 1, <<>>)
      BY <1>1, <1>9, <3>0, <3>1 DEF LetterValue
    <3>3. /\ seen'[1] = seen[1] /\ seen'[2] = seen[2] \union {e} /\ argv' = argv
          /\ gnuoptind' = k + 1 /\ nextchar' = <<>>
      <4>1. e = [opt |-> Text[1], at |-> gnuoptind, arg |-> 0, val |-> rest]
        BY <1>1, <3>0
      <4> HIDE <3>0
      <4> QED BY <1>1, <3>2, <4>1, Returned2
    <3>4. m # Len(This)
      BY <1>4, <2>3
    <3>5. next = k + 1
          /\ Names(1, k) = IF This[m] = "p" THEN {SubSeq(This, m + 1, Len(This))} ELSE {}
      BY <1>1, <1>6, <2>2, <3>4 DEF Decodes
    <3>6. e.at = k /\ Names(1, k) = (IF e.opt = "p" THEN {e.val} ELSE {})
      BY <1>4, <3>0, <3>5
    <3>7. next # k + 2 /\ gnuoptind' = next
      BY <1>1, <3>3, <3>5
    <3> QED BY <1>1, <1>2, <1>5, <3>3, <3>6, <3>7, WordLeft2
  <2>4. CASE ~(m < Len(This))
    <3>1. m = Len(This) /\ ~(Len(Text) > 1) /\ Index = k + 1
      BY <1>4, <2>4
    <3>2. Index # argc
      <4> SUFFICES ASSUME Index = argc PROVE FALSE
        OBVIOUS
      <4>1. Return("?", 0, <<>>, Index, <<>>)
        BY <1>9, <3>1 DEF LetterValue
      <4> QED BY <1>1, <4>1, Questioned
    <3>3. PICK e : e = [opt |-> Text[1], at |-> k, arg |-> Index, val |-> argv[Index]]
      OBVIOUS
    <3>4. Return(Text[1], Index, argv[Index], PastValue, <<>>)
      BY <1>9, <3>1, <3>2 DEF LetterValue
    <3>5. /\ seen'[1] = seen[1] /\ seen'[2] = seen[2] \union {e} /\ argv' = argv
          /\ gnuoptind' = PastValue /\ nextchar' = <<>>
      BY <1>1, <3>3, <3>4, Returned2
    <3>6. PastValue = k + 2 /\ k + 1 < argc
      BY <1>1, <3>1, <3>2 DEF PastValue
    <3>7. next = k + 2 /\ Names(1, k) = IF This[m] = "p" THEN {argv[k + 1]} ELSE {}
      <4>1. k + 1 # argc /\ ~(m < Len(This))
        BY <1>1, <2>4, <3>6
      <4> QED BY <1>1, <1>6, <2>2, <4>1 DEF Decodes
    <3>8. e.at = k /\ Names(1, k) = (IF e.opt = "p" THEN {e.val} ELSE {})
      BY <1>4, <3>1, <3>3, <3>7
    <3>9. gnuoptind' = next
      BY <3>5, <3>6, <3>7
    <3>10. Names(1, k + 1) = {}
      <4>1. e \in seen'[2] /\ e.arg # 0 /\ e.val = argv[k + 1]
        BY <1>1, <3>1, <3>3, <3>5
      <4>2. PlainWord(argv[k + 1])
        BY <4>1 DEF Regular, PlainWord
      <4> QED BY <4>2, PlainNames
    <3> QED BY <1>1, <1>2, <1>5, <3>5, <3>8, <3>9, <3>10, WordLeft2
  <2> QED BY <2>3, <2>4
<1>10. CASE LetterUnknown
  BY <1>10, <1>1, Questioned DEF LetterUnknown
<1> QED BY <1>8, <1>9, <1>10

\* An option of a module: pass 1 gave up on the word at its first letter, or took
\* it for a base option with the rest as its value; a value pass 2 takes is one
\* more plain word to pass 1.
LEMMA LongStep2 ==
  ASSUME GetoptInv, Scanned, Meeting, pc = "pass2", Regular',
         LongAmbiguous \/ LongFound \/ LongUnknown
  PROVE  Meeting'
<1>0. PICK k : k = gnuoptind
  OBVIOUS
<1>1. k = gnuoptind /\ AtOption /\ TypeOK /\ gnuoptind < argc /\ This \in Word /\ This = argv[k]
      /\ k \in Nat /\ argc \in Nat /\ Text \in Seq(Char)
  BY <1>0, Decoding, ArgcType DEF LongAmbiguous, LongFound, LongUnknown, GetoptInv, Word
<1>2. gnuoptind \in Begun /\ ~PlainWord(This) /\ Names(2, k) = {}
  BY <1>1, PlaceInPass2
<1>3. PICK m \in 2..Len(This) : Text = SubSeq(This, m, Len(This)) /\ Ahead(This, m)
  BY <1>1, PlaceInPass2
<1>4. /\ Len(This) \in Nat /\ m \in Nat /\ m <= Len(This) /\ m >= 2
      /\ Len(Text) = Len(This) - m + 1 /\ Text[1] = This[m]
  BY <1>1, <1>3, TextAt
<1>5. PICK next \in {k + 1, k + 2} : Leaves(k, next) /\ (next < argc => Boundary(next))
  BY <1>1, <1>2 DEF Scanned
<1>6. PICK n \in 2..(Len(This) + 1) : Passed(This, n) /\ Decodes(k, n, next)
  BY <1>1, <1>2, <1>5 DEF Leaves
<1>7. LongFound
  BY <1>1, Questioned DEF LongAmbiguous, LongUnknown
<1>8. PICK o \in Found :
        \/ Return(o.name[1], 0, SubSeq(Text, NameLen + 2, Len(Text)), gnuoptind + 1, <<>>)
        \/ /\ HasNext
           /\ LET nxt == gnuoptind + 1
              IN  Return(o.name[1], nxt, IF nxt \in DOMAIN argv THEN argv[nxt] ELSE <<>>,
                         nxt + 1, <<>>)
        \/ Return(o.name[1], 0, <<>>, gnuoptind + 1, <<>>)
        \/ Return("?", 0, <<>>, gnuoptind + 1, <<>>)
  BY <1>7 DEF LongFound
<1>9. m < Len(This) /\ This[m] = o.name[1] /\ This[m] \notin {"p", "-", "v", "h", "V"}
  <2>1. Len(Text) > 1 /\ Text[1] = o.name[1] /\ o \in longopts
    BY <1>1, <1>7, OptionText DEF LongFound
  <2> QED BY <1>4, <2>1, OptionShape
<1>10. next = k + 1 /\ Names(1, k) = {}
  <2> DEFINE w == This
  <2>0. /\ w = argv[k] /\ Len(w) \in Nat /\ m \in 2..Len(w) /\ Ahead(w, m)
        /\ w[m] \notin {"v", "h", "-"} /\ n \in 2..(Len(w) + 1) /\ Passed(w, n) /\ Decodes(k, n, next)
    BY <1>1, <1>3, <1>4, <1>6, <1>9
  <2> HIDE DEF w
  <2>a. n = m \/ (n = 2 /\ m = 3 /\ w[2] = "-")
    BY <2>0, SameLetter
  <2>1. n = m \/ (n = 2 /\ m = 3 /\ This[2] = "-")
    BY <2>a DEF w
  <2>2. n < Len(This) /\ n # Len(This) /\ n # Len(This) + 1 /\ This[n] # "p"
    BY <1>4, <1>9, <2>1
  <2> QED BY <1>1, <1>6, <2>2 DEF Decodes
<1>11. ASSUME NEW val, Return(o.name[1], 0, val, gnuoptind + 1, <<>>) PROVE Meeting'
  <2>0. PICK e : e = [opt |-> o.name[1], at |-> k, arg |-> 0, val |-> val]
    OBVIOUS
  <2>1. /\ seen'[1] = seen[1] /\ seen'[2] = seen[2] \union {e} /\ argv' = argv
        /\ gnuoptind' = gnuoptind + 1 /\ nextchar' = <<>>
    BY <1>1, <1>11, <2>0, Returned2
  <2>2. e.at = k /\ e.opt # "p"
    BY <1>9, <2>0
  <2>3. gnuoptind' = next /\ next # k + 2
    BY <1>1, <1>10, <2>1
  <2>4. Names(1, k) = IF e.opt = "p" THEN {e.val} ELSE {}
    BY <1>10, <2>2
  <2> QED BY <1>1, <1>2, <1>5, <2>1, <2>2, <2>3, <2>4, WordLeft2
<1>12. CASE /\ HasNext
            /\ LET nxt == gnuoptind + 1
               IN  Return(o.name[1], nxt, IF nxt \in DOMAIN argv THEN argv[nxt] ELSE <<>>,
                          nxt + 1, <<>>)
  <2>1. k + 1 < argc /\ k + 1 \in DOMAIN argv
    BY <1>1, <1>12, ArgcType DEF HasNext
  <2>2. Return(o.name[1], k + 1, argv[k + 1], k + 1 + 1, <<>>)
    BY <1>1, <1>12, <2>1
  <2>3. PICK e : e = [opt |-> o.name[1], at |-> k, arg |-> k + 1, val |-> argv[k + 1]]
    OBVIOUS
  <2>4. /\ seen'[1] = seen[1] /\ seen'[2] = seen[2] \union {e} /\ argv' = argv
        /\ gnuoptind' = k + 1 + 1 /\ nextchar' = <<>>
    BY <1>1, <2>2, <2>3, Returned2
  <2>5. e.at = k /\ e.opt # "p" /\ e.arg # 0 /\ e.val = argv[k + 1]
    BY <1>1, <1>9, <2>3
  <2>6. PlainWord(argv[k + 1])
    BY <2>4, <2>5 DEF Regular, PlainWord
  <2>7. argv[k + 1] # DoubleDash
    BY <2>6, PlainNoDashes
  <2>8. k + 1 \in Begun
    BY <1>5, <1>10, <2>1, <2>7 DEF Boundary
  <2>9. PICK after \in {k + 1 + 1, k + 1 + 2} :
          Leaves(k + 1, after) /\ (after < argc => Boundary(after))
    BY <2>8 DEF Scanned
  <2>10. after = k + 2 /\ k + 1 + 1 = k + 2 /\ Names(1, k + 1) = {}
    BY <1>1, <2>6, <2>9 DEF Leaves
  <2>11. Names(1, k) = IF e.opt = "p" THEN {e.val} ELSE {}
    BY <1>10, <2>5
  <2>12. gnuoptind' = after /\ after \in {k + 1, k + 2}
    BY <2>4, <2>10
  <2> QED BY <1>1, <1>2, <2>4, <2>5, <2>9, <2>10, <2>11, <2>12, WordLeft2
<1>13. CASE Return("?", 0, <<>>, gnuoptind + 1, <<>>)
  BY <1>1, <1>13, Questioned
<1> QED BY <1>8, <1>11, <1>12, <1>13

LEMMA ProtosByWord ==
  ASSUME \A k : Names(1, k) = Names(2, k)
  PROVE  Protos(1) = Protos(2)
<1>1. \A n \in {1, 2} : \A x : x \in Protos(n) <=>
        \E k, v : v \in Names(n, k) /\ x = [at |-> k, val |-> v]
  BY DEF Protos, Names
<1>2. \A x : x \in Protos(1) <=> x \in Protos(2)
  BY <1>1
<1> QED BY <1>2

\* When pass 2 ends with one word left, the scans agree on that and what is behind.
LEMMA EndStep2 ==
  ASSUME GetoptInv, Scanned, Regular => Meeting, pc = "pass2",
         AllWords \/ Dashes \/ Plain
  PROVE  PassesAgree'
<1>1. /\ TypeOK /\ gnuoptind \in Nat /\ argc \in Nat /\ argc = Len(argv) + 1
      /\ seen' = seen /\ argv' = argv /\ nextchar = <<>> /\ gnuoptind <= argc
  BY ArgcType DEF GetoptInv, AllWords, Dashes, Plain, EndPass
<1>2. argc' = argc /\ Protos(1)' = Protos(1) /\ Protos(2)' = Protos(2)
  BY <1>1 DEF argc, Protos
<1>3. SUFFICES ASSUME ~Usage', (\A e \in seen[2] : e.arg # 0 => PlainWord(e.val))
               PROVE  Protos(1) = Protos(2)
  <2>1. (\A e \in seen[2] : e.arg # 0 => Len(e.val) < 2 \/ e.val[1] # "-")'
           => \A e \in seen[2] : e.arg # 0 => PlainWord(e.val)
    <3> SUFFICES ASSUME NEW e \in seen[2], Len(e.val) < 2 \/ e.val[1] # "-"
                 PROVE  PlainWord(e.val)
      BY <1>1
    <3>1. e.val \in Word
      BY <1>1 DEF TypeOK, Entry
    <3>2. Len(e.val) \in Nat
      BY <3>1, LenProperties DEF Word
    <3> QED BY <3>2 DEF PlainWord
  <2> QED BY <1>2, <2>1 DEF PassesAgree
<1>4. Regular /\ argc = gnuoptind' + 1
  BY <1>1, <1>2, <1>3 DEF Usage, Regular
<1>5. Meeting
  BY <1>4
<1>6. ~AllWords
  <2> SUFFICES ASSUME AllWords PROVE FALSE
    OBVIOUS
  <2>1. gnuoptind' = argc
    BY DEF AllWords, EndPass
  <2> QED BY <2>1, <1>1, <1>4
<1>7. gnuoptind < argc /\ This = argv[gnuoptind] /\ Boundary(gnuoptind)
  <2>1. gnuoptind # argc
    BY <1>6 DEF Dashes, Plain
  <2> QED BY <1>1, <1>5, <2>1, ArgcType DEF Meeting
<1>8. \A k : Names(1, k) # {} => k \in 1..(gnuoptind - 1)
  <2> SUFFICES ASSUME NEW k, Names(1, k) # {} PROVE k \in 1..(gnuoptind - 1)
    OBVIOUS
  <2>1. k \in Begun /\ k \in 1..Len(argv)
    BY NamesNever DEF Scanned
  <2>2. CASE Dashes
    <3>1. argv[gnuoptind] = DoubleDash
      BY <1>7, <2>2 DEF Dashes
    <3>2. gnuoptind \notin Begun
      BY <3>1 DEF Scanned
    <3>3. k < gnuoptind
      BY <1>7, <2>1, <3>2 DEF Boundary
    <3> QED BY <1>1, <2>1, <3>3
  <2>3. CASE Plain
    <3>1. PlainWord(argv[gnuoptind]) /\ EndPass(gnuoptind)
      BY <1>7, <2>3 DEF Plain, NonOption, PlainWord
    <3>2. gnuoptind' = gnuoptind
      BY <3>1 DEF EndPass
    <3>3. k <= gnuoptind
      BY <1>1, <1>4, <2>1, <3>2
    <3>4. k # gnuoptind
      BY <3>1, PlainNames
    <3> QED BY <1>1, <2>1, <3>3, <3>4
  <2> QED BY <1>6, <2>2, <2>3
<1>9. \A k : Names(2, k) # {} => k \in 1..(gnuoptind - 1)
  BY <1>1, NotYet
<1>10. \A k : Names(1, k) = Names(2, k)
  <2> TAKE k
  <2>1. CASE k \in 1..(gnuoptind - 1)
    BY <2>1, <1>5 DEF Meeting
  <2>2. CASE k \notin 1..(gnuoptind - 1)
    BY <2>2, <1>8, <1>9
  <2> QED BY <2>1, <2>2
<1> QED BY <1>10, ProtosByWord

-----------------------------------------------------------------------------
\* One step of either pass.

LEMMA AgreeInit == ASSUME Init PROVE AgreeInv
<1>1. Begun = {} /\ pc = "pass1" /\ gnuoptind = 1 /\ nextchar = <<>>
  BY DEF Init, Begun
<1> QED BY <1>1 DEF AgreeInv, Scanning

LEMMA ReturnStays ==
  ASSUME NEW opt, NEW arg, NEW val, NEW ind, NEW rest, Return(opt, arg, val, ind, rest)
  PROVE  pc' \in {pc, "exit"}
BY DEF Return

LEMMA AgreeStep1 ==
  ASSUME GetoptInv, AgreeInv, pc = "pass1", Next
  PROVE  AgreeInv'
<1>1. Scanning /\ ~LongTried /\ Pass = 1
  BY DEF AgreeInv, LongTried, Pass
<1>2. seen[2] = {} /\ TypeOK
  BY DEF GetoptInv
<1>3. CASE Pass1Over \/ Dashes
  <2>1. pc' = "pass2" /\ gnuoptind' = 1 /\ seen' = seen /\ argv' = argv /\ nextchar' = <<>>
    BY <1>3 DEF Pass1Over, Dashes, EndPass
  <2>2. Scanned'
    BY <1>1, <1>3, EndStep1
  <2>3. Meeting'
    <3>1. 1..(gnuoptind' - 1) = {}
      BY <2>1
    <3> QED BY <2>1, <2>2, <3>1 DEF Meeting, Scanned
  <2> QED BY <2>1, <2>2, <2>3 DEF AgreeInv
<1>4. CASE Plain
  <2>1. Return("nonopt", 0, This, gnuoptind + 1, <<>>)
    BY <1>4 DEF Plain
  <2>2. pc' = "pass1"
    BY <2>1 DEF Return
  <2> QED BY <1>1, <1>4, <2>2, PlainStep1 DEF AgreeInv
<1>5. CASE LetterUnknown \/ LetterAlone \/ LetterValue
  <2>1. pc' \in {"pass1", "exit"}
    BY <1>5, ReturnStays DEF LetterUnknown, LetterAlone, LetterValue
  <2>2. CASE pc' = "pass1"
    BY <1>1, <1>5, <2>2, LetterStep1 DEF AgreeInv
  <2>3. CASE pc' = "exit"
    BY <2>3 DEF AgreeInv
  <2> QED BY <2>1, <2>2, <2>3
<1>6. ~LongAmbiguous /\ ~LongFound /\ ~LongUnknown /\ ~AllWords /\ ~Stop
  BY <1>1 DEF LongAmbiguous, LongFound, LongUnknown, AllWords, Stop
<1> QED BY <1>3, <1>4, <1>5, <1>6 DEF Next

LEMMA AgreeStep2 ==
  ASSUME GetoptInv, AgreeInv, pc = "pass2", Next
  PROVE  AgreeInv'
<1>1. Scanned /\ (Regular => Meeting) /\ TypeOK
  BY DEF AgreeInv, GetoptInv
<1>2. CASE AllWords \/ Dashes \/ Plain
  <2>1. pc' = "done" /\ seen' = seen /\ argv' = argv
    BY <1>2 DEF AllWords, Dashes, Plain, EndPass
  <2>2. PassesAgree' /\ Scanned'
    BY <1>1, <1>2, <2>1, EndStep2, ScannedSame
  <2> QED BY <2>1, <2>2 DEF AgreeInv
<1>3. CASE LongAmbiguous \/ LongFound \/ LongUnknown \/ LetterUnknown \/ LetterAlone \/ LetterValue
  <2>1. \E opt, arg, val, ind, rest : Return(opt, arg, val, ind, rest)
    BY <1>3 DEF LongAmbiguous, LongFound, LongUnknown, LetterUnknown, LetterAlone, LetterValue
  <2>2. pc' = "pass2" /\ argv' = argv /\ seen'[1] = seen[1] /\ seen[2] \subseteq seen'[2]
    BY <1>1, <2>1, Returned2
  <2>3. Scanned'
    BY <1>1, <2>2, ScannedSame
  <2>4. ASSUME Regular' PROVE Meeting'
    <3>1. Regular
      BY <2>2, <2>4 DEF Regular, PlainWord
    <3> QED BY <1>1, <1>3, <2>4, <3>1, LetterStep2, LongStep2
  <2> QED BY <2>2, <2>3, <2>4 DEF AgreeInv
<1>4. ~Pass1Over /\ ~Stop
  BY DEF Pass1Over, Stop
<1> QED BY <1>2, <1>3, <1>4 DEF Next

LEMMA AgreeStutter ==
  ASSUME AgreeInv, UNCHANGED vars
  PROVE  AgreeInv'
<1>1. pc' = pc /\ argv' = argv /\ gnuoptind' = gnuoptind /\ nextchar' = nextchar /\ seen' = seen
  BY DEF vars
<1>2. argc' = argc /\ Begun' = Begun /\ This' = This /\ Regular' = Regular
      /\ \A k : Boundary(k)' = Boundary(k) /\ Names(1, k)' = Names(1, k) /\ Names(2, k)' = Names(2, k)
  BY <1>1, ScannedSame DEF This, Regular, PlainWord, Names
<1>3. \A k, next : Leaves(k, next)' = Leaves(k, next)
  BY <1>1, <1>2, LeavesSame
<1>4. Scanning' = Scanning
  BY <1>1, <1>2, <1>3 DEF Scanning, Names, PlainWord, Passed
<1>5. Meeting' = Meeting
  BY <1>1, <1>2 DEF Meeting, Names, PlainWord, Boundary
<1>6. PassesAgree' = PassesAgree
  BY <1>1, <1>2 DEF PassesAgree, Usage, Protos
<1>7. Scanned => Scanned'
  BY <1>1, ScannedSame
<1> QED BY <1>1, <1>2, <1>4, <1>5, <1>6, <1>7 DEF AgreeInv

\* For a command line main() accepts, the two scans find the same -p with the same
\* names, unless a value looks like an option: with any words and any options the
\* modules have, and although pass 1 does not know which of them take a value.
THEOREM SamePackets == Spec => []PassesAgree
<1>1. Init => AgreeInv
  BY AgreeInit
<1>2. GetoptInv /\ AgreeInv /\ [Next]_vars => AgreeInv'
  <2> SUFFICES ASSUME GetoptInv, AgreeInv, [Next]_vars PROVE AgreeInv'
    OBVIOUS
  <2>1. CASE UNCHANGED vars
    BY <2>1, AgreeStutter
  <2>2. CASE Next /\ ~UNCHANGED vars
    <3>1. pc \in {"pass1", "pass2", "done", "exit"}
      BY DEF GetoptInv, TypeOK
    <3>2. pc \notin {"done", "exit"}
      BY <2>2 DEF Next, Pass1Over, AllWords, Dashes, Plain, LongAmbiguous, LongFound, LongUnknown,
                  LetterUnknown, LetterAlone, LetterValue, AtLetter, AtOption, Call, Stop
    <3> QED BY <2>2, <3>1, <3>2, AgreeStep1, AgreeStep2
  <2> QED BY <2>1, <2>2
<1>3. AgreeInv => PassesAgree
  BY DEF AgreeInv, PassesAgree
<1> QED BY <1>1, <1>2, <1>3, Invariance, PTL DEF Spec
=============================================================================

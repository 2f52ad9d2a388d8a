------------------------------- MODULE Getopt -------------------------------
(***************************************************************************)
(* The two scans of the command line: _getopt_internal() of gnugetopt.c    *)
(* under the loops of main() that call it.  Pass 1 knows the base options  *)
(* only and finds the modules; pass 2 also knows the options of these      *)
(* modules, which may be abbreviated, as long options with one dash.       *)
(*                                                                         *)
(* Module Sendip starts from arguments that are already paired with their  *)
(* values; here is the pairing itself.  Words are sequences of characters, *)
(* argv[0] is left out, and what a scan returns is kept as a set: the word *)
(* an option was found in gives the order.                                 *)
(***************************************************************************)
EXTENDS Integers, Sequences, FiniteSets

CONSTANTS
  Char,      \* characters
  Options,   \* module -> its options: [name, has_arg], names with the letter
  CmdLines   \* command lines explored

Word == Seq(Char)

\* optstring: letters of main() and the ones that take a value.
BaseLetters == {"p", "v", "D", "d", "h", "f", "L", "S", "T", "V"}
TakesValue  == BaseLetters \ {"v", "h", "V"}

ASSUME CharAssumption == BaseLetters \union {"-", "="} \subseteq Char
ASSUME OptionsAssumption ==
  /\ DOMAIN Options \subseteq Word
  /\ \A m \in DOMAIN Options : Options[m] \subseteq [name : Word \ {<<>>}, has_arg : BOOLEAN]
\* What the tables of the modules have in common: a name is the letter of its
\* module and at least one character more, no module with options has only one
\* of them, and no letter is -p, a flag of main() or a dash.
ASSUME OptionNames ==
  /\ IsFiniteSet(UNION {Options[m] : m \in DOMAIN Options})
  /\ \A m \in DOMAIN Options : \A o \in Options[m] :
       /\ Len(o.name) > 1 /\ o.name[1] \notin {"p", "-"} \union (BaseLetters \ TakesValue)
       /\ \E q \in Options[m] \ {o} : q.name[1] = o.name[1]
ASSUME CmdLinesAssumption == CmdLines \subseteq Seq(Word)

VARIABLES
  pc,         \* pass1, pass2, done, or exit (-V)
  argv,
  gnuoptind,  \* the next word
  nextchar,   \* what is left of the word being decoded, <<>> if none is
  seen        \* per pass: what was returned, [opt, at, arg, val]

vars == <<pc, argv, gnuoptind, nextchar, seen>>

Init ==
  /\ pc = "pass1" /\ argv \in CmdLines
  /\ gnuoptind = 1 /\ nextchar = <<>> /\ seen = <<{}, {}>>

Pass == IF pc = "pass1" THEN 1 ELSE 2
argc == Len(argv) + 1

\* Only the first call removes the leading - of pass 1's optstring; for the
\* others it is one more letter.
Letters == BaseLetters \union (IF pc = "pass1" /\ seen[1] # {} THEN {"-"} ELSE {})

\* The option table pass 2 is given: every loaded module's options, once.
longopts ==
  UNION {Options[m] : m \in {m \in DOMAIN Options : \E e \in seen[1] : e.opt = "p" /\ e.val = m}}

\* Mutant: pass 1 asks again although gnuoptind is behind the last word.
Call_always == pc \in {"pass1", "pass2"}

\* main() asks for the next option; only pass 1 looks at gnuoptind itself.
Call == pc = "pass2" \/ (pc = "pass1" /\ gnuoptind < argc)

This == IF gnuoptind \in DOMAIN argv THEN argv[gnuoptind] ELSE <<>>
NonOption  == ~(Len(This) > 1 /\ This[1] = "-")
DoubleDash == <<"-", "-">>

-----------------------------------------------------------------------------
\* Mutant: pass 1 goes on with the next character after an unknown one.
SkipRest_kept(ind, rest) == gnuoptind' = ind /\ nextchar' = rest

\* "-tonop doesn't cause a -p option": pass 1 drops the rest of the word.
SkipRest(ind, rest) == gnuoptind' = ind + 1 /\ nextchar' = <<>>

\* getopt returns opt, found in this word, with its value val; arg is the word
\* the value was taken from, 0 for none.
Return(opt, arg, val, ind, rest) ==
  /\ seen' = [seen EXCEPT ![Pass] =
                @ \union {[opt |-> opt, at |-> gnuoptind, arg |-> arg, val |-> val]}]
  /\ IF pc = "pass1" /\ opt = "?" THEN SkipRest(ind, rest)
                                  ELSE gnuoptind' = ind /\ nextchar' = rest
  /\ pc' = IF pc = "pass1" /\ opt = "V" THEN "exit" ELSE pc
  /\ UNCHANGED argv

\* getopt returns -1.  Pass 2 starts over.
EndPass(ind) ==
  /\ IF pc = "pass1" THEN pc' = "pass2" /\ gnuoptind' = 1
                     ELSE pc' = "done" /\ gnuoptind' = ind
  /\ nextchar' = <<>>
  /\ UNCHANGED <<argv, seen>>

\* The next word.  Neither ordering permutes, so nothing was skipped so far.
Pass1Over == pc = "pass1" /\ gnuoptind >= argc /\ EndPass(gnuoptind)

AllWords == pc = "pass2" /\ nextchar = <<>> /\ gnuoptind = argc /\ EndPass(gnuoptind)

Dashes ==
  /\ Call /\ nextchar = <<>> /\ gnuoptind # argc /\ This = DoubleDash
  /\ EndPass(gnuoptind + 1)

\* RETURN_IN_ORDER in pass 1, whose main() ignores it, REQUIRE_ORDER in pass 2.
Plain ==
  /\ Call /\ nextchar = <<>> /\ gnuoptind # argc /\ NonOption
  /\ IF pc = "pass1" THEN Return("nonopt", 0, This, gnuoptind + 1, <<>>)
                     ELSE EndPass(gnuoptind)

-----------------------------------------------------------------------------
\* A long option.
AtOption ==
  Call /\ (nextchar = <<>> => gnuoptind # argc /\ This # DoubleDash /\ ~NonOption)

Text ==
  IF nextchar # <<>> THEN nextchar
  ELSE SubSeq(This, IF pc = "pass2" /\ This[2] = "-" THEN 3 ELSE 2, Len(This))

\* The text up to the first =.
NameLen == Cardinality({n \in DOMAIN Text : \A k \in 1..n : Text[k] # "="})
Name    == SubSeq(Text, 1, NameLen)

Matches == {o \in longopts : Len(Name) <= Len(o.name) /\ SubSeq(o.name, 1, Len(Name)) = Name}
Exact   == {o \in Matches : o.name = Name}
Found   == IF Exact # {} THEN Exact ELSE Matches

LongTried ==
  pc = "pass2" /\ (This[2] = "-" \/ Len(This) > 2 \/ This[2] \notin Letters)

\* Mutant: the next word is taken without asking if there is one.
HasNext_always == TRUE

HasNext == gnuoptind + 1 < argc

LongAmbiguous ==
  /\ AtOption /\ LongTried /\ Cardinality(Found) > 1
  /\ Return("?", 0, <<>>, gnuoptind + 1, <<>>)

LongFound ==
  /\ AtOption /\ LongTried /\ Cardinality(Found) = 1
  /\ \E o \in Found :
       \/ /\ Name # Text /\ o.has_arg
          /\ Return(o.name[1], 0, SubSeq(Text, NameLen + 2, Len(Text)), gnuoptind + 1, <<>>)
       \/ /\ Name = Text /\ o.has_arg /\ HasNext
          /\ LET next == gnuoptind + 1
             IN  Return(o.name[1], next, IF next \in DOMAIN argv THEN argv[next] ELSE <<>>,
                        next + 1, <<>>)
       \/ /\ Name = Text /\ ~o.has_arg
          /\ Return(o.name[1], 0, <<>>, gnuoptind + 1, <<>>)
       \/ /\ IF Name = Text THEN o.has_arg /\ ~HasNext ELSE ~o.has_arg
          /\ Return("?", 0, <<>>, gnuoptind + 1, <<>>)

NotShort == This[2] = "-" \/ Text[1] \notin Letters

\* Mutant: gnuoptind is not advanced.
PastUnknown_stuck == gnuoptind

PastUnknown == gnuoptind + 1

LongUnknown ==
  /\ AtOption /\ LongTried /\ Found = {} /\ NotShort
  /\ Return("?", 0, <<>>, PastUnknown, <<>>)

-----------------------------------------------------------------------------
\* A letter.
AtLetter == AtOption /\ (LongTried => Found = {} /\ ~NotShort)

\* gnuoptind moves on with the last letter of the word.
Index == IF Len(Text) = 1 THEN gnuoptind + 1 ELSE gnuoptind

LetterUnknown ==
  /\ AtLetter /\ Text[1] \notin Letters
  /\ Return("?", 0, <<>>, Index, Tail(Text))

LetterAlone ==
  /\ AtLetter /\ Text[1] \in Letters \ TakesValue
  /\ Return(Text[1], 0, <<>>, Index, Tail(Text))

\* Mutant: the word that was the value is scanned again.
PastValue_again == Index

PastValue == Index + 1

\* The value is the rest of the word, or the next one, if there is one.
LetterValue ==
  /\ AtLetter /\ Text[1] \in TakesValue
  /\ IF Len(Text) > 1 THEN Return(Text[1], 0, Tail(Text), gnuoptind + 1, <<>>)
     ELSE IF Index = argc THEN Return("?", 0, <<>>, Index, <<>>)
     ELSE Return(Text[1], Index, argv[Index], PastValue, <<>>)

Stop == pc \in {"done", "exit"} /\ UNCHANGED vars

Next ==
  \/ Pass1Over \/ AllWords \/ Dashes \/ Plain
  \/ LongAmbiguous \/ LongFound \/ LongUnknown
  \/ LetterUnknown \/ LetterAlone \/ LetterValue
  \/ Stop

Spec == Init /\ [][Next]_vars

\* Both loops call getopt again and again.
FairSpec == Spec /\ WF_vars(Next)

-----------------------------------------------------------------------------
\* Properties.

Entry == [opt : Char \union {"?", "nonopt"}, at : Nat, arg : Nat, val : Word]

\* Types.  Skipping a word in pass 1 may leave gnuoptind one behind argc.
TypeOK ==
  /\ pc \in {"pass1", "pass2", "done", "exit"} /\ argv \in Seq(Word)
  /\ gnuoptind \in 1..(argc + 1) /\ nextchar \in Word
  /\ seen \in [{1, 2} -> SUBSET Entry]

\* Pass 2 reads argv[gnuoptind] without asking if there is such a word: the
\* index never passes argc, whatever options lack their value, and what is left
\* of a word is the end of the word it points to.
InBounds ==
  pc = "pass2" =>
    /\ gnuoptind <= argc
    /\ nextchar # <<>> =>
         \E n \in DOMAIN This : n > 2 /\ nextchar = SubSeq(This, n, Len(This))

\* What getopt promises its caller: when pass 2 ends, every word in front of
\* gnuoptind was either decoded as options or taken as the value of exactly one
\* option, of the word in front of it, and none behind it was touched.
EachWordOnce ==
  pc = "done" =>
    LET at  == {e.at : e \in seen[2]}
        arg == {e.arg : e \in seen[2]} \ {0}
    IN  /\ at \intersect arg = {}
        /\ \A e \in seen[2] : e.arg # 0 => e.arg = e.at + 1
        /\ \A e, f \in seen[2] : e.arg = f.arg => e.arg = 0 \/ e = f
        /\ \A k \in (1..(gnuoptind - 1)) \ (at \union arg) :
             k = gnuoptind - 1 /\ argv[k] = DoubleDash
        /\ at \union arg \subseteq 1..(gnuoptind - 1)

Protos(n) == {[at |-> e.at, val |-> e.val] : e \in {e \in seen[n] : e.opt = "p"}}

Usage == (\E e \in seen[2] : e.opt = "?") \/ argc # gnuoptind + 1

\* main() takes the k-th -p of pass 2 for the k-th module pass 1 has loaded.
\* For a command line it accepts the two scans find the same -p with the same
\* names, although pass 1 does not know which options take a value: unless a
\* value looks like an option.
PassesAgree ==
  /\ pc = "done" /\ ~Usage
  /\ \A e \in seen[2] : e.arg # 0 => Len(e.val) < 2 \/ e.val[1] # "-"
  => Protos(1) = Protos(2)

\* Both scans end, for every command line.
PassesEnd == <>(pc \in {"done", "exit"})
=============================================================================

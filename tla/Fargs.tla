------------------------------- MODULE Fargs --------------------------------
(***************************************************************************)
(* File arguments: fargs.c and its callers in parseargs.c.                 *)
(*                                                                         *)
(* A value fPATH stands for the next line of the file PATH; that line may  *)
(* be such a value again, of the same file, too.  A file is read once and  *)
(* kept with the index of the line that is next, until unload_mods().  The *)
(* search tree is abstracted to a function from paths to indices, a line   *)
(* to <<"plain", v>> or <<"file", path>>; a line longer than LINE_MAX      *)
(* counts as several.                                                      *)
(***************************************************************************)
EXTENDS Integers, Sequences

CONSTANTS
  Path,    \* names of files
  Files,   \* the lines of each of them
  Null     \* not in the cache

Plain == {"plain"} \X {"text"}
Line  == Plain \union ({"file"} \X Path)

ASSUME FilesAssumption == Files \in [Path -> Seq(Line)]
ASSUME NullAssumption == Null \notin Int

VARIABLES
  pc,     \* idle, read, destroy, exit; crash: a NULL pointer was followed;
          \* wild: a pointer was used that nobody had set
  cache,  \* path -> index of the next line, or Null
  job,    \* the function at work and the file it reads
  line    \* the line fileargument() returned last

vars == <<pc, cache, job, line>>

Function == {"opt2val", "opt2intn", "opt2inth", "opt2v4"}

Init ==
  /\ pc = "idle" /\ cache = [p \in Path |-> Null]
  /\ job \in [by : {"opt2val"}, path : Path] /\ line = <<>>

-----------------------------------------------------------------------------
\* An option whose value starts with f.
Evaluate(f, p) ==
  /\ pc = "idle" /\ pc' = "read"
  /\ job' = [by |-> f, path |-> p]
  /\ UNCHANGED <<cache, line>>

\* A file that is not in the tree is read, and entered with idx 0.  That there is
\* no room for the copy of one of its lines, which nobody checks, is left out.
fc_create ==
  /\ pc = "read" /\ cache[job.path] = Null
  /\ cache' = [cache EXCEPT ![job.path] = 0]
  /\ UNCHANGED <<pc, job, line>>

\* Mutant: opt2intn() does not look either.
AfterNull_unlooked == IF job.by \in {"opt2v4", "opt2intn"} THEN "crash" ELSE "idle"

\* fileargument() returned NULL: opt2val() takes the value as a text, opt2intn() as
\* 0, opt2v4() does not look.
AfterNull == IF job.by = "opt2v4" THEN "crash" ELSE "idle"

\* The file cannot be opened, or there is no room for its table.
fc_fails ==
  /\ pc = "read" /\ cache[job.path] = Null
  /\ pc' = AfterNull
  /\ UNCHANGED <<cache, job, line>>

\* There is no room for its name or for more of its lines: fc_free() releases as
\* many lines as f->len says, which is set behind the last line only.
fc_dropped ==
  /\ pc = "read" /\ cache[job.path] = Null
  /\ pc' \in {"wild", AfterNull}
  /\ UNCHANGED <<cache, job, line>>

\* Mutant: the index may reach len.
Advanced_late(p) == IF cache[p] + 1 > Len(Files[p]) THEN 0 ELSE cache[p] + 1

\* Mutant: the last line is repeated.
Advanced_stuck(p) == IF cache[p] + 1 >= Len(Files[p]) THEN cache[p] ELSE cache[p] + 1

Advanced(p) == IF cache[p] + 1 >= Len(Files[p]) THEN 0 ELSE cache[p] + 1

\* Mutant: the index is advanced first.
NextLine_after(p) == Files[p][Advanced(p) + 1]

NextLine(p) == Files[p][cache[p] + 1]

\* The function that goes on with the line; opt2inth() leaves it to opt2intn().
Caller == IF job.by = "opt2inth" THEN "opt2intn" ELSE job.by

\* fileargument() and its caller, which starts over if the line is fPATH again.
fileargument ==
  /\ pc = "read" /\ cache[job.path] # Null /\ Files[job.path] # <<>>
  /\ LET next == NextLine(job.path)
     IN  /\ line' = next
         /\ IF next[1] = "file"
            THEN job' = [by |-> Caller, path |-> next[2]] /\ UNCHANGED pc
            ELSE pc' = "idle" /\ UNCHANGED job
  /\ cache' = [cache EXCEPT ![job.path] = Advanced(job.path)]

\* A file without lines: lines[0] was never set and may happen to be NULL.
NoLine ==
  /\ pc = "read" /\ cache[job.path] # Null /\ Files[job.path] = <<>>
  /\ pc' \in {"wild", AfterNull}
  /\ UNCHANGED <<cache, job, line>>

\* unload_mods() clears the cache, root by root.
Unload ==
  /\ pc = "idle" /\ pc' = "destroy"
  /\ UNCHANGED <<cache, job, line>>

fargs_destroy ==
  /\ pc = "destroy"
  /\ IF \A p \in Path : cache[p] = Null
     THEN pc' = "exit" /\ UNCHANGED cache
     ELSE /\ \E p \in Path : cache[p] # Null /\ cache' = [cache EXCEPT ![p] = Null]
          /\ UNCHANGED pc
  /\ UNCHANGED <<job, line>>

Stop == pc \in {"exit", "crash", "wild"} /\ UNCHANGED vars

Next ==
  \/ \E f \in Function, p \in Path : Evaluate(f, p)
  \/ fc_create \/ fc_fails \/ fc_dropped \/ fileargument \/ NoLine
  \/ Unload \/ fargs_destroy \/ Stop

Spec == Init /\ [][Next]_vars

\* A call that has begun goes on.
FairSpec == Spec /\ WF_vars(fc_create \/ fc_fails \/ fc_dropped \/ fileargument \/ NoLine)

-----------------------------------------------------------------------------
\* Properties.

\* Types; the index of a file always points to a line, if there is one.
TypeOK ==
  /\ pc \in {"idle", "read", "destroy", "exit", "crash", "wild"}
  /\ job \in [by : Function, path : Path]
  /\ line \in Line \union {<<>>}
  /\ cache \in [Path -> Nat \union {Null}]
  /\ \A p \in Path : cache[p] # Null =>
       cache[p] = 0 \/ cache[p] \in 1..(Len(Files[p]) - 1)

\* A pointer that was never set is followed for a file without lines, or while a
\* file that is not in the cache is given up; NULL, by opt2v4() only, for a file
\* without lines or not in the cache.  Never for a file that was read and has lines,
\* however deep it is nested and whoever read it before.
FollowsLines ==
  /\ pc = "crash" => job.by = "opt2v4"
  /\ pc \in {"crash", "wild"} => cache[job.path] = Null \/ Files[job.path] = <<>>

\* The lines of a file from the cached index on, then those before it.
Rotated(s, i) ==
  [k \in 1..Len(s) |-> IF i + k <= Len(s) THEN s[i + k] ELSE s[i + k - Len(s)]]

Reader ==
  INSTANCE LineReader WITH
    Lines  <- Files,
    due    <- [p \in Path |-> IF cache[p] = Null THEN Files[p] ELSE Rotated(Files[p], cache[p])],
    closed <- pc \in {"destroy", "exit"}

\* The cache hands out the lines of every file in turn, starting over behind the
\* last one, for any mixture of callers, files, failed loads and nested values.
LinesInTurn == Reader!Spec

\* Files that lead to files with at least one plain line only.
Productive(p) ==
  \E P \in SUBSET Path :
    /\ p \in P
    /\ \A q \in P :
         /\ \E i \in DOMAIN Files[q] : Files[q][i][1] = "plain"
         /\ \A i \in DOMAIN Files[q] : Files[q][i][1] = "file" => Files[q][i][2] \in P

\* Evaluating a value ends although its files may name each other and themselves
\* in circles, if each of them has one line that does not: every visit takes the
\* next line.
EvaluationEnds ==
  \A p \in Path : Productive(p) => ((pc = "read" /\ job.path = p) ~> pc # "read")
=============================================================================

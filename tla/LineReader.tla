----------------------------- MODULE LineReader -----------------------------
\* What fargs.c promises ("Get the next line (or first line if EOF has been
\* reached)"): the lines of a file are handed out in turn, over and over, whoever
\* asks and whatever other files are read in between.
EXTENDS Sequences

CONSTANTS Path, Lines   \* Lines[p]: the lines of the file p

VARIABLES
  due,     \* for each file its lines in the order they are due
  line,    \* the line handed out last
  closed   \* the cache was cleared

Init == due = Lines /\ line = <<>> /\ closed = FALSE

Take(p) ==
  /\ ~closed /\ due[p] # <<>>
  /\ line' = Head(due[p])
  /\ due'  = [due EXCEPT ![p] = Append(Tail(@), Head(@))]
  /\ UNCHANGED closed

\* Clearing the cache; no line is handed out any more.
Clear ==
  /\ closed' = TRUE
  /\ \E P \in SUBSET Path : due' = [p \in Path |-> IF p \in P THEN Lines[p] ELSE due[p]]
  /\ UNCHANGED line

Next == Clear \/ \E p \in Path : Take(p)

Spec == Init /\ [][Next]_<<due, line, closed>>
=============================================================================

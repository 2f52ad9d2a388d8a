----------------------------- MODULE FargsProofs -----------------------------
\* Proofs about Fargs.tla, for any files, and about Parseargs.tla, for any texts.
EXTENDS Parseargs, SequenceTheorems, FiniteSetTheorems, WellFoundedInduction, TLAPS

\* A rotated sequence is a sequence of the same length.
LEMMA RotatedSeq ==
  ASSUME NEW s \in Seq(Line), NEW i \in Nat, i = 0 \/ i < Len(s)
  PROVE  /\ Rotated(s, i) \in Seq(Line) /\ Len(Rotated(s, i)) = Len(s)
         /\ \A k \in 1..Len(s) :
              Rotated(s, i)[k] = IF i + k <= Len(s) THEN s[i + k] ELSE s[i + k - Len(s)]
<1> DEFINE n == Len(s)
           t == [k \in 1..n |-> IF i + k <= n THEN s[i + k] ELSE s[i + k - n]]
<1>1. n \in Nat /\ s \in [1..n -> Line]
  BY LenProperties
<1> HIDE DEF n
<1>2. \A k \in 1..n : t[k] \in Line
  <2> SUFFICES ASSUME NEW k \in 1..n PROVE t[k] \in Line
    OBVIOUS
  <2>0. i = 0 \/ i < n
    BY DEF n
  <2>1. CASE i + k <= n
    <3>1. i + k \in 1..n
      BY <1>1, <2>1
    <3> QED BY <1>1, <2>1, <3>1
  <2>2. CASE ~(i + k <= n)
    <3>1. i + k - n \in 1..n
      BY <1>1, <2>0, <2>2
    <3> QED BY <1>1, <2>2, <3>1
  <2> QED BY <2>1, <2>2
<1>3. t \in [1..n -> Line]
  BY <1>2
<1>4. t \in Seq(Line)
  BY <1>1, <1>3, SeqDef
<1>5. Len(t) \in Nat /\ DOMAIN t = 1..Len(t) /\ DOMAIN t = 1..n
  BY <1>4, LenProperties
<1>6. Len(t) = n
  <2>1. \A a, b \in Nat : 1..a = 1..b => a = b
    <3> SUFFICES ASSUME NEW a \in Nat, NEW b \in Nat, 1..a = 1..b, a # b PROVE FALSE
      OBVIOUS
    <3>1. CASE a < b
      <4>1. b \in 1..b /\ b \notin 1..a
        BY <3>1
      <4> QED BY <4>1
    <3>2. CASE b < a
      <4>1. a \in 1..a /\ a \notin 1..b
        BY <3>2
      <4> QED BY <4>1
    <3> QED BY <3>1, <3>2
  <2> QED BY <1>1, <1>5, <2>1
<1>7. Rotated(s, i) = t
  BY DEF Rotated, n
<1> HIDE DEF t
<1>8. \A k \in 1..n : t[k] = IF i + k <= n THEN s[i + k] ELSE s[i + k - n]
  BY DEF t
<1> QED
  BY <1>4, <1>6, <1>7, <1>8 DEF n

\* Nothing is rotated at index 0.
LEMMA RotatedZero ==
  ASSUME NEW s \in Seq(Line)
  PROVE  Rotated(s, 0) = s
<1> DEFINE t == Rotated(s, 0)
<1>1. /\ t \in Seq(Line) /\ Len(t) = Len(s) /\ Len(s) \in Nat
      /\ \A k \in 1..Len(s) : t[k] = IF 0 + k <= Len(s) THEN s[0 + k] ELSE s[0 + k - Len(s)]
  BY RotatedSeq, LenProperties
<1>2. \A k \in 1..Len(s) : t[k] = s[k]
  BY <1>1
<1> QED
  BY <1>1, <1>2, SeqEqual

\* The line at the index is the first one due, and advancing the index moves it
\* behind all others.
LEMMA RotatedStep ==
  ASSUME NEW s \in Seq(Line), s # <<>>, NEW i \in 0..(Len(s) - 1)
  PROVE  LET t == Rotated(s, i)
             j == IF i + 1 >= Len(s) THEN 0 ELSE i + 1
         IN  t # <<>> /\ Head(t) = s[i + 1] /\ Append(Tail(t), Head(t)) = Rotated(s, j)
<1> DEFINE n == Len(s)
           t == Rotated(s, i)
           j == IF i + 1 >= n THEN 0 ELSE i + 1
           u == Rotated(s, j)
           a == Append(Tail(t), Head(t))
<1>1. n \in Nat /\ n # 0 /\ i \in Nat /\ i < n
  BY LenProperties, EmptySeq
<1>2. j \in Nat /\ j < n
  BY <1>1
<1>3. /\ t \in Seq(Line) /\ Len(t) = n
      /\ \A k \in 1..n : t[k] = IF i + k <= n THEN s[i + k] ELSE s[i + k - n]
  BY <1>1, RotatedSeq
<1>4. /\ u \in Seq(Line) /\ Len(u) = n
      /\ \A k \in 1..n : u[k] = IF j + k <= n THEN s[j + k] ELSE s[j + k - n]
  BY <1>2, RotatedSeq
<1> HIDE DEF n, t, u
<1>5. t # <<>> /\ Head(t) = t[1] /\ Head(t) \in Line
  BY <1>1, <1>3, EmptySeq, HeadTailProperties
<1>6. t[1] = s[i + 1]
  BY <1>1, <1>3
<1>7. Tail(t) \in Seq(Line) /\ Len(Tail(t)) = n - 1 /\ \A k \in 1..(n - 1) : Tail(t)[k] = t[k + 1]
  BY <1>3, <1>5, HeadTailProperties
<1>8. a \in Seq(Line) /\ Len(a) = n
  BY <1>1, <1>5, <1>7
<1>9. \A k \in 1..n : a[k] = IF k = n THEN t[1] ELSE t[k + 1]
  <2> SUFFICES ASSUME NEW k \in 1..n PROVE a[k] = IF k = n THEN t[1] ELSE t[k + 1]
    OBVIOUS
  <2>1. CASE k = n
    BY <1>1, <1>5, <1>7, <2>1
  <2>2. CASE k # n
    <3>1. k \in 1..(n - 1)
      BY <1>1, <2>2
    <3> QED BY <1>1, <1>7, <2>2, <3>1
  <2> QED BY <2>1, <2>2
<1> HIDE DEF a
<1>10. \A k \in 1..n : a[k] = u[k]
  <2> SUFFICES ASSUME NEW k \in 1..n PROVE a[k] = u[k]
    OBVIOUS
  <2>1. CASE i + 1 >= n
    <3>1. j = 0 /\ i = n - 1
      BY <1>1, <2>1
    <3>2. u[k] = s[k]
      BY <1>1, <1>4, <3>1
    <3>3. CASE k = n
      <4>1. i + 1 = k /\ a[k] = t[1]
        BY <1>1, <1>9, <3>1, <3>3
      <4> QED BY <1>6, <3>2, <4>1
    <3>4. CASE k # n
      <4>1. k + 1 \in 1..n /\ ~(i + (k + 1) <= n) /\ i + (k + 1) - n = k
        BY <1>1, <3>1, <3>4
      <4>2. t[k + 1] = s[i + (k + 1) - n] /\ a[k] = t[k + 1]
        BY <1>3, <1>9, <3>4, <4>1
      <4> QED BY <3>2, <4>1, <4>2
    <3> QED BY <3>3, <3>4
  <2>2. CASE ~(i + 1 >= n)
    <3>1. j = i + 1
      BY <2>2
    <3>2. CASE k = n
      <4>1. ~(j + k <= n) /\ j + k - n = i + 1
        BY <1>1, <3>1, <3>2
      <4> QED BY <1>4, <1>6, <1>9, <3>2, <4>1
    <3>3. CASE k # n
      <4> DEFINE m == j + k
                 l == k + 1
      <4>1. l \in 1..n /\ i + l = m
        BY <1>1, <3>1, <3>3
      <4>2. a[k] = t[l]
        BY <1>9, <3>3
      <4>3. t[l] = IF i + l <= n THEN s[i + l] ELSE s[i + l - n]
        BY <1>3, <4>1
      <4>4. u[k] = IF m <= n THEN s[m] ELSE s[m - n]
        BY <1>4
      <4> HIDE DEF m, l
      <4>5. t[l] = IF m <= n THEN s[m] ELSE s[m - n]
        BY <1>1, <4>1, <4>3
      <4> QED BY <4>2, <4>4, <4>5
    <3> QED BY <3>2, <3>3
  <2> QED BY <2>1, <2>2
<1>11. a = u
  BY <1>4, <1>8, <1>10, SeqEqual
<1> QED
  BY <1>5, <1>6, <1>11 DEF a, t, u, n

-----------------------------------------------------------------------------
\* The cached index always points to a line of the file.
THEOREM TypeCorrect == Spec => []TypeOK
<1>1. Init => TypeOK
  BY DEF Init, TypeOK, Function
<1>2. TypeOK /\ [Next]_vars => TypeOK'
  <2> SUFFICES ASSUME TypeOK, [Next]_vars PROVE TypeOK'
    OBVIOUS
  <2>1. ASSUME NEW g \in Function, NEW p \in Path, Evaluate(g, p) PROVE TypeOK'
    BY <2>1 DEF TypeOK, Evaluate
  <2>2. CASE fc_create
    BY <2>2 DEF TypeOK, fc_create
  <2>3. CASE fc_fails \/ fc_dropped
    <3>1. pc' \in {"wild", "crash", "idle"} /\ UNCHANGED <<cache, job, line>>
      BY <2>3 DEF fc_fails, fc_dropped, AfterNull
    <3> QED BY <3>1 DEF TypeOK
  <2>4. CASE fileargument
    <3> DEFINE p == job.path
               s == Files[p]
    <3>1. /\ p \in Path /\ s \in Seq(Line) /\ s # <<>> /\ Len(s) \in Nat /\ cache[p] # Null
          /\ job.by \in Function
      BY <2>4, FilesAssumption, LenProperties DEF fileargument, TypeOK
    <3>2. cache[p] \in 0..(Len(s) - 1)
      <4>1. Len(s) # 0
        BY <3>1, EmptySeq
      <4> QED BY <3>1, <4>1 DEF TypeOK
    <3>3. s[cache[p] + 1] \in Line
      <4>1. cache[p] + 1 \in 1..Len(s)
        BY <3>1, <3>2
      <4> QED BY <3>1, <4>1, ElementOfSeq
    <3>4. Advanced(p) = 0 \/ Advanced(p) \in 1..(Len(s) - 1)
      BY <3>1, <3>2 DEF Advanced
    <3>5. line' \in Line
      BY <2>4, <3>3 DEF fileargument, NextLine
    <3>6. \A q \in Path : cache'[q] # Null =>
            cache'[q] = 0 \/ cache'[q] \in 1..(Len(Files[q]) - 1)
      BY <2>4, <3>1, <3>4 DEF fileargument, TypeOK
    <3>7. job' \in [by : Function, path : Path]
      <4>1. line' = NextLine(p) /\ (NextLine(p)[1] = "file" => NextLine(p)[2] \in Path)
        BY <2>4, <3>5 DEF fileargument, Line, Plain
      <4>2. Caller \in Function
        BY <3>1 DEF Caller, Function
      <4> QED BY <2>4, <4>1, <4>2 DEF fileargument, TypeOK
    <3>8. pc' \in {"read", "idle"}
      BY <2>4 DEF fileargument
    <3>9. cache' \in [Path -> Nat \union {Null}]
      <4>1. Advanced(p) \in Nat
        BY <3>1, <3>4
      <4> QED BY <2>4, <3>1, <4>1 DEF fileargument, TypeOK
    <3> QED BY <3>5, <3>6, <3>7, <3>8, <3>9 DEF TypeOK
  <2>5. CASE NoLine
    BY <2>5 DEF TypeOK, NoLine, AfterNull
  <2>6. CASE Unload
    BY <2>6 DEF TypeOK, Unload
  <2>7. CASE fargs_destroy
    <3>0. pc' \in {"destroy", "exit"} /\ UNCHANGED <<job, line>>
      BY <2>7 DEF fargs_destroy
    <3>1. CASE UNCHANGED cache
      BY <3>0, <3>1 DEF TypeOK
    <3>2. ASSUME NEW p \in Path, cache' = [cache EXCEPT ![p] = Null] PROVE TypeOK'
      BY <3>0, <3>2 DEF TypeOK
    <3> QED BY <2>7, <3>1, <3>2 DEF fargs_destroy
  <2>8. CASE Stop \/ UNCHANGED vars
    BY <2>8 DEF TypeOK, Stop, vars
  <2> QED BY <2>1, <2>2, <2>3, <2>4, <2>5, <2>6, <2>7, <2>8 DEF Next
<1> QED BY <1>1, <1>2, PTL DEF Spec

\* A bad pointer is followed for a file without lines, or for one that could not be
\* read or held, and never for one that is in the cache and has lines: the steps that
\* set pc to crash or wild are those of such files, and none follows.
THEOREM FollowsOnlyLines == Spec => []FollowsLines
<1>1. Init => FollowsLines
  BY DEF Init, FollowsLines
<1>2. FollowsLines /\ [Next]_vars => FollowsLines'
  <2> SUFFICES ASSUME FollowsLines, [Next]_vars PROVE FollowsLines'
    OBVIOUS
  <2>1. ASSUME NEW g \in Function, NEW p \in Path, Evaluate(g, p) PROVE FollowsLines'
    BY <2>1 DEF FollowsLines, Evaluate
  <2>2. CASE fc_create \/ fileargument
    <3>1. pc' \in {"read", "idle"}
      BY <2>2 DEF fc_create, fileargument
    <3> QED BY <3>1 DEF FollowsLines
  <2>3. CASE fc_fails \/ fc_dropped
    BY <2>3 DEF FollowsLines, fc_fails, fc_dropped, AfterNull
  <2>4. CASE NoLine
    BY <2>4 DEF FollowsLines, NoLine, AfterNull
  <2>5. CASE Unload \/ fargs_destroy
    <3>1. pc' \in {"destroy", "exit"}
      BY <2>5 DEF Unload, fargs_destroy
    <3> QED BY <3>1 DEF FollowsLines
  <2>6. CASE Stop \/ UNCHANGED vars
    BY <2>6 DEF FollowsLines, Stop, vars
  <2> QED BY <2>1, <2>2, <2>3, <2>4, <2>5, <2>6 DEF Next
<1> QED BY <1>1, <1>2, PTL DEF Spec

-----------------------------------------------------------------------------
\* What the mapping of LinesInTurn makes of due and closed.
Due(p) == IF cache[p] = Null THEN Files[p] ELSE Rotated(Files[p], cache[p])
Dues   == [p \in Path |-> Due(p)]
Closed == pc \in {"destroy", "exit"}

\* fileargument() hands out the line that is due and puts it behind the others.
LEMMA FileargumentTakes ==
  ASSUME TypeOK, fileargument
  PROVE  /\ job.path \in Path /\ ~Closed /\ Dues[job.path] # <<>>
         /\ line' = Head(Dues[job.path])
         /\ Dues' = [Dues EXCEPT ![job.path] = Append(Tail(@), Head(@))]
         /\ Closed' = Closed
<1> DEFINE p == job.path
           s == Files[p]
           t == Rotated(s, cache[p])
<1>1. p \in Path /\ s \in Seq(Line) /\ s # <<>> /\ Len(s) \in Nat /\ Len(s) # 0 /\ cache[p] # Null
  <2>1. p \in Path /\ s \in Seq(Line) /\ s # <<>> /\ cache[p] # Null
    BY FilesAssumption DEF fileargument, TypeOK
  <2> QED BY <2>1, LenProperties, EmptySeq
<1>2. cache[p] \in 0..(Len(s) - 1)
  BY <1>1 DEF TypeOK
<1>3. Advanced(p) \in Nat /\ Advanced(p) # Null
  BY <1>1, <1>2, NullAssumption DEF Advanced
<1>4. /\ t # <<>> /\ Head(t) = s[cache[p] + 1]
      /\ Append(Tail(t), Head(t)) = Rotated(s, Advanced(p))
  BY <1>1, <1>2, RotatedStep DEF Advanced
<1>5. Dues[p] = t
  BY <1>1 DEF Due, Dues
<1>6. cache' = [cache EXCEPT ![p] = Advanced(p)] /\ cache \in [Path -> Nat \union {Null}]
  BY DEF fileargument, TypeOK
<1>7. \A q \in Path : Due(q)' = IF q = p THEN Append(Tail(t), Head(t)) ELSE Due(q)
  BY <1>1, <1>3, <1>4, <1>6 DEF Due
<1>8. Dues' = [Dues EXCEPT ![p] = Append(Tail(@), Head(@))]
  BY <1>5, <1>7 DEF Dues
<1>9. line' = Head(Dues[p])
  BY <1>4, <1>5 DEF fileargument, NextLine
<1>10. ~Closed /\ ~Closed'
  BY DEF fileargument, Closed
<1> QED
  BY <1>1, <1>4, <1>5, <1>8, <1>9, <1>10 DEF Closed

\* Reading a file for the first time changes no line that is due.
LEMMA CreateStutters ==
  ASSUME TypeOK, fc_create
  PROVE  Dues' = Dues
<1> DEFINE p == job.path
<1>1. p \in Path /\ Files[p] \in Seq(Line) /\ cache[p] = Null /\ 0 # Null
  <2>1. p \in Path /\ cache[p] = Null
    BY DEF fc_create, TypeOK
  <2> QED BY <2>1, FilesAssumption, NullAssumption
<1>2. cache' = [cache EXCEPT ![p] = 0] /\ cache \in [Path -> Nat \union {Null}]
  BY DEF fc_create, TypeOK
<1>3. Rotated(Files[p], 0) = Files[p]
  BY <1>1, RotatedZero
<1>4. \A q \in Path : Due(q)' = Due(q)
  BY <1>1, <1>2, <1>3 DEF Due
<1> QED BY <1>4 DEF Dues

\* The cache implements the reader: the lines of every file are handed out in
\* turn, for any files, in any mixture of readers and of nested file arguments.
THEOREM Refinement == Spec => LinesInTurn
<1>1. Init => Reader!Init
  <2> SUFFICES ASSUME Init PROVE Reader!Init
    OBVIOUS
  <2>1. \A p \in Path : cache[p] = Null
    BY DEF Init
  <2>2. [p \in Path |-> IF cache[p] = Null THEN Files[p] ELSE Rotated(Files[p], cache[p])] = Files
    BY <2>1, FilesAssumption
  <2> QED BY <2>2 DEF Init, Reader!Init
<1>2. TypeOK /\ [Next]_vars => [Reader!Next]_<<Dues, line, Closed>>
  <2> SUFFICES ASSUME TypeOK, [Next]_vars PROVE [Reader!Next]_<<Dues, line, Closed>>
    OBVIOUS
  <2>0. Dues' = [p \in Path |-> Due(p)']
    BY DEF Dues
  <2>1. CASE fileargument
    <3>1. PICK p \in Path : p = job.path
      BY <2>1, FileargumentTakes
    <3>2. Reader!Take(p)
      BY <2>1, <3>1, FileargumentTakes DEF Reader!Take, Dues, Due, Closed
    <3> QED BY <3>2 DEF Reader!Next
  <2>2. CASE fc_create
    <3>1. Dues' = Dues
      BY <2>2, CreateStutters
    <3> QED BY <2>2, <3>1 DEF fc_create, Closed
  <2>3. CASE UNCHANGED <<cache, line>> /\ Closed' = Closed
    <3>1. Dues' = Dues
      BY <2>3 DEF Dues, Due
    <3> QED BY <2>3, <3>1
  <2>4. CASE Unload \/ fargs_destroy
    <3>1. Closed' = TRUE /\ line' = line
      BY <2>4 DEF Unload, fargs_destroy, Closed
    <3>2. \E P \in SUBSET Path : Dues' = [p \in Path |-> IF p \in P THEN Files[p] ELSE Dues[p]]
      <4>1. CASE UNCHANGED cache
        <5>1. Dues' = [p \in Path |-> IF p \in {} THEN Files[p] ELSE Dues[p]]
          BY <4>1 DEF Dues, Due
        <5>2. {} \in SUBSET Path
          OBVIOUS
        <5> HIDE DEF Dues
        <5> QED BY <5>1, <5>2
      <4>2. ASSUME NEW q \in Path, cache' = [cache EXCEPT ![q] = Null]
            PROVE  \E P \in SUBSET Path : Dues' = [p \in Path |-> IF p \in P THEN Files[p] ELSE Dues[p]]
        <5>1. \A p \in Path : Due(p)' = IF p \in {q} THEN Files[p] ELSE Due(p)
          BY <4>2 DEF Due, TypeOK
        <5>2. Dues' = [p \in Path |-> IF p \in {q} THEN Files[p] ELSE Dues[p]]
          BY <5>1 DEF Dues
        <5>3. {q} \in SUBSET Path
          OBVIOUS
        <5> QED BY <5>2, <5>3
      <4> QED BY <2>4, <4>1, <4>2 DEF Unload, fargs_destroy
    <3>3. Reader!Clear
      BY <3>1, <3>2 DEF Reader!Clear, Dues, Due, Closed
    <3> QED BY <3>3 DEF Reader!Next
  <2>5. ASSUME NEW g \in Function, NEW p \in Path, Evaluate(g, p)
        PROVE  UNCHANGED <<cache, line>> /\ Closed' = Closed
    BY <2>5 DEF Evaluate, Closed
  <2>6. CASE fc_fails \/ fc_dropped \/ NoLine \/ Stop \/ UNCHANGED vars
    <3>1. UNCHANGED <<cache, line>> /\ Closed' = Closed
      BY <2>6 DEF fc_fails, fc_dropped, NoLine, AfterNull, Stop, vars, Closed
    <3> QED BY <2>3, <3>1
  <2> QED BY <2>1, <2>2, <2>3, <2>4, <2>5, <2>6 DEF Next
<1>3. Spec => [][Reader!Next]_<<Dues, line, Closed>>
  BY <1>2, TypeCorrect, PTL DEF Spec
<1> QED
  BY <1>1, <1>3, PTL DEF Spec, LinesInTurn, Reader!Spec, Dues, Due, Closed

-----------------------------------------------------------------------------
\* Parseargs.tla.

\* Induction up to a number, with a set in place of a predicate: the provers cannot
\* use the library's theorems, but the least counterexample they can.
LEMMA Induct ==
  ASSUME NEW n \in Nat, NEW S, 0 \in S, \A k \in 0..(n - 1) : k \in S => k + 1 \in S
  PROVE  \A k \in 0..n : k \in S
<1> DEFINE R == OpToRel(<, Nat)
           D == {k \in 0..n : k \notin S}
<1> SUFFICES ASSUME D # {} PROVE FALSE
  OBVIOUS
<1>1. IsWellFoundedOn(R, Nat)
  BY NatLessThanWellFounded
<1>2. \A x, y \in Nat : x < y => <<x, y>> \in R
  BY DEF OpToRel
<1> HIDE DEF R
<1>3. PICK m \in D : \A k \in D : ~ (<<k, m>> \in R)
  <2>1. D \subseteq Nat
    OBVIOUS
  <2> HIDE DEF D
  <2> QED BY <1>1, <2>1, WFMin
<1>4. m \in 0..n /\ m \notin S /\ m # 0
  BY <1>3
<1>5. m - 1 \in 0..(n - 1) /\ m - 1 \in Nat /\ m \in Nat /\ m - 1 < m /\ (m - 1) + 1 = m
  BY <1>4
<1>6. m - 1 \in D
  BY <1>4, <1>5
<1> QED BY <1>2, <1>3, <1>5, <1>6

\* What a function is that is defined by its value one step before.
Recursive(A, n, a, T) ==
  \E f \in [0..n -> A] : f[0] = a /\ \A k \in 1..n : f[k] = T[<<f[k - 1], k>>]

\* A function on 0..n that is given by its first value and a step exists.
LEMMA Recursion ==
  ASSUME NEW A, NEW n \in Nat, NEW a \in A, NEW T \in [A \X (1..n) -> A]
  PROVE  Recursive(A, n, a, T)
<1> DEFINE Runs(m) == {f \in [0..m -> A] : f[0] = a /\ \A k \in 1..m : f[k] = T[<<f[k - 1], k>>]}
           S == {m \in 0..n : Runs(m) # {}}
<1>1. 0 \in S
  <2>1. [k \in 0..0 |-> a] \in Runs(0)
    OBVIOUS
  <2> QED BY <2>1
<1>2. ASSUME NEW m \in 0..(n - 1), m \in S PROVE m + 1 \in S
  <2>1. PICK f \in [0..m -> A] : f[0] = a /\ \A k \in 1..m : f[k] = T[<<f[k - 1], k>>]
    BY <1>2
  <2> DEFINE g == [k \in 0..(m + 1) |-> IF k = m + 1 THEN T[<<f[m], m + 1>>] ELSE f[k]]
  <2>2. m + 1 \in 1..n /\ m + 1 \in 0..n /\ m \in 0..m /\ m \in Nat
    BY <1>2
  <2>3. T[<<f[m], m + 1>>] \in A
    BY <2>1, <2>2
  <2>4. g \in [0..(m + 1) -> A]
    BY <2>1, <2>2, <2>3
  <2>5. g[0] = a
    BY <2>1, <2>2
  <2>6. ASSUME NEW k \in 1..(m + 1) PROVE g[k] = T[<<g[k - 1], k>>]
    <3>1. k - 1 \in 0..(m + 1) /\ k \in 0..(m + 1) /\ k - 1 # m + 1
      BY <2>2
    <3>2. CASE k = m + 1
      <4>1. k - 1 = m
        BY <3>2, <2>2
      <4> QED BY <3>1, <3>2, <4>1
    <3>3. CASE k # m + 1
      <4>1. k \in 1..m
        BY <3>3, <2>2
      <4> QED BY <3>1, <3>3, <4>1, <2>1
    <3> QED BY <3>2, <3>3
  <2> HIDE DEF g
  <2>7. g \in Runs(m + 1)
    BY <2>4, <2>5, <2>6
  <2> QED BY <2>2, <2>7
<1> HIDE DEF S
<1>3. n \in 0..n /\ n \in S
  BY <1>1, <1>2, Induct
<1> QED BY <1>3 DEF S, Recursive

-----------------------------------------------------------------------------
\* str2val(): the loop as a function of the digits read.

LoopState == [s : Seq(Nat), c : Nat, i : Nat, bad : BOOLEAN]
LoopStart == [s |-> <<>>, c |-> 0, i |-> 0, bad |-> FALSE]

\* A digit leaves the loop of str2val() in a state of its type.
LEMMA DigitType ==
  ASSUME NEW st \in LoopState, NEW d \in Nat, NEW outlen \in Nat, NEW base \in Nat, NEW n,
         NEW factor \in Nat
  PROVE  NextDigit(st, d, outlen, base, n, factor) \in LoopState
<1>1. st.s \in Seq(Nat) /\ st.c \in Nat /\ st.i \in Nat /\ st.bad \in BOOLEAN
  BY DEF LoopState
<1>2. (st.c + d) % 256 \in Nat /\ ((st.c + d) * factor) % 256 \in Nat /\ st.i + 1 \in Nat
  <2>1. \A x, y \in Nat : x % 256 \in Nat /\ x * y \in Nat
    OBVIOUS
  <2> DEFINE x == st.c + d
  <2>2. x \in Nat
    BY <1>1
  <2> HIDE DEF x
  <2>3. x * factor \in Nat
    BY <2>1, <2>2
  <2>4. x % 256 \in Nat /\ (x * factor) % 256 \in Nat
    BY <2>1, <2>2, <2>3
  <2> QED BY <2>4, <1>1 DEF x
<1>3. Append(st.s, (st.c + d) % 256) \in Seq(Nat)
  BY <1>1, <1>2, AppendProperties
<1> DEFINE new == NextDigit(st, d, outlen, base, n, factor)
           app == Append(st.s, (st.c + d) % 256)
           c == ((st.c + d) * factor) % 256
<1>4. CASE st.bad \/ Len(st.s) = outlen
  <2>1. new = st
    BY <1>4 DEF NextDigit
  <2> QED BY <2>1
<1>5. CASE ~(st.bad \/ Len(st.s) = outlen) /\ d >= base
  <2>1. new = [st EXCEPT !.bad = TRUE]
    BY <1>5 DEF NextDigit
  <2> QED BY <2>1 DEF LoopState
<1>6. CASE ~(st.bad \/ Len(st.s) = outlen) /\ ~(d >= base) /\ st.i % n = n - 1
  <2>1. new = [st EXCEPT !.s = app, !.c = 0, !.i = @ + 1]
    BY <1>6 DEF NextDigit
  <2>2. app \in Seq(Nat)
    BY <1>3
  <2> HIDE DEF app
  <2>3. [st EXCEPT !.s = app, !.c = 0, !.i = @ + 1] \in LoopState
    BY <2>2, <1>2 DEF LoopState
  <2> QED BY <2>1, <2>3
<1>7. CASE ~(st.bad \/ Len(st.s) = outlen) /\ ~(d >= base) /\ st.i % n # n - 1
  <2>1. new = [st EXCEPT !.c = c, !.i = @ + 1]
    BY <1>7 DEF NextDigit
  <2>2. c \in Nat
    BY <1>2
  <2> HIDE DEF c
  <2>3. [st EXCEPT !.c = c, !.i = @ + 1] \in LoopState
    BY <2>2, <1>2 DEF LoopState
  <2> QED BY <2>1, <2>3
<1> QED BY <1>4, <1>5, <1>6, <1>7

RunsAs(f, input, outlen, base, n, factor) ==
  /\ f \in [0..Len(input) -> LoopState] /\ f[0] = LoopStart
  /\ \A k \in 1..Len(input) : f[k] = NextDigit(f[k - 1], input[k], outlen, base, n, factor)
  /\ DigitLoop(input, outlen, base, n, factor) = f[Len(input)]

\* The loop of str2val() takes one digit after the other.
LEMMA LoopRuns ==
  ASSUME NEW input \in Seq(Nat), NEW outlen \in Nat, NEW base \in Nat, NEW n, NEW factor \in Nat
  PROVE  \E f : RunsAs(f, input, outlen, base, n, factor)
<1> DEFINE len == Len(input)
           T == [x \in LoopState \X (1..len) |-> NextDigit(x[1], input[x[2]], outlen, base, n, factor)]
           Body(g) == [k \in 0..len |->
                         IF k = 0 THEN [s |-> <<>>, c |-> 0, i |-> 0, bad |-> FALSE]
                         ELSE NextDigit(g[k - 1], input[k], outlen, base, n, factor)]
           loop == CHOOSE g : g = Body(g)
<1>1. len \in Nat /\ \A k \in 1..len : input[k] \in Nat
  OBVIOUS
<1>2. LoopStart \in LoopState
  BY EmptySeq DEF LoopStart, LoopState
<1>3. T \in [LoopState \X (1..len) -> LoopState]
  BY <1>1, DigitType
<1>4. PICK f \in [0..len -> LoopState] : f[0] = LoopStart /\ \A k \in 1..len : f[k] = T[<<f[k - 1], k>>]
  <2> HIDE DEF T, len
  <2>1. Recursive(LoopState, len, LoopStart, T)
    BY <1>1, <1>2, <1>3, Recursion
  <2> QED BY <2>1 DEF Recursive
<1>5. f = Body(f)
  <2>1. ASSUME NEW k \in 1..len PROVE f[k] = NextDigit(f[k - 1], input[k], outlen, base, n, factor)
    <3>1. k - 1 \in 0..len
      BY <1>1
    <3>2. <<f[k - 1], k>> \in LoopState \X (1..len)
      BY <3>1, <1>4
    <3> QED BY <3>2, <1>4
  <2>2. \A k \in 0..len : k = 0 \/ k \in 1..len
    BY <1>1
  <2> QED BY <1>4, <2>1, <2>2 DEF LoopStart
<1>6. loop = Body(loop)
  <2> HIDE DEF Body
  <2> QED BY <1>5
<1>7. DigitLoop(input, outlen, base, n, factor) = loop[len]
  BY DEF DigitLoop
<1> HIDE DEF loop
<1>8. loop[0] = LoopStart /\ DOMAIN loop = 0..len
  BY <1>1, <1>6 DEF LoopStart
<1>9. ASSUME NEW k \in 1..len PROVE loop[k] = NextDigit(loop[k - 1], input[k], outlen, base, n, factor)
  <2>1. k \in 0..len /\ k # 0
    BY <1>1
  <2> QED BY <2>1, <1>6
<1>10. \A k \in 0..len : loop[k] \in LoopState
  <2> DEFINE S == {k \in 0..len : loop[k] \in LoopState}
  <2>1. 0 \in S
    BY <1>1, <1>2, <1>8
  <2>2. ASSUME NEW k \in 0..(len - 1), k \in S PROVE k + 1 \in S
    <3>1. k + 1 \in 1..len /\ k + 1 \in 0..len /\ (k + 1) - 1 = k /\ input[k + 1] \in Nat
      BY <1>1
    <3>2. loop[k + 1] = NextDigit(loop[k], input[k + 1], outlen, base, n, factor)
      BY <3>1, <1>9
    <3>3. loop[k + 1] \in LoopState
      <4>1. loop[k] \in LoopState
        BY <2>2
      <4>2. NextDigit(loop[k], input[k + 1], outlen, base, n, factor) \in LoopState
        <5> DEFINE st == loop[k]
                   d == input[k + 1]
        <5>1. st \in LoopState /\ d \in Nat
          BY <4>1, <3>1
        <5> HIDE DEF st, d
        <5>2. NextDigit(st, d, outlen, base, n, factor) \in LoopState
          BY <5>1, DigitType
        <5> QED BY <5>2 DEF st, d
      <4> QED BY <4>2, <3>2
    <3> QED BY <3>1, <3>3
  <2> HIDE DEF S
  <2>3. \A k \in 0..len : k \in S
    BY <1>1, <2>1, <2>2, Induct
  <2> QED BY <2>3 DEF S
<1>11. loop = [k \in 0..len |-> loop[k]]
  BY <1>6
<1>12. loop \in [0..len -> LoopState]
  BY <1>10, <1>11
<1>13. RunsAs(loop, input, outlen, base, n, factor)
  BY <1>7, <1>8, <1>9, <1>12 DEF RunsAs
<1> QED BY <1>13

\* What was read of a byte after r of its two digits.
Partial(d, j, r) ==
  IF r = 0 THEN 0 ELSE 16 * d[j + 1]

\* After k characters: whole bytes, and what was read of the next one.
Rest(st) == st.i - (2 * Len(st.s))
Whole(st, input, k, outlen) ==
  /\ Len(st.s) <= outlen /\ Rest(st) \in {0, 1} /\ (Len(st.s) = outlen => Rest(st) = 0)
  /\ IF Len(st.s) = outlen THEN st.i <= k ELSE st.i = k
Values(st, input) ==
  /\ \A b \in 1..Len(st.s) : st.s[b] = Byte(input, (b - 1) * 2)
  /\ st.c = Partial(input, 2 * Len(st.s), Rest(st))

HasRead(st, input, k, outlen) ==
  /\ st.bad => \E j \in 1..k : j <= 2 * outlen /\ input[j] >= 16
  /\ ~st.bad => /\ Whole(st, input, k, outlen) /\ Values(st, input)
                /\ \A j \in 1..st.i : input[j] < 16

\* The first digit of a byte.
LEMMA PartialMore ==
  ASSUME NEW input, NEW p \in Nat, NEW d \in Nat, d = input[p + 1], d < 16
  PROVE  ((Partial(input, p, 0) + d) * 16) % 256 = Partial(input, p, 1)
<1>1. (16 * d) % 256 = 16 * d /\ (0 + d) * 16 = 16 * d
  OBVIOUS
<1>2. Partial(input, p, 0) = 0 /\ Partial(input, p, 1) = 16 * input[p + 1]
  BY DEF Partial
<1> QED BY <1>1, <1>2

\* The last digit of a byte.
LEMMA PartialLast ==
  ASSUME NEW input, NEW p \in Nat, NEW d \in Nat, d = input[p + 2], d < 16,
         input[p + 1] \in Nat, input[p + 1] < 16
  PROVE  (Partial(input, p, 1) + d) % 256 = Byte(input, p)
<1>1. Partial(input, p, 1) = 16 * input[p + 1] /\ Byte(input, p) = (16 * input[p + 1]) + input[p + 2]
  BY DEF Partial, Byte
<1>2. ((16 * input[p + 1]) + d) % 256 = (16 * input[p + 1]) + d
  <2> DEFINE a == input[p + 1]
             x == (16 * a) + d
  <2>1. a \in 0..15 /\ d \in 0..15
    OBVIOUS
  <2> HIDE DEF a
  <2>2. x \in 0..255
    BY <2>1
  <2> HIDE DEF x
  <2>3. x % 256 = x
    BY <2>2
  <2> QED BY <2>3 DEF a, x
<1> QED BY <1>1, <1>2

\* Pairs of digits.
LEMMA Products ==
  ASSUME NEW a \in Nat, NEW b \in Nat
  PROVE  /\ 2 * a \in Nat /\ a * 2 = 2 * a /\ 2 * (a + 1) = (2 * a) + 2
         /\ a <= b <=> 2 * a <= 2 * b
         /\ a < b => (2 * a) + 2 <= 2 * b
OBVIOUS

\* What is over of whole bytes is the remainder.
LEMMA CountRest ==
  ASSUME NEW q \in Nat, NEW i \in Nat, NEW r, r = i - (2 * q), r \in {0, 1}
  PROVE  i % 2 = r
<1>1. i = (2 * q) + r /\ r \in 0..1
  OBVIOUS
<1> QED BY <1>1

\* Nothing is read once a digit was bad or the output is full.
LEMMA ReadNone ==
  ASSUME NEW st \in LoopState, NEW input, NEW k \in Nat \ {0}, NEW outlen \in Nat,
         HasRead(st, input, k - 1, outlen),
         st.bad \/ Len(st.s) = outlen
  PROVE  HasRead(NextDigit(st, input[k], outlen, 16, 2, 16), input, k, outlen)
<1>1. NextDigit(st, input[k], outlen, 16, 2, 16) = st
  BY DEF NextDigit
<1>2. \A j \in 1..(k - 1) : j \in 1..k
  OBVIOUS
<1>3. CASE st.bad
  BY <1>1, <1>2, <1>3 DEF HasRead
<1>4. CASE ~st.bad
  <2>1. st.i \in Nat /\ st.i <= k - 1 /\ Whole(st, input, k - 1, outlen)
    BY <1>4 DEF HasRead, Whole, LoopState
  <2>2. Whole(st, input, k, outlen)
    BY <1>4, <2>1 DEF Whole
  <2> QED BY <1>1, <1>4, <2>2 DEF HasRead
<1> QED BY <1>3, <1>4

\* What holds of a loop that goes on, with numbers for what its state says.
GoesOn(st, input, k, outlen, q, r) ==
  /\ Len(st.s) = q /\ q < outlen /\ st.i = k - 1 /\ k - 1 = (2 * q) + r /\ st.i % 2 = r
  /\ st.c = Partial(input, 2 * q, r)
  /\ \A j \in 1..(k - 1) : input[j] < 16
  /\ \A b \in 1..q : st.s[b] = Byte(input, (b - 1) * 2)

\* A loop that goes on has read q whole bytes and r digits of the next one.
LEMMA ReadSome ==
  ASSUME NEW st \in LoopState, NEW input, NEW k \in Nat \ {0}, NEW outlen \in Nat,
         HasRead(st, input, k - 1, outlen), ~st.bad, Len(st.s) # outlen
  PROVE  \E q \in Nat, r \in {0, 1} : GoesOn(st, input, k, outlen, q, r)
<1> DEFINE q == Len(st.s)
           i == st.i
           r == i - (2 * q)
<1>1. q \in Nat /\ i \in Nat
  BY DEF LoopState
<1>3. q <= outlen /\ r \in {0, 1} /\ i = k - 1
  BY DEF HasRead, Whole, Rest
<1>2. 2 * q \in Nat /\ i % 2 = r
  <2>1. r = i - (2 * q)
    OBVIOUS
  <2> HIDE DEF q, i, r
  <2>2. 2 * q \in Nat
    BY <1>1, Products
  <2>3. i % 2 = r
    BY <1>1, <1>3, <2>1, CountRest
  <2> QED BY <2>2, <2>3
<1>4. /\ st.c = Partial(input, 2 * q, r) /\ \A j \in 1..(k - 1) : input[j] < 16
      /\ \A b \in 1..q : st.s[b] = Byte(input, (b - 1) * 2)
  BY <1>3 DEF HasRead, Values, Rest
<1>5. q < outlen /\ k - 1 = (2 * q) + r
  BY <1>1, <1>2, <1>3
<1>6. GoesOn(st, input, k, outlen, q, r)
  BY <1>2, <1>3, <1>4, <1>5 DEF GoesOn
<1> HIDE DEF q, r
<1> QED BY <1>1, <1>3, <1>6

\* One more digit.
LEMMA ReadDigit ==
  ASSUME NEW st \in LoopState, NEW input, NEW k \in Nat \ {0}, NEW outlen \in Nat,
         NEW q \in Nat, NEW r \in {0, 1}, NEW d \in Nat, d = input[k], ~st.bad,
         GoesOn(st, input, k, outlen, q, r), \A j \in 1..(k - 1) : input[j] \in Nat
  PROVE  HasRead(NextDigit(st, d, outlen, 16, 2, 16), input, k, outlen)
<1> DEFINE new == NextDigit(st, d, outlen, 16, 2, 16)
           p == 2 * q
<1>0. /\ st.s \in Seq(Nat) /\ st.c \in Nat /\ st.i \in Nat /\ st.bad = FALSE
      /\ Len(st.s) = q /\ q < outlen /\ Len(st.s) # outlen
  BY DEF LoopState, GoesOn
<1>1. /\ p \in Nat /\ 2 * (q + 1) = p + 2 /\ p + 2 <= 2 * outlen
      /\ st.s \in Seq(Nat) /\ st.c \in Nat /\ st.i \in Nat /\ st.bad = FALSE
      /\ Len(st.s) = q /\ q < outlen /\ Len(st.s) # outlen
  BY <1>0, Products
<1>2. 2 * outlen \in Nat
  BY Products
<1>3. /\ st.i = k - 1 /\ k - 1 = p + r /\ st.i % 2 = r /\ st.c = Partial(input, p, r)
      /\ \A b \in 1..q : st.s[b] = Byte(input, (b - 1) * 2)
  BY DEF GoesOn
<1>4. \A j \in 1..(k - 1) : input[j] \in Nat /\ input[j] < 16
  BY DEF GoesOn
<1> HIDE DEF p
<1>5. k <= 2 * outlen /\ k \in 1..k /\ r \in Nat /\ r <= 1
  BY <1>1, <1>2, <1>3
<1>6. \A j \in 1..k : j = k \/ j \in 1..(k - 1)
  OBVIOUS
<1>7. CASE d >= 16
  <2>1. new = [st EXCEPT !.bad = TRUE]
    BY <1>1, <1>7 DEF NextDigit
  <2>2. new.bad
    BY <2>1 DEF LoopState
  <2> HIDE DEF new
  <2>3. HasRead(new, input, k, outlen)
    BY <2>2, <1>5, <1>7 DEF HasRead
  <2> QED BY <2>3 DEF new
<1>8. CASE d < 16 /\ r = 1
  <2> DEFINE x == (st.c + d) % 256
  <2>0. ~(st.bad \/ Len(st.s) = outlen) /\ ~(d >= 16) /\ st.i % 2 = 1
    BY <1>1, <1>3, <1>8
  <2>1. new = [st EXCEPT !.s = Append(@, x), !.c = 0, !.i = @ + 1]
    BY <2>0 DEF NextDigit
  <2>2. x = Byte(input, p)
    <3>1. d = input[p + 2] /\ input[p + 1] \in Nat /\ input[p + 1] < 16
      <4>1. k = p + 2 /\ p + 1 \in 1..(k - 1)
        BY <1>1, <1>3, <1>8
      <4> QED BY <4>1, <1>4
    <3>2. (Partial(input, p, 1) + d) % 256 = Byte(input, p)
      BY <3>1, <1>1, <1>8, PartialLast
    <3> QED BY <3>2, <1>3, <1>8
  <2>3. x \in Nat
    <3>1. \A y \in Nat : y % 256 \in Nat
      OBVIOUS
    <3>2. st.c + d \in Nat
      BY <1>1
    <3> QED BY <3>1, <3>2
  <2> HIDE DEF x
  <2>4. /\ Append(st.s, x) \in Seq(Nat) /\ Len(Append(st.s, x)) = q + 1
        /\ \A b \in 1..q : Append(st.s, x)[b] = st.s[b]
        /\ Append(st.s, x)[q + 1] = x
    <3>1. /\ Append(st.s, x) \in Seq(Nat) /\ Len(Append(st.s, x)) = Len(st.s) + 1
          /\ \A b \in 1..Len(st.s) : Append(st.s, x)[b] = st.s[b]
          /\ Append(st.s, x)[Len(st.s) + 1] = x
      <4>1. PICK t : t = st.s
        OBVIOUS
      <4>2. t \in Seq(Nat)
        BY <1>1, <4>1
      <4>3. /\ Append(t, x) \in Seq(Nat) /\ Len(Append(t, x)) = Len(t) + 1
            /\ \A b \in 1..Len(t) : Append(t, x)[b] = t[b]
            /\ Append(t, x)[Len(t) + 1] = x
        BY <4>2, <2>3, AppendProperties
      <4> QED BY <4>1, <4>3
    <3> QED BY <3>1, <1>1
  <2>5. new.s = Append(st.s, x) /\ new.c = 0 /\ new.i = k /\ new.bad = FALSE
    <3>1. st.i + 1 = k
      BY <1>3
    <3> QED BY <1>1, <2>1, <3>1 DEF LoopState
  <2> HIDE DEF new
  <2>6. Len(new.s) = q + 1 /\ Rest(new) = 0
    <3>1. Len(new.s) = q + 1 /\ Rest(new) = k - (2 * (q + 1))
      BY <2>4, <2>5 DEF Rest
    <3>2. k = p + 2
      BY <1>1, <1>3, <1>8
    <3> QED BY <3>1, <3>2, <1>1
  <2>7. Whole(new, input, k, outlen)
    BY <1>1, <2>5, <2>6 DEF Whole
  <2>8. Values(new, input)
    <3>1. ASSUME NEW b \in 1..(q + 1) PROVE new.s[b] = Byte(input, (b - 1) * 2)
      <4>1. CASE b \in 1..q
        BY <4>1, <1>3, <2>4, <2>5
      <4>2. CASE b = q + 1
        <5>1. (b - 1) * 2 = p
          BY <4>2, Products DEF p
        <5> QED BY <4>2, <5>1, <2>2, <2>4, <2>5
      <4> QED BY <4>1, <4>2
    <3>2. new.c = Partial(input, 2 * Len(new.s), Rest(new))
      BY <2>5, <2>6 DEF Partial
    <3> QED BY <3>1, <3>2, <2>6 DEF Values
  <2>9. \A j \in 1..new.i : input[j] < 16
    BY <1>4, <1>6, <1>8, <2>5
  <2>10. HasRead(new, input, k, outlen)
    BY <2>5, <2>7, <2>8, <2>9 DEF HasRead
  <2> QED BY <2>10 DEF new
<1>9. CASE d < 16 /\ r # 1
  <2> DEFINE x == ((st.c + d) * 16) % 256
  <2>0. ~(st.bad \/ Len(st.s) = outlen) /\ ~(d >= 16) /\ st.i % 2 # 1
    <3>1. ~(d >= 16)
      BY <1>9
    <3> QED BY <3>1, <1>1, <1>3, <1>9
  <2>1. new = [st EXCEPT !.c = x, !.i = @ + 1]
    BY <2>0 DEF NextDigit
  <2>2. x = Partial(input, p, r + 1)
    <3>1. r = 0 /\ d = input[p + 1]
      BY <1>1, <1>3, <1>5, <1>9
    <3>2. ((Partial(input, p, 0) + d) * 16) % 256 = Partial(input, p, 1)
      BY <3>1, <1>1, <1>9, PartialMore
    <3> QED BY <3>1, <3>2, <1>3
  <2> HIDE DEF x
  <2>3. new.s = st.s /\ new.c = x /\ new.i = k /\ new.bad = FALSE
    <3>1. st.i + 1 = k
      BY <1>3
    <3> QED BY <1>1, <2>1, <3>1 DEF LoopState
  <2> HIDE DEF new
  <2>4. Len(new.s) = q /\ Rest(new) = r + 1
    <3>1. Len(new.s) = q /\ Rest(new) = k - p
      BY <1>1, <2>3 DEF Rest, p
    <3>2. k = p + r + 1
      BY <1>1, <1>3
    <3> QED BY <3>1, <3>2, <1>1, <1>5
  <2>5. Whole(new, input, k, outlen)
    BY <1>1, <1>5, <1>9, <2>3, <2>4 DEF Whole
  <2>6. Values(new, input)
    BY <1>3, <2>2, <2>3, <2>4 DEF Values, p
  <2>7. \A j \in 1..new.i : input[j] < 16
    BY <1>4, <1>6, <1>9, <2>3
  <2>8. HasRead(new, input, k, outlen)
    BY <2>3, <2>5, <2>6, <2>7 DEF HasRead
  <2> QED BY <2>8 DEF new
<1> QED BY <1>1, <1>7, <1>8, <1>9

\* Whatever the next digit is, the bytes read so far remain those promised.
LEMMA ReadMore ==
  ASSUME NEW st \in LoopState, NEW input \in Seq(Nat), NEW k \in 1..Len(input), NEW outlen \in Nat,
         HasRead(st, input, k - 1, outlen)
  PROVE  HasRead(NextDigit(st, input[k], outlen, 16, 2, 16), input, k, outlen)
<1>1. k \in Nat \ {0} /\ input[k] \in Nat
  OBVIOUS
<1>2. CASE st.bad \/ Len(st.s) = outlen
  BY <1>1, <1>2, ReadNone
<1>3. CASE ~st.bad /\ Len(st.s) # outlen
  <2>1. PICK q \in Nat, r \in {0, 1} : GoesOn(st, input, k, outlen, q, r)
    BY <1>1, <1>3, ReadSome
  <2>2. \A j \in 1..(k - 1) : input[j] \in Nat
    OBVIOUS
  <2> DEFINE d == input[k]
  <2>3. d \in Nat /\ d = input[k]
    BY <1>1
  <2> HIDE DEF d
  <2>4. HasRead(NextDigit(st, d, outlen, 16, 2, 16), input, k, outlen)
    BY <1>1, <1>3, <2>1, <2>2, <2>3, ReadDigit
  <2> QED BY <2>4 DEF d
<1> QED BY <1>2, <1>3

\* Hence they are at the end of the text.
LEMMA ReadAll ==
  ASSUME NEW input \in Seq(Nat), NEW outlen \in Nat
  PROVE  /\ DigitLoop(input, outlen, 16, 2, 16) \in LoopState
         /\ HasRead(DigitLoop(input, outlen, 16, 2, 16), input, Len(input), outlen)
<1> DEFINE len == Len(input)
<1>0. len \in Nat
  OBVIOUS
<1>a. PICK f : RunsAs(f, input, outlen, 16, 2, 16)
  BY LoopRuns
<1>2. /\ f \in [0..len -> LoopState] /\ f[0] = LoopStart
      /\ \A k \in 1..len : f[k] = NextDigit(f[k - 1], input[k], outlen, 16, 2, 16)
      /\ DigitLoop(input, outlen, 16, 2, 16) = f[len]
  BY <1>a DEF RunsAs
<1> DEFINE S == {k \in 0..len : HasRead(f[k], input, k, outlen)}
<1>3. 0 \in S
  <2>1. LoopStart.bad = FALSE /\ LoopStart.s = <<>> /\ LoopStart.i = 0 /\ LoopStart.c = 0 /\ Len(<<>>) = 0
    BY DEF LoopStart
  <2>2. Len(LoopStart.s) = 0
    BY <2>1
  <2>3. Rest(LoopStart) = 0
    <3>1. Rest(LoopStart) = 0 - (2 * 0)
      BY <2>1, <2>2, Zenon DEF Rest
    <3> QED BY <3>1
  <2>4. Whole(LoopStart, input, 0, outlen)
    BY <2>1, <2>2, <2>3 DEF Whole
  <2>5. Values(LoopStart, input)
    BY <2>1, <2>2, <2>3 DEF Values, Partial
  <2>6. HasRead(LoopStart, input, 0, outlen)
    BY <2>1, <2>4, <2>5 DEF HasRead
  <2> QED BY <1>0, <1>2, <2>6
<1>4. ASSUME NEW k \in 0..(len - 1), k \in S PROVE k + 1 \in S
  <2>1. k + 1 \in 1..len /\ k + 1 \in 0..len /\ (k + 1) - 1 = k /\ k \in 0..len
    BY <1>0
  <2> DEFINE m == k + 1
             st == f[k]
  <2>2. m \in 1..Len(input) /\ m - 1 = k /\ st \in LoopState
    BY <1>2, <2>1
  <2>3. HasRead(st, input, m - 1, outlen)
    BY <1>4, <2>1
  <2> HIDE DEF m, st
  <2>4. HasRead(NextDigit(st, input[m], outlen, 16, 2, 16), input, m, outlen)
    BY <2>2, <2>3, ReadMore
  <2>5. f[m] = NextDigit(st, input[m], outlen, 16, 2, 16)
    BY <1>2, <2>1, <2>2 DEF m, st
  <2> QED BY <2>1, <2>4, <2>5 DEF m
<1> HIDE DEF S, len
<1>5. len \in S
  <2>1. \A k \in 0..len : k \in S
    BY <1>0, <1>3, <1>4, Induct
  <2> QED BY <1>0, <2>1
<1>6. f[len] \in LoopState /\ HasRead(f[len], input, len, outlen)
  BY <1>0, <1>2, <1>5 DEF S
<1> QED BY <1>2, <1>6 DEF len

\* The lesser of two numbers.
LEMMA MinTwo == \A a, b \in Nat : Min({a, b}) = IF a <= b THEN a ELSE b
<1> SUFFICES ASSUME NEW a \in Nat, NEW b \in Nat PROVE Min({a, b}) = IF a <= b THEN a ELSE b
  OBVIOUS
<1> DEFINE c == IF a <= b THEN a ELSE b
<1>1. c \in {a, b} /\ \A y \in {a, b} : c <= y
  OBVIOUS
<1>2. \A x \in {a, b} : (\A y \in {a, b} : x <= y) => x = c
  OBVIOUS
<1> HIDE DEF c
<1>3. Min({a, b}) = c
  BY <1>1, <1>2 DEF Min
<1> QED BY <1>3 DEF c

\* The digits with the zero that makes their number even.
LEMMA PaddedIs ==
  ASSUME NEW input \in Seq(Nat)
  PROVE  LET all == Padded(input) IN
         /\ all \in Seq(Nat)
         /\ \E m \in Nat : /\ Len(all) = 2 * m /\ Len(all) \div 2 = m
                           /\ Len(input) <= 2 * m /\ 2 * m < Len(input) + 2
         /\ \A j \in 1..Len(input) : all[j] = input[j]
         /\ \A j \in (Len(input) + 1)..Len(all) : all[j] = 0
<1> DEFINE len == Len(input)
           pad == len % 2
           zeros == [i \in 1..pad |-> 0]
           all == input \o zeros
<1>1. len \in Nat
  OBVIOUS
<1>2. pad \in {0, 1} /\ \E m \in Nat : len + pad = 2 * m
  <2> HIDE DEF len
  <2>1. PICK y \in Nat : y = len
    BY <1>1
  <2>2. PICK q \in Nat, x \in 0..1 : y = (2 * q) + x /\ y % 2 = x
    <3>1. y \div 2 \in Nat /\ y % 2 \in 0..1 /\ y = (2 * (y \div 2)) + (y % 2)
      OBVIOUS
    <3> QED BY <3>1
  <2>3. len = (2 * q) + x /\ pad = x
    BY <2>1, <2>2
  <2>4. PICK m \in Nat : m = q + x
    BY <2>3
  <2>5. pad \in {0, 1} /\ len + pad = 2 * m
    BY <2>3, <2>4
  <2> QED BY <2>5
<1>3. PICK m \in Nat : len + pad = 2 * m
  BY <1>2
<1> HIDE DEF pad
<1>4. zeros \in Seq(Nat) /\ Len(zeros) = pad /\ \A i \in 1..pad : zeros[i] = 0
  BY <1>2
<1> HIDE DEF zeros
<1>5. /\ all \in Seq(Nat) /\ Len(all) = len + pad
      /\ \A j \in 1..(len + pad) : all[j] = IF j <= len THEN input[j] ELSE zeros[j - len]
  BY <1>4, ConcatProperties
<1>6. Padded(input) = all
  BY DEF Padded, zeros, pad
<1>7. (2 * m) \div 2 = m
  BY <1>3
<1> HIDE DEF all, len
<1>8. \A j \in 1..len : all[j] = input[j]
  BY <1>1, <1>2, <1>5
<1>9. \A j \in (len + 1)..(len + pad) : all[j] = 0
  <2> TAKE j \in (len + 1)..(len + pad)
  <2>1. j \in 1..(len + pad) /\ ~(j <= len) /\ j - len \in 1..pad
    BY <1>1, <1>2
  <2> QED BY <2>1, <1>4, <1>5
<1>10. len <= 2 * m /\ 2 * m < len + 2
  BY <1>1, <1>2, <1>3
<1> QED BY <1>3, <1>5, <1>6, <1>7, <1>8, <1>9, <1>10 DEF len

PaddedTo(input, all, m) ==
  /\ all \in Seq(Nat) /\ m \in Nat /\ Len(all) = 2 * m /\ Len(all) \div 2 = m
  /\ Len(input) <= 2 * m /\ 2 * m < Len(input) + 2
  /\ \A j \in 1..Len(input) : all[j] = input[j]
  /\ \A j \in (Len(input) + 1)..Len(all) : all[j] = 0

AsPromised(input, outlen, all, m, few) ==
  /\ PaddedTo(input, all, m) /\ few = IF m <= outlen THEN m ELSE outlen
  /\ Promised(input, outlen) =
       IF \E i \in 1..(few * 2) : i <= Len(input) /\ input[i] >= 16 THEN <<>>
       ELSE [b \in 1..few |-> Byte(all, (b - 1) * 2)]

\* What the comment promises, with names for its parts.
LEMMA PromisedIs ==
  ASSUME NEW input \in Seq(Nat), NEW outlen \in Nat
  PROVE  \E all, m, few : AsPromised(input, outlen, all, m, few)
<1>1. PICK all : all = Padded(input)
  OBVIOUS
<1>2. PICK m : PaddedTo(input, all, m)
  BY <1>1, PaddedIs DEF PaddedTo
<1>3. m \in Nat /\ Len(all) \div 2 = m
  BY <1>2 DEF PaddedTo
<1>4. PICK few : few = IF m <= outlen THEN m ELSE outlen
  OBVIOUS
<1>5. Min({Len(all) \div 2, outlen}) = few
  BY <1>3, <1>4, MinTwo
<1>6. Promised(input, outlen) =
        IF \E i \in 1..(few * 2) : i <= Len(input) /\ input[i] >= 16 THEN <<>>
        ELSE [b \in 1..few |-> Byte(all, (b - 1) * 2)]
  BY <1>1, <1>5 DEF Promised
<1>7. AsPromised(input, outlen, all, m, few)
  BY <1>2, <1>4, <1>6 DEF AsPromised
<1> QED BY <1>7

\* A whole byte is the same with the padding behind it.
LEMMA SameByte ==
  ASSUME NEW input \in Seq(Nat), NEW all, NEW m, PaddedTo(input, all, m),
         NEW b \in Nat \ {0}, 2 * b <= Len(input)
  PROVE  Byte(all, (b - 1) * 2) = Byte(input, (b - 1) * 2)
<1>1. Len(input) \in Nat /\ \A j \in 1..Len(input) : all[j] = input[j]
  BY DEF PaddedTo
<1>2. PICK p \in Nat : p = (b - 1) * 2
  OBVIOUS
<1>3. p + 1 \in 1..Len(input) /\ p + 2 \in 1..Len(input)
  BY <1>1, <1>2
<1>4. Byte(all, p) = Byte(input, p)
  BY <1>1, <1>3 DEF Byte
<1> QED BY <1>2, <1>4

\* The byte that the digits end inside of.
LEMMA LastByte ==
  ASSUME NEW input \in Seq(Nat), NEW all, NEW m, PaddedTo(input, all, m),
         NEW p \in Nat, Len(all) = p + 2, Len(input) = p + 1
  PROVE  Byte(all, p) = Partial(input, p, 1)
<1>1. /\ \A j \in 1..Len(input) : all[j] = input[j]
      /\ \A j \in (Len(input) + 1)..Len(all) : all[j] = 0
  BY DEF PaddedTo
<1>2. p + 1 \in 1..Len(input) /\ p + 2 \in (Len(input) + 1)..Len(all)
  OBVIOUS
<1>3. all[p + 1] = input[p + 1] /\ all[p + 2] = 0 /\ input[p + 1] \in Nat
  BY <1>1, <1>2
<1> QED BY <1>3 DEF Byte, Partial

\* What of the digits is read in all.
Outcome(st, input, outlen, all, m, few) ==
  IF \E i \in 1..(few * 2) : i <= Len(input) /\ input[i] >= 16 THEN Converted(st, 2, outlen) = <<>>
  ELSE /\ Converted(st, 2, outlen) \in Seq(Nat) /\ Len(Converted(st, 2, outlen)) = few
       /\ \A b \in 1..few : Converted(st, 2, outlen)[b] = Byte(all, (b - 1) * 2)

\* A bad digit among those read: nothing is converted, as promised.
LEMMA BadDigit ==
  ASSUME NEW input \in Seq(Nat), NEW outlen \in Nat,
         NEW st \in LoopState, HasRead(st, input, Len(input), outlen), st.bad,
         NEW all, NEW m, PaddedTo(input, all, m), NEW few, few = IF m <= outlen THEN m ELSE outlen
  PROVE  Outcome(st, input, outlen, all, m, few)
<1>1. PICK j \in 1..Len(input) : j <= 2 * outlen /\ input[j] >= 16
  BY DEF HasRead
<1>2. m \in Nat /\ Len(input) <= 2 * m /\ few \in Nat
  BY DEF PaddedTo
<1>3. 2 * few \in Nat /\ few * 2 = 2 * few /\ (few = m \/ few = outlen)
  BY <1>2, Products
<1>4. j \in 1..(few * 2)
  <2>1. 2 * m \in Nat /\ 2 * outlen \in Nat /\ Len(input) \in Nat
    BY <1>2, Products
  <2> QED BY <1>1, <1>2, <1>3, <2>1
<1>5. j <= Len(input)
  OBVIOUS
<1>6. Converted(st, 2, outlen) = <<>>
  BY DEF Converted
<1> QED BY <1>1, <1>4, <1>5, <1>6 DEF Outcome

\* The output is full.
LEMMA FullOutput ==
  ASSUME NEW input \in Seq(Nat), NEW outlen \in Nat,
         NEW st \in LoopState, HasRead(st, input, Len(input), outlen), ~st.bad,
         Len(st.s) = outlen,
         NEW all, NEW m, PaddedTo(input, all, m), NEW few, few = IF m <= outlen THEN m ELSE outlen
  PROVE  Outcome(st, input, outlen, all, m, few)
<1>1. /\ Rest(st) = 0 /\ st.i <= Len(input)
      /\ \A b \in 1..outlen : st.s[b] = Byte(input, (b - 1) * 2)
      /\ \A j \in 1..st.i : input[j] < 16
  BY DEF HasRead, Whole, Values
<1>2. m \in Nat /\ Len(input) <= 2 * m /\ Len(input) \in Nat
  BY DEF PaddedTo
<1>3. /\ 2 * outlen \in Nat /\ outlen * 2 = 2 * outlen /\ 2 * m \in Nat
      /\ outlen <= m <=> 2 * outlen <= 2 * m
  BY <1>2, Products
<1>4. st.i = 2 * outlen /\ st.i \in Nat
  <2>1. st.i \in Nat /\ st.i - (2 * outlen) = 0
    BY <1>1 DEF Rest, LoopState
  <2> QED BY <2>1, <1>3
<1>5. few = outlen
  BY <1>1, <1>2, <1>3, <1>4
<1>6. Converted(st, 2, outlen) = st.s /\ st.s \in Seq(Nat)
  BY DEF Converted, LoopState
<1>7. ~(\E i \in 1..(few * 2) : i <= Len(input) /\ input[i] >= 16)
  <2> SUFFICES ASSUME NEW i \in 1..(few * 2), i <= Len(input) PROVE ~(input[i] >= 16)
    OBVIOUS
  <2>1. i \in 1..st.i
    BY <1>3, <1>4, <1>5
  <2>2. input[i] < 16
    BY <1>1, <2>1
  <2>3. input[i] \in Nat
    BY <1>2
  <2> QED BY <2>2, <2>3
<1>8. ASSUME NEW b \in 1..few PROVE st.s[b] = Byte(all, (b - 1) * 2)
  <2>1. b \in Nat \ {0} /\ b <= outlen
    BY <1>5
  <2>2. 2 * b <= Len(input)
    <3>1. 2 * b \in Nat /\ 2 * b <= 2 * outlen
      BY <2>1, Products
    <3> QED BY <3>1, <1>1, <1>2, <1>3, <1>4
  <2>3. Byte(all, (b - 1) * 2) = Byte(input, (b - 1) * 2)
    <3>1. b \in Nat \ {0}
      BY <2>1
    <3> QED BY <3>1, <2>2, SameByte, Zenon
  <2>4. b \in 1..outlen
    BY <1>5
  <2>5. st.s[b] = Byte(input, (b - 1) * 2)
    BY <2>4, <1>1
  <2> QED BY <2>3, <2>5
<1> QED BY <1>5, <1>6, <1>7, <1>8 DEF Outcome

\* There is room left: all digits were read.
LEMMA RoomLeft ==
  ASSUME NEW input \in Seq(Nat), NEW outlen \in Nat,
         NEW st \in LoopState, HasRead(st, input, Len(input), outlen), ~st.bad,
         Len(st.s) # outlen,
         NEW all, NEW m, PaddedTo(input, all, m), NEW few, few = IF m <= outlen THEN m ELSE outlen
  PROVE  Outcome(st, input, outlen, all, m, few)
<1>1. PICK q \in Nat, r \in Int : q = Len(st.s) /\ r = Rest(st)
  <2>1. Len(st.s) \in Nat /\ st.i \in Nat
    BY DEF LoopState
  <2>2. 2 * Len(st.s) \in Nat
    BY <2>1, Products
  <2> QED BY <2>1, <2>2 DEF Rest
<1>2. /\ q < outlen /\ r \in {0, 1} /\ st.i = Len(input) /\ Len(input) \in Nat
      /\ \A b \in 1..q : st.s[b] = Byte(input, (b - 1) * 2)
      /\ st.c = Partial(input, 2 * q, r)
      /\ \A j \in 1..Len(input) : input[j] < 16
  <2>1. Whole(st, input, Len(input), outlen) /\ Values(st, input) /\ \A j \in 1..st.i : input[j] < 16
    BY DEF HasRead
  <2>2. q < outlen /\ r \in {0, 1} /\ st.i = Len(input) /\ Len(input) \in Nat
    BY <1>1, <2>1 DEF Whole
  <2> QED BY <1>1, <2>1, <2>2 DEF Values
<1>3. 2 * q \in Nat /\ 2 * (q + 1) = (2 * q) + 2 /\ Len(input) = (2 * q) + r
  <2>1. 2 * q \in Nat /\ 2 * (q + 1) = (2 * q) + 2
    BY Products
  <2>2. Len(input) - (2 * q) = r
    BY <1>1, <1>2 DEF Rest
  <2> QED BY <2>1, <2>2, <1>2
<1>4. Len(input) % 2 = r
  <2>1. r = Len(input) - (2 * q)
    BY <1>2, <1>3
  <2> QED BY <2>1, <1>2, CountRest
<1>5. m \in Nat /\ Len(input) <= 2 * m /\ 2 * m < Len(input) + 2
  BY DEF PaddedTo
<1>6. m = IF r = 0 THEN q ELSE q + 1
  <2>1. PICK p \in Nat, x \in Nat : p = 2 * q /\ x = 2 * m
    BY <1>3, <1>5, Products
  <2>2. p + r <= x /\ x < p + r + 2
    BY <1>3, <1>5, <2>1
  <2> QED BY <2>1, <2>2, <1>2, <1>5
<1>7. few = m /\ few * 2 = 2 * m /\ few \in Nat
  <2>1. m <= outlen
    BY <1>2, <1>5, <1>6
  <2> QED BY <2>1, <1>5, Products
<1>8. ~(\E i \in 1..(few * 2) : i <= Len(input) /\ input[i] >= 16)
  <2> SUFFICES ASSUME NEW i \in 1..(few * 2), i <= Len(input) PROVE ~(input[i] >= 16)
    OBVIOUS
  <2>0. 2 * m \in Nat
    BY <1>5, Products
  <2>1. i \in 1..Len(input)
    BY <1>7, <2>0
  <2>2. input[i] < 16 /\ input[i] \in Nat
    BY <1>2, <2>1
  <2> QED BY <2>2
<1>9. ASSUME NEW b \in 1..q PROVE st.s[b] = Byte(all, (b - 1) * 2)
  <2>1. b \in Nat \ {0} /\ b <= q
    OBVIOUS
  <2>2. 2 * b <= Len(input)
    <3>1. 2 * b \in Nat /\ 2 * b <= 2 * q
      BY <2>1, Products
    <3> QED BY <3>1, <1>2, <1>3
  <2>3. Byte(all, (b - 1) * 2) = Byte(input, (b - 1) * 2)
    BY <2>1, <2>2, SameByte
  <2> QED BY <2>3, <1>2
<1>10. CASE r = 0
  <2>1. few = q /\ st.i % 2 = 0
    BY <1>2, <1>4, <1>6, <1>7, <1>10
  <2>2. Converted(st, 2, outlen) = st.s /\ st.s \in Seq(Nat)
    BY <2>1 DEF Converted, LoopState
  <2> QED BY <1>1, <1>8, <1>9, <2>1, <2>2 DEF Outcome
<1>11. CASE r # 0
  <2>1. few = q + 1 /\ m = q + 1 /\ st.i % 2 # 0
    BY <1>2, <1>4, <1>6, <1>7, <1>11
  <2>2. Converted(st, 2, outlen) = Append(st.s, st.c) /\ st.s \in Seq(Nat) /\ st.c \in Nat
    BY <2>1, <1>1, <1>2 DEF Converted, LoopState
  <2>3. r = 1
    BY <1>2, <1>11
  <2>4. Byte(all, 2 * q) = st.c
    <3>1. PICK p \in Nat : p = 2 * q
      BY <1>3
    <3>2. Len(all) = p + 2
      BY <3>1, <2>1, <1>3 DEF PaddedTo
    <3>3. Len(input) = p + 1
      BY <3>1, <1>3, <2>3
    <3>4. Byte(all, p) = Partial(input, p, 1)
      BY <3>1, <3>2, <3>3, LastByte
    <3> QED BY <3>1, <3>4, <2>3, <1>2
  <2>5. /\ Append(st.s, st.c) \in Seq(Nat) /\ Len(Append(st.s, st.c)) = q + 1
        /\ \A b \in 1..q : Append(st.s, st.c)[b] = st.s[b]
        /\ Append(st.s, st.c)[q + 1] = st.c
    BY <1>1, <2>2, AppendProperties
  <2>6. ASSUME NEW b \in 1..few PROVE Append(st.s, st.c)[b] = Byte(all, (b - 1) * 2)
    <3>1. CASE b \in 1..q
      BY <3>1, <1>9, <2>5
    <3>2. CASE b = q + 1
      <4>1. (b - 1) * 2 = 2 * q
        BY <3>2, Products
      <4> QED BY <3>2, <4>1, <2>4, <2>5
    <3>3. b \in 1..q \/ b = q + 1
      BY <2>1
    <3> QED BY <3>1, <3>2, <3>3
  <2>7. Converted(st, 2, outlen) \in Seq(Nat) /\ Len(Converted(st, 2, outlen)) = few
    BY <2>1, <2>2, <2>5
  <2> QED BY <1>8, <2>2, <2>6, <2>7 DEF Outcome
<1> QED BY <1>10, <1>11

\* str2val() for hexadecimal digits.
LEMMA ConvertedAsPromised ==
  ASSUME NEW input \in Seq(Nat), NEW outlen \in Nat
  PROVE  Converted(DigitLoop(input, outlen, 16, 2, 16), 2, outlen) = Promised(input, outlen)
<1>2. PICK st : st = DigitLoop(input, outlen, 16, 2, 16)
  OBVIOUS
<1>3. st \in LoopState /\ HasRead(st, input, Len(input), outlen)
  BY <1>2, ReadAll
<1>a. PICK all, m, few : AsPromised(input, outlen, all, m, few)
  BY PromisedIs
<1>4. /\ PaddedTo(input, all, m)
      /\ few = IF m <= outlen THEN m ELSE outlen
      /\ Promised(input, outlen) =
           IF \E i \in 1..(few * 2) : i <= Len(input) /\ input[i] >= 16 THEN <<>>
           ELSE [b \in 1..few |-> Byte(all, (b - 1) * 2)]
  BY <1>a DEF AsPromised
<1>5. Outcome(st, input, outlen, all, m, few)
  BY <1>3, <1>4, BadDigit, FullOutput, RoomLeft
<1>6. CASE \E i \in 1..(few * 2) : i <= Len(input) /\ input[i] >= 16
  BY <1>2, <1>4, <1>5, <1>6 DEF Outcome
<1>7. CASE ~ \E i \in 1..(few * 2) : i <= Len(input) /\ input[i] >= 16
  <2> DEFINE got == Converted(st, 2, outlen)
  <2>1. got \in Seq(Nat) /\ Len(got) = few /\ \A b \in 1..few : got[b] = Byte(all, (b - 1) * 2)
    BY <1>5, <1>7 DEF Outcome
  <2> HIDE DEF got
  <2>2. DOMAIN got = 1..few /\ got = [b \in DOMAIN got |-> got[b]]
    BY <2>1
  <2>3. got = [b \in 1..few |-> Byte(all, (b - 1) * 2)]
    BY <2>1, <2>2
  <2> QED BY <1>2, <1>4, <1>7, <2>3 DEF got
<1> QED BY <1>6, <1>7

\* str2val() converts hexadecimal digits as promised.
LEMMA DigitsAreExact == ParseAssumption => DigitsExact
<1> SUFFICES ASSUME ParseAssumption PROVE DigitsExact
  OBVIOUS
<1> SUFFICES ASSUME NEW input \in Texts(Digits \union {NoDigit}), NEW outlen \in Buffers
             PROVE  Hex(input, outlen) = Promised(input, outlen)
  BY DEF DigitsExact
<1>1. outlen \in Nat
  BY DEF ParseAssumption
<1>2. input \in Seq(Nat)
  <2>1. Digits \union {NoDigit} \subseteq Nat /\ MaxText \in Nat
    BY DEF ParseAssumption, NoDigit
  <2>2. PICK n \in 0..MaxText : input \in [1..n -> Digits \union {NoDigit}]
    BY DEF Texts
  <2>3. n \in Nat /\ input \in [1..n -> Nat]
    BY <2>1, <2>2
  <2> QED BY <2>3
<1> QED BY <1>1, <1>2, ConvertedAsPromised DEF Hex

Subnet(s, t, bits) == s \in Nat /\ t \in Nat /\ s = 2^(32 - bits) /\ s >= 4 /\ s * t = Span

\* The sizes of subnets: powers of two that divide the span.
LEMMA SubnetSize ==
  ASSUME NEW bits \in 16..30
  PROVE  \E s, t : Subnet(s, t, bits)
<1>1. CASE bits = 16
  <2>1. Subnet(65536, 1, bits)
    BY <1>1 DEF Subnet, Span
  <2> QED BY <2>1
<1>2. CASE bits = 17
  <2>1. Subnet(32768, 2, bits)
    BY <1>2 DEF Subnet, Span
  <2> QED BY <2>1
<1>3. CASE bits = 18
  <2>1. Subnet(16384, 4, bits)
    BY <1>3 DEF Subnet, Span
  <2> QED BY <2>1
<1>4. CASE bits = 19
  <2>1. Subnet(8192, 8, bits)
    BY <1>4 DEF Subnet, Span
  <2> QED BY <2>1
<1>5. CASE bits = 20
  <2>1. Subnet(4096, 16, bits)
    BY <1>5 DEF Subnet, Span
  <2> QED BY <2>1
<1>6. CASE bits = 21
  <2>1. Subnet(2048, 32, bits)
    BY <1>6 DEF Subnet, Span
  <2> QED BY <2>1
<1>7. CASE bits = 22
  <2>1. Subnet(1024, 64, bits)
    BY <1>7 DEF Subnet, Span
  <2> QED BY <2>1
<1>8. CASE bits = 23
  <2>1. Subnet(512, 128, bits)
    BY <1>8 DEF Subnet, Span
  <2> QED BY <2>1
<1>9. CASE bits = 24
  <2>1. Subnet(256, 256, bits)
    BY <1>9 DEF Subnet, Span
  <2> QED BY <2>1
<1>10. CASE bits = 25
  <2>1. Subnet(128, 512, bits)
    BY <1>10 DEF Subnet, Span
  <2> QED BY <2>1
<1>11. CASE bits = 26
  <2>1. Subnet(64, 1024, bits)
    BY <1>11 DEF Subnet, Span
  <2> QED BY <2>1
<1>12. CASE bits = 27
  <2>1. Subnet(32, 2048, bits)
    BY <1>12 DEF Subnet, Span
  <2> QED BY <2>1
<1>13. CASE bits = 28
  <2>1. Subnet(16, 4096, bits)
    BY <1>13 DEF Subnet, Span
  <2> QED BY <2>1
<1>14. CASE bits = 29
  <2>1. Subnet(8, 8192, bits)
    BY <1>14 DEF Subnet, Span
  <2> QED BY <2>1
<1>15. CASE bits = 30
  <2>1. Subnet(4, 16384, bits)
    BY <1>15 DEF Subnet, Span
  <2> QED BY <2>1
<1> QED BY <1>1, <1>2, <1>3, <1>4, <1>5, <1>6, <1>7, <1>8, <1>9, <1>10, <1>11, <1>12, <1>13, <1>14, <1>15

\* What the provers know of a quotient by a variable.
LEMMA Division ==
  ASSUME NEW s \in Nat \ {0}, NEW a \in Nat
  PROVE  a = ((a \div s) * s) + (a % s) /\ a \div s \in Nat /\ a % s \in Nat /\ a % s < s
OBVIOUS

\* A quotient and a remainder are those of the number they make.
LEMMA Divided ==
  ASSUME NEW s \in Nat \ {0}, NEW q \in Nat, NEW h \in Nat, h < s
  PROVE  ((q * s) + h) \div s = q /\ ((q * s) + h) % s = h
OBVIOUS

\* A host part does not lead out of the span that the subnets divide.
LEMMA WithinSpan ==
  ASSUME NEW s \in Nat \ {0}, NEW t \in Nat, NEW span \in Nat, s * t = span,
         NEW a \in Nat, a < span, NEW q \in Nat, q = a \div s, NEW h \in Nat, h < s
  PROVE  (q * s) + h < span
<1>1. PICK r \in Nat : r < s /\ a = (q * s) + r
  BY Division
<1>2. q < t
  <2> SUFFICES ASSUME q >= t PROVE FALSE
    BY <1>1
  <2>1. q * s >= t * s
    BY <1>1
  <2>2. t * s = s * t /\ q * s \in Nat /\ s * t \in Nat
    BY <1>1
  <2> QED BY <2>1, <2>2, <1>1
<1>3. (q + 1) * s <= t * s
  BY <1>1, <1>2
<1>4. (q + 1) * s = (q * s) + s /\ q * s \in Nat /\ t * s = s * t
  BY <1>1
<1> QED BY <1>3, <1>4

\* An address made of a host part, and an address of the subnet.
HostOf(a, s, q)   == \E h \in HostParts(s - 1) : a = (q * s) + h
InSubnet(a, s, q) == a \in 0..(Span - 1) /\ a \div s = q /\ a % s \notin {0, s - 1}

\* The addresses made from host parts are the hosts of the subnet.
LEMMA Hosts ==
  ASSUME NEW s \in Nat, NEW t \in Nat, s >= 4, s * t = Span,
         NEW addr \in Nat, addr < Span, NEW a
  PROVE  HostOf(a, s, addr \div s) <=> InSubnet(a, s, addr \div s)
<1>s. Span \in Nat /\ s \in Nat \ {0}
  BY DEF Span
<1>1. PICK q \in Nat : q = addr \div s
  BY <1>s, Division
<1>2. \A h : h \in HostParts(s - 1) <=> h \in Nat /\ h < s /\ h \notin {0, s - 1}
  BY DEF HostParts
<1>3. ASSUME NEW h \in Nat, h < s, h \notin {0, s - 1} PROVE InSubnet((q * s) + h, s, q)
  <2>1. ((q * s) + h) \div s = q /\ ((q * s) + h) % s = h
    BY <1>1, <1>3, <1>s, Divided
  <2>2. (q * s) + h < Span
    BY <1>1, <1>3, <1>s, WithinSpan
  <2>3. (q * s) + h \in Nat
    BY <1>1
  <2>4. (q * s) + h \in 0..(Span - 1)
    BY <2>2, <2>3, <1>s
  <2> QED BY <1>3, <2>1, <2>4 DEF InSubnet
<1>4. ASSUME InSubnet(a, s, q) PROVE HostOf(a, s, q)
  <2>1. a \in Nat /\ a \div s = q /\ a % s \notin {0, s - 1}
    BY <1>4, <1>s DEF InSubnet
  <2>2. a = ((a \div s) * s) + (a % s) /\ a % s \in Nat /\ a % s < s
    BY <2>1, <1>s, Division
  <2>3. a % s \in HostParts(s - 1)
    BY <1>2, <2>1, <2>2
  <2> QED BY <2>1, <2>2, <2>3 DEF HostOf
<1>5. ASSUME HostOf(a, s, q) PROVE InSubnet(a, s, q)
  <2>1. PICK h \in HostParts(s - 1) : a = (q * s) + h
    BY <1>5 DEF HostOf
  <2>2. h \in Nat /\ h < s /\ h \notin {0, s - 1}
    BY <1>2, <2>1
  <2> QED BY <1>3, <2>1, <2>2
<1> QED BY <1>1, <1>4, <1>5

\* cidr2addr() yields the hosts of the subnet, each of them.
LEMMA SubnetsAreExact == SubnetsExact
<1> SUFFICES ASSUME NEW addr \in {0, 1, 255, 256, Span - 1}, NEW bits \in {0} \union (16..33 \ {31})
             PROVE  IF bits = 0 \/ bits >= 32 THEN cidr2addr(addr, bits) = {addr}
                    ELSE cidr2addr(addr, bits)
                           = {a \in 0..(Span - 1) : /\ a \div 2^(32 - bits) = addr \div 2^(32 - bits)
                                                    /\ a % 2^(32 - bits) \notin {0, 2^(32 - bits) - 1}}
  BY DEF SubnetsExact
<1>1. CASE bits = 0 \/ bits >= 32
  <2>1. bits <= 0 \/ bits >= 32
    BY <1>1
  <2> QED BY <1>1, <2>1 DEF cidr2addr
<1>2. CASE ~(bits = 0 \/ bits >= 32)
  <2>1. bits \in 16..30 /\ ~(bits <= 0 \/ bits >= 32)
    BY <1>2
  <2>2. PICK s, t : Subnet(s, t, bits)
    BY <2>1, SubnetSize
  <2>3. s \in Nat /\ t \in Nat /\ s >= 4 /\ s * t = Span /\ s = 2^(32 - bits)
    BY <2>2 DEF Subnet
  <2>4. addr \in Nat /\ addr < Span
    BY DEF Span
  <2>5. PICK q : q = addr \div s
    OBVIOUS
  <2>6. cidr2addr(addr, bits) = {(q * s) + h : h \in HostParts(s - 1)}
    BY <2>1, <2>3, <2>5 DEF cidr2addr
  <2>7. \A a : HostOf(a, s, q) <=> InSubnet(a, s, q)
    BY <2>3, <2>4, <2>5, Hosts
  <2>8. \A a : a \in cidr2addr(addr, bits) <=> a \in {x \in 0..(Span - 1) : x \div s = q /\ x % s \notin {0, s - 1}}
    <3> TAKE a
    <3>1. a \in cidr2addr(addr, bits) <=> HostOf(a, s, q)
      BY <2>6 DEF HostOf
    <3>2. a \in {x \in 0..(Span - 1) : x \div s = q /\ x % s \notin {0, s - 1}} <=> InSubnet(a, s, q)
      BY DEF InSubnet
    <3> QED BY <3>1, <3>2, <2>7
  <2>9. cidr2addr(addr, bits) = {x \in 0..(Span - 1) : x \div s = q /\ x % s \notin {0, s - 1}}
    BY <2>8
  <2> QED BY <1>2, <2>3, <2>4, <2>5, <2>9
<1> QED BY <1>1, <1>2

\* The least number of a set.
LEMMA MinIs ==
  ASSUME NEW S \in SUBSET Nat, S # {}
  PROVE  Min(S) \in S /\ \A y \in S : Min(S) <= y
<1> DEFINE R == OpToRel(<, Nat)
<1>1. IsWellFoundedOn(R, Nat)
  BY NatLessThanWellFounded
<1>2. \A x, y \in Nat : x < y => <<x, y>> \in R
  BY DEF OpToRel
<1> HIDE DEF R
<1>3. PICK m \in S : \A k \in S : ~ (<<k, m>> \in R)
  BY <1>1, WFMin
<1>4. \A y \in S : m <= y
  <2> TAKE y \in S
  <2>1. y \in Nat /\ m \in Nat /\ ~(y < m)
    BY <1>2, <1>3
  <2> QED BY <2>1
<1>5. \E m1 \in S : \A y \in S : m1 <= y
  BY <1>4, <1>3
<1> QED BY <1>5 DEF Min

\* A text with separators, and the length of it.
LEMMA NextArgIs ==
  ASSUME NEW s \in Seq(Int), NEW j \in 1..(Len(s) + 1)
  PROVE  /\ NextArg(s, j) \in j..(Len(s) + 1) /\ ~IsSep(s, NextArg(s, j))
         /\ \A i \in j..(NextArg(s, j) - 1) : IsSep(s, i)
<1> DEFINE S == {i \in j..(Len(s) + 1) : ~IsSep(s, i)}
<1>1. Len(s) \in Nat /\ j \in Nat /\ ~IsSep(s, Len(s) + 1)
  BY DEF IsSep
<1>2. S \in SUBSET Nat /\ Len(s) + 1 \in S
  BY <1>1
<1>3. NextArg(s, j) = Min(S)
  BY DEF NextArg
<1>4. PICK m : m = Min(S)
  OBVIOUS
<1>5. m \in S /\ \A y \in S : m <= y
  <2> HIDE DEF S
  <2> QED BY <1>2, <1>4, MinIs
<1>6. ASSUME NEW i \in j..(m - 1) PROVE IsSep(s, i)
  <2>1. m \in j..(Len(s) + 1) /\ m \in Nat
    BY <1>1, <1>5
  <2>2. i \in j..(Len(s) + 1) /\ ~(m <= i)
    BY <1>1, <2>1
  <2> QED BY <1>5, <2>2
<1> QED BY <1>3, <1>4, <1>5, <1>6

\* Where the next separator is, or the end of the text.
LEMMA NextSepIs ==
  ASSUME NEW s \in Seq(Int), NEW j \in 1..(Len(s) + 1)
  PROVE  /\ NextSep(s, j) \in j..(Len(s) + 1)
         /\ NextSep(s, j) > Len(s) \/ IsSep(s, NextSep(s, j))
         /\ \A i \in j..(NextSep(s, j) - 1) : ~IsSep(s, i)
<1> DEFINE S == {i \in j..(Len(s) + 1) : i > Len(s) \/ IsSep(s, i)}
<1>1. Len(s) \in Nat /\ j \in Nat
  OBVIOUS
<1>2. S \in SUBSET Nat /\ Len(s) + 1 \in S
  BY <1>1
<1>3. NextSep(s, j) = Min(S)
  BY DEF NextSep
<1>4. PICK m : m = Min(S)
  OBVIOUS
<1>5. m \in S /\ \A y \in S : m <= y
  <2> HIDE DEF S
  <2> QED BY <1>2, <1>4, MinIs
<1>6. ASSUME NEW i \in j..(m - 1) PROVE ~IsSep(s, i)
  <2>1. m \in j..(Len(s) + 1) /\ m \in Nat
    BY <1>1, <1>5
  <2>2. i \in j..(Len(s) + 1) /\ ~(m <= i)
    BY <1>1, <2>1
  <2> QED BY <1>5, <2>2
<1> QED BY <1>3, <1>4, <1>5, <1>6

\* The words that begin in front of a position.
Before(s, j) == {i \in Starts(s) : i < j}

\* After k words: the separators in front of at are skipped, the words that begin
\* in front of it are the arguments, in order.
WordState(s) == [buf : [DOMAIN s -> Int], args : Seq(Nat), at : Nat]
WordStart(s) == [buf |-> s, args |-> <<>>, at |-> 1]
Skipped(st, s) == \A j \in DOMAIN s : st.buf[j] = IF j < st.at /\ IsSep(s, j) THEN Nul ELSE s[j]
Listed(st, s) ==
  /\ Cardinality(Before(s, st.at)) = Len(st.args)
  /\ \A i \in 1..Len(st.args) :
       st.args[i] \in Starts(s) /\ st.args[i] < st.at /\ Cardinality(Before(s, st.args[i] + 1)) = i
AtWord(st, s, k) ==
  /\ st \in WordState(s)
  /\ st.at \in 1..(Len(s) + 1) /\ (st.at = 1 \/ st.at > Len(s) \/ IsSep(s, st.at))
  /\ Skipped(st, s) /\ Listed(st, s)
  /\ Len(st.args) <= k /\ (Len(st.args) < k => st.at > Len(s))
  /\ Len(st.args) = k /\ k > 0 => \A j \in st.args[k]..(st.at - 1) : ~IsSep(s, j)

\* Words are counted in finite sets.
LEMMA StartsFinite ==
  ASSUME NEW s \in Seq(Int), NEW j
  PROVE  IsFiniteSet(Starts(s)) /\ IsFiniteSet(Before(s, j)) /\ Before(s, j) \subseteq Starts(s)
         /\ Starts(s) \subseteq 1..Len(s)
<1>1. Len(s) \in Nat /\ DOMAIN s = 1..Len(s)
  OBVIOUS
<1>2. IsFiniteSet(1..Len(s))
  BY <1>1, FS_Interval
<1>3. Starts(s) \subseteq 1..Len(s) /\ Before(s, j) \subseteq Starts(s)
  BY <1>1 DEF Starts, Before
<1>4. IsFiniteSet(Starts(s))
  BY <1>2, <1>3, FS_Subset
<1> QED BY <1>3, <1>4, FS_Subset

\* No word begins among separators.
LEMMA NoneBegins ==
  ASSUME NEW s \in Seq(Int), NEW at \in 1..(Len(s) + 1), NEW a \in at..(Len(s) + 1),
         \A i \in at..(a - 1) : IsSep(s, i)
  PROVE  Before(s, a) = Before(s, at)
<1>1. Len(s) \in Nat /\ at \in Nat /\ a \in Nat /\ at <= a
  OBVIOUS
<1>2. ASSUME NEW i \in Starts(s), i < a PROVE i < at
  <2>1. i \in 1..Len(s) /\ ~IsSep(s, i)
    BY <1>1, StartsFinite DEF Starts
  <2>2. i \in at..(a - 1) \/ i < at
    BY <1>1, <1>2, <2>1
  <2> QED BY <2>1, <2>2
<1>3. ASSUME NEW i \in Starts(s), i < at PROVE i < a
  <2>1. i \in 1..Len(s)
    BY StartsFinite
  <2> QED BY <1>1, <1>3, <2>1
<1> QED BY <1>2, <1>3 DEF Before

\* One begins at a, and no other up to its end.
LEMMA OneBegins ==
  ASSUME NEW s \in Seq(Int), NEW a \in Starts(s), NEW e \in (a + 1)..(Len(s) + 1),
         \A i \in a..(e - 1) : ~IsSep(s, i)
  PROVE  /\ Before(s, e) = Before(s, a) \union {a}
         /\ Cardinality(Before(s, e)) = Cardinality(Before(s, a)) + 1
<1>1. Len(s) \in Nat /\ a \in 1..Len(s) /\ a \in Nat /\ e \in Nat /\ a < e
  BY StartsFinite
<1>2. ASSUME NEW i \in Starts(s), i < e, ~(i < a) PROVE i = a
  <2>1. i \in 1..Len(s) /\ (i = 1 \/ IsSep(s, i - 1))
    BY StartsFinite DEF Starts
  <2> SUFFICES ASSUME i # a PROVE FALSE
    OBVIOUS
  <2>2. i - 1 \in a..(e - 1) /\ i # 1
    BY <1>1, <1>2, <2>1
  <2> QED BY <2>1, <2>2
<1>3. ASSUME NEW i \in Starts(s), i < a PROVE i < e
  <2>1. i \in 1..Len(s)
    BY StartsFinite
  <2> QED BY <1>1, <1>3, <2>1
<1>4. Before(s, e) = Before(s, a) \union {a}
  BY <1>1, <1>2, <1>3 DEF Before
<1>5. a \notin Before(s, a)
  BY <1>1 DEF Before
<1>6. IsFiniteSet(Before(s, a))
  BY StartsFinite
<1> QED BY <1>4, <1>5, <1>6, FS_AddElement

\* Nothing is left.
LEMMA WordNone ==
  ASSUME NEW s \in Seq(Int), NEW k \in Nat \ {0}, NEW st, AtWord(st, s, k - 1), st.at > Len(s)
  PROVE  AtWord(NextWord(st, s), s, k)
<1>1. NextWord(st, s) = st
  BY DEF NextWord
<1>2. Len(st.args) \in Nat /\ Len(st.args) <= k - 1
  BY DEF AtWord, WordState
<1>3. Len(st.args) <= k /\ Len(st.args) # k
  BY <1>2
<1> QED BY <1>1, <1>3 DEF AtWord

\* What is known of a text that goes on.
OnText(st, s, k, at, args) ==
  /\ at = st.at /\ args = st.args /\ at \in 1..Len(s) /\ args \in Seq(Nat) /\ Len(args) = k - 1
  /\ st.buf \in [DOMAIN s -> Int] /\ (at = 1 \/ IsSep(s, at))

\* In front of a further word there is text left.
LEMMA GoesOnText ==
  ASSUME NEW s \in Seq(Int), NEW k \in Nat \ {0}, NEW st, AtWord(st, s, k - 1), ~(st.at > Len(s))
  PROVE  OnText(st, s, k, st.at, st.args) /\ Skipped(st, s) /\ Listed(st, s)
<1>1. /\ st \in WordState(s) /\ st.at \in 1..(Len(s) + 1) /\ (st.at = 1 \/ st.at > Len(s) \/ IsSep(s, st.at))
      /\ Len(st.args) <= k - 1 /\ (Len(st.args) < k - 1 => st.at > Len(s))
  BY DEF AtWord
<1>2. st.buf \in [DOMAIN s -> Int] /\ st.args \in Seq(Nat)
  BY <1>1 DEF WordState
<1>3. st.at \in 1..Len(s)
  BY <1>1
<1>4. Len(st.args) = k - 1
  <2>1. Len(st.args) \in Nat
    BY <1>2
  <2> QED BY <1>1, <2>1
<1> QED BY <1>1, <1>2, <1>3, <1>4 DEF OnText, AtWord

\* Only separators are left.
LEMMA WordEnd ==
  ASSUME NEW s \in Seq(Int), NEW k \in Nat \ {0}, NEW st, NEW at, NEW args, OnText(st, s, k, at, args),
         Skipped(st, s), Listed(st, s), NextArg(s, at) > Len(s)
  PROVE  AtWord(NextWord(st, s), s, k)
<1> DEFINE buf == [j \in DOMAIN s |-> IF j \in at..Len(s) THEN Nul ELSE st.buf[j]]
           new == [buf |-> buf, args |-> args, at |-> Len(s) + 1]
<1>1. /\ at = st.at /\ args = st.args /\ at \in 1..Len(s) /\ args \in Seq(Nat) /\ Len(args) = k - 1
      /\ st.buf \in [DOMAIN s -> Int] /\ Len(s) \in Nat /\ DOMAIN s = 1..Len(s) /\ at \in Nat
  BY DEF OnText
<1>2. NextArg(s, at) = Len(s) + 1 /\ \A i \in at..Len(s) : IsSep(s, i)
  <2>1. at \in 1..(Len(s) + 1)
    BY <1>1
  <2>2. NextArg(s, at) \in at..(Len(s) + 1) /\ \A i \in at..(NextArg(s, at) - 1) : IsSep(s, i)
    BY <2>1, NextArgIs
  <2>3. NextArg(s, at) = Len(s) + 1
    BY <1>1, <2>2
  <2>4. (Len(s) + 1) - 1 = Len(s)
    BY <1>1
  <2> QED BY <2>2, <2>3, <2>4
<1>3. NextWord(st, s) = new
  <2>1. ~(st.at > Len(s)) /\ (Len(s) + 1) - 1 = Len(s) /\ Len(s) + 1 > Len(s)
    BY <1>1
  <2> QED BY <1>1, <1>2, <2>1 DEF NextWord
<1>4. buf \in [DOMAIN s -> Int]
  BY <1>1 DEF Nul
<1>5. \A j \in DOMAIN s : buf[j] = IF j < Len(s) + 1 /\ IsSep(s, j) THEN Nul ELSE s[j]
  <2> TAKE j \in DOMAIN s
  <2>1. j \in Nat /\ j < Len(s) + 1 /\ (j \in at..Len(s) <=> ~(j < at))
    BY <1>1
  <2>2. st.buf[j] = IF j < at /\ IsSep(s, j) THEN Nul ELSE s[j]
    BY <1>1 DEF Skipped
  <2> QED BY <1>2, <2>1, <2>2
<1>6. Before(s, Len(s) + 1) = Before(s, at)
  <2>1. (Len(s) + 1) - 1 = Len(s) /\ at \in 1..(Len(s) + 1) /\ Len(s) + 1 \in at..(Len(s) + 1)
    BY <1>1
  <2> QED BY <1>2, <2>1, NoneBegins
<1> HIDE DEF buf
<1>7. new \in WordState(s) /\ new.buf = buf /\ new.args = args /\ new.at = Len(s) + 1
  BY <1>1, <1>4 DEF WordState
<1>8. Skipped(new, s)
  BY <1>5, <1>7 DEF Skipped
<1>9. Listed(new, s)
  <2>1. \A i \in 1..Len(args) : args[i] \in Starts(s) /\ args[i] < at /\ Cardinality(Before(s, args[i] + 1)) = i
    BY <1>1 DEF Listed
  <2>2. \A i \in 1..Len(args) : args[i] < Len(s) + 1
    <3> TAKE i \in 1..Len(args)
    <3>1. args[i] \in Starts(s) /\ args[i] < at
      BY <2>1
    <3>2. PICK a : a = args[i]
      OBVIOUS
    <3>3. a \in 1..Len(s) /\ Len(s) \in Nat
      BY <1>1, <3>1, <3>2, StartsFinite
    <3>4. a < Len(s) + 1
      BY <3>3
    <3> QED BY <3>2, <3>4
  <2>3. Cardinality(Before(s, at)) = Len(args)
    BY <1>1 DEF Listed
  <2> QED BY <1>6, <1>7, <2>1, <2>2, <2>3 DEF Listed
<1> HIDE DEF new
<1>10. AtWord(new, s, k)
  <2>1. new.at \in 1..(Len(s) + 1) /\ new.at > Len(s)
    BY <1>1, <1>7
  <2>2. Len(new.args) <= k /\ Len(new.args) # k
    BY <1>1, <1>7
  <2> QED BY <1>7, <1>8, <1>9, <2>1, <2>2 DEF AtWord
<1> QED BY <1>3, <1>10

\* One more word.
LEMMA WordFound ==
  ASSUME NEW s \in Seq(Int), NEW k \in Nat \ {0}, NEW st, NEW at, NEW args, OnText(st, s, k, at, args),
         Skipped(st, s), Listed(st, s), NEW a, a = NextArg(s, at), a <= Len(s), NEW e, e = NextSep(s, a)
  PROVE  AtWord(NextWord(st, s), s, k)
<1> DEFINE buf == [j \in DOMAIN s |-> IF j \in at..(a - 1) THEN Nul ELSE st.buf[j]]
           more == Append(args, a)
           new == [buf |-> buf, args |-> more, at |-> e]
<1>1. /\ at = st.at /\ args = st.args /\ at \in 1..Len(s) /\ args \in Seq(Nat) /\ Len(args) = k - 1
      /\ st.buf \in [DOMAIN s -> Int] /\ Len(s) \in Nat /\ DOMAIN s = 1..Len(s) /\ at \in Nat
      /\ (at = 1 \/ IsSep(s, at))
  BY DEF OnText
<1>2. /\ a \in at..Len(s) /\ a \in Nat /\ ~IsSep(s, a) /\ \A i \in at..(a - 1) : IsSep(s, i)
  <2>1. at \in 1..(Len(s) + 1)
    BY <1>1
  <2>2. a \in at..(Len(s) + 1) /\ ~IsSep(s, a) /\ \A i \in at..(a - 1) : IsSep(s, i)
    BY <2>1, NextArgIs
  <2>3. a \in at..Len(s) /\ a \in Nat
    BY <1>1, <2>2
  <2> QED BY <2>2, <2>3
<1>3. /\ e \in (a + 1)..(Len(s) + 1) /\ e \in Nat /\ (e > Len(s) \/ IsSep(s, e))
      /\ \A i \in a..(e - 1) : ~IsSep(s, i)
  <2>1. a \in 1..(Len(s) + 1)
    BY <1>1, <1>2
  <2>2. e \in a..(Len(s) + 1) /\ (e > Len(s) \/ IsSep(s, e)) /\ \A i \in a..(e - 1) : ~IsSep(s, i)
    BY <2>1, NextSepIs
  <2>3. e # a
    BY <1>1, <1>2, <2>2
  <2>4. e \in (a + 1)..(Len(s) + 1) /\ e \in Nat
    BY <1>1, <1>2, <2>2, <2>3
  <2> QED BY <2>2, <2>4
<1>o. at \in Nat /\ a \in Nat /\ e \in Nat /\ at <= a /\ a < e
  BY <1>1, <1>2, <1>3
<1>4. NextWord(st, s) = new
  <2>1. ~(st.at > Len(s)) /\ ~(a > Len(s))
    BY <1>1, <1>2
  <2> QED BY <1>1, <2>1 DEF NextWord
<1>5. buf \in [DOMAIN s -> Int]
  BY <1>1 DEF Nul
<1>6. \A j \in DOMAIN s : buf[j] = IF j < e /\ IsSep(s, j) THEN Nul ELSE s[j]
  <2> TAKE j \in DOMAIN s
  <2>0. st.buf[j] = IF j < at /\ IsSep(s, j) THEN Nul ELSE s[j]
    BY <1>1 DEF Skipped
  <2>a. j \in Nat
    BY <1>1
  <2>1. CASE j < at
    <3>1. j \notin at..(a - 1) /\ j < e
      BY <1>o, <2>a, <2>1
    <3> QED BY <2>0, <2>1, <3>1
  <2>2. CASE j \in at..(a - 1)
    <3>1. j < e /\ IsSep(s, j)
      BY <1>2, <1>o, <2>a, <2>2
    <3> QED BY <2>2, <3>1
  <2>3. CASE ~(j < at) /\ j \notin at..(a - 1)
    <3>1. j \in a..(e - 1) \/ ~(j < e)
      BY <1>o, <2>a, <2>3
    <3>2. ~(j < e /\ IsSep(s, j))
      BY <3>1, <1>3
    <3> QED BY <2>0, <2>3, <3>2
  <2> QED BY <2>1, <2>2, <2>3
<1>7. a \in Starts(s)
  <2>1. a = 1 \/ IsSep(s, a - 1)
    <3>1. CASE a = at
      BY <1>1, <1>2, <3>1
    <3>2. CASE a # at
      <4>1. a - 1 \in at..(a - 1)
        BY <1>o, <3>2
      <4> QED BY <4>1, <1>2
    <3> QED BY <3>1, <3>2
  <2>2. a \in DOMAIN s
    BY <1>1, <1>2
  <2> QED BY <1>2, <2>1, <2>2 DEF Starts
<1>8. Cardinality(Before(s, a)) = Len(args)
  <2>1. at \in 1..(Len(s) + 1) /\ a \in at..(Len(s) + 1)
    BY <1>1, <1>2
  <2>2. Before(s, a) = Before(s, at)
    BY <1>2, <2>1, NoneBegins
  <2> QED BY <2>2, <1>1 DEF Listed
<1>9. Cardinality(Before(s, e)) = Len(args) + 1 /\ Cardinality(Before(s, a + 1)) = Len(args) + 1
  <2>1. Cardinality(Before(s, e)) = Cardinality(Before(s, a)) + 1
    BY <1>3, <1>7, OneBegins
  <2>2. a + 1 \in (a + 1)..(Len(s) + 1) /\ \A i \in a..((a + 1) - 1) : ~IsSep(s, i)
    <3>1. a + 1 \in (a + 1)..(Len(s) + 1) /\ \A i \in a..((a + 1) - 1) : i = a
      BY <1>1, <1>2
    <3> QED BY <3>1, <1>2
  <2>3. Cardinality(Before(s, a + 1)) = Cardinality(Before(s, a)) + 1
    BY <1>7, <2>2, OneBegins
  <2> QED BY <1>8, <2>1, <2>3
<1>10. /\ more \in Seq(Nat) /\ Len(more) = Len(args) + 1 /\ more[Len(args) + 1] = a
       /\ \A i \in 1..Len(args) : more[i] = args[i]
  BY <1>1, <1>2, AppendProperties
<1> HIDE DEF buf, more
<1>11. new \in WordState(s) /\ new.buf = buf /\ new.args = more /\ new.at = e
  BY <1>3, <1>5, <1>10 DEF WordState
<1>12. Skipped(new, s)
  BY <1>6, <1>11 DEF Skipped
<1>13. ASSUME NEW i \in 1..Len(more)
       PROVE  more[i] \in Starts(s) /\ more[i] < e /\ Cardinality(Before(s, more[i] + 1)) = i
  <2>1. CASE i \in 1..Len(args)
    <3>1. args[i] \in Starts(s) /\ args[i] < at /\ Cardinality(Before(s, args[i] + 1)) = i
      BY <1>1, <2>1 DEF Listed
    <3>2. args[i] \in 1..Len(s)
      BY <3>1, StartsFinite
    <3>3. args[i] < e
      <4>1. args[i] \in Nat
        BY <1>1, <3>2
      <4> QED BY <1>o, <3>1, <4>1
    <3> QED BY <1>10, <2>1, <3>1, <3>3
  <2>2. CASE i = Len(args) + 1
    <3>1. a < e
      BY <1>2, <1>3
    <3> QED BY <1>7, <1>9, <1>10, <2>2, <3>1
  <2>3. i \in 1..Len(args) \/ i = Len(args) + 1
    BY <1>1, <1>10
  <2> QED BY <2>1, <2>2, <2>3
<1>14. Listed(new, s)
  BY <1>9, <1>10, <1>11, <1>13 DEF Listed
<1> HIDE DEF new
<1>15. AtWord(new, s, k)
  <2>1. new.at \in 1..(Len(s) + 1) /\ (new.at = 1 \/ new.at > Len(s) \/ IsSep(s, new.at))
    BY <1>1, <1>2, <1>3, <1>11
  <2>2. Len(new.args) = k /\ new.args[k] = a
    BY <1>1, <1>10, <1>11
  <2>3. \A j \in new.args[k]..(new.at - 1) : ~IsSep(s, j)
    BY <1>3, <1>11, <2>2
  <2>4. Len(new.args) <= k /\ ~(Len(new.args) < k)
    BY <2>2
  <2> QED BY <1>11, <1>12, <1>14, <2>1, <2>3, <2>4 DEF AtWord
<1> QED BY <1>4, <1>15

\* Whatever comes next, parsenargs() keeps what holds of its state.
LEMMA WordMore ==
  ASSUME NEW s \in Seq(Int), NEW k \in Nat \ {0}, NEW st, AtWord(st, s, k - 1)
  PROVE  AtWord(NextWord(st, s), s, k)
<1>1. CASE st.at > Len(s)
  BY <1>1, WordNone
<1>2. CASE ~(st.at > Len(s))
  <2>1. PICK at, args : at = st.at /\ args = st.args
    OBVIOUS
  <2>2. OnText(st, s, k, at, args) /\ Skipped(st, s) /\ Listed(st, s)
    BY <1>2, <2>1, GoesOnText
  <2>3. PICK a, e : a = NextArg(s, at) /\ e = NextSep(s, a)
    OBVIOUS
  <2>4. CASE a > Len(s)
    BY <2>2, <2>3, <2>4, WordEnd
  <2>5. CASE a <= Len(s)
    BY <2>2, <2>3, <2>5, WordFound
  <2>6. a > Len(s) \/ a <= Len(s)
    <3>1. at \in 1..(Len(s) + 1) /\ Len(s) \in Nat
      BY <2>2 DEF OnText
    <3>2. a \in at..(Len(s) + 1)
      BY <2>3, <3>1, NextArgIs
    <3> QED BY <3>1, <3>2
  <2> QED BY <2>4, <2>5, <2>6
<1> QED BY <1>1, <1>2

\* It holds of the state parsenargs() starts in.
LEMMA WordsStart ==
  ASSUME NEW s \in Seq(Int)
  PROVE  AtWord(WordStart(s), s, 0)
<1>1. Len(s) \in Nat /\ DOMAIN s = 1..Len(s) /\ s \in [DOMAIN s -> Int]
  OBVIOUS
<1>2. WordStart(s) \in WordState(s) /\ WordStart(s).at = 1 /\ WordStart(s).args = <<>> /\ WordStart(s).buf = s
  BY <1>1 DEF WordState, WordStart
<1>3. Before(s, 1) = {} /\ Cardinality({}) = 0 /\ Len(<<>>) = 0
  <2>1. \A i \in Starts(s) : ~(i < 1)
    <3> TAKE i \in Starts(s)
    <3>1. i \in 1..Len(s)
      BY StartsFinite
    <3> QED BY <1>1, <3>1
  <2> QED BY <2>1, FS_EmptySet DEF Before
<1>4. Skipped(WordStart(s), s)
  BY <1>1, <1>2 DEF Skipped
<1>5. Listed(WordStart(s), s)
  <2>1. Len(WordStart(s).args) = 0 /\ Cardinality(Before(s, WordStart(s).at)) = 0
    BY <1>2, <1>3
  <2> QED BY <2>1 DEF Listed
<1> QED BY <1>1, <1>2, <1>3, <1>4, <1>5 DEF AtWord

\* Hence it holds when parsenargs() is done.
LEMMA WordsRun ==
  ASSUME NEW s \in Seq(Int), NEW limit \in Nat
  PROVE  AtWord(parsenargs(s, limit), s, limit)
<1> DEFINE A == {st \in WordState(s) : \E k \in Nat : AtWord(st, s, k)}
           T == [x \in A \X (1..limit) |-> NextWord(x[1], s)]
           Body(g) == [k \in 0..limit |->
                         IF k = 0 THEN [buf |-> s, args |-> <<>>, at |-> 1] ELSE NextWord(g[k - 1], s)]
           loop == CHOOSE g : g = Body(g)
<1>1. WordStart(s) \in A
  BY WordsStart DEF AtWord
<1>2. ASSUME NEW st \in A PROVE NextWord(st, s) \in A
  <2>1. PICK k \in Nat : AtWord(st, s, k)
    BY <1>2
  <2>2. PICK m : m = k + 1
    OBVIOUS
  <2>3. m \in Nat \ {0} /\ m - 1 = k /\ m \in Nat
    BY <2>1, <2>2
  <2>4. AtWord(NextWord(st, s), s, m)
    BY <2>1, <2>3, WordMore
  <2> QED BY <2>3, <2>4 DEF AtWord
<1>3. T \in [A \X (1..limit) -> A]
  BY <1>2
<1>4. PICK f \in [0..limit -> A] : f[0] = WordStart(s) /\ \A k \in 1..limit : f[k] = T[<<f[k - 1], k>>]
  <2> HIDE DEF A, T
  <2>1. Recursive(A, limit, WordStart(s), T)
    BY <1>1, <1>3, Recursion
  <2> QED BY <2>1 DEF Recursive
<1>5. f = Body(f)
  <2>1. ASSUME NEW k \in 1..limit PROVE f[k] = NextWord(f[k - 1], s)
    <3>1. k - 1 \in 0..limit
      OBVIOUS
    <3>2. f[k - 1] \in A /\ f[k] = T[<<f[k - 1], k>>]
      BY <3>1, <1>4
    <3> HIDE DEF A
    <3>3. <<f[k - 1], k>> \in A \X (1..limit)
      BY <3>2
    <3> QED BY <3>2, <3>3
  <2>2. \A k \in 0..limit : k = 0 \/ k \in 1..limit
    OBVIOUS
  <2> HIDE DEF A, T
  <2> QED BY <1>4, <2>1, <2>2 DEF WordStart
<1>6. loop = Body(loop)
  <2> HIDE DEF Body
  <2> QED BY <1>5
<1>7. parsenargs(s, limit) = loop[limit]
  BY DEF parsenargs
<1> HIDE DEF loop, A, T
<1>8. loop[0] = WordStart(s)
  BY <1>6 DEF WordStart
<1>9. ASSUME NEW k \in 1..limit PROVE loop[k] = NextWord(loop[k - 1], s)
  <2>1. k \in 0..limit /\ k # 0
    OBVIOUS
  <2> QED BY <2>1, <1>6
<1> HIDE DEF Body
<1>10. \A k \in 0..limit : AtWord(loop[k], s, k)
  <2> DEFINE S == {k \in 0..limit : AtWord(loop[k], s, k)}
  <2>1. 0 \in S
    BY <1>8, WordsStart
  <2>2. ASSUME NEW k \in 0..(limit - 1), k \in S PROVE k + 1 \in S
    <3>1. PICK m : m = k + 1
      OBVIOUS
    <3>2. m \in 1..limit /\ m \in 0..limit /\ m - 1 = k /\ m \in Nat \ {0}
      BY <3>1
    <3>3. PICK st : st = loop[k]
      OBVIOUS
    <3>4. AtWord(st, s, m - 1)
      BY <2>2, <3>2, <3>3
    <3>5. AtWord(NextWord(st, s), s, m)
      BY <3>2, <3>4, WordMore
    <3>6. loop[m] = NextWord(st, s)
      BY <1>9, <3>2, <3>3
    <3> QED BY <3>1, <3>2, <3>5, <3>6
  <2> HIDE DEF S
  <2>3. \A k \in 0..limit : k \in S
    BY <2>1, <2>2, Induct
  <2> QED BY <2>3 DEF S
<1> QED BY <1>7, <1>10

\* Two words with as many words in front of them are one.
LEMMA BeforeRanks ==
  ASSUME NEW s \in Seq(Int), NEW i \in Starts(s), NEW j \in Starts(s)
  PROVE  /\ Cardinality(Before(s, i + 1)) <= Cardinality(Before(s, j + 1)) => i <= j
         /\ Cardinality(Before(s, i + 1)) = Cardinality(Before(s, j + 1)) => i = j
         /\ Before(s, i + 1) = {x \in Starts(s) : x <= i}
<1>1. Len(s) \in Nat /\ Starts(s) \subseteq 1..Len(s) /\ Starts(s) \subseteq Nat
  <2>1. Len(s) \in Nat /\ Starts(s) \subseteq 1..Len(s)
    BY StartsFinite
  <2> QED BY <2>1
<1>2. ASSUME NEW x \in Starts(s), NEW y \in Starts(s), x < y
      PROVE  Cardinality(Before(s, x + 1)) < Cardinality(Before(s, y + 1))
  <2>1. x \in Nat /\ y \in Nat
    BY <1>1
  <2>2. \A z \in Starts(s) : z < x + 1 => z < y + 1
    <3> TAKE z \in Starts(s)
    <3>1. z \in Nat
      BY <1>1
    <3> QED BY <3>1, <2>1, <1>2
  <2>3. Before(s, x + 1) \subseteq Before(s, y + 1)
    BY <2>2 DEF Before
  <2>4. y \in Before(s, y + 1) /\ y \notin Before(s, x + 1)
    BY <2>1, <1>2 DEF Before
  <2>5. IsFiniteSet(Before(s, y + 1)) /\ IsFiniteSet(Before(s, x + 1))
    BY StartsFinite
  <2>6. /\ Cardinality(Before(s, x + 1)) <= Cardinality(Before(s, y + 1))
        /\ Cardinality(Before(s, y + 1)) # Cardinality(Before(s, x + 1))
    BY <2>3, <2>4, <2>5, FS_Subset
  <2>7. Cardinality(Before(s, x + 1)) \in Nat /\ Cardinality(Before(s, y + 1)) \in Nat
    BY <2>5, FS_CardinalityType
  <2> QED BY <2>6, <2>7
<1>3. i \in Nat /\ j \in Nat /\ Cardinality(Before(s, i + 1)) \in Nat /\ Cardinality(Before(s, j + 1)) \in Nat
  BY <1>1, StartsFinite, FS_CardinalityType
<1>4. Before(s, i + 1) = {x \in Starts(s) : x <= i}
  <2>1. \A x \in Starts(s) : x < i + 1 <=> x <= i
    <3> TAKE x \in Starts(s)
    <3>1. x \in Nat
      BY <1>1
    <3> QED BY <3>1, <1>3
  <2> QED BY <2>1 DEF Before
<1>5. i < j \/ i = j \/ j < i
  BY <1>3
<1> QED BY <1>2, <1>3, <1>4, <1>5

\* A text of words and separators holds no end of a string.
LEMMA TextIs ==
  ASSUME ParseAssumption, NEW s \in Texts({0, Sep})
  PROVE  s \in Seq(Int) /\ \A j \in DOMAIN s : s[j] # Nul
<1>1. MaxText \in Nat /\ {0, Sep} \subseteq Int
  BY DEF ParseAssumption, Sep
<1>2. PICK n \in 0..MaxText : s \in [1..n -> {0, Sep}]
  BY DEF Texts
<1>3. n \in Nat /\ s \in [1..n -> Int]
  BY <1>1, <1>2
<1>4. \A j \in DOMAIN s : s[j] # Nul
  BY <1>2 DEF Sep, Nul
<1> QED BY <1>3, <1>4

\* As many arguments as words, or as the limit allows.
LEMMA ArgCount ==
  ASSUME NEW s \in Seq(Int), NEW limit \in Nat, NEW r, AtWord(r, s, limit)
  PROVE  Len(r.args) = Min({Cardinality(Starts(s)), limit})
<1>1. /\ Len(r.args) \in Nat /\ Len(r.args) <= limit /\ Cardinality(Before(s, r.at)) = Len(r.args)
      /\ Len(r.args) < limit => r.at > Len(s)
      /\ r.at \in Nat
  BY DEF AtWord, WordState, Listed
<1>2. /\ IsFiniteSet(Starts(s)) /\ Before(s, r.at) \subseteq Starts(s) /\ IsFiniteSet(Before(s, r.at))
      /\ Starts(s) \subseteq 1..Len(s)
  BY StartsFinite
<1>3. Cardinality(Starts(s)) \in Nat /\ Cardinality(Before(s, r.at)) <= Cardinality(Starts(s))
  BY <1>2, FS_Subset, FS_CardinalityType
<1>4. CASE r.at > Len(s)
  <2>1. \A x \in Starts(s) : x < r.at
    <3> TAKE x \in Starts(s)
    <3>1. x \in Nat /\ x <= Len(s) /\ Len(s) \in Nat
      BY <1>2
    <3> QED BY <3>1, <1>1, <1>4
  <2>2. Before(s, r.at) = Starts(s)
    BY <2>1 DEF Before
  <2> QED BY <2>2, <1>1, <1>3, MinTwo
<1>5. CASE ~(r.at > Len(s))
  <2>1. Len(r.args) = limit
    BY <1>1, <1>5
  <2> QED BY <2>1, <1>1, <1>3, MinTwo
<1> QED BY <1>4, <1>5

\* Argument k begins where word k does.
LEMMA ArgStart ==
  ASSUME NEW s \in Seq(Int), NEW limit \in Nat, NEW r, AtWord(r, s, limit), NEW k \in 1..Len(r.args)
  PROVE  /\ r.args[k] \in Starts(s) /\ r.args[k] < r.at /\ NthStart(s, k) = r.args[k]
         /\ r.args[k] \in 1..Len(s)
<1> DEFINE a == r.args[k]
<1>1. a \in Starts(s) /\ a < r.at /\ Cardinality(Before(s, a + 1)) = k
  BY DEF AtWord, Listed
<1> HIDE DEF a
<1>2. \A j \in Starts(s) : Before(s, j + 1) = {x \in Starts(s) : x <= j}
  BY BeforeRanks
<1>3. Cardinality({x \in Starts(s) : x <= a}) = k
  BY <1>1, <1>2
<1>4. \A j \in Starts(s) : Cardinality({x \in Starts(s) : x <= j}) = k => j = a
  <2> TAKE j \in Starts(s)
  <2>1. Cardinality(Before(s, j + 1)) = Cardinality(Before(s, a + 1)) => j = a
    BY <1>1, BeforeRanks
  <2> QED BY <2>1, <1>1, <1>2
<1>5. NthStart(s, k) = a
  BY <1>1, <1>3, <1>4 DEF NthStart
<1>6. a \in 1..Len(s)
  BY <1>1, StartsFinite
<1> QED BY <1>1, <1>5, <1>6 DEF a

\* The arguments are in the order of the text.
LEMMA ArgsAscend ==
  ASSUME NEW s \in Seq(Int), NEW limit \in Nat, NEW r, AtWord(r, s, limit),
         NEW k \in 1..Len(r.args), NEW m \in 1..Len(r.args), k < m
  PROVE  r.args[k] < r.args[m]
<1> DEFINE a == r.args[k]
           b == r.args[m]
<1>1. /\ a \in Starts(s) /\ Cardinality(Before(s, a + 1)) = k
      /\ b \in Starts(s) /\ Cardinality(Before(s, b + 1)) = m
  BY DEF AtWord, Listed
<1> HIDE DEF a, b
<1>2. a <= b
  <2>1. Cardinality(Before(s, a + 1)) <= Cardinality(Before(s, b + 1))
    BY <1>1
  <2> QED BY <2>1, <1>1, BeforeRanks
<1>3. a # b
  BY <1>1
<1>4. a \in Nat /\ b \in Nat
  BY <1>1, StartsFinite
<1> QED BY <1>2, <1>3, <1>4 DEF a, b

\* A caller reads up to the end e of an argument.
LEMMA ReadUpTo ==
  ASSUME NEW buf \in Seq(Int), NEW a \in 1..Len(buf), NEW e \in a..(Len(buf) + 1),
         e > Len(buf) \/ buf[e] = Nul, \A j \in a..(e - 1) : buf[j] # Nul
  PROVE  Min({j \in a..(Len(buf) + 1) : j > Len(buf) \/ buf[j] = Nul}) = e
<1> DEFINE X == {j \in a..(Len(buf) + 1) : j > Len(buf) \/ buf[j] = Nul}
<1>1. Len(buf) \in Nat /\ a \in Nat /\ e \in Nat /\ a <= e /\ e <= Len(buf) + 1
  OBVIOUS
<1>2. X \in SUBSET Nat /\ e \in X
  BY <1>1
<1>3. \A j \in X : e <= j
  <2> TAKE j \in X
  <2>1. j \in Nat /\ a <= j /\ (j > Len(buf) \/ buf[j] = Nul)
    BY <1>1
  <2>2. CASE j < e
    <3>1. j \in a..(e - 1) /\ ~(j > Len(buf))
      BY <1>1, <2>1, <2>2
    <3> QED BY <3>1, <2>1
  <2> QED BY <1>1, <2>1, <2>2
<1> HIDE DEF X
<1>4. PICK m : m = Min(X)
  OBVIOUS
<1>5. m \in X /\ \A y \in X : m <= y
  BY <1>2, <1>4, MinIs
<1>6. m <= e /\ e <= m /\ m \in Nat
  BY <1>2, <1>3, <1>5
<1>7. m = e
  BY <1>1, <1>6
<1> QED BY <1>4, <1>7 DEF X

\* Argument k ends where its word does, the last one the limit allows with the text.
ArgEnd(s, a, k, limit) == IF k = limit THEN Len(s) + 1 ELSE NextSep(s, a)

\* Up to its end, an argument is as it was in the text; there it is cut off.
LEMMA ArgEnds ==
  ASSUME NEW s \in Seq(Int), \A j \in DOMAIN s : s[j] # Nul, NEW limit \in Nat,
         NEW r, AtWord(r, s, limit), NEW k \in 1..Len(r.args), NEW a, a = r.args[k],
         NEW e, e = ArgEnd(s, a, k, limit)
  PROVE  /\ e \in a..(Len(s) + 1)
         /\ e > Len(s) \/ r.buf[e] = Nul
         /\ \A j \in a..(e - 1) : r.buf[j] # Nul /\ r.buf[j] = s[j]
<1>1. a \in 1..Len(s) /\ a < r.at /\ a \in Starts(s)
  BY ArgStart
<1>2. Len(s) \in Nat /\ DOMAIN s = 1..Len(s) /\ a \in Nat /\ r.at \in Nat /\ limit \in Nat
      /\ Len(r.args) \in Nat /\ k \in Nat /\ 0 < k /\ k <= Len(r.args) /\ Len(r.args) <= limit
  BY <1>1 DEF AtWord, WordState
<1>3. \A j \in DOMAIN s : r.buf[j] = IF j < r.at /\ IsSep(s, j) THEN Nul ELSE s[j]
  BY DEF AtWord, Skipped
<1>4. CASE k = limit
  <2>1. e = Len(s) + 1
    BY <1>4 DEF ArgEnd
  <2>2. Len(r.args) = limit /\ limit > 0
    BY <1>2, <1>4
  <2>3. \A j \in a..(r.at - 1) : ~IsSep(s, j)
    BY <2>2, <1>4 DEF AtWord
  <2>4. ASSUME NEW j \in a..(e - 1) PROVE r.buf[j] # Nul /\ r.buf[j] = s[j]
    <3>1. j \in DOMAIN s /\ j \in Nat /\ a <= j
      BY <1>1, <1>2, <2>1
    <3>2. j < r.at => j \in a..(r.at - 1)
      BY <3>1, <1>2
    <3>3. r.buf[j] = s[j]
      BY <3>1, <3>2, <2>3, <1>3
    <3> QED BY <3>1, <3>3
  <2>5. e > Len(s) /\ e \in a..(Len(s) + 1)
    BY <1>1, <1>2, <2>1
  <2> QED BY <2>4, <2>5
<1>5. CASE k # limit
  <2>1. e = NextSep(s, a)
    BY <1>5 DEF ArgEnd
  <2>2. a \in 1..(Len(s) + 1)
    BY <1>1, <1>2
  <2>3. /\ e \in a..(Len(s) + 1) /\ (e > Len(s) \/ IsSep(s, e))
        /\ \A i \in a..(e - 1) : ~IsSep(s, i)
    BY <2>1, <2>2, NextSepIs
  <2>4. ASSUME NEW j \in a..(e - 1) PROVE r.buf[j] # Nul /\ r.buf[j] = s[j]
    <3>1. j \in DOMAIN s
      BY <1>1, <1>2, <2>3
    <3>2. r.buf[j] = s[j]
      BY <3>1, <2>3, <1>3
    <3> QED BY <3>1, <3>2
  <2>5. CASE e > Len(s)
    BY <2>3, <2>4, <2>5
  <2>6. CASE ~(e > Len(s))
    <3>1. IsSep(s, e) /\ e \in DOMAIN s /\ e \in Nat
      BY <2>3, <2>6, <1>1, <1>2
    <3>2. e < r.at
      <4>1. CASE r.at > Len(s)
        BY <4>1, <2>6, <3>1, <1>2
      <4>2. CASE ~(r.at > Len(s))
        <5>1. Len(r.args) = limit
          BY <4>2, <1>2 DEF AtWord
        <5>2. PICK m : m = k + 1
          OBVIOUS
        <5>3. m \in 1..Len(r.args) /\ k < m
          BY <5>1, <5>2, <1>2, <1>5
        <5>4. PICK b : b = r.args[m]
          OBVIOUS
        <5>5. a < b /\ b \in 1..Len(s) /\ b < r.at /\ b \in Starts(s)
          BY <5>3, <5>4, ArgsAscend, ArgStart
        <5>6. IsSep(s, b - 1)
          BY <5>5, <1>1 DEF Starts
        <5>7. b - 1 \in Nat /\ b \in Nat /\ a <= b - 1
          BY <5>5, <1>2
        <5>8. ~(b - 1 \in a..(e - 1))
          BY <5>6, <2>3
        <5>9. e <= b - 1
          BY <5>7, <5>8, <3>1, <1>2
        <5> QED BY <5>5, <5>7, <5>9, <3>1, <1>2
      <4> QED BY <4>1, <4>2
    <3>3. r.buf[e] = Nul
      BY <3>1, <3>2, <1>3
    <3> QED BY <2>3, <2>4, <3>3
  <2> QED BY <2>5, <2>6
<1> QED BY <1>4, <1>5

\* Two texts that agree on a range have the same text there.
LEMMA SameRange ==
  ASSUME NEW s, NEW t, NEW m \in Int, NEW n \in Int,
         \A j \in m..n : s[j] \in Int /\ t[j] = s[j]
  PROVE  SubSeq(t, m, n) = SubSeq(s, m, n)
<1> DEFINE u == SubSeq(s, m, n)
           v == SubSeq(t, m, n)
<1>1. /\ u \in Seq(Int) /\ Len(u) = IF m <= n THEN n - m + 1 ELSE 0
      /\ \A i \in 1..(n - m + 1) : u[i] = s[m + i - 1]
  BY SubSeqProperties
<1>2. /\ v \in Seq(Int) /\ Len(v) = IF m <= n THEN n - m + 1 ELSE 0
      /\ \A i \in 1..(n - m + 1) : v[i] = t[m + i - 1]
  BY SubSeqProperties
<1> HIDE DEF u, v
<1>3. ASSUME NEW i \in 1..Len(u) PROVE v[i] = u[i]
  <2>1. i \in 1..(n - m + 1) /\ m + i - 1 \in m..n
    BY <1>1
  <2> QED BY <2>1, <1>1, <1>2
<1>4. u = v
  BY <1>1, <1>2, <1>3, SeqEqual
<1> QED BY <1>4 DEF u, v

\* What a caller reads is the word, or all that is left.
LEMMA ArgReads ==
  ASSUME NEW s \in Seq(Int), \A j \in DOMAIN s : s[j] # Nul, NEW limit \in Nat,
         NEW r, AtWord(r, s, limit), NEW k \in 1..Len(r.args)
  PROVE  ArgText(r, k) = SubSeq(s, NthStart(s, k), ArgEnd(s, NthStart(s, k), k, limit) - 1)
<1>1. PICK a : a = r.args[k]
  OBVIOUS
<1>2. PICK e : e = ArgEnd(s, a, k, limit)
  OBVIOUS
<1>3. NthStart(s, k) = a /\ a \in 1..Len(s)
  BY <1>1, ArgStart
<1>4. /\ e \in a..(Len(s) + 1)
      /\ e > Len(s) \/ r.buf[e] = Nul
      /\ \A j \in a..(e - 1) : r.buf[j] # Nul /\ r.buf[j] = s[j]
  BY <1>1, <1>2, ArgEnds
<1>5. PICK buf : buf = r.buf
  OBVIOUS
<1>6. buf \in Seq(Int) /\ Len(buf) = Len(s)
  <2>1. buf \in [DOMAIN s -> Int] /\ DOMAIN s = 1..Len(s) /\ Len(s) \in Nat
    BY <1>5 DEF AtWord, WordState
  <2> QED BY <2>1
<1>7. Min({j \in a..(Len(buf) + 1) : j > Len(buf) \/ buf[j] = Nul}) = e
  <2>1. a \in 1..Len(buf) /\ e \in a..(Len(buf) + 1) /\ (e > Len(buf) \/ buf[e] = Nul)
    BY <1>3, <1>4, <1>5, <1>6
  <2>2. \A j \in a..(e - 1) : buf[j] # Nul
    BY <1>4, <1>5
  <2> QED BY <2>1, <2>2, <1>6, ReadUpTo
<1>8. ArgText(r, k) = SubSeq(buf, a, e - 1)
  BY <1>1, <1>5, <1>7 DEF ArgText
<1>9. SubSeq(buf, a, e - 1) = SubSeq(s, a, e - 1)
  <2>1. a \in Int /\ e - 1 \in Int /\ Len(s) \in Nat
    BY <1>3, <1>4
  <2>2. \A j \in a..(e - 1) : s[j] \in Int /\ buf[j] = s[j]
    <3> TAKE j \in a..(e - 1)
    <3>1. j \in 1..Len(s)
      BY <2>1, <1>3, <1>4
    <3> QED BY <3>1, <1>4, <1>5
  <2> QED BY <2>1, <2>2, SameRange
<1> QED BY <1>2, <1>3, <1>8, <1>9

\* parsenargs() yields the words of the text, the last one with all that is left.
LEMMA ArgumentsAreComplete == ParseAssumption => ArgsComplete
<1> SUFFICES ASSUME ParseAssumption, NEW s \in Texts({0, Sep}), NEW limit \in Buffers
             PROVE  LET r == parsenargs(s, limit)
                        At(k) == NthStart(s, k)
                    IN /\ Len(r.args) = Min({Cardinality(Starts(s)), limit})
                       /\ \A k \in DOMAIN r.args :
                            ArgText(r, k) =
                              SubSeq(s, At(k), IF k = limit THEN Len(s) ELSE NextSep(s, At(k)) - 1)
  BY DEF ArgsComplete
<1>1. limit \in Nat /\ s \in Seq(Int) /\ \A j \in DOMAIN s : s[j] # Nul
  BY TextIs DEF ParseAssumption
<1>2. PICK r : r = parsenargs(s, limit)
  OBVIOUS
<1>3. AtWord(r, s, limit)
  BY <1>1, <1>2, WordsRun
<1>4. Len(r.args) = Min({Cardinality(Starts(s)), limit})
  BY <1>1, <1>3, ArgCount
<1>5. DOMAIN r.args = 1..Len(r.args)
  BY <1>3 DEF AtWord, WordState
<1>6. ASSUME NEW k \in DOMAIN r.args
      PROVE  ArgText(r, k) = SubSeq(s, NthStart(s, k),
                                    IF k = limit THEN Len(s) ELSE NextSep(s, NthStart(s, k)) - 1)
  <2>1. PICK a : a = NthStart(s, k)
    OBVIOUS
  <2>2. ArgText(r, k) = SubSeq(s, a, ArgEnd(s, a, k, limit) - 1)
    BY <1>1, <1>3, <1>5, <2>1, ArgReads
  <2>3. ArgEnd(s, a, k, limit) - 1 = IF k = limit THEN Len(s) ELSE NextSep(s, a) - 1
    <3>1. Len(s) \in Nat
      BY <1>1
    <3> QED BY <3>1 DEF ArgEnd
  <2> QED BY <2>1, <2>2, <2>3
<1> QED BY <1>2, <1>4, <1>6

\* Whatever hexadecimal text, list or mask a plain line has, and whatever the limits
\* of output and arguments: str2val(), parsenargs() and cidr2addr(), for masks other
\* than /31, yield what the comments in front of them promise, for texts of any
\* length.
THEOREM Conversions == Spec => []ParsedExactly
<1>1. ParsedExactly
  BY ParseAssumption, DigitsAreExact, ArgumentsAreComplete, SubnetsAreExact DEF ParsedExactly
<1> QED BY <1>1, PTL
=============================================================================

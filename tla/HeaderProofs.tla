----------------------------- MODULE HeaderProofs -----------------------------
\* Proofs about the headers that are built option by option besides hop, for any
\* sequence of options and any sizes of their arguments.
EXTENDS Sctp, Gre, Auth, Bgp, SequenceTheorems, FiniteSetTheorems, TLAPS

-----------------------------------------------------------------------------
\* sctp.  The chunks tile the packet because only the last one grows: that is
\* what current says once there is a chunk, and without it neither property is
\* inductive.

SctpChunk == [at : Nat, length : 0..(WORD - 1)]
SctpPack ==
  [alloc : Nat, chunks : Seq(SctpChunk), current : Int,
   copies : SUBSET [from : Nat, size : Nat], lied : BOOLEAN]

\* The chunks lie behind each other up to the end of the packet.
Tiled(p) ==
  /\ p.chunks[1].at = HeaderSize
  /\ \A i \in 2..Len(p.chunks) :
       p.chunks[i].at = p.chunks[i - 1].at + p.chunks[i - 1].length
  /\ p.chunks[Len(p.chunks)].at + p.chunks[Len(p.chunks)].length = p.alloc

SctpGood(p) ==
  /\ p \in SctpPack
  /\ p.chunks # <<>> => p.current = Len(p.chunks)
  /\ p.chunks = <<>> => p.current \in {NoChunk, Stale} /\ p.alloc = HeaderSize
  /\ p.chunks # <<>> /\ ~p.lied /\ p.alloc < WORD => Tiled(p)

SctpOpt == {"T", "F", "L", "D", "I", "P", "H", "A"}

SctpInv ==
  /\ module = "sctp" /\ opts \in Seq(SctpOpt) /\ SctpGood(pack)
  /\ (\E i \in DOMAIN opts : opts[i] \in {"T", "I"}) => pack.chunks # <<>>
  /\ pc = "corrupt" => pack.chunks = <<>>

\* The last of a sequence of chunks.
LEMMA LastChunk ==
  ASSUME NEW chunks \in Seq(SctpChunk)
  PROVE  /\ Len(chunks) \in Nat /\ DOMAIN chunks = 1..Len(chunks)
         /\ chunks # <<>> => Len(chunks) \in DOMAIN chunks /\ Len(chunks) >= 1
         /\ \A i \in DOMAIN chunks : chunks[i] \in SctpChunk
  OBVIOUS

LEMMA WordRange == \A x \in Nat : x % WORD \in 0..(WORD - 1) /\ (x < WORD => x % WORD = x)
  <1>1. ASSUME NEW x \in Nat PROVE x % WORD \in 0..(WORD - 1)
    <2> DEFINE y == x % WORD
    <2>1. y \in Nat /\ y < WORD BY DEF WORD
    <2>2. WORD \in Nat BY DEF WORD
    <2> HIDE DEF y
    <2>3. y \in 0..(WORD - 1) BY <2>1, <2>2
    <2> QED BY <2>3 DEF y
  <1>2. \A x \in Nat : x < WORD => x % WORD = x BY DEF WORD
  <1> QED BY <1>1, <1>2

\* A new chunk begins where the packet ended, and is the last one.
LEMMA AddGood ==
  ASSUME NEW p, SctpGood(p)
  PROVE  SctpGood(add_chunk(p)) /\ add_chunk(p).chunks # <<>>
  <1> DEFINE c == [at |-> p.alloc, length |-> ChunkSize]
             new == Append(p.chunks, c)
             q == add_chunk(p)
  <1>1. p \in SctpPack BY DEF SctpGood
  <1>2. /\ p.chunks \in Seq(SctpChunk) /\ p.alloc \in Nat /\ Len(p.chunks) \in Nat
        /\ DOMAIN p.chunks = 1..Len(p.chunks) /\ p.lied \in BOOLEAN
    BY <1>1, LastChunk DEF SctpPack
  <1>3. c \in SctpChunk
    <2>1. ChunkSize \in 0..(WORD - 1) BY DEF ChunkSize, WORD
    <2> QED BY <1>2, <2>1 DEF SctpChunk
  <1>4. /\ q.alloc = p.alloc + ChunkSize /\ q.chunks = new /\ q.lied = p.lied
        /\ q.current = Len(p.chunks) + 1 /\ q \in SctpPack
    <2>1. new \in Seq(SctpChunk) BY <1>2, <1>3
    <2>2. p.alloc + ChunkSize \in Nat /\ Len(p.chunks) + 1 \in Int BY <1>2 DEF ChunkSize
    <2> HIDE DEF new
    <2>3. q = [p EXCEPT !.alloc = p.alloc + ChunkSize, !.chunks = new,
                        !.current = Len(p.chunks) + 1]
      BY <1>1 DEF add_chunk, new, SctpPack
    <2> HIDE DEF q
    <2> QED BY <1>1, <2>1, <2>2, <2>3 DEF SctpPack
  <1> HIDE DEF q, c
  <1>5. /\ Len(new) = Len(p.chunks) + 1 /\ new # <<>>
        /\ \A i \in 1..Len(p.chunks) : new[i] = p.chunks[i]
        /\ new[Len(p.chunks) + 1] = c
    BY <1>2, <1>3
  <1>6. c.at = p.alloc /\ c.length = ChunkSize BY DEF c
  <1> HIDE DEF new
  <1>7. ASSUME ~p.lied, p.alloc + ChunkSize < WORD PROVE Tiled(q)
    <2>1. p.alloc < WORD BY <1>2, <1>7 DEF ChunkSize, WORD
    <2>2. CASE p.chunks = <<>>
      <3>1. Len(p.chunks) = 0 /\ p.alloc = HeaderSize BY <2>2 DEF SctpGood
      <3> QED BY <1>4, <1>5, <1>6, <3>1 DEF Tiled
    <2>3. CASE p.chunks # <<>>
      <3>1. Tiled(p) /\ Len(p.chunks) >= 1
        BY <1>2, <1>7, <2>1, <2>3, LastChunk DEF SctpGood
      <3>2. new[1] = p.chunks[1] BY <1>2, <1>5, <3>1
      <3>3. ASSUME NEW i \in 2..(Len(p.chunks) + 1)
            PROVE  new[i].at = new[i - 1].at + new[i - 1].length
        <4>1. i - 1 \in 1..Len(p.chunks) /\ new[i - 1] = p.chunks[i - 1] BY <1>2, <1>5
        <4>2. CASE i = Len(p.chunks) + 1
          <5>1. i - 1 = Len(p.chunks) BY <1>2, <4>2
          <5> QED BY <1>5, <1>6, <3>1, <4>1, <4>2, <5>1 DEF Tiled
        <4>3. CASE i # Len(p.chunks) + 1
          <5>1. i \in 2..Len(p.chunks) /\ i \in 1..Len(p.chunks) BY <1>2, <4>3
          <5> QED BY <1>5, <3>1, <4>1, <5>1 DEF Tiled
        <4> QED BY <4>2, <4>3
      <3> QED BY <1>4, <1>5, <1>6, <3>1, <3>2, <3>3 DEF Tiled
    <2> QED BY <2>2, <2>3
  <1>8. SctpGood(q) BY <1>4, <1>5, <1>7 DEF SctpGood
  <1> QED BY <1>4, <1>5, <1>8 DEF q

\* Growing the current chunk moves the end of the packet with its own.
LEMMA GrowGood ==
  ASSUME NEW p, SctpGood(p), p.chunks # <<>>, NEW n \in Nat, NEW m \in Nat
  PROVE  SctpGood(Grow(p, n, m)) /\ Grow(p, n, m).chunks # <<>>
  <1> DEFINE last == Len(p.chunks)
             c == p.chunks[last]
             d == [c EXCEPT !.length = (c.length + n) % WORD]
             new == [p.chunks EXCEPT ![last] = d]
             more == p.copies \union {[from |-> c.at + ChunkSize * c.length, size |-> m]}
             q == Grow(p, n, m)
  <1>1. p \in SctpPack /\ p.current = last BY DEF SctpGood
  <1>2. /\ p.chunks \in Seq(SctpChunk) /\ p.alloc \in Nat /\ last \in Nat /\ last >= 1
        /\ DOMAIN p.chunks = 1..last /\ p.lied \in BOOLEAN /\ c \in SctpChunk
        /\ p.copies \in SUBSET [from : Nat, size : Nat]
    BY <1>1, LastChunk DEF SctpPack
  <1>3. c.at \in Nat /\ c.length \in Nat BY <1>2 DEF SctpChunk
  <1>4. (c.length + n) % WORD \in 0..(WORD - 1)
    <2>1. PICK x \in Nat : x = c.length + n BY <1>3
    <2>2. x % WORD \in 0..(WORD - 1) BY WordRange
    <2> QED BY <2>1, <2>2
  <1>5. d \in SctpChunk /\ d.at = c.at /\ d.length = (c.length + n) % WORD
    <2> HIDE DEF c
    <2> QED BY <1>2, <1>4 DEF SctpChunk
  <1>6. /\ new \in Seq(SctpChunk) /\ Len(new) = last /\ new # <<>> /\ new[last] = d
        /\ \A i \in 1..last : i # last => new[i] = p.chunks[i]
    <2> HIDE DEF d
    <2> QED BY <1>2, <1>5
  <1>7. more \in SUBSET [from : Nat, size : Nat]
    <2>1. ChunkSize * c.length \in Nat BY <1>3 DEF ChunkSize
    <2>2. c.at + ChunkSize * c.length \in Nat BY <1>3, <2>1
    <2> HIDE DEF c
    <2> QED BY <1>2, <2>2
  <1>8. q = [p EXCEPT !.alloc = p.alloc + n, !.chunks = new, !.copies = more]
    BY <1>1, <1>2 DEF Grow, SctpPack
  <1> HIDE DEF q, new, more, d
  <1>9. /\ q.alloc = p.alloc + n /\ q.chunks = new /\ q.lied = p.lied /\ q.current = last
        /\ q \in SctpPack
    <2>1. p.alloc + n \in Nat BY <1>2
    <2> HIDE DEF last
    <2> QED BY <1>1, <1>6, <1>7, <1>8, <2>1 DEF SctpPack
  <1>10. ASSUME ~p.lied, p.alloc + n < WORD PROVE Tiled(q)
    <2>1. p.alloc < WORD BY <1>2, <1>10 DEF WORD
    <2>2. Tiled(p) BY <1>10, <2>1 DEF SctpGood
    <2>3. c.at + c.length = p.alloc BY <2>2 DEF Tiled
    <2>4. c.length + n < WORD /\ c.length + n \in Nat
      <3>1. p.alloc \in Nat /\ WORD \in Nat BY <1>2 DEF WORD
      <3> HIDE DEF c
      <3> QED BY <1>3, <1>10, <2>3, <3>1
    <2>5. (c.length + n) % WORD = c.length + n
      <3> HIDE DEF c
      <3> QED BY <2>4, WordRange
    <2>6. d.at + d.length = p.alloc + n
      <3>1. p.alloc \in Nat BY <1>2
      <3> HIDE DEF c
      <3> QED BY <1>3, <1>5, <2>3, <2>5, <3>1
    <2>7. \A i \in 1..last : new[i].at = p.chunks[i].at BY <1>5, <1>6
    <2>8. ASSUME NEW i \in 2..last PROVE new[i].at = new[i - 1].at + new[i - 1].length
      <3>1. i \in 1..last /\ i - 1 \in 1..last /\ i - 1 # last BY <1>2
      <3>2. new[i - 1] = p.chunks[i - 1] /\ new[i].at = p.chunks[i].at BY <1>6, <2>7, <3>1
      <3> QED BY <2>2, <3>2 DEF Tiled
    <2>9. new[1].at = HeaderSize
      <3>1. 1 \in 1..last BY <1>2
      <3> QED BY <2>2, <2>7, <3>1 DEF Tiled
    <2> QED BY <1>6, <1>9, <2>6, <2>8, <2>9 DEF Tiled
  <1>11. SctpGood(q) BY <1>6, <1>9, <1>10 DEF SctpGood
  <1> QED BY <1>6, <1>9, <1>11 DEF q

\* -sL: from then on nothing is promised of the lengths.
LEMMA LengthGood ==
  ASSUME NEW p, SctpGood(p), p.chunks # <<>>, NEW n \in Nat
  PROVE  LET q == [p EXCEPT !.chunks[p.current].length = n % WORD, !.lied = TRUE]
         IN  SctpGood(q) /\ q.chunks # <<>>
  <1> DEFINE last == Len(p.chunks)
             d == [p.chunks[last] EXCEPT !.length = n % WORD]
             new == [p.chunks EXCEPT ![last] = d]
             q == [p EXCEPT !.chunks[p.current].length = n % WORD, !.lied = TRUE]
  <1>1. p \in SctpPack /\ p.current = last BY DEF SctpGood
  <1>2. /\ p.chunks \in Seq(SctpChunk) /\ last \in Nat /\ last >= 1
        /\ DOMAIN p.chunks = 1..last /\ p.chunks[last] \in SctpChunk
    BY <1>1, LastChunk DEF SctpPack
  <1>3. d \in SctpChunk
    <2>1. n % WORD \in 0..(WORD - 1) BY WordRange
    <2> QED BY <1>2, <2>1 DEF SctpChunk
  <1>4. new \in Seq(SctpChunk) /\ Len(new) = last /\ new # <<>>
    <2> HIDE DEF d
    <2> QED BY <1>2, <1>3
  <1>5. q = [p EXCEPT !.chunks = new, !.lied = TRUE] BY <1>1, <1>2 DEF SctpPack
  <1> HIDE DEF q, new, d
  <1>6. q.chunks = new /\ q.current = p.current /\ q.lied /\ q \in SctpPack
    BY <1>1, <1>4, <1>5 DEF SctpPack
  <1>7. SctpGood(q) /\ q.chunks # <<>> BY <1>1, <1>4, <1>6 DEF SctpGood
  <1> QED BY <1>7 DEF q

\* The chunk -sF, -sL and -sD work on, unless it is a stale one.
LEMMA ChunkGood ==
  ASSUME NEW p, SctpGood(p), p.current # Stale
  PROVE  SctpGood(Chunk(p)) /\ Chunk(p).chunks # <<>>
  <1>1. CASE p.current = NoChunk
    <2>1. Chunk(p) = add_chunk(p) BY <1>1 DEF Chunk
    <2> QED BY <2>1, AddGood
  <1>2. CASE p.current # NoChunk
    <2>1. Chunk(p) = p BY <1>2 DEF Chunk
    <2>2. p.chunks # <<>> BY <1>2 DEF SctpGood
    <2> QED BY <2>1, <2>2
  <1> QED BY <1>1, <1>2

\* The last chunk is there once there is one.
LEMMA WithinIsSome ==
  ASSUME NEW p, SctpGood(p)
  PROVE  Within(p) <=> p.chunks # <<>>
  <1>1. p.chunks \in Seq(SctpChunk) BY DEF SctpGood, SctpPack
  <1>2. CASE p.chunks = <<>> BY <1>2 DEF Within
  <1>3. CASE p.chunks # <<>>
    <2>1. Len(p.chunks) \in DOMAIN p.chunks /\ p.current = Len(p.chunks)
      BY <1>1, <1>3, LastChunk DEF SctpGood
    <2> QED BY <1>3, <2>1 DEF Within
  <1> QED BY <1>2, <1>3

\* An option that leaves a good header, and a chunk if it is -sT or -sI or if there
\* was one already.
LEMMA ApplyKeeps ==
  ASSUME SctpInv, NEW o \in SctpOpt, NEW p, SctpGood(p),
         opts' = Append(opts, o), pack' = p, UNCHANGED <<module, pc>>,
         pc \in {"options", "failed"},
         p.chunks # <<>> \/ (p.chunks = pack.chunks /\ o \notin {"T", "I"})
  PROVE  SctpInv'
  <1>1. opts' = Append(opts, o) /\ pack' = p OBVIOUS
  <1>2. opts \in Seq(SctpOpt) BY DEF SctpInv
  <1>3. /\ opts' \in Seq(SctpOpt)
        /\ \A i \in DOMAIN opts' : opts'[i] = o \/ (i \in DOMAIN opts /\ opts'[i] = opts[i])
    BY <1>1, <1>2
  <1>4. (\E i \in DOMAIN opts' : opts'[i] \in {"T", "I"}) => p.chunks # <<>>
    BY <1>3 DEF SctpInv
  <1> QED BY <1>1, <1>3, <1>4 DEF SctpInv

\* Nothing but the control state changes, and not to corrupt.
LEMMA SctpRest ==
  ASSUME SctpInv, UNCHANGED <<module, pack, opts>>, pc' # "corrupt" \/ pc' = pc
  PROVE  SctpInv'
  BY DEF SctpInv

LEMMA Round4 == \A n \in Nat : n + 1 \in Nat /\ round4(n + 1) \in Nat
  BY DEF round4

LEMMA Round2 == \A n \in Nat : 2 * round2(n) \in Nat
  BY DEF round2

LEMMA SctpStep == SctpInv /\ [SctpNext]_vars => SctpInv'
  <1> SUFFICES ASSUME SctpInv, [SctpNext]_vars PROVE SctpInv' OBVIOUS
  <1>1. SctpGood(pack) BY DEF SctpInv
  <1>2. CASE SctpType
    <2>1. Apply("T", add_chunk(pack)) BY <1>2 DEF SctpType
    <2> QED BY <1>1, <2>1, AddGood, ApplyKeeps DEF Apply, SctpOpt
  <1>3. CASE SctpFlags
    <2>1. Apply("F", Chunk(pack)) /\ pack.current # Stale BY <1>3 DEF SctpFlags
    <2> QED BY <1>1, <2>1, ChunkGood, ApplyKeeps DEF Apply, SctpOpt
  <1>4. CASE SctpInitChunk
    <2>1. Apply("I", Grow(add_chunk(pack), 16, 16)) BY <1>4 DEF SctpInitChunk, grow_chunk
    <2>2. SctpGood(Grow(add_chunk(pack), 16, 16)) /\ Grow(add_chunk(pack), 16, 16).chunks # <<>>
      BY <1>1, AddGood, GrowGood
    <2> QED BY <2>1, <2>2, ApplyKeeps DEF Apply, SctpOpt
  <1>5. CASE SctpWild
    <2>1. pack.chunks = <<>> BY <1>1, <1>5, WithinIsSome DEF SctpWild
    <2> QED BY <1>5, <2>1 DEF SctpWild, SctpInv
  <1>6. CASE SctpAbort \/ SctpRefused
    BY <1>6, SctpRest DEF SctpAbort, SctpRefused, Refuse
  <1>7. CASE SctpFinalize
    BY <1>7, SctpRest DEF SctpFinalize, FinalizeWith
  <1>8. ASSUME NEW n \in DataSizes, SctpData(n) PROVE SctpInv'
    <2>1. n \in Nat BY SctpAssumption
    <2>2. CASE n = 0
      <3>1. Apply("D", pack) BY <1>8, <2>2 DEF SctpData
      <3> QED BY <1>1, <3>1, ApplyKeeps DEF Apply, SctpOpt
    <2>3. CASE n # 0
      <3>1. Apply("D", Grow(Chunk(pack), n, n)) /\ pack.current # Stale
        BY <1>8, <2>3 DEF SctpData, grow_chunk
      <3>2. SctpGood(Grow(Chunk(pack), n, n)) /\ Grow(Chunk(pack), n, n).chunks # <<>>
        BY <1>1, <2>1, <3>1, ChunkGood, GrowGood
      <3> QED BY <3>1, <3>2, ApplyKeeps DEF Apply, SctpOpt
    <2> QED BY <2>2, <2>3
  <1>9. ASSUME NEW n \in DataSizes, SctpHostname(n) PROVE SctpInv'
    <2> DEFINE head == Grow(pack, 4, 4)
               size == round4(n + 1)
    <2>1. Apply("H", Grow(head, size, n + 1)) /\ pack.chunks # <<>>
      BY <1>1, <1>9, WithinIsSome DEF SctpHostname, grow_chunk, grow_chunk_round4
    <2>2. n + 1 \in Nat /\ size \in Nat BY SctpAssumption, Round4
    <2>3. SctpGood(head) /\ head.chunks # <<>> BY <1>1, <2>1, GrowGood
    <2> HIDE DEF head, size
    <2>4. SctpGood(Grow(head, size, n + 1)) /\ Grow(head, size, n + 1).chunks # <<>>
      BY <2>2, <2>3, GrowGood
    <2> QED BY <2>1, <2>4, ApplyKeeps DEF Apply, SctpOpt
  <1>10. ASSUME NEW n \in DataSizes, SctpAddresses(n) PROVE SctpInv'
    <2> DEFINE head == Grow(pack, 4, 4)
               size == 2 * round2(n)
    <2>1. Apply("A", Grow(head, size, size)) /\ pack.chunks # <<>>
      BY <1>1, <1>10, WithinIsSome DEF SctpAddresses, grow_chunk
    <2>2. size \in Nat BY SctpAssumption, Round2
    <2>3. SctpGood(head) /\ head.chunks # <<>> BY <1>1, <2>1, GrowGood
    <2> HIDE DEF head, size
    <2>4. SctpGood(Grow(head, size, size)) /\ Grow(head, size, size).chunks # <<>>
      BY <2>2, <2>3, GrowGood
    <2> QED BY <2>1, <2>4, ApplyKeeps DEF Apply, SctpOpt
  <1>11. ASSUME NEW n \in DataSizes, SctpLength(n) PROVE SctpInv'
    <2> DEFINE p == Chunk(pack)
               q == [p EXCEPT !.chunks[p.current].length = n % WORD, !.lied = TRUE]
    <2>1. Apply("L", q) /\ pack.current # Stale BY <1>11 DEF SctpLength
    <2>2. n \in Nat BY SctpAssumption
    <2>3. SctpGood(p) /\ p.chunks # <<>> BY <1>1, <2>1, ChunkGood
    <2> HIDE DEF p
    <2>4. SctpGood(q) /\ q.chunks # <<>> BY <2>2, <2>3, LengthGood
    <2> HIDE DEF q
    <2> QED BY <2>1, <2>4, ApplyKeeps DEF Apply, SctpOpt
  <1>12. ASSUME NEW n \in ParamSizes, SctpParam(n) PROVE SctpInv'
    <2>1. n \in Nat BY DEF ParamSizes
    <2>2. Apply("P", Grow(pack, n, n)) /\ pack.chunks # <<>>
      BY <1>1, <1>12, WithinIsSome DEF SctpParam, grow_chunk
    <2>3. SctpGood(Grow(pack, n, n)) /\ Grow(pack, n, n).chunks # <<>>
      BY <1>1, <2>1, <2>2, GrowGood
    <2> QED BY <2>2, <2>3, ApplyKeeps DEF Apply, SctpOpt
  <1>13. CASE UNCHANGED vars
    BY <1>13, SctpRest DEF vars
  <1> QED
    BY <1>2, <1>3, <1>4, <1>5, <1>6, <1>7, <1>8, <1>9, <1>10, <1>11, <1>12, <1>13 DEF SctpNext

LEMMA SctpStart == SctpInit => SctpInv
  <1> SUFFICES ASSUME SctpInit PROVE SctpInv OBVIOUS
  <1>1. /\ pack.alloc = HeaderSize /\ pack.chunks = <<>> /\ pack.current \in {NoChunk, Stale}
        /\ pack.copies = {} /\ pack.lied = FALSE
    BY DEF SctpInit
  <1>2. pack \in SctpPack
    <2>1. <<>> \in Seq(SctpChunk) OBVIOUS
    <2>2. HeaderSize \in Nat /\ NoChunk \in Int /\ Stale \in Int
      BY DEF HeaderSize, NoChunk, Stale
    <2> QED BY <2>1, <2>2 DEF SctpInit, SctpPack
  <1>3. opts \in Seq(SctpOpt) /\ opts = <<>> /\ DOMAIN opts = {} /\ pc = "options"
    BY DEF SctpInit
  <1> QED BY <1>1, <1>2, <1>3 DEF SctpInv, SctpGood, SctpInit

LEMMA SctpInvariance == SctpSpec => []SctpInv
  BY SctpStart, SctpStep, PTL DEF SctpSpec

\* Whatever the options and their sizes: without -sL a receiver meets every chunk
\* and ends with the packet (sctp.c, add_chunk() and grow_chunk()).
THEOREM ChunksTile == SctpSpec => []SctpChunksTile
  <1>1. SctpInv => SctpChunksTile BY DEF SctpInv, SctpGood, Tiled, SctpChunksTile, SctpEnd
  <1> QED BY <1>1, SctpInvariance, PTL

\* Whatever the options: the pointer of an earlier packet is not used after -sT
\* or -sI (sctp.c, the static currentchunk).
THEOREM OwnChunk == SctpSpec => []SctpOwnChunk
  <1>1. SctpInv => SctpOwnChunk BY DEF SctpInv, SctpOwnChunk
  <1> QED BY <1>1, SctpInvariance, PTL

LEMMA SctpTyped == SctpInv => SctpTypeOK
  <1> SUFFICES ASSUME SctpInv PROVE SctpTypeOK OBVIOUS
  <1>1. SctpGood(pack) /\ pack \in SctpPack BY DEF SctpInv, SctpGood
  <1>2. pack.current \in {NoChunk, Stale} \union DOMAIN pack.chunks
    BY <1>1, WithinIsSome DEF Within, SctpGood
  <1> QED BY <1>1, <1>2 DEF SctpTypeOK, SctpPack, SctpChunk

\* The types of the sctp header.
THEOREM SctpTypes == SctpSpec => []SctpTypeOK
  BY SctpTyped, SctpInvariance, PTL

-----------------------------------------------------------------------------
\* gre.  A word is in its place because the block has exactly the words that were
\* asked for: one for the checksum if an option took it, flagged or not, and one
\* for each of the other fields.  That holds for orderly options only; that no
\* write leaves the block follows from its size being at least what the flags ask
\* for, in any order.

GreValue == {"zero", "junk"} \union GreFlags
GreWord  == [1..2 -> GreValue]
GrePack ==
  [alloc : Nat, flags : SUBSET GreFlags, slots : UNION {[0..n -> GreWord] : n \in Nat},
   sumGiven : BOOLEAN, protocol : {"zero", "given", "ip", "ipv6"}, overrun : BOOLEAN]

\* The block has n words after its first four bytes and the one that is always there.
HasWords(p, n) ==
  n \in Nat /\ p.alloc = HdrSize + 4 * n /\ p.slots \in [0..n -> GreWord]

Wide(p) ==
  /\ p \in GrePack /\ \E n \in Nat : HasWords(p, n)
  /\ p.alloc >= Size(p.flags) /\ ~p.overrun
  /\ p.sumGiven => "C" \in p.flags

\* Where a field is; sum is 1 if the checksum word is taken, or else 0.
PlaceIn(flags, sum, f) ==
  CASE f = "K" -> sum
    [] f = "S" -> sum + One("K" \in flags)
    [] f = "R" -> sum + One("K" \in flags) + One("S" \in flags)

Fields(flags) == One("K" \in flags) + One("S" \in flags) + One("R" \in flags)

Layout(p, sum) ==
  /\ HasWords(p, sum + Fields(p.flags))
  /\ \A f \in p.flags \ {"C"} : p.slots[PlaceIn(p.flags, sum, f)] = Word(f)
  /\ p.sumGiven => p.slots[0][1] = "C"
  /\ "C" \in p.flags \/ "R" \in p.flags => sum = 1

\* The others are where they will be when f is there too.
Ready(p, f, sum) ==
  LET new == p.flags \union {f} IN
  /\ HasWords(p, sum + Fields(new))
  /\ \A g \in p.flags \ {"C", f} : p.slots[PlaceIn(new, sum, g)] = Word(g)
  /\ p.sumGiven => p.slots[0][1] = "C"

LEMMA OneFacts == \A b : One(b) \in {0, 1} /\ (b => One(b) = 1) /\ (~b => One(b) = 0)
  BY DEF One

LEMMA WordType == \A v \in GreValue : Word(v) \in GreWord
  BY DEF Word, GreWord

LEMMA HalfType ==
  \A w \in GreWord : \A h \in 1..2 : \A v \in GreValue :
    /\ [w EXCEPT ![h] = v] \in GreWord /\ [w EXCEPT ![h] = v][h] = v
    /\ \A g \in 1..2 : g # h => [w EXCEPT ![h] = v][g] = w[g]
  BY DEF GreWord

LEMMA SlotsOf == \A n \in Nat : Slots(HdrSize + 4 * n) = 0..n
  BY DEF Slots, HdrSize

\* A set of flags is counted flag by flag.
LEMMA Card ==
  ASSUME NEW T \in SUBSET GreFlags
  PROVE Cardinality(T) = One("C" \in T) + One("K" \in T) + One("S" \in T) + One("R" \in T)
  <1> DEFINE T1 == T \ {"C"}
             T2 == T1 \ {"K"}
             T3 == T2 \ {"S"}
             T4 == T3 \ {"R"}
  <1>1. IsFiniteSet(T)
    <2>1. IsFiniteSet(GreFlags)
      <3>1. IsFiniteSet({}) BY FS_EmptySet
      <3>2. IsFiniteSet({"C"}) /\ IsFiniteSet({"K"}) /\ IsFiniteSet({"S"}) /\ IsFiniteSet({"R"})
        BY FS_Singleton
      <3>3. GreFlags = (({"C"} \union {"K"}) \union {"S"}) \union {"R"} BY DEF GreFlags
      <3> QED BY <3>2, <3>3, FS_Union
    <2> QED BY <2>1, FS_Subset
  <1>2. /\ IsFiniteSet(T1) /\ IsFiniteSet(T2) /\ IsFiniteSet(T3) /\ IsFiniteSet(T4)
    BY <1>1, FS_Difference
  <1>3. \A S, x : IsFiniteSet(S) => Cardinality(S) \in Nat /\ Cardinality(S \ {x}) \in Nat /\
          Cardinality(S) = Cardinality(S \ {x}) + One(x \in S)
    <2> SUFFICES ASSUME NEW S, NEW x, IsFiniteSet(S)
         PROVE Cardinality(S) \in Nat /\ Cardinality(S \ {x}) \in Nat /\
          Cardinality(S) = Cardinality(S \ {x}) + One(x \in S)
      OBVIOUS
    <2>0. Cardinality(S) \in Nat /\ Cardinality(S \ {x}) \in Nat
      BY FS_CardinalityType, FS_Difference
    <2>1. CASE x \in S
      <3>1. Cardinality(S \ {x}) = Cardinality(S) - 1 BY <2>1, FS_RemoveElement
      <3>2. One(x \in S) = 1 BY <2>1 DEF One
      <3> QED BY <2>0, <3>1, <3>2
    <2>2. CASE x \notin S
      <3>1. S \ {x} = S BY <2>2
      <3>2. One(x \in S) = 0 BY <2>2 DEF One
      <3> QED BY <2>0, <3>1, <3>2
    <2> QED BY <2>1, <2>2
  <1>4. T4 = {} BY DEF GreFlags
  <1>5. Cardinality(T4) = 0 BY <1>4, FS_EmptySet
  <1>6. ("K" \in T1) = ("K" \in T) /\ ("S" \in T2) = ("S" \in T) /\ ("R" \in T3) = ("R" \in T)
     OBVIOUS
  <1>7. One("K" \in T1) = One("K" \in T) /\ One("S" \in T2) = One("S" \in T) /\ One("R" \in T3) = One("R" \in T)
     BY <1>6
  <1>8. Cardinality(T) = Cardinality(T1) + One("C" \in T) BY <1>1, <1>3
  <1>9. Cardinality(T1) = Cardinality(T2) + One("K" \in T1) BY <1>2, <1>3
  <1>10. Cardinality(T2) = Cardinality(T3) + One("S" \in T2) BY <1>2, <1>3
  <1>11. Cardinality(T3) = Cardinality(T4) + One("R" \in T3) BY <1>2, <1>3
  <1>12. \A b : One(b) \in Nat BY DEF One
  <1> HIDE DEF T1, T2, T3, T4
  <1> QED BY <1>5, <1>7, <1>8, <1>9, <1>10, <1>11, <1>12

LEMMA SizeOf ==
  ASSUME NEW T \in SUBSET GreFlags
  PROVE  Size(T) = HdrSize + 4 * (One("C" \in T) + One("K" \in T) + One("S" \in T)
                                  + One("R" \in T) + One("R" \in T /\ "C" \notin T))
  <1>1. \A a, b, c, d, e \in {0, 1} : (8 + 4 * (a + b + c + d)) + 4 * e
                                       = 8 + 4 * (a + b + c + d + e)
    OBVIOUS
  <1>2. Size(T) = (8 + 4 * (One("C" \in T) + One("K" \in T) + One("S" \in T) + One("R" \in T)))
                  + 4 * One("R" \in T /\ "C" \notin T)
    BY Card DEF Size, HdrSize
  <1> QED BY <1>1, <1>2, OneFacts DEF HdrSize

LEMMA SizeNat ==
  ASSUME NEW T \in SUBSET GreFlags
  PROVE  Size(T) \in Nat /\ \E n \in Nat : Size(T) = HdrSize + 4 * n
  <1> DEFINE n == One("C" \in T) + One("K" \in T) + One("S" \in T)
                  + One("R" \in T) + One("R" \in T /\ "C" \notin T)
  <1>1. n \in Nat BY OneFacts
  <1>2. Size(T) = HdrSize + 4 * n BY SizeOf
  <1> HIDE DEF n
  <1> QED BY <1>1, <1>2 DEF HdrSize

\* The flags ask for a word for each field, and one for the checksum.
LEMMA SizeFields ==
  ASSUME NEW T \in SUBSET GreFlags, NEW m, m = IF "C" \in T \/ "R" \in T THEN 1 ELSE 0
  PROVE  Fields(T) \in 0..3 /\ Size(T) = HdrSize + 4 * (m + Fields(T))
  <1> DEFINE c == One("C" \in T)
             k == One("K" \in T)
             z == One("S" \in T)
             r == One("R" \in T)
             x == One("R" \in T /\ "C" \notin T)
  <1>1. k \in {0, 1} /\ z \in {0, 1} /\ r \in {0, 1} BY DEF One
  <1>2. c \in {0, 1} /\ x \in {0, 1} /\ c + x = m BY DEF One
  <1>3. Size(T) = HdrSize + 4 * (c + k + z + r + x) BY SizeOf
  <1>4. Fields(T) = k + z + r BY DEF Fields
  <1> HIDE DEF c, k, z, r, x
  <1>5. Fields(T) \in 0..3 BY <1>1, <1>4
  <1>6. c + k + z + r + x = m + (k + z + r) BY <1>1, <1>2
  <1> QED BY <1>3, <1>4, <1>5, <1>6

\* Room for b words: the ones from spot on move up, except into the last.
LEMMA ShiftFacts ==
  ASSUME NEW p \in GrePack, NEW a, HasWords(p, a), NEW b \in Nat, a < b, NEW spot \in 0..b
  PROVE  LET q == Shifted(p, HdrSize + 4 * b, spot)
         IN  /\ q \in GrePack /\ HasWords(q, b) /\ q.overrun = p.overrun
             /\ q.flags = p.flags /\ q.sumGiven = p.sumGiven
             /\ \A i \in 0..a : i < spot => q.slots[i] = p.slots[i]
             /\ \A i \in 0..a : spot <= i /\ i + 1 < b => q.slots[i + 1] = p.slots[i]
  <1> DEFINE size == HdrSize + 4 * b
             old == [i \in 0..b |-> IF i \in DOMAIN p.slots THEN p.slots[i] ELSE Word("junk")]
             new == [i \in 0..b |-> IF i = spot THEN Word("zero")
                                    ELSE IF spot < i /\ i < b THEN old[i - 1] ELSE old[i]]
             q == Shifted(p, size, spot)
  <1>1. /\ a \in Nat /\ p.alloc = 8 + 4 * a /\ p.slots \in [0..a -> GreWord]
        /\ p.overrun \in BOOLEAN /\ size \in Nat
    BY DEF HasWords, HdrSize, GrePack
  <1>2. ~(p.alloc >= size) /\ (size - HdrSize) \div 4 = b
    <2>1. ~(p.alloc >= size) BY <1>1 DEF HdrSize
    <2>2. \A n \in Nat : ((8 + 4 * n) - 8) \div 4 = n OBVIOUS
    <2> QED BY <2>1, <2>2 DEF HdrSize
  <1>3. Slots(size) = 0..b BY SlotsOf
  <1>4. old \in [0..b -> GreWord]
    <2>1. Word("junk") \in GreWord BY WordType DEF GreValue
    <2> QED BY <1>1, <2>1
  <1>5. new \in [0..b -> GreWord]
    <2>1. Word("zero") \in GreWord BY WordType DEF GreValue
    <2>2. \A i \in 0..b : spot < i => i - 1 \in 0..b OBVIOUS
    <2> HIDE DEF old
    <2> QED BY <1>4, <2>1, <2>2
  <1>6. /\ \A i \in 0..a : i < spot => new[i] = p.slots[i]
        /\ \A i \in 0..a : spot <= i /\ i + 1 < b => new[i + 1] = p.slots[i]
    <2>1. \A i \in 0..a : i \in 0..b /\ old[i] = p.slots[i] BY <1>1
    <2>2. ASSUME NEW i \in 0..a, i < spot PROVE new[i] = p.slots[i]
      <3>1. i \in 0..b /\ i # spot /\ ~(spot < i) BY <1>1, <2>2
      <3> HIDE DEF old
      <3> QED BY <2>1, <3>1
    <2>3. ASSUME NEW i \in 0..a, spot <= i, i + 1 < b PROVE new[i + 1] = p.slots[i]
      <3>1. i + 1 \in 0..b /\ i + 1 # spot /\ spot < i + 1 /\ (i + 1) - 1 = i
        BY <1>1, <2>3
      <3> HIDE DEF old
      <3> QED BY <2>1, <2>3, <3>1
    <2> QED BY <2>2, <2>3
  <1>7. q = [p EXCEPT !.alloc = size, !.overrun = p.overrun, !.slots = new]
    <2>1. q = [p EXCEPT !.alloc = size, !.overrun = p.overrun \/ spot \notin 0..b,
                        !.slots = new]
      <3> DEFINE last == (size - HdrSize) \div 4
                 was == [i \in Slots(size) |->
                           IF i \in DOMAIN p.slots THEN p.slots[i] ELSE Word("junk")]
                 is  == [i \in Slots(size) |->
                           IF i = spot THEN Word("zero")
                           ELSE IF spot < i /\ i < last THEN was[i - 1] ELSE was[i]]
      <3>1. was = old BY <1>3
      <3>2. is = new
        <4> HIDE DEF was, old, size
        <4> QED BY <1>2, <1>3, <3>1
      <3>3. q = [p EXCEPT !.alloc = size, !.overrun = @ \/ spot \notin Slots(size),
                          !.slots = is]
        BY <1>2 DEF Shifted
      <3> HIDE DEF is, new, size, q
      <3> QED BY <1>3, <3>2, <3>3 DEF GrePack
    <2>2. (p.overrun \/ spot \notin 0..b) = p.overrun BY <1>1
    <2> HIDE DEF new, size, q
    <2> QED BY <2>1, <2>2
  <1> HIDE DEF new, q
  <1>8. /\ q.alloc = size /\ q.overrun = p.overrun /\ q.slots = new /\ q.flags = p.flags
        /\ q.sumGiven = p.sumGiven /\ q \in GrePack
    <2> HIDE DEF size
    <2>1. new \in UNION {[0..n -> GreWord] : n \in Nat} BY <1>5
    <2> QED BY <1>1, <1>7, <2>1 DEF GrePack
  <1>9. HasWords(q, b) BY <1>5, <1>8 DEF HasWords
  <1> QED BY <1>6, <1>8, <1>9 DEF q, size

\* Making the block larger never hurts, whatever is in it.
LEMMA WideShift ==
  ASSUME NEW p, Wide(p), NEW b \in Nat, NEW spot \in 0..b
  PROVE  LET q == Shifted(p, HdrSize + 4 * b, spot)
         IN  /\ Wide(q) /\ q.flags = p.flags /\ q.sumGiven = p.sumGiven
             /\ q.alloc >= HdrSize + 4 * b /\ q.alloc >= p.alloc
  <1> DEFINE size == HdrSize + 4 * b
             q == Shifted(p, size, spot)
  <1>1. PICK a \in Nat : HasWords(p, a) BY DEF Wide
  <1>2. p \in GrePack /\ p.alloc = 8 + 4 * a /\ size = 8 + 4 * b
    BY <1>1 DEF HasWords, HdrSize, Wide
  <1>3. CASE p.alloc >= size
    <2>1. q = p BY <1>3 DEF Shifted
    <2> QED BY <1>2, <1>3, <2>1
  <1>4. CASE ~(p.alloc >= size)
    <2>1. a < b BY <1>2, <1>4
    <2>2. /\ q \in GrePack /\ HasWords(q, b) /\ q.overrun = p.overrun /\ q.flags = p.flags
          /\ q.sumGiven = p.sumGiven
      BY <1>1, <1>2, <2>1, ShiftFacts
    <2>3. q.alloc = size BY <2>2 DEF HasWords
    <2>4. p.alloc >= Size(p.flags) /\ Size(p.flags) \in Nat BY <1>2, SizeNat DEF Wide, GrePack
    <2> HIDE DEF q, size
    <2>5. q.alloc >= Size(p.flags) /\ q.alloc >= p.alloc BY <1>2, <1>4, <2>3, <2>4
    <2>6. Wide(q) BY <2>2, <2>5 DEF Wide
    <2> QED BY <1>2, <2>2, <2>3, <2>5, <2>6 DEF q, size
  <1> QED BY <1>3, <1>4

\* gre_resize() for an option: enough room, and the place of the option is in it.
LEMMA ResizeWide ==
  ASSUME NEW p, Wide(p), NEW add \in GreFlags
  PROVE  LET q == gre_resize(p, add)
         IN  /\ Wide(q) /\ q.flags = p.flags /\ q.sumGiven = p.sumGiven
             /\ q.alloc >= Size(p.flags \union {add})
             /\ gre_where(p.flags, add) \in DOMAIN q.slots /\ 0 \in DOMAIN q.slots
  <1> DEFINE new == p.flags \union {add}
             where == gre_where(p.flags, add)
             q == gre_resize(p, add)
             both == p.flags \union {"C"}
             p1 == IF "R" \in new /\ "C" \notin new THEN Shifted(p, Size(both), 0) ELSE p
  <1>1. p.flags \in SUBSET GreFlags BY DEF Wide, GrePack
  <1>2. new \in SUBSET GreFlags /\ both \in SUBSET GreFlags BY <1>1 DEF GreFlags
  <1>3. PICK n \in Nat : Size(new) = HdrSize + 4 * n /\ where \in 0..n
    <2> DEFINE n == One("C" \in new) + One("K" \in new) + One("S" \in new)
                    + One("R" \in new) + One("R" \in new /\ "C" \notin new)
    <2>1. Size(new) = HdrSize + 4 * n BY <1>2, SizeOf
    <2>2. n \in Nat BY OneFacts
    <2>3. One("K" \in p.flags) <= One("K" \in new) /\ One("S" \in p.flags) <= One("S" \in new)
          /\ One("C" \in p.flags) <= One("C" \in new)
      BY DEF One
    <2>4. where \in 0..n
      <3>1. CASE add = "C" BY <2>2, <3>1 DEF gre_where
      <3>2. CASE add = "K"
        <4>1. where = One("C" \in p.flags) BY <3>2 DEF gre_where
        <4> QED BY <2>3, <4>1, OneFacts
      <3>3. CASE add = "S"
        <4>1. where = One("C" \in p.flags) + One("K" \in p.flags) BY <3>3 DEF gre_where
        <4> QED BY <2>3, <4>1, OneFacts
      <3>4. CASE add = "R"
        <4>1. where = 1 + One("K" \in p.flags) + One("S" \in p.flags)
          BY <3>4 DEF gre_where
        <4>2. One("R" \in new) = 1 BY <3>4 DEF One
        <4> QED BY <2>3, <4>1, <4>2, OneFacts
      <3> QED BY <3>1, <3>2, <3>3, <3>4 DEF GreFlags
    <2> HIDE DEF n
    <2> QED BY <2>1, <2>2, <2>4
  <1>4. /\ Wide(p1) /\ p1.flags = p.flags /\ p1.sumGiven = p.sumGiven
    <2>1. PICK m \in Nat : Size(both) = HdrSize + 4 * m BY <1>2, SizeNat
    <2>2. Wide(Shifted(p, HdrSize + 4 * m, 0))
          /\ Shifted(p, HdrSize + 4 * m, 0).flags = p.flags
          /\ Shifted(p, HdrSize + 4 * m, 0).sumGiven = p.sumGiven
      <3>1. 0 \in 0..m BY <2>1
      <3> QED BY <3>1, WideShift
    <2> QED BY <2>1, <2>2
  <1>5. q = IF new = p.flags THEN p ELSE Shifted(p1, Size(new), where) BY DEF gre_resize
  <1>6. /\ Wide(q) /\ q.flags = p.flags /\ q.sumGiven = p.sumGiven /\ q.alloc >= Size(new)
    <2>1. CASE new = p.flags BY <1>5, <2>1 DEF Wide
    <2>2. CASE new # p.flags
      <3>1. q = Shifted(p1, HdrSize + 4 * n, where) BY <1>3, <1>5, <2>2
      <3> HIDE DEF q, p1, where
      <3> QED BY <1>3, <1>4, <3>1, WideShift
    <2> QED BY <2>1, <2>2
  <1>7. PICK a \in Nat : HasWords(q, a) BY <1>6 DEF Wide
  <1>8. n <= a BY <1>3, <1>6, <1>7 DEF HasWords, HdrSize
  <1>9. DOMAIN q.slots = 0..a /\ where \in 0..a /\ 0 \in 0..a
    BY <1>3, <1>7, <1>8 DEF HasWords
  <1> QED BY <1>6, <1>9

\* Writing a word that is there.
LEMMA StoreFacts ==
  ASSUME NEW p, Wide(p), NEW spot \in DOMAIN p.slots, NEW w \in GreWord
  PROVE  LET q == Store(p, spot, w)
         IN  /\ Wide(q) /\ q.flags = p.flags /\ q.sumGiven = p.sumGiven /\ q.alloc = p.alloc
             /\ q.protocol = p.protocol
             /\ DOMAIN q.slots = DOMAIN p.slots
             /\ \A i \in DOMAIN p.slots : q.slots[i] = IF i = spot THEN w ELSE p.slots[i]
  <1> DEFINE new == [p.slots EXCEPT ![spot] = w]
             q == Store(p, spot, w)
  <1>1. p \in GrePack BY DEF Wide
  <1>2. PICK n \in Nat : HasWords(p, n) BY DEF Wide
  <1>3. new \in [0..n -> GreWord] BY <1>2 DEF HasWords
  <1>4. q = [p EXCEPT !.slots = new] BY <1>1 DEF Store, GrePack
  <1>5. \A i \in DOMAIN p.slots : new[i] = IF i = spot THEN w ELSE p.slots[i] OBVIOUS
  <1>6. DOMAIN new = DOMAIN p.slots OBVIOUS
  <1> HIDE DEF new, q
  <1>7. /\ q.alloc = p.alloc /\ q.slots = new /\ q.flags = p.flags /\ q.sumGiven = p.sumGiven
        /\ q.overrun = p.overrun /\ q.protocol = p.protocol /\ q \in GrePack
    <2>1. new \in UNION {[0..m -> GreWord] : m \in Nat} BY <1>3
    <2> QED BY <1>1, <1>4, <2>1 DEF GrePack
  <1>8. HasWords(q, n) BY <1>2, <1>3, <1>7 DEF HasWords
  <1>9. Wide(q) BY <1>7, <1>8 DEF Wide
  <1> QED BY <1>5, <1>6, <1>7, <1>9 DEF q

\* The places of different fields are different, and are words of the block.
LEMMA Places ==
  ASSUME NEW flags \in SUBSET GreFlags, NEW sum \in {0, 1},
         NEW a, a = sum + Fields(flags)
  PROVE  /\ a \in Nat
         /\ \A f \in flags \ {"C"} :
              /\ PlaceIn(flags, sum, f) \in sum..(a - 1)
              /\ PlaceIn(flags, sum, f) \in 0..a
              /\ sum = 1 => PlaceIn(flags, sum, f) # 0
              /\ \A g \in flags \ {"C"} : f # g =>
                   PlaceIn(flags, sum, f) # PlaceIn(flags, sum, g)
  <1> DEFINE k == One("K" \in flags)
             q == One("S" \in flags)
             r == One("R" \in flags)
  <1>1. sum \in {0, 1} /\ k \in {0, 1} /\ q \in {0, 1} /\ r \in {0, 1}
    BY OneFacts
  <1>2. ("K" \in flags => k = 1) /\ ("S" \in flags => q = 1) /\ ("R" \in flags => r = 1)
    BY OneFacts
  <1>3. a = sum + (k + q + r)
    <2>1. Fields(flags) = k + q + r BY DEF Fields
    <2> HIDE DEF k, q, r
    <2> QED BY <2>1
  <1>4. PlaceIn(flags, sum, "K") = sum /\ PlaceIn(flags, sum, "S") = sum + k
        /\ PlaceIn(flags, sum, "R") = sum + k + q
    BY DEF PlaceIn
  <1>5. \A f \in flags \ {"C"} : f \in {"K", "S", "R"} BY DEF GreFlags
  <1> HIDE DEF k, q, r
  <1>7. a \in Nat BY <1>1, <1>3
  <1>8. ASSUME NEW f \in flags \ {"C"}
        PROVE  PlaceIn(flags, sum, f) \in sum..(a - 1)
    <2>1. CASE f = "K" BY <1>1, <1>2, <1>3, <1>4, <1>8, <2>1
    <2>2. CASE f = "S" BY <1>1, <1>2, <1>3, <1>4, <1>8, <2>2
    <2>3. CASE f = "R"
      <3>1. r = 1 /\ PlaceIn(flags, sum, f) = sum + k + q BY <1>2, <1>4, <1>8, <2>3
      <3>2. a - 1 = sum + k + q BY <1>1, <1>3, <3>1
      <3> QED BY <1>1, <3>1, <3>2
    <2> QED BY <1>5, <2>1, <2>2, <2>3
  <1>9. ASSUME NEW f \in flags \ {"C"}, NEW g \in flags \ {"C"}, f # g
        PROVE  PlaceIn(flags, sum, f) # PlaceIn(flags, sum, g)
    <2>1. CASE "K" \in {f, g}
      <3>1. "K" \in flags BY <1>9, <2>1
      <3>2. sum < sum + k /\ sum < sum + k + q BY <1>1, <1>2, <3>1
      <3> QED BY <1>1, <1>4, <1>5, <1>9, <2>1, <3>2
    <2>2. CASE "K" \notin {f, g}
      <3>1. "S" \in flags BY <1>5, <1>9, <2>2
      <3>2. sum + k < sum + k + q BY <1>1, <1>2, <3>1
      <3> QED BY <1>1, <1>4, <1>5, <1>9, <2>2, <3>2
    <2> QED BY <2>1, <2>2
  <1>10. ASSUME NEW f \in flags \ {"C"}
         PROVE  PlaceIn(flags, sum, f) \in 0..a /\ (sum = 1 => PlaceIn(flags, sum, f) # 0)
    <2> DEFINE i == PlaceIn(flags, sum, f)
    <2>1. i \in sum..(a - 1) BY <1>8
    <2> HIDE DEF i
    <2>2. i \in 0..a /\ (sum = 1 => i # 0) BY <1>1, <1>7, <2>1
    <2> QED BY <1>1, <2>2 DEF i
  <1> QED BY <1>1, <1>7, <1>8, <1>9, <1>10

\* Setting a flag that there is room for.
LEMMA FlagFacts ==
  ASSUME NEW p, Wide(p), NEW f \in GreFlags, p.alloc >= Size(p.flags \union {f})
  PROVE  LET q == Flagged(p, f)
         IN  /\ Wide(q) /\ q.flags = p.flags \union {f} /\ q.sumGiven = p.sumGiven
             /\ q.alloc = p.alloc /\ q.slots = p.slots /\ q.protocol = p.protocol
  <1> DEFINE q == Flagged(p, f)
  <1>1. p \in GrePack BY DEF Wide
  <1>2. p.flags \union {f} \in SUBSET GreFlags BY <1>1 DEF GrePack
  <1>3. q = [p EXCEPT !.flags = p.flags \union {f}] BY <1>1 DEF Flagged, GrePack
  <1> HIDE DEF q
  <1>4. /\ q \in GrePack /\ q.flags = p.flags \union {f} /\ q.sumGiven = p.sumGiven
        /\ q.alloc = p.alloc /\ q.slots = p.slots /\ q.overrun = p.overrun
        /\ q.protocol = p.protocol
    BY <1>1, <1>2, <1>3 DEF GrePack
  <1>5. PICK n \in Nat : HasWords(p, n) BY DEF Wide
  <1>6. HasWords(q, n) BY <1>4, <1>5 DEF HasWords
  <1>7. Wide(q) BY <1>4, <1>6 DEF Wide
  <1> QED BY <1>4, <1>7 DEF q

\* Storing a field for which the others have made room.
LEMMA PutField ==
  ASSUME NEW q, Wide(q), NEW f \in GreFlags \ {"C"}, NEW sum \in {0, 1},
         NEW new, new = q.flags \union {f}, q.alloc >= Size(new),
         Ready(q, f, sum), "C" \in new \/ "R" \in new => sum = 1,
         NEW spot, spot = PlaceIn(new, sum, f)
  PROVE  LET t == Flagged(Store(q, spot, Word(f)), f)
         IN  Wide(t) /\ Layout(t, sum) /\ t.flags = new
  <1> DEFINE w == Store(q, spot, Word(f))
             t == Flagged(w, f)
             a == sum + Fields(new)
  <1>0. /\ a = sum + Fields(new) /\ HasWords(q, a) /\ (q.sumGiven => q.slots[0][1] = "C")
        /\ \A g \in q.flags \ {"C", f} : q.slots[PlaceIn(new, sum, g)] = Word(g)
    BY DEF Ready
  <1> HIDE DEF a
  <1>1. q \in GrePack /\ new \in SUBSET GreFlags BY DEF Wide, GrePack
  <1>2. /\ a \in Nat /\ DOMAIN q.slots = 0..a
    BY <1>0, <1>1, Places DEF HasWords
  <1>3. f \in new \ {"C"} BY <1>1
  <1>4. /\ \A g \in new \ {"C"} : PlaceIn(new, sum, g) \in 0..a
        /\ \A g \in new \ {"C", f} : PlaceIn(new, sum, g) # spot
        /\ spot \in 0..a /\ (sum = 1 => 0 # spot)
    <2>1. \A g \in new \ {"C"} :
            /\ PlaceIn(new, sum, g) \in 0..a
            /\ sum = 1 => PlaceIn(new, sum, g) # 0
            /\ \A h \in new \ {"C"} : g # h =>
                 PlaceIn(new, sum, g) # PlaceIn(new, sum, h)
      <3> SUFFICES ASSUME NEW g \in new \ {"C"}
                   PROVE  /\ PlaceIn(new, sum, g) \in 0..a
                          /\ sum = 1 => PlaceIn(new, sum, g) # 0
                          /\ \A h \in new \ {"C"} : g # h =>
                               PlaceIn(new, sum, g) # PlaceIn(new, sum, h)
        OBVIOUS
      <3>1. PlaceIn(new, sum, g) \in 0..a BY <1>0, <1>1, Places
      <3>2. sum = 1 => PlaceIn(new, sum, g) # 0 BY <1>1, Places
      <3>3. ASSUME NEW h \in new \ {"C"}, g # h
            PROVE  PlaceIn(new, sum, g) # PlaceIn(new, sum, h)
        BY <1>1, <3>3, Places
      <3> QED BY <3>1, <3>2, <3>3
    <2>2. \A g \in new \ {"C", f} : g \in new \ {"C"} /\ g # f OBVIOUS
    <2> QED BY <1>3, <2>1, <2>2
  <1>5. Word(f) \in GreWord BY WordType DEF GreValue
  <1>6. /\ Wide(w) /\ w.flags = q.flags /\ w.sumGiven = q.sumGiven /\ w.alloc = q.alloc
        /\ DOMAIN w.slots = 0..a
        /\ \A i \in 0..a : w.slots[i] = IF i = spot THEN Word(f) ELSE q.slots[i]
    <2>1. spot \in DOMAIN q.slots BY <1>2, <1>4
    <2>2. /\ Wide(w) /\ w.flags = q.flags /\ w.sumGiven = q.sumGiven /\ w.alloc = q.alloc
          /\ DOMAIN w.slots = DOMAIN q.slots
      BY <1>5, <2>1, StoreFacts
    <2>3. ASSUME NEW i \in DOMAIN q.slots
          PROVE  w.slots[i] = IF i = spot THEN Word(f) ELSE q.slots[i]
      BY <1>5, <2>1, StoreFacts
    <2> HIDE DEF w
    <2> QED BY <1>2, <2>2, <2>3
  <1> HIDE DEF w
  <1>7. /\ Wide(t) /\ t.flags = new /\ t.sumGiven = q.sumGiven /\ t.alloc = q.alloc
        /\ t.slots = w.slots
    BY <1>6, FlagFacts
  <1> HIDE DEF t
  <1>8. HasWords(t, a)
    <2>1. PICK n \in Nat : HasWords(t, n) BY <1>7 DEF Wide
    <2>2. n = a BY <1>0, <1>2, <1>7, <2>1 DEF HasWords, HdrSize
    <2> QED BY <2>1, <2>2
  <1>9. ASSUME NEW g \in new \ {"C"} PROVE t.slots[PlaceIn(new, sum, g)] = Word(g)
    <2>1. CASE g = f BY <1>4, <1>6, <1>7, <2>1
    <2>2. CASE g # f
      <3>1. PlaceIn(new, sum, g) \in 0..a /\ PlaceIn(new, sum, g) # spot
        BY <1>3, <1>4, <2>2
      <3>2. q.slots[PlaceIn(new, sum, g)] = Word(g) BY <1>0, <2>2
      <3> QED BY <1>6, <1>7, <3>1, <3>2
    <2> QED BY <2>1, <2>2
  <1>10. q.sumGiven => t.slots[0][1] = "C"
    <2> SUFFICES ASSUME q.sumGiven PROVE t.slots[0][1] = "C" OBVIOUS
    <2>1. "C" \in new BY DEF Wide
    <2>2. 0 \in 0..a /\ spot # 0 BY <1>2, <1>4, <2>1
    <2> QED BY <1>0, <1>6, <1>7, <2>2
  <1>11. Layout(t, sum) BY <1>0, <1>7, <1>8, <1>9, <1>10 DEF Layout
  <1> QED BY <1>7, <1>11 DEF t, w

\* Making room for a field at its place moves the others to theirs.
LEMMA MakeRoom ==
  ASSUME NEW p, Wide(p), NEW f \in GreFlags \ {"C"}, f \notin p.flags, NEW sum \in {0, 1},
         Layout(p, sum), NEW new, new = p.flags \union {f},
         NEW b, b = sum + Fields(new), NEW spot, spot = PlaceIn(new, sum, f)
  PROVE  LET q == Shifted(p, HdrSize + 4 * b, spot)
         IN  Ready(q, f, sum)
  <1> DEFINE q == Shifted(p, HdrSize + 4 * b, spot)
             k == One("K" \in p.flags)
             z == One("S" \in p.flags)
             r == One("R" \in p.flags)
             a == sum + Fields(p.flags)
  <1>1. p \in GrePack /\ new \in SUBSET GreFlags /\ p.flags \in SUBSET GreFlags
    BY DEF Wide, GrePack
  <1>2. sum \in {0, 1} /\ k \in {0, 1} /\ z \in {0, 1} /\ r \in {0, 1}
    BY OneFacts
  <1>3. /\ One("K" \in new) = (IF f = "K" THEN 1 ELSE k)
        /\ One("S" \in new) = (IF f = "S" THEN 1 ELSE z)
        /\ One("R" \in new) = (IF f = "R" THEN 1 ELSE r)
    BY DEF One
  <1>4. /\ f = "K" => k = 0
        /\ f = "S" => z = 0
        /\ f = "R" => r = 0
    BY DEF One
  <1>5. f \in {"K", "S", "R"} BY DEF GreFlags
  <1>6. a = sum + (k + z + r) /\ b = sum + (One("K" \in new) + One("S" \in new) + One("R" \in new))
    BY DEF Fields
  <1>7. /\ PlaceIn(p.flags, sum, "K") = sum /\ PlaceIn(p.flags, sum, "S") = sum + k
        /\ PlaceIn(p.flags, sum, "R") = sum + k + z
        /\ PlaceIn(new, sum, "K") = sum /\ PlaceIn(new, sum, "S") = sum + One("K" \in new)
        /\ PlaceIn(new, sum, "R") = sum + One("K" \in new) + One("S" \in new)
    BY DEF PlaceIn
  <1>8. /\ HasWords(p, a) /\ (p.sumGiven => p.slots[0][1] = "C")
        /\ \A g \in p.flags \ {"C"} : p.slots[PlaceIn(p.flags, sum, g)] = Word(g)
        /\ "C" \in p.flags => sum = 1
    BY DEF Layout
  <1>9. \A g \in p.flags \ {"C"} : g \in {"K", "S", "R"} /\ g # f
    BY <1>1 DEF GreFlags
  <1>10. \A g \in p.flags \ {"C"} : PlaceIn(p.flags, sum, g) \in sum..(a - 1)
    BY <1>1, Places
  <1> HIDE DEF a, k, z, r
  <1>11. b = a + 1 /\ a \in Nat /\ b \in Nat /\ a < b /\ spot \in 0..b /\ sum <= spot
    <2>0. \A h \in 0..3 : /\ sum + h \in Nat
                          /\ sum <= sum + h
      BY <1>2
    <2>1. CASE f = "K"
      <3>1. b = sum + (1 + z + r) /\ a = sum + (0 + z + r) /\ spot = sum
        BY <1>3, <1>4, <1>6, <1>7, <2>1
      <3> QED BY <1>2, <3>1
    <2>2. CASE f = "S"
      <3>1. b = sum + (k + 1 + r) /\ a = sum + (k + 0 + r) /\ spot = sum + k
        BY <1>3, <1>4, <1>6, <1>7, <2>2
      <3> QED BY <1>2, <3>1
    <2>3. CASE f = "R"
      <3>1. b = sum + (k + z + 1) /\ a = sum + (k + z + 0) /\ spot = sum + k + z
        BY <1>3, <1>4, <1>6, <1>7, <2>3
      <3> QED BY <1>2, <3>1
    <2> QED BY <1>5, <2>1, <2>2, <2>3
  <1>12. /\ q.sumGiven = p.sumGiven /\ HasWords(q, b) /\ q.flags = p.flags
         /\ \A i \in 0..a : i < spot => q.slots[i] = p.slots[i]
         /\ \A i \in 0..a : spot <= i /\ i + 1 < b => q.slots[i + 1] = p.slots[i]
    <2>1. p \in GrePack /\ HasWords(p, a) /\ b \in Nat /\ a < b /\ spot \in 0..b
      BY <1>1, <1>8, <1>11
    <2>2. q.sumGiven = p.sumGiven /\ HasWords(q, b) /\ q.flags = p.flags
      BY <2>1, ShiftFacts
    <2>3. ASSUME NEW i \in 0..a, i < spot PROVE q.slots[i] = p.slots[i]
      BY <2>1, <2>3, ShiftFacts
    <2>4. ASSUME NEW i \in 0..a, spot <= i, i + 1 < b PROVE q.slots[i + 1] = p.slots[i]
      BY <2>1, <2>4, ShiftFacts
    <2> HIDE DEF q
    <2> QED BY <2>2, <2>3, <2>4
  <1> HIDE DEF q
  <1>13. ASSUME NEW g \in p.flags \ {"C"} PROVE q.slots[PlaceIn(new, sum, g)] = Word(g)
    <2> DEFINE i == PlaceIn(p.flags, sum, g)
               j == PlaceIn(new, sum, g)
    <2>1. i \in 0..a /\ i + 1 < b
      <3>1. i \in sum..(a - 1) BY <1>10
      <3> HIDE DEF i
      <3> QED BY <1>2, <1>11, <3>1
    <2>2. \/ i < spot /\ j = i
          \/ spot <= i /\ j = i + 1
      <3> USE <1>2, <1>3, <1>4, <1>7
      <3>1. CASE g = "K" /\ f = "S" BY <3>1, <1>13, OneFacts DEF k
      <3>2. CASE g = "K" /\ f = "R" BY <3>2, <1>13, OneFacts DEF k
      <3>3. CASE g = "S" /\ f = "K" BY <3>3, <1>13, OneFacts DEF z
      <3>4. CASE g = "S" /\ f = "R" BY <3>4, <1>13, OneFacts DEF z
      <3>5. CASE g = "R" /\ f = "K" BY <3>5, <1>13, OneFacts DEF r
      <3>6. CASE g = "R" /\ f = "S" BY <3>6, <1>13, OneFacts DEF r
      <3> QED BY <1>5, <1>9, <3>1, <3>2, <3>3, <3>4, <3>5, <3>6
    <2>3. p.slots[i] = Word(g) BY <1>8
    <2> HIDE DEF i, j
    <2>4. q.slots[j] = Word(g) BY <1>12, <2>1, <2>2, <2>3
    <2> QED BY <2>4 DEF j
  <1>14. q.sumGiven => q.slots[0][1] = "C"
    <2> SUFFICES ASSUME p.sumGiven PROVE q.slots[0][1] = "C" BY <1>12
    <2>1. sum = 1 BY <1>8 DEF Wide
    <2>2. 0 \in 0..a /\ 0 < spot BY <1>2, <1>11, <2>1
    <2> QED BY <1>8, <1>12, <2>2
  <1>15. Ready(q, f, sum) BY <1>12, <1>13, <1>14 DEF Ready
  <1> QED BY <1>15 DEF q

\* The checksum word, where it is not yet taken, moves the fields up by one.
LEMMA SumRoom ==
  ASSUME NEW p, Wide(p), NEW sum \in {0, 1}, Layout(p, sum), "C" \notin p.flags
  PROVE  LET q == Shifted(p, Size(p.flags \union {"C"}), 0)
         IN  Wide(q) /\ Layout(q, 1) /\ q.flags = p.flags /\ q.sumGiven = p.sumGiven
  <1> DEFINE both == p.flags \union {"C"}
             a == sum + Fields(p.flags)
             b == 1 + Fields(p.flags)
             q == Shifted(p, Size(both), 0)
  <1>1. p \in GrePack /\ p.flags \in SUBSET GreFlags /\ both \in SUBSET GreFlags
    BY DEF Wide, GrePack, GreFlags
  <1>2. Size(both) = HdrSize + 4 * b
    <2>1. Fields(both) = Fields(p.flags)
      <3>1. One("K" \in both) = One("K" \in p.flags) /\ One("S" \in both) = One("S" \in p.flags)
            /\ One("R" \in both) = One("R" \in p.flags)
        BY DEF One
      <3> QED BY <3>1 DEF Fields
    <2>2. Size(both) = HdrSize + 4 * (1 + Fields(both)) BY <1>1, SizeFields
    <2> QED BY <2>1, <2>2
  <1>3. (sum = 1 => a = b) /\ (sum = 0 => b = a + 1) /\ a \in Nat /\ b \in Nat
    <2>1. Fields(p.flags) \in 0..3 BY <1>1, SizeFields
    <2> QED BY <2>1
  <1>4. HasWords(p, a) /\ (sum = 0 => "R" \notin p.flags) BY DEF Layout
  <1>5. /\ \A g \in p.flags \ {"C"} : p.slots[PlaceIn(p.flags, sum, g)] = Word(g)
        /\ \A g \in p.flags \ {"C"} : PlaceIn(p.flags, sum, g) \in sum..(a - 1)
    BY <1>1, Places DEF Layout
  <1>6. ~p.sumGiven BY DEF Wide
  <1>7. CASE sum = 1
    <2>1. Size(both) = p.alloc BY <1>2, <1>3, <1>4, <1>7 DEF HasWords
    <2>2. p.alloc >= Size(both) BY <1>3, <1>4, <2>1 DEF HasWords, HdrSize
    <2>3. q = p BY <2>2 DEF Shifted
    <2> QED BY <1>7, <2>3
  <1>8. CASE sum = 0
    <2> HIDE DEF a, b, q
    <2>1. a < b /\ 0 \in 0..b BY <1>3, <1>8
    <2>2. /\ HasWords(q, b) /\ q.sumGiven = p.sumGiven /\ q.flags = p.flags
          /\ \A i \in 0..a : 0 <= i /\ i + 1 < b => q.slots[i + 1] = p.slots[i]
      <3>1. p \in GrePack /\ HasWords(p, a) /\ b \in Nat /\ a < b /\ 0 \in 0..b
            /\ q = Shifted(p, HdrSize + 4 * b, 0)
        BY <1>1, <1>2, <1>3, <1>4, <2>1 DEF q
      <3>2. HasWords(q, b) /\ q.sumGiven = p.sumGiven /\ q.flags = p.flags
        BY <3>1, ShiftFacts
      <3>3. ASSUME NEW i \in 0..a, 0 <= i, i + 1 < b PROVE q.slots[i + 1] = p.slots[i]
        BY <3>1, <3>3, ShiftFacts
      <3> QED BY <3>2, <3>3
    <2>3. Wide(q) BY <1>2, <1>3, <2>1, WideShift DEF q
    <2>4. ASSUME NEW g \in q.flags \ {"C"} PROVE q.slots[PlaceIn(q.flags, 1, g)] = Word(g)
      <3> DEFINE i == PlaceIn(p.flags, sum, g)
                 j == PlaceIn(p.flags, 1, g)
      <3>1. g \in p.flags \ {"C"} /\ g \in {"K", "S"}
        BY <1>1, <1>4, <1>8, <2>2 DEF GreFlags
      <3>2. j = i + 1
        <4>1. One("K" \in p.flags) \in {0, 1}
          BY DEF One
        <4>2. CASE g = "K" BY <1>8, <4>2 DEF PlaceIn
        <4>3. CASE g = "S"
          <5>1. i = sum + One("K" \in p.flags) /\ j = 1 + One("K" \in p.flags)
            BY <4>3 DEF PlaceIn
          <5> QED BY <1>8, <4>1, <5>1
        <4> QED BY <3>1, <4>2, <4>3
      <3>3. i \in sum..(a - 1) BY <1>5, <3>1
      <3>4. p.slots[i] = Word(g) BY <1>5, <3>1
      <3> HIDE DEF i, j
      <3>5. i \in 0..a /\ 0 <= i /\ i + 1 < b BY <1>3, <1>8, <3>3
      <3>6. q.slots[j] = Word(g) BY <2>2, <3>2, <3>4, <3>5
      <3> QED BY <2>2, <3>6 DEF j
    <2>5. Layout(q, 1) BY <1>6, <2>2, <2>4 DEF Layout, b
    <2> QED BY <2>2, <2>3, <2>5 DEF q
  <1> QED BY <1>7, <1>8

\* gre_resize() for the checksum, whether its flag follows or not.
LEMMA SumLayout ==
  ASSUME NEW p, Wide(p), NEW sum \in {0, 1}, Layout(p, sum)
  PROVE  Layout(gre_resize(p, "C"), 1)
  <1>1. CASE "C" \in p.flags
    <2>1. p.flags \union {"C"} = p.flags BY <1>1
    <2>2. gre_resize(p, "C") = p BY <2>1 DEF gre_resize
    <2>3. sum = 1 BY <1>1 DEF Layout
    <2> QED BY <2>2, <2>3
  <1>2. CASE "C" \notin p.flags
    <2>1. "C" \in p.flags \union {"C"} /\ p.flags \union {"C"} # p.flags BY <1>2
    <2>2. gre_where(p.flags, "C") = 0 BY DEF gre_where
    <2>3. gre_resize(p, "C") = Shifted(p, Size(p.flags \union {"C"}), 0)
      BY <2>1, <2>2 DEF gre_resize
    <2> QED BY <1>2, <2>3, SumRoom
  <1> QED BY <1>1, <1>2

\* Its flag moves no word.
LEMMA SumFlag ==
  ASSUME NEW p, Wide(p), Layout(p, 1), p.alloc >= Size(p.flags \union {"C"})
  PROVE  LET q == Flagged(p, "C")
         IN  Wide(q) /\ Layout(q, 1) /\ q.flags = p.flags \union {"C"}
             /\ q.sumGiven = p.sumGiven /\ q.slots = p.slots
  <1> DEFINE q == Flagged(p, "C")
             new == p.flags \union {"C"}
  <1>1. /\ Wide(q) /\ q.flags = new /\ q.slots = p.slots /\ q.alloc = p.alloc
        /\ q.sumGiven = p.sumGiven
    BY FlagFacts DEF GreFlags
  <1>2. \A f : f # "C" => One(f \in new) = One(f \in p.flags) BY DEF One
  <1>3. Fields(new) = Fields(p.flags) BY <1>2 DEF Fields
  <1>4. \A f \in p.flags \ {"C"} : PlaceIn(new, 1, f) = PlaceIn(p.flags, 1, f)
    BY <1>2 DEF PlaceIn
  <1> HIDE DEF q
  <1>5. HasWords(q, 1 + Fields(new)) BY <1>1, <1>3 DEF Layout, HasWords
  <1>6. \A f \in new \ {"C"} : q.slots[PlaceIn(new, 1, f)] = Word(f)
    BY <1>1, <1>4 DEF Layout
  <1>7. q.sumGiven => q.slots[0][1] = "C" BY <1>1 DEF Layout
  <1>8. Layout(q, 1) BY <1>1, <1>5, <1>6, <1>7 DEF Layout
  <1> QED BY <1>1, <1>8 DEF q

\* Half of the checksum word is written; the offset may not take the other half.
LEMMA PutHalf ==
  ASSUME NEW p, Wide(p), NEW h \in 1..2, NEW v \in GreValue, h = 1 => v = "C"
  PROVE  LET q == Store(p, 0, Half(p, h, v))
         IN  /\ Wide(q) /\ q.flags = p.flags /\ q.sumGiven = p.sumGiven
             /\ q.alloc = p.alloc /\ q.protocol = p.protocol
             /\ h = 1 => q.slots[0][1] = "C"
             /\ Layout(p, 1) => Layout(q, 1)
  <1> DEFINE w == Half(p, h, v)
             q == Store(p, 0, w)
  <1>1. PICK n \in Nat : HasWords(p, n) BY DEF Wide
  <1>2. p \in GrePack /\ 0 \in DOMAIN p.slots /\ p.slots[0] \in GreWord
        /\ DOMAIN p.slots = 0..n
    BY <1>1 DEF HasWords, Wide
  <1>3. w \in GreWord /\ w[h] = v /\ (h = 2 => w[1] = p.slots[0][1])
    BY <1>2, HalfType DEF Half
  <1> HIDE DEF w
  <1>4. /\ Wide(q) /\ q.flags = p.flags /\ q.sumGiven = p.sumGiven /\ q.alloc = p.alloc
        /\ q.protocol = p.protocol /\ DOMAIN q.slots = DOMAIN p.slots
        /\ \A i \in DOMAIN p.slots : q.slots[i] = IF i = 0 THEN w ELSE p.slots[i]
    BY <1>2, <1>3, StoreFacts
  <1> HIDE DEF q
  <1>5. h = 1 => q.slots[0][1] = "C" BY <1>2, <1>3, <1>4
  <1>6. ASSUME Layout(p, 1) PROVE Layout(q, 1)
    <2> DEFINE a == 1 + Fields(p.flags)
    <2>1. p.flags \in SUBSET GreFlags /\ HasWords(p, a)
      BY <1>2, <1>6 DEF Layout, GrePack
    <2>2. a \in Nat /\ p.alloc = 8 + 4 * a /\ DOMAIN p.slots = 0..a
      BY <2>1, OneFacts DEF HasWords, HdrSize
    <2>3. \A f \in p.flags \ {"C"} : /\ PlaceIn(p.flags, 1, f) \in 0..a
                                     /\ PlaceIn(p.flags, 1, f) # 0
      BY <2>1, Places
    <2> HIDE DEF a
    <2>4. \A f \in p.flags \ {"C"} : /\ PlaceIn(p.flags, 1, f) \in 0..a
                                     /\ PlaceIn(p.flags, 1, f) # 0
      BY <2>3
    <2>5. \A f \in p.flags \ {"C"} : q.slots[PlaceIn(p.flags, 1, f)] = Word(f)
      BY <1>4, <1>6, <2>2, <2>4 DEF Layout
    <2>6. HasWords(q, a)
      <3>1. PICK m \in Nat : HasWords(q, m) BY <1>4 DEF Wide
      <3>2. m = a BY <1>4, <2>2, <3>1 DEF HasWords, HdrSize
      <3> QED BY <3>1, <3>2
    <2>7. q.sumGiven => q.slots[0][1] = "C"
      <3>1. p.sumGiven => p.slots[0][1] = "C" BY <1>6 DEF Layout
      <3>2. h = 1 \/ h = 2 OBVIOUS
      <3> QED BY <1>2, <1>3, <1>4, <3>1, <3>2
    <2> QED BY <1>4, <1>6, <2>5, <2>6, <2>7 DEF Layout, a
  <1> QED BY <1>4, <1>5, <1>6 DEF q, w

\* An option of a field, when the words are those of the checksum and the fields.
LEMMA FieldAt ==
  ASSUME NEW p, Wide(p), NEW sum \in {0, 1}, Layout(p, sum),
         NEW f \in GreFlags \ {"C"}, NEW new, new = p.flags \union {f},
         "C" \in new \/ "R" \in new => sum = 1,
         Size(new) = HdrSize + 4 * (sum + Fields(new)),
         NEW spot, spot = PlaceIn(new, sum, f),
         NEW q, Wide(q), q.flags = p.flags, q.alloc >= Size(new),
         q = IF new = p.flags THEN p ELSE Shifted(p, Size(new), spot)
  PROVE  Layout(Flagged(Store(q, spot, Word(f)), f), sum)
  <1>1. Ready(q, f, sum)
    <2>1. CASE f \in p.flags
      <3>1. new = p.flags BY <2>1
      <3>2. q = p BY <3>1
      <3> QED BY <3>1, <3>2 DEF Layout, Ready
    <2>2. CASE f \notin p.flags
      <3> DEFINE b == sum + Fields(new)
      <3>1. q = Shifted(p, HdrSize + 4 * b, spot) BY <2>2
      <3>2. b = sum + Fields(new) OBVIOUS
      <3> HIDE DEF b
      <3> QED BY <2>2, <3>1, <3>2, MakeRoom
    <2> QED BY <2>1, <2>2
  <1>2. new = q.flags \union {f} OBVIOUS
  <1> QED BY <1>1, <1>2, PutField

\* -gk, -gs and -gr write into the block, whatever came before.
LEMMA FieldWide ==
  ASSUME NEW p, Wide(p), NEW f \in GreFlags
  PROVE  LET q == gre_resize(p, f)
             t == Flagged(Store(q, gre_where(q.flags, f), Word(f)), f)
         IN  Wide(t) /\ t.flags = p.flags \union {f} /\ t.sumGiven = p.sumGiven
  <1> DEFINE q == gre_resize(p, f)
             w == Store(q, gre_where(q.flags, f), Word(f))
  <1>1. /\ Wide(q) /\ q.flags = p.flags /\ q.sumGiven = p.sumGiven
        /\ q.alloc >= Size(p.flags \union {f}) /\ gre_where(p.flags, f) \in DOMAIN q.slots
    BY ResizeWide
  <1>2. Word(f) \in GreWord BY WordType DEF GreValue
  <1> HIDE DEF q
  <1>3. /\ Wide(w) /\ w.flags = p.flags /\ w.sumGiven = p.sumGiven
        /\ w.alloc >= Size(p.flags \union {f})
    BY <1>1, <1>2, StoreFacts
  <1> HIDE DEF w
  <1>4. LET t == Flagged(w, f)
        IN  Wide(t) /\ t.flags = p.flags \union {f} /\ t.sumGiven = p.sumGiven
    BY <1>3, FlagFacts
  <1> QED BY <1>4 DEF w, q

\* -gk and -gs, while no checksum word is taken without the flag.
LEMMA FieldLayout ==
  ASSUME NEW p, Wide(p), NEW sum \in {0, 1}, Layout(p, sum), sum = 1 => "C" \in p.flags,
         NEW f \in {"K", "S"}
  PROVE  LET q == gre_resize(p, f)
         IN  Layout(Flagged(Store(q, gre_where(q.flags, f), Word(f)), f), sum)
  <1> DEFINE q == gre_resize(p, f)
             new == p.flags \union {f}
             spot == gre_where(p.flags, f)
  <1>1. p.flags \in SUBSET GreFlags /\ f \in GreFlags /\ f # "C" BY DEF Wide, GrePack, GreFlags
  <1>2. ("C" \in p.flags \/ "R" \in p.flags => sum = 1) /\ ("C" \in p.flags <=> sum = 1)
    BY DEF Layout
  <1>3. ~("R" \in new /\ "C" \notin new) /\ ("C" \in new \/ "R" \in new => sum = 1)
        /\ ("C" \in new <=> sum = 1)
    BY <1>2
  <1>4. Size(new) = HdrSize + 4 * (sum + Fields(new))
    <2>1. One("C" \in new) = sum /\ One("R" \in new /\ "C" \notin new) = 0
      BY <1>3 DEF One
    <2>2. new \in SUBSET GreFlags BY <1>1
    <2> HIDE DEF new
    <2> QED BY <2>1, <2>2, SizeOf, OneFacts DEF Fields
  <1>5. spot = PlaceIn(new, sum, f)
    <2>1. One("C" \in p.flags) = sum BY <1>2 DEF One
    <2>2. f = "S" => One("K" \in p.flags) = One("K" \in new) BY DEF One
    <2> QED BY <2>1, <2>2 DEF gre_where, PlaceIn
  <1>6. q = IF new = p.flags THEN p ELSE Shifted(p, Size(new), spot)
    BY <1>3 DEF gre_resize
  <1>7. Wide(q) /\ q.flags = p.flags /\ q.alloc >= Size(new) BY <1>1, ResizeWide
  <1>8. f \in GreFlags \ {"C"} BY <1>1
  <1>9. new = p.flags \union {f} OBVIOUS
  <1> HIDE DEF q, new, spot
  <1>10. Layout(Flagged(Store(q, spot, Word(f)), f), sum)
    BY <1>3, <1>4, <1>5, <1>6, <1>7, <1>8, <1>9, FieldAt
  <1> QED BY <1>7, <1>10 DEF q, spot

\* -gr: the routing word takes the checksum word too.
LEMMA RouteLayout ==
  ASSUME NEW p, Wide(p), NEW sum \in {0, 1}, Layout(p, sum)
  PROVE  LET q == gre_resize(p, "R")
         IN  Layout(Flagged(Store(q, gre_where(q.flags, "R"), Word("R")), "R"), 1)
  <1> DEFINE q == gre_resize(p, "R")
             new == p.flags \union {"R"}
             spot == gre_where(p.flags, "R")
             p1 == IF "R" \in new /\ "C" \notin new
                   THEN Shifted(p, Size(p.flags \union {"C"}), 0) ELSE p
  <1>1. p.flags \in SUBSET GreFlags /\ "R" \in GreFlags \ {"C"}
    BY DEF Wide, GrePack, GreFlags
  <1>2. Wide(p1) /\ Layout(p1, 1) /\ p1.flags = p.flags
    <2>1. CASE "C" \in p.flags
      <3>1. p1 = p /\ sum = 1 BY <2>1 DEF Layout
      <3> QED BY <3>1
    <2>2. CASE "C" \notin p.flags
      <3>1. p1 = Shifted(p, Size(p.flags \union {"C"}), 0) BY <2>2
      <3> QED BY <2>2, <3>1, SumRoom
    <2> QED BY <2>1, <2>2
  <1>3. Size(new) = HdrSize + 4 * (1 + Fields(new))
    <2>1. "R" \in new /\ new \in SUBSET GreFlags BY <1>1 DEF One
    <2> HIDE DEF new
    <2>2. Size(new) = HdrSize + 4 * (1 + Fields(new)) BY <2>1, SizeFields
    <2> QED BY <2>1, <2>2
  <1>4. spot = PlaceIn(new, 1, "R")
    <2>1. One("K" \in p.flags) = One("K" \in new) /\ One("S" \in p.flags) = One("S" \in new)
      BY DEF One
    <2> QED BY <2>1 DEF gre_where, PlaceIn
  <1>5. q = IF new = p.flags THEN p1 ELSE Shifted(p1, Size(new), spot)
    <2>1. CASE new = p.flags
      <3>1. q = p BY <2>1 DEF gre_resize
      <3>2. p1 = p
        <4>1. CASE "C" \in p.flags BY <4>1
        <4>2. CASE "C" \notin p.flags
          <5>1. sum = 1 BY <2>1 DEF Layout
          <5>2. Size(p.flags \union {"C"}) = Size(new)
            <6> DEFINE both == p.flags \union {"C"}
            <6>1. both \in SUBSET GreFlags /\ new \in SUBSET GreFlags
              BY <1>1 DEF GreFlags
            <6>2. /\ One("K" \in both) = One("K" \in new) /\ One("S" \in both) = One("S" \in new)
                  /\ One("R" \in both) = One("R" \in new)
                  /\ One("C" \in both) + One("R" \in both /\ "C" \notin both) = 1
                  /\ One("C" \in new) + One("R" \in new /\ "C" \notin new) = 1
              BY <2>1, <4>2 DEF One
            <6> HIDE DEF both, new
            <6>3. Size(both) = Size(new) BY <6>1, <6>2, SizeOf, OneFacts DEF HdrSize
            <6> QED BY <6>3 DEF both
          <5>3. p.alloc >= Size(new) BY <2>1 DEF Wide
          <5> QED BY <5>2, <5>3 DEF Shifted
        <4> QED BY <4>1, <4>2
      <3> QED BY <2>1, <3>1, <3>2
    <2>2. CASE new # p.flags BY <2>2 DEF gre_resize
    <2> QED BY <2>1, <2>2
  <1>6. Wide(q) /\ q.flags = p.flags /\ q.alloc >= Size(new) BY <1>1, ResizeWide
  <1>7. new = p1.flags \union {"R"} /\ q.flags = p1.flags BY <1>2, <1>6
  <1> HIDE DEF q, new, spot, p1
  <1>8. Layout(Flagged(Store(q, spot, Word("R")), "R"), 1)
    BY <1>1, <1>2, <1>3, <1>4, <1>5, <1>6, <1>7, FieldAt
  <1> QED BY <1>6, <1>8 DEF q, spot

GreOption == {"K", "S", "R", "c", "C", "o", "p"}

Took(s, o) == \E i \in DOMAIN s : s[i] = o

\* Whether the checksum word is taken, with its flag or without.
Summed(s) == IF \E o \in {"o", "R", "c", "C"} : Took(s, o) THEN 1 ELSE 0

OrderlyIn(s) ==
  \A i, j \in DOMAIN s :
    i < j /\ s[i] \in Unflagged /\ s[j] \in {"K", "S"} => \E k \in 1..(j - 1) : s[k] \in {"c", "C"}

\* A header of which the options s were given.
GreGood(p, s) ==
  /\ s \in Seq(GreOption) /\ Wide(p)
  /\ \A f \in {"K", "S", "R"} : f \in p.flags <=> Took(s, f)
  /\ "C" \in p.flags <=> Took(s, "c") \/ Took(s, "C")
  /\ OrderlyIn(s) => Layout(p, Summed(s))

GreInv ==
  /\ module = "gre" /\ pc \in {"options", "failed", "done"}
  /\ GreGood(pack, opts)
  /\ Orderly /\ pc = "done" /\ "C" \in pack.flags => pack.slots[0][1] = "C"

LEMMA SummedType == \A s : Summed(s) \in {0, 1}
  BY DEF Summed

\* What one more option adds to what was taken, and to the order.
LEMMA OneMore ==
  ASSUME NEW s \in Seq(GreOption), NEW o \in GreOption
  PROVE  LET t == Append(s, o)
         IN  /\ t \in Seq(GreOption)
             /\ \A x : Took(t, x) <=> Took(s, x) \/ x = o
             /\ OrderlyIn(t) => OrderlyIn(s)
             /\ OrderlyIn(t) /\ o \in {"K", "S"} /\ Summed(s) = 1 => Took(s, "c") \/ Took(s, "C")
  <1> DEFINE t == Append(s, o)
             n == Len(s)
  <1>1. /\ n \in Nat /\ DOMAIN s = 1..n /\ t \in Seq(GreOption) /\ DOMAIN t = 1..(n + 1)
        /\ t[n + 1] = o /\ \A i \in 1..n : t[i] = s[i]
    OBVIOUS
  <1> HIDE DEF t, n
  <1>2. 1..n \subseteq 1..(n + 1) /\ n + 1 \in 1..(n + 1)
        /\ \A i \in 1..(n + 1) : i \in 1..n \/ i = n + 1
    BY <1>1
  <1>3. ASSUME NEW x PROVE Took(t, x) <=> Took(s, x) \/ x = o
    BY <1>1, <1>2 DEF Took
  <1>4. ASSUME OrderlyIn(t) PROVE OrderlyIn(s)
    <2> SUFFICES ASSUME NEW i \in 1..n, NEW j \in 1..n,
                        i < j, s[i] \in Unflagged, s[j] \in {"K", "S"}
                 PROVE  \E k \in 1..(j - 1) : s[k] \in {"c", "C"}
      BY <1>1 DEF OrderlyIn
    <2>1. PICK k \in 1..(j - 1) : t[k] \in {"c", "C"}
      <3>1. i \in DOMAIN t /\ j \in DOMAIN t /\ t[i] = s[i] /\ t[j] = s[j] BY <1>1, <1>2
      <3> QED BY <1>4, <3>1 DEF OrderlyIn
    <2>2. k \in 1..n BY <1>1
    <2> QED BY <1>1, <2>1, <2>2
  <1>5. ASSUME OrderlyIn(t), o \in {"K", "S"}, Summed(s) = 1 PROVE Took(s, "c") \/ Took(s, "C")
    <2> SUFFICES ASSUME NEW i \in 1..n, s[i] \in Unflagged PROVE Took(s, "c") \/ Took(s, "C")
      BY <1>1, <1>5 DEF Summed, Took, Unflagged
    <2>1. i \in DOMAIN t /\ n + 1 \in DOMAIN t /\ i < n + 1 /\ t[i] = s[i] BY <1>1, <1>2
    <2>2. PICK k \in 1..((n + 1) - 1) : t[k] \in {"c", "C"}
      BY <1>1, <1>5, <2>1 DEF OrderlyIn
    <2>3. k \in 1..n BY <1>1
    <2> QED BY <1>1, <2>2, <2>3 DEF Took
  <1> QED BY <1>1, <1>3, <1>4, <1>5 DEF t

\* -gk, -gs, -gr.
LEMMA FieldGood ==
  ASSUME NEW p, NEW s, GreGood(p, s), NEW f \in GreFlags \ {"C"}
  PROVE  LET q == gre_resize(p, f)
         IN  GreGood(Flagged(Store(q, gre_where(q.flags, f), Word(f)), f), Append(s, f))
  <1> DEFINE q == gre_resize(p, f)
             t == Flagged(Store(q, gre_where(q.flags, f), Word(f)), f)
             u == Append(s, f)
  <1>1. s \in Seq(GreOption) /\ f \in {"K", "S", "R"} /\ f \in GreOption /\ f \in GreFlags
    BY DEF GreGood, GreFlags, GreOption
  <1>2. /\ u \in Seq(GreOption) /\ \A x : Took(u, x) <=> Took(s, x) \/ x = f
        /\ OrderlyIn(u) => OrderlyIn(s)
        /\ OrderlyIn(u) /\ f \in {"K", "S"} /\ Summed(s) = 1 => Took(s, "c") \/ Took(s, "C")
    BY <1>1, OneMore
  <1>3. Wide(p) /\ Wide(t) /\ t.flags = p.flags \union {f}
    BY <1>1, FieldWide DEF GreGood
  <1>4. ASSUME OrderlyIn(u) PROVE Layout(t, Summed(u))
    <2>1. Layout(p, Summed(s)) /\ Summed(s) \in {0, 1} BY <1>2, <1>4, SummedType DEF GreGood
    <2>2. CASE f = "R"
      <3>1. Summed(u) = 1 BY <1>2, <2>2 DEF Summed
      <3>2. Layout(t, 1) BY <1>3, <2>1, <2>2, RouteLayout
      <3> QED BY <3>1, <3>2
    <2>3. CASE f # "R"
      <3>1. Summed(u) = Summed(s) BY <1>1, <1>2, <2>3 DEF Summed
      <3>2. f \in {"K", "S"} BY <1>1, <2>3
      <3>3. Summed(s) = 1 => "C" \in p.flags BY <1>2, <1>4, <3>2 DEF GreGood
      <3>4. Layout(t, Summed(s)) BY <1>3, <2>1, <3>2, <3>3, FieldLayout
      <3> QED BY <3>1, <3>4
    <2> QED BY <2>2, <2>3
  <1> HIDE DEF t, u
  <1>5. /\ \A g \in {"K", "S", "R"} : g \in t.flags <=> Took(u, g)
        /\ "C" \in t.flags <=> Took(u, "c") \/ Took(u, "C")
    BY <1>1, <1>2, <1>3 DEF GreGood
  <1>6. GreGood(t, u) BY <1>2, <1>3, <1>4, <1>5 DEF GreGood
  <1> QED BY <1>6 DEF t, u

\* -gc, -gC and -go make room for the checksum word.
LEMMA RoomGood ==
  ASSUME NEW p, NEW s, GreGood(p, s)
  PROVE  LET q == gre_resize(p, "C")
         IN  /\ Wide(q) /\ q.flags = p.flags /\ q.sumGiven = p.sumGiven
             /\ q.alloc >= Size(p.flags \union {"C"})
             /\ OrderlyIn(s) => Layout(q, 1)
  <1>1. Wide(p) /\ "C" \in GreFlags BY DEF GreGood, GreFlags
  <1>2. OrderlyIn(s) => Layout(p, Summed(s)) BY DEF GreGood
  <1> QED BY <1>1, <1>2, SummedType, ResizeWide, SumLayout

\* The checksum word and its flag.
LEMMA SumGood ==
  ASSUME NEW p, NEW s, GreGood(p, s), NEW o \in {"c", "C"},
         NEW t, Wide(t), t.flags = p.flags \union {"C"}, OrderlyIn(s) => Layout(t, 1)
  PROVE  GreGood(t, Append(s, o))
  <1> DEFINE u == Append(s, o)
  <1>1. s \in Seq(GreOption) /\ o \in GreOption BY DEF GreGood, GreOption
  <1>2. /\ u \in Seq(GreOption) /\ \A x : Took(u, x) <=> Took(s, x) \/ x = o
        /\ OrderlyIn(u) => OrderlyIn(s)
    BY <1>1, OneMore
  <1> HIDE DEF u
  <1>3. Summed(u) = 1 BY <1>2 DEF Summed
  <1>4. /\ \A g \in {"K", "S", "R"} : g \in t.flags <=> Took(u, g)
        /\ "C" \in t.flags <=> Took(u, "c") \/ Took(u, "C")
    BY <1>1, <1>2 DEF GreGood
  <1>5. GreGood(t, u) BY <1>2, <1>3, <1>4 DEF GreGood
  <1> QED BY <1>5 DEF u

\* An option that sets no flag.
LEMMA OtherGood ==
  ASSUME NEW p, NEW s, GreGood(p, s), NEW o \in {"o", "p"},
         NEW t, Wide(t), t.flags = p.flags,
         OrderlyIn(s) => Layout(t, IF o = "o" THEN 1 ELSE Summed(s))
  PROVE  GreGood(t, Append(s, o))
  <1> DEFINE u == Append(s, o)
  <1>1. s \in Seq(GreOption) /\ o \in GreOption BY DEF GreGood, GreOption
  <1>2. /\ u \in Seq(GreOption) /\ \A x : Took(u, x) <=> Took(s, x) \/ x = o
        /\ OrderlyIn(u) => OrderlyIn(s)
    BY <1>1, OneMore
  <1> HIDE DEF u
  <1>3. Summed(u) = IF o = "o" THEN 1 ELSE Summed(s)
    <2>1. CASE o = "o" BY <1>2, <2>1 DEF Summed
    <2>2. CASE o = "p"
      <3>1. Summed(u) = Summed(s) BY <1>2, <2>2 DEF Summed
      <3> QED BY <2>2, <3>1
    <2> QED BY <2>1, <2>2
  <1>4. /\ \A g \in {"K", "S", "R"} : g \in t.flags <=> Took(u, g)
        /\ "C" \in t.flags <=> Took(u, "c") \/ Took(u, "C")
    BY <1>1, <1>2 DEF GreGood
  <1>5. GreGood(t, u) BY <1>2, <1>3, <1>4 DEF GreGood
  <1> QED BY <1>5 DEF u

\* Neither the protocol nor the mark of a given sum moves a word.
LEMMA SameWords ==
  ASSUME NEW p, Wide(p), NEW q \in GrePack,
         q.alloc = p.alloc, q.slots = p.slots, q.flags = p.flags, q.overrun = p.overrun,
         q.sumGiven => "C" \in p.flags
  PROVE  /\ Wide(q)
         /\ \A sum \in {0, 1} :
              Layout(p, sum) /\ (q.sumGiven => p.slots[0][1] = "C") => Layout(q, sum)
  <1>1. \A n : HasWords(p, n) => HasWords(q, n) BY DEF HasWords
  <1>2. Wide(q) BY <1>1 DEF Wide
  <1> QED BY <1>1, <1>2 DEF Layout

LEMMA ChecksumStep ==
  ASSUME GreInv, GreChecksum
  PROVE  GreInv'
  <1> DEFINE r == gre_resize(pack, "C")
             p == Flagged(r, "C")
             w == Store(p, 0, Half(p, 1, "C"))
             t == [w EXCEPT !.sumGiven = TRUE]
  <1>1. GreGood(pack, opts) BY DEF GreInv
  <1>2. /\ Wide(r) /\ r.flags = pack.flags /\ r.alloc >= Size(r.flags \union {"C"})
        /\ OrderlyIn(opts) => Layout(r, 1)
    BY <1>1, RoomGood
  <1> HIDE DEF r
  <1>3. /\ Wide(p) /\ p.flags = pack.flags \union {"C"} /\ (OrderlyIn(opts) => Layout(p, 1))
    <2>1. "C" \in GreFlags BY DEF GreFlags
    <2> QED BY <1>2, <2>1, FlagFacts, SumFlag
  <1> HIDE DEF p
  <1>4. "C" \in GreValue /\ 1 \in 1..2 BY DEF GreValue, GreFlags
  <1>5. /\ Wide(w) /\ w.flags = p.flags /\ w.slots[0][1] = "C"
        /\ (OrderlyIn(opts) => Layout(w, 1))
    BY <1>3, <1>4, PutHalf
  <1> HIDE DEF w
  <1>6. w \in GrePack BY <1>5 DEF Wide
  <1>7. /\ t \in GrePack /\ t.alloc = w.alloc /\ t.slots = w.slots /\ t.flags = w.flags
        /\ t.overrun = w.overrun
    BY <1>6 DEF GrePack
  <1> HIDE DEF t
  <1>8. "C" \in w.flags BY <1>3, <1>5
  <1>9. Wide(t) /\ (OrderlyIn(opts) => Layout(t, 1)) BY <1>5, <1>7, <1>8, SameWords
  <1>10. GreGood(t, Append(opts, "c")) BY <1>1, <1>3, <1>5, <1>7, <1>9, SumGood
  <1>11. /\ pack' = t /\ opts' = Append(opts, "c") /\ module' = module /\ pc' = pc
         /\ pc # "done"
    BY DEF GreChecksum, Apply, t, w, p, r
  <1> QED BY <1>10, <1>11 DEF GreInv

LEMMA ComputedStep ==
  ASSUME GreInv, GreComputed
  PROVE  GreInv'
  <1> DEFINE r == gre_resize(pack, "C")
             t == Flagged(r, "C")
  <1>1. GreGood(pack, opts) BY DEF GreInv
  <1>2. /\ Wide(r) /\ r.flags = pack.flags /\ r.alloc >= Size(r.flags \union {"C"})
        /\ OrderlyIn(opts) => Layout(r, 1)
    BY <1>1, RoomGood
  <1> HIDE DEF r
  <1>3. /\ Wide(t) /\ t.flags = pack.flags \union {"C"} /\ (OrderlyIn(opts) => Layout(t, 1))
    <2>1. "C" \in GreFlags BY DEF GreFlags
    <2> QED BY <1>2, <2>1, FlagFacts, SumFlag
  <1> HIDE DEF t
  <1>4. GreGood(t, Append(opts, "C")) BY <1>1, <1>3, SumGood
  <1>5. /\ pack' = t /\ opts' = Append(opts, "C") /\ module' = module /\ pc' = pc
        /\ pc # "done"
    BY DEF GreComputed, Apply, t, r
  <1> QED BY <1>4, <1>5 DEF GreInv

LEMMA OffsetStep ==
  ASSUME GreInv, GreOffset
  PROVE  GreInv'
  <1> DEFINE r == gre_resize(pack, "C")
             t == Store(r, 0, Half(r, 2, "zero"))
  <1>1. GreGood(pack, opts) BY DEF GreInv
  <1>2. Wide(r) /\ r.flags = pack.flags /\ (OrderlyIn(opts) => Layout(r, 1))
    BY <1>1, RoomGood
  <1> HIDE DEF r
  <1>3. "zero" \in GreValue /\ 2 \in 1..2 BY DEF GreValue
  <1>4. Wide(t) /\ t.flags = pack.flags /\ (OrderlyIn(opts) => Layout(t, 1))
    BY <1>2, <1>3, PutHalf
  <1> HIDE DEF t
  <1>5. GreGood(t, Append(opts, "o")) BY <1>1, <1>4, OtherGood
  <1>6. /\ pack' = t /\ opts' = Append(opts, "o") /\ module' = module /\ pc' = pc
        /\ pc # "done"
    BY DEF GreOffset, Apply, t, r
  <1> QED BY <1>5, <1>6 DEF GreInv

\* protocol is set, by -gp or by finalize().
LEMMA SetProtocol ==
  ASSUME NEW p, Wide(p), NEW v \in {"given", "ip", "ipv6"}
  PROVE  LET q == [p EXCEPT !.protocol = v]
         IN  /\ Wide(q) /\ q.flags = p.flags /\ q.slots = p.slots /\ q.sumGiven = p.sumGiven
             /\ \A sum \in {0, 1} : Layout(p, sum) => Layout(q, sum)
  <1> DEFINE q == [p EXCEPT !.protocol = v]
  <1>1. p \in GrePack /\ (p.sumGiven => "C" \in p.flags) BY DEF Wide
  <1>2. /\ q \in GrePack /\ q.alloc = p.alloc /\ q.slots = p.slots /\ q.flags = p.flags
        /\ q.overrun = p.overrun /\ q.sumGiven = p.sumGiven
    BY <1>1 DEF GrePack
  <1> HIDE DEF q
  <1>3. Wide(q) /\ \A sum \in {0, 1} : Layout(p, sum) => Layout(q, sum)
    <2>1. \A sum \in {0, 1} : Layout(p, sum) => (q.sumGiven => p.slots[0][1] = "C")
      BY <1>2 DEF Layout
    <2> QED BY <1>1, <1>2, <2>1, SameWords
  <1> QED BY <1>2, <1>3 DEF q

LEMMA ProtocolStep ==
  ASSUME GreInv, GreProtocol
  PROVE  GreInv'
  <1> DEFINE t == [pack EXCEPT !.protocol = "given"]
  <1>1. GreGood(pack, opts) BY DEF GreInv
  <1>2. /\ Wide(t) /\ t.flags = pack.flags
        /\ \A sum \in {0, 1} : Layout(pack, sum) => Layout(t, sum)
    BY <1>1, SetProtocol DEF GreGood
  <1>3. OrderlyIn(opts) => Layout(t, Summed(opts)) BY <1>1, <1>2, SummedType DEF GreGood
  <1> HIDE DEF t
  <1>4. GreGood(t, Append(opts, "p")) BY <1>1, <1>2, <1>3, OtherGood
  <1>5. /\ pack' = t /\ opts' = Append(opts, "p") /\ module' = module /\ pc' = pc
        /\ pc # "done"
    BY DEF GreProtocol, Apply, t
  <1> QED BY <1>4, <1>5 DEF GreInv

\* finalize() fills in the half that is the sum, if nobody gave it.
LEMMA FinalizeStep ==
  ASSUME GreInv, GreFinalize
  PROVE  GreInv'
  <1>1. GreGood(pack, opts) BY DEF GreInv
  <1>2. PICK inner \in {"ip", "ipv6", "none"} :
          /\ pack' = GreFinalized(pack, inner) /\ opts' = opts /\ module' = module
          /\ pc' = "done"
    BY DEF GreFinalize, FinalizeWith
  <1> DEFINE q == IF pack.protocol = "given" \/ inner = "none" THEN pack
                  ELSE [pack EXCEPT !.protocol = inner]
             t == IF "C" \in pack.flags /\ ~pack.sumGiven
                  THEN Store(q, 0, Half(q, 1, "C")) ELSE q
  <1>3. pack' = t BY <1>2 DEF GreFinalized
  <1>4. /\ Wide(pack) /\ Wide(q) /\ q.flags = pack.flags /\ q.slots = pack.slots
        /\ q.sumGiven = pack.sumGiven
        /\ \A sum \in {0, 1} : Layout(pack, sum) => Layout(q, sum)
    BY <1>1, SetProtocol DEF GreGood
  <1> HIDE DEF q
  <1>5. /\ Wide(t) /\ t.flags = pack.flags
        /\ OrderlyIn(opts) => Layout(t, Summed(opts))
        /\ OrderlyIn(opts) /\ "C" \in pack.flags => t.slots[0][1] = "C"
    <2>1. OrderlyIn(opts) => Layout(q, Summed(opts)) BY <1>1, <1>4, SummedType DEF GreGood
    <2>2. CASE "C" \in pack.flags /\ ~pack.sumGiven
      <3>1. Summed(opts) = 1 BY <1>1, <2>2 DEF GreGood, Summed
      <3>2. "C" \in GreValue /\ 1 \in 1..2 BY DEF GreValue, GreFlags
      <3>3. t = Store(q, 0, Half(q, 1, "C")) BY <2>2
      <3> HIDE DEF t
      <3> QED BY <1>4, <2>1, <3>1, <3>2, <3>3, PutHalf
    <2>3. CASE ~("C" \in pack.flags /\ ~pack.sumGiven)
      <3>1. t = q BY <2>3
      <3> HIDE DEF t
      <3>2. OrderlyIn(opts) /\ "C" \in pack.flags => t.slots[0][1] = "C"
        BY <1>4, <2>1, <2>3, <3>1 DEF Layout
      <3> QED BY <1>4, <2>1, <3>1, <3>2
    <2> QED BY <2>2, <2>3
  <1> HIDE DEF t
  <1>6. GreGood(t, opts) BY <1>1, <1>5 DEF GreGood
  <1>7. Orderly' = OrderlyIn(opts) BY <1>2 DEF Orderly, OrderlyIn
  <1> QED BY <1>2, <1>3, <1>5, <1>6, <1>7 DEF GreInv

LEMMA GreStart ==
  ASSUME GreInit
  PROVE  GreInv
  <1> DEFINE w == [i \in {0} |-> Word("zero")]
  <1>1. /\ module = "gre" /\ opts = <<>> /\ pc = "options"
        /\ pack = [alloc |-> 8, flags |-> {}, slots |-> w, sumGiven |-> FALSE,
                   protocol |-> "zero", overrun |-> FALSE]
    BY DEF GreInit, HdrSize
  <1>2. w \in [0..0 -> GreWord]
    <2>1. Word("zero") \in GreWord BY WordType DEF GreValue
    <2>2. {0} = 0..0 OBVIOUS
    <2> QED BY <2>1, <2>2
  <1> HIDE DEF w
  <1>3. /\ pack \in GrePack /\ HasWords(pack, 0) /\ pack.alloc = 8 /\ pack.flags = {}
        /\ ~pack.overrun /\ ~pack.sumGiven
    <2>1. w \in UNION {[0..n -> GreWord] : n \in Nat} BY <1>2
    <2>2. HdrSize = 8 + 4 * 0 /\ 8 \in Nat /\ 0 \in Nat /\ 8 = 8 + 4 * 0 BY DEF HdrSize
    <2> QED BY <1>1, <1>2, <2>1, <2>2 DEF GrePack, HasWords, HdrSize
  <1>4. Size({}) = 8 + 4 * (0 + 0 + 0 + 0 + 0) /\ Fields({}) = 0 + 0 + 0 /\ 0 = 0
    <2>1. \A f : One(f \in {}) = 0 BY DEF One
    <2>2. One("R" \in {} /\ "C" \notin {}) = 0 BY DEF One
    <2> QED BY <2>1, <2>2, SizeOf, OneFacts DEF Fields, HdrSize
  <1>5. Wide(pack) BY <1>3, <1>4 DEF Wide
  <1>6. \A o : ~Took(opts, o) BY <1>1 DEF Took
  <1>7. Layout(pack, Summed(opts))
    <2>1. Summed(opts) = 0 BY <1>6 DEF Summed
    <2>2. HasWords(pack, 0 + Fields(pack.flags)) BY <1>3, <1>4
    <2> QED BY <1>3, <2>1, <2>2 DEF Layout
  <1>8. GreGood(pack, opts) BY <1>1, <1>3, <1>5, <1>6, <1>7 DEF GreGood
  <1> QED BY <1>1, <1>3, <1>8 DEF GreInv

LEMMA GreStep == GreInv /\ [GreNext]_vars => GreInv'
  <1> SUFFICES ASSUME GreInv, [GreNext]_vars PROVE GreInv' OBVIOUS
  <1>1. CASE GreChecksum BY <1>1, ChecksumStep
  <1>2. CASE GreComputed BY <1>2, ComputedStep
  <1>3. CASE GreOffset BY <1>3, OffsetStep
  <1>4. CASE GreProtocol BY <1>4, ProtocolStep
  <1>5. CASE GreRefused
    <2>1. /\ pack' = pack /\ opts' = opts /\ module' = module /\ pc' = "failed"
      BY <1>5 DEF GreRefused, Refuse
    <2> QED BY <2>1 DEF GreInv, Orderly
  <1>6. CASE GreFinalize BY <1>6, FinalizeStep
  <1>7. ASSUME NEW f \in GreFlags \ {"C"}, GreField(f) PROVE GreInv'
    <2> DEFINE q == gre_resize(pack, f)
               t == Flagged(Store(q, gre_where(q.flags, f), Word(f)), f)
    <2>1. GreGood(t, Append(opts, f))
      <3>1. GreGood(pack, opts) BY DEF GreInv
      <3> QED BY <3>1, FieldGood
    <2>2. /\ pack' = t /\ opts' = Append(opts, f) /\ module' = module /\ pc' = pc
          /\ pc # "done"
      BY <1>7 DEF GreField, Apply
    <2> HIDE DEF t
    <2> QED BY <2>1, <2>2 DEF GreInv
  <1>8. CASE UNCHANGED vars BY <1>8 DEF vars, GreInv, Orderly
  <1> QED BY <1>1, <1>2, <1>3, <1>4, <1>5, <1>6, <1>7, <1>8 DEF GreNext

LEMMA GreInvariance == GreSpec => []GreInv
  BY GreStart, GreStep, PTL DEF GreSpec

\* No option, in any order, writes behind the block; in an orderly sequence, every
\* word a gre option set is where gre.c:61-66 puts it, after all the others have
\* grown the block and moved the words.
THEOREM FieldsInPlace == GreSpec => []GreInPlace
  <1>1. GreInv => GreInPlace
    <2> SUFFICES ASSUME GreInv PROVE GreInPlace OBVIOUS
    <2>1. GreGood(pack, opts) BY DEF GreInv
    <2>2. ~pack.overrun BY <2>1 DEF GreGood, Wide
    <2>3. ASSUME Orderly PROVE InPlace
      <3>1. Layout(pack, Summed(opts)) BY <2>1, <2>3 DEF GreGood, Orderly, OrderlyIn
      <3> DEFINE sum == (Unflagged \intersect {opts[i] : i \in DOMAIN opts} # {}
                         \/ "C" \in pack.flags)
      <3>2. One(sum) = Summed(opts)
        <4>1. "C" \in pack.flags <=> Took(opts, "c") \/ Took(opts, "C")
          BY <2>1 DEF GreGood
        <4>2. Unflagged \intersect {opts[i] : i \in DOMAIN opts} # {}
                <=> Took(opts, "o") \/ Took(opts, "R")
          BY DEF Unflagged, Took
        <4> QED BY <4>1, <4>2 DEF Summed, One
      <3> HIDE DEF sum
      <3>3. \A f \in pack.flags \ {"C"} : Place(f) = PlaceIn(pack.flags, Summed(opts), f)
        <4>1. \A f \in pack.flags \ {"C"} : f \in {"K", "S", "R"}
          BY <2>1 DEF GreGood, Wide, GrePack, GreFlags
        <4>2. ASSUME NEW f \in {"K", "S", "R"}
              PROVE  Place(f) = PlaceIn(pack.flags, One(sum), f)
          BY DEF Place, PlaceIn, sum
        <4> QED BY <3>2, <4>1, <4>2
      <3>4. \A f \in pack.flags \ {"C"} : pack.slots[Place(f)] = Word(f)
        BY <3>1, <3>3 DEF Layout
      <3>5. "C" \in pack.flags /\ (pack.sumGiven \/ pc = "done") => pack.slots[0][1] = "C"
        BY <2>3, <3>1 DEF GreInv, Layout
      <3> QED BY <3>4, <3>5 DEF InPlace
    <2> QED BY <2>2, <2>3 DEF GreInPlace
  <1> QED BY <1>1, GreInvariance, PTL

LEMMA GreTyped == GreInv => GreTypeOK
  <1> SUFFICES ASSUME GreInv PROVE GreTypeOK OBVIOUS
  <1>1. Wide(pack) BY DEF GreInv, GreGood
  <1>2. PICK n \in Nat : HasWords(pack, n) BY <1>1 DEF Wide
  <1>3. pack.alloc \in Nat /\ DOMAIN pack.slots = 0..n /\ pack.alloc = HdrSize + 4 * n
    BY <1>1, <1>2 DEF Wide, GrePack, HasWords
  <1>4. DOMAIN pack.slots = Slots(pack.alloc) BY <1>3, SlotsOf
  <1> QED BY <1>1, <1>3, <1>4 DEF Wide, GrePack, GreTypeOK

\* The types of the gre header.
THEOREM GreTypes == GreSpec => []GreTypeOK
  BY GreTyped, GreInvariance, PTL

-----------------------------------------------------------------------------
\* ah.  What it makes up is what finalize() of the IP header would yield if it ran
\* now; that stays true because no option follows, and is all there is to say.

AnyIpField == IpFields(4) \union IpFields(6)
IpValue == UNION {[IpFields(v) -> Nat] : v \in {4, 6}}
AhPack ==
  [icvlen : Nat, authah : BOOLEAN, mod : SUBSET AnyIpField, draws : Nat, v : {4, 6},
   ip : IpValue, fake : IpValue \union {<<>>}]

\* No option and no finalize() changes the module.
LEMMA AuthFrame ==
  ASSUME AuthNext
  PROVE  module' = module
  <1>1. \A o, q : Apply(o, q) => module' = module BY DEF Apply
  <1>2. \A q : FinalizeWith(q) => module' = module BY DEF FinalizeWith
  <1>3. \A h, new : EspSet(h, new) => module' = module BY <1>1 DEF EspSet
  <1>4. \A h, new : EspStore(h, new) => module' = module BY <1>3 DEF EspStore
  <1>5. \A h, n : EspPad(h, n) => module' = module BY <1>3 DEF EspPad
  <1>6. \A h, n : EspIv(h, n) \/ EspIcv(h, n) => module' = module BY <1>4 DEF EspIv, EspIcv
  <1>7. \A h, key : EspKey(h, key) => module' = module BY <1>3 DEF EspKey
  <1>8. \A name, loaded : EspModule(name, loaded) => module' = module BY <1>1 DEF EspModule
  <1>9. EspField \/ AhModule \/ AhField => module' = module
    BY <1>1 DEF EspField, AhModule, AhField
  <1>10. EspFinalize \/ AhFinalize => module' = module BY DEF EspFinalize, AhFinalize
  <1>11. EspSent \/ AhIpFinalize => module' = module BY <1>2 DEF EspSent, AhIpFinalize
  <1>12. \A n : AhData(n) \/ AhIpField(n) => module' = module BY <1>1 DEF AhData, AhIpField
  <1> QED BY <1>5, <1>6, <1>7, <1>8, <1>9, <1>10, <1>11, <1>12 DEF AuthNext

\* Fields the made-up header need not share with the one that is sent.
Free(f) == f \in {"protocol", "nxt", "plen"} /\ f \notin pack.mod

AhInv ==
  module = "ah" =>
    /\ pack \in AhPack /\ pack.ip \in [IpFields(pack.v) -> Nat]
    /\ pc # "done" /\ pack.fake # <<>> =>
         \A f \in IpFields(pack.v) : pack.fake[f] = IpHeader(AH, AhLen)[f] \/ Free(f)
    /\ AhFakesHeader

LEMMA IpHeaderType ==
  ASSUME pack \in AhPack, pack.ip \in [IpFields(pack.v) -> Nat],
         NEW proto \in Nat, NEW plen \in Nat
  PROVE  IpHeader(proto, plen) \in [IpFields(pack.v) -> Nat]
  <1> DEFINE e(f) == IF f \in pack.mod THEN pack.ip[f]
                     ELSE CASE f = "version" -> pack.v
                            [] f = "header_len" -> 5
                            [] f = "tot_len" -> 20 + AhLen
                            [] f = "plen" -> plen
                            [] f = "id" -> 100 + pack.draws
                            [] f \in {"protocol", "nxt"} -> proto
  <1>1. IpHeader(proto, plen) = [f \in IpFields(pack.v) |-> e(f)] BY DEF IpHeader
  <1>2. AhLen \in Nat BY DEF AhLen, Payload, AhPack
  <1>3. ASSUME NEW f \in IpFields(pack.v) PROVE e(f) \in Nat
    <2>1. pack.v \in Nat /\ pack.draws \in Nat BY DEF AhPack
    <2>2. f \in {"version", "header_len", "tot_len", "id", "protocol", "plen", "nxt"}
      BY <1>3 DEF IpFields
    <2>3. pack.ip[f] \in Nat BY <1>3
    <2> QED BY <1>2, <2>1, <2>2, <2>3
  <1> HIDE DEF e
  <1> QED BY <1>1, <1>3

\* An option of ah or of its IP header comes before anything is made up.
LEMMA AhOption ==
  ASSUME AhInv, NEW n \in Nat, NEW f \in AnyIpField,
         AhData(n) \/ AhModule \/ AhField \/ AhIpField(f)
  PROVE  AhInv'
  <1>1. /\ module = "ah" /\ pack.fake = <<>> /\ pack \in AhPack
        /\ pack.ip \in [IpFields(pack.v) -> Nat] /\ module' = module /\ pc' = pc
        /\ pc \in {"options", "failed"}
    BY DEF AhInv, AhData, AhModule, AhField, AhIpField, AuthMore, Apply
  <1>2. pack' \in AhPack /\ pack'.v = pack.v /\ pack'.ip \in [IpFields(pack.v) -> Nat]
        /\ pack'.fake = <<>>
    <2>1. CASE AhData(n)
      <3>1. pack' = [pack EXCEPT !.icvlen = n] BY <2>1 DEF AhData, Apply
      <3> QED BY <1>1, <3>1 DEF AhPack
    <2>2. CASE AhModule
      <3>1. pack' = [pack EXCEPT !.authah = TRUE] BY <2>2 DEF AhModule, Apply
      <3> QED BY <1>1, <3>1 DEF AhPack
    <2>3. CASE AhField
      <3>1. pack' = pack BY <2>3 DEF AhField, Apply
      <3> QED BY <1>1, <3>1
    <2>4. CASE AhIpField(f)
      <3> DEFINE ip == [pack.ip EXCEPT ![f] = UserValue]
                 mod == pack.mod \union {f}
      <3>1. pack' = [pack EXCEPT !.ip = ip, !.mod = mod] /\ f \in IpFields(pack.v)
        BY <1>1, <2>4 DEF AhIpField, Apply, AhPack
      <3>2. ip \in [IpFields(pack.v) -> Nat] BY <1>1, <3>1 DEF UserValue
      <3>3. mod \in SUBSET AnyIpField BY <1>1 DEF AhPack
      <3>4. ip \in IpValue BY <1>1, <3>2 DEF AhPack, IpValue
      <3> HIDE DEF ip, mod
      <3> QED BY <1>1, <3>1, <3>2, <3>3, <3>4 DEF AhPack
    <2> QED BY <2>1, <2>2, <2>3, <2>4
  <1> QED BY <1>1, <1>2 DEF AhInv, AhFakesHeader

\* finalize() of ah; the ID it drew is marked as set.
LEMMA AhMakesUp ==
  ASSUME AhInv, AhFinalize
  PROVE  AhInv'
  <1> DEFINE fake == IpHeader(Behind, 40 + AhLen)
             mod == pack.mod \union {"id"}
             ip == [pack.ip EXCEPT !["id"] = fake["id"]]
  <1>1. /\ module = "ah" /\ pack.fake = <<>> /\ pack \in AhPack
        /\ pack.ip \in [IpFields(pack.v) -> Nat] /\ module' = module /\ pc' # "done"
    BY DEF AhInv, AhFinalize
  <1>2. fake \in [IpFields(pack.v) -> Nat] /\ fake # <<>>
    <2>1. AhLen \in Nat BY <1>1 DEF AhLen, Payload, AhPack
    <2>2. fake \in [IpFields(pack.v) -> Nat]
      <3>1. 40 + AhLen \in Nat /\ Behind \in Nat BY <2>1 DEF Behind
      <3> QED BY <1>1, <3>1, IpHeaderType
    <2>3. "version" \in IpFields(pack.v) BY DEF IpFields
    <2>4. DOMAIN <<>> = {} OBVIOUS
    <2> HIDE DEF fake
    <2>5. fake # <<>> BY <2>2, <2>3, <2>4
    <2> QED BY <2>2, <2>5
  <1>3. CASE pack.v = 4
    <2>1. pack' = [pack EXCEPT !.fake = fake, !.ip = ip, !.mod = mod, !.draws = pack.draws + 1]
      BY <1>1, <1>3 DEF AhFinalize, WithId, AhPack
    <2>2. "id" \in IpFields(4) /\ mod \in SUBSET AnyIpField
      BY <1>1 DEF IpFields, AnyIpField, AhPack
    <2>3. ip \in [IpFields(4) -> Nat] /\ ip["id"] = fake["id"]
          /\ \A f \in IpFields(4) : f # "id" => ip[f] = pack.ip[f]
      <3> HIDE DEF fake
      <3> QED BY <1>1, <1>2, <1>3, <2>2
    <2>4. /\ \A f \in IpFields(4) : f \in pack.mod => fake[f] = pack.ip[f]
          /\ "version" \notin pack.mod => fake["version"] = 4
          /\ "header_len" \notin pack.mod => fake["header_len"] = 5
          /\ "tot_len" \notin pack.mod => fake["tot_len"] = 20 + AhLen
      BY <1>3 DEF IpHeader, IpFields
    <2> HIDE DEF fake, ip, mod
    <2>5. /\ pack' \in AhPack /\ pack'.v = 4 /\ pack'.ip = ip /\ pack'.fake = fake
          /\ pack'.mod = mod /\ pack'.icvlen = pack.icvlen
      <3>1. ip \in IpValue /\ fake \in IpValue BY <1>2, <1>3, <2>3 DEF IpValue
      <3>2. /\ pack'.v = 4 /\ pack'.ip = ip /\ pack'.fake = fake /\ pack'.mod = mod
            /\ pack'.icvlen = pack.icvlen
        BY <1>1, <1>3, <2>1 DEF AhPack
      <3>3. pack.draws + 1 \in Nat BY <1>1 DEF AhPack
      <3>4. pack' \in AhPack
        <4> DEFINE d == pack.draws + 1
        <4>1. d \in Nat BY <3>3
        <4>2. pack' = [pack EXCEPT !.fake = fake, !.ip = ip, !.mod = mod, !.draws = d] BY <2>1
        <4> HIDE DEF d
        <4>3. fake \in IpValue \union {<<>>} BY <3>1
        <4> QED BY <1>1, <2>2, <3>1, <4>1, <4>2, <4>3 DEF AhPack
      <3> QED BY <3>2, <3>4
    <2>6. ASSUME NEW f \in IpFields(4)
          PROVE  fake[f] = IpHeader(AH, AhLen)'[f] \/ Free(f)'
      <3>1. AhLen' = AhLen BY <2>5 DEF AhLen
      <3>2. CASE f \in mod
        <4>1. IpHeader(AH, AhLen)'[f] = ip[f] BY <2>5, <3>2 DEF IpHeader
        <4>2. ip[f] = fake[f] BY <2>3, <2>4, <3>2 DEF mod
        <4> QED BY <4>1, <4>2
      <3>3. CASE f \notin mod
        <4>1. f # "id" /\ f \in {"version", "header_len", "tot_len", "protocol"}
          BY <3>3 DEF mod, IpFields
        <4>2. CASE f = "protocol" BY <2>5, <3>3, <4>2 DEF Free
        <4>3. CASE f = "version"
          <5>1. IpHeader(AH, AhLen)'[f] = 4 BY <2>5, <3>3, <4>3 DEF IpHeader
          <5> QED BY <2>4, <3>3, <4>3, <5>1 DEF mod
        <4>4. CASE f = "header_len"
          <5>1. IpHeader(AH, AhLen)'[f] = 5 BY <2>5, <3>3, <4>4 DEF IpHeader
          <5> QED BY <2>4, <3>3, <4>4, <5>1 DEF mod
        <4>5. CASE f = "tot_len"
          <5>1. IpHeader(AH, AhLen)'[f] = 20 + AhLen BY <2>5, <3>1, <3>3, <4>5 DEF IpHeader
          <5> QED BY <2>4, <3>3, <4>5, <5>1 DEF mod
        <4> QED BY <4>1, <4>2, <4>3, <4>4, <4>5
      <3> QED BY <3>2, <3>3
    <2> QED BY <1>1, <2>3, <2>5, <2>6 DEF AhInv, AhFakesHeader
  <1>4. CASE pack.v = 6
    <2>1. pack' = [pack EXCEPT !.fake = fake]
      BY <1>1, <1>4 DEF AhFinalize
    <2>2. fake \in IpValue BY <1>2, <1>4 DEF IpValue
    <2>3. \A f \in IpFields(6) : f \in {"plen", "nxt"} \/ f \in pack.mod \/ fake[f] = 6
      BY <1>4 DEF IpHeader, IpFields
    <2>4. \A f \in IpFields(6) : f \in pack.mod => fake[f] = pack.ip[f]
      BY <1>4 DEF IpHeader, IpFields
    <2> HIDE DEF fake
    <2>5. /\ pack' \in AhPack /\ pack'.v = 6 /\ pack'.ip = pack.ip /\ pack'.fake = fake
          /\ pack'.mod = pack.mod
      BY <1>1, <1>4, <2>1, <2>2 DEF AhPack
    <2>6. ASSUME NEW f \in IpFields(6)
          PROVE  fake[f] = IpHeader(AH, AhLen)'[f] \/ Free(f)'
      <3>1. CASE f \in pack.mod
        <4>1. IpHeader(AH, AhLen)'[f] = pack.ip[f] BY <2>5, <3>1 DEF IpHeader
        <4> QED BY <2>4, <3>1, <4>1
      <3>2. CASE f \notin pack.mod
        <4>1. CASE f \in {"plen", "nxt"} BY <2>5, <3>2, <4>1 DEF Free
        <4>2. CASE f = "version"
          <5>1. IpHeader(AH, AhLen)'[f] = 6 BY <2>5, <3>2, <4>2 DEF IpHeader
          <5>2. fake[f] = 6 BY <2>3, <3>2, <4>2
          <5> QED BY <5>1, <5>2
        <4> QED BY <4>1, <4>2 DEF IpFields
      <3> QED BY <3>1, <3>2
    <2> QED BY <1>1, <1>4, <2>5, <2>6 DEF AhInv, AhFakesHeader
  <1> QED BY <1>1, <1>3, <1>4 DEF AhPack

LEMMA AhSent ==
  ASSUME AhInv, AhIpFinalize
  PROVE  AhInv'
  <1> DEFINE ip == IpHeader(AH, AhLen)
  <1>1. /\ module = "ah" /\ pack \in AhPack /\ (pack.authah => pack.fake # <<>>)
        /\ pack' = [pack EXCEPT !.ip = ip] /\ pc # "done" /\ pc' = "done" /\ module' = module
    BY DEF AhInv, AhIpFinalize, FinalizeWith
  <1>2. ip \in [IpFields(pack.v) -> Nat]
    <2>1. AhLen \in Nat BY <1>1 DEF AhLen, Payload, AhPack
    <2>2. pack.ip \in [IpFields(pack.v) -> Nat] BY <1>1 DEF AhInv
    <2> QED BY <1>1, <2>1, <2>2, IpHeaderType DEF AH
  <1>3. pack.authah => \A f \in IpFields(pack.v) : pack.fake[f] = ip[f] \/ Free(f)
    BY <1>1 DEF AhInv
  <1> HIDE DEF ip
  <1>4. /\ pack' \in AhPack /\ pack'.v = pack.v /\ pack'.ip = ip /\ pack'.fake = pack.fake
        /\ pack'.mod = pack.mod /\ pack'.authah = pack.authah
    <2>1. ip \in IpValue BY <1>1, <1>2 DEF IpValue, AhPack
    <2> QED BY <1>1, <2>1 DEF AhPack
  <1> QED BY <1>1, <1>2, <1>3, <1>4 DEF AhInv, AhFakesHeader, Free

LEMMA AhStart == AuthInit => AhInv
  <1> SUFFICES ASSUME AuthInit, module = "ah" PROVE AhInv BY DEF AhInv
  <1>1. PICK v \in {4, 6} :
          pack = [icvlen |-> 0, authah |-> FALSE, mod |-> {}, draws |-> 0, v |-> v,
                  ip |-> [f \in IpFields(v) |-> 0], fake |-> <<>>]
    BY DEF AuthInit
  <1>2. [f \in IpFields(v) |-> 0] \in [IpFields(v) -> Nat] OBVIOUS
  <1>3. pc # "done" BY DEF AuthInit
  <1> DEFINE ip == [f \in IpFields(v) |-> 0]
  <1>4. ip \in IpValue BY <1>2 DEF IpValue
  <1> HIDE DEF ip
  <1>5. pack \in AhPack /\ pack.fake = <<>> /\ pack.ip = ip /\ pack.v = v
    BY <1>1, <1>4 DEF AhPack, ip
  <1> QED BY <1>2, <1>3, <1>5 DEF AhInv, AhFakesHeader, ip

LEMMA AhStep == AhInv /\ [AuthNext]_vars => AhInv'
  <1> SUFFICES ASSUME AhInv, [AuthNext]_vars, module' = "ah" PROVE AhInv'
    BY DEF AhInv
  <1>1. CASE AuthNext
    <2>1. module = "ah" BY <1>1, AuthFrame
    <2>2. CASE AhModule \/ AhField \/ (\E n \in VarSizes : AhData(n))
               \/ (\E f \in IpFields(4) \union IpFields(6) : AhIpField(f))
      <3>1. \E n \in Nat, f \in AnyIpField : AhData(n) \/ AhModule \/ AhField \/ AhIpField(f)
        <4>1. VarSizes \subseteq Nat BY AuthAssumption
        <4>2. 0 \in Nat /\ "version" \in AnyIpField BY DEF AnyIpField, IpFields
        <4> QED BY <2>2, <4>1, <4>2 DEF AnyIpField
      <3> QED BY <3>1, AhOption
    <2>3. CASE AhFinalize BY <2>3, AhMakesUp
    <2>4. CASE AhIpFinalize BY <2>4, AhSent
    <2> QED
      BY <1>1, <2>1, <2>2, <2>3, <2>4
         DEF AuthNext, EspField, EspFinalize, EspSent, EspPad, EspIv, EspIcv, EspKey,
             EspModule, AuthMore
  <1>2. CASE UNCHANGED vars
    BY <1>2 DEF vars, AhInv, AhFakesHeader, IpHeader, AhLen, Free
  <1> QED BY <1>1, <1>2

LEMMA AhInvariance == AuthSpec => []AhInv
  BY AhStart, AhStep, PTL DEF AuthSpec

\* The header ah authenticates before it exists is the one that is sent (ahipv4()
\* and ahipv6() of xorauth.c), for any options of it and any length of the data.
THEOREM AhForetells == AuthSpec => []AhFakesHeader
  <1>1. AhInv => AhFakesHeader BY DEF AhInv, AhFakesHeader
  <1> QED BY <1>1, AhInvariance, PTL

-----------------------------------------------------------------------------
\* esp.  What a receiver that has the keys finds behind header h.  The packet
\* opens at every stage: with finalize() of the inner header done it opens to the
\* payload, and with that of the outer one to something that opens to the payload.

Bit == {0, 1}
EspPackBlock ==
  [iv : Seq(Bit), icv : Seq(Bit), key : Seq(Bit), pad : Nat, alloc : Int,
   mod : SUBSET {"padding"}]
EspPack ==
  [esp : [1..2 -> EspPackBlock], authesp : BOOLEAN, cryptoesp : BOOLEAN,
   data : Seq(Bit), left : 0..2]

\* data, sent by p, opens at header h to inner.
PlainOf(p, h, data) ==
  LET behind == SubSeq(data, Len(EspHdr) + 1, Len(data))
  IN IF p.cryptoesp THEN xorcrypto(p.esp[h].key, behind) ELSE behind
OpensTo(p, h, data, inner) ==
  LET b     == p.esp[h]
      plain == PlainOf(p, h, data)
      cut   == Len(plain) - Len(b.icv)
  IN /\ p.authesp => SubSeq(plain, cut + 1, Len(plain))
                       = xoricv(b.key, Len(b.icv), EspHdr, SubSeq(plain, 1, cut))
     /\ SubSeq(plain, Len(b.iv) + 1, cut - 2 - b.pad) = inner

EspInv ==
  module = "esp" =>
    /\ pack \in EspPack
    /\ pc = "done" => pack.left = 0
    /\ pack.left = 2 => pack.data = Payload
    /\ pack.left = 1 => OpensTo(pack, 2, pack.data, Payload)
    /\ pack.left = 0 => \E mid \in Seq(Bit) : /\ OpensTo(pack, 1, pack.data, mid)
                                              /\ OpensTo(pack, 2, mid, Payload)

\* The parts of a sequence put together from two.
LEMMA Parts ==
  ASSUME NEW S, NEW a \in Seq(S), NEW b \in Seq(S)
  PROVE  /\ SubSeq(a \o b, 1, Len(a)) = a
         /\ SubSeq(a \o b, Len(a) + 1, Len(a) + Len(b)) = b
         /\ a \o b \in Seq(S) /\ Len(a \o b) = Len(a) + Len(b)
  <1>1. /\ a \o b \in Seq(S) /\ Len(a \o b) = Len(a) + Len(b)
        /\ \A i \in 1..(Len(a) + Len(b)) :
             (a \o b)[i] = IF i <= Len(a) THEN a[i] ELSE b[i - Len(a)]
    BY ConcatProperties
  <1> DEFINE s == a \o b
  <1>2. Len(a) \in Nat /\ Len(b) \in Nat OBVIOUS
  <1> HIDE DEF s
  <1>3. /\ s \in Seq(S) /\ Len(s) = Len(a) + Len(b)
        /\ \A i \in 1..(Len(a) + Len(b)) : s[i] \in S
    BY <1>1, <1>2 DEF s
  <1>4. SubSeq(s, 1, Len(a)) = a
    <2>1. /\ SubSeq(s, 1, Len(a)) \in Seq(S) /\ Len(SubSeq(s, 1, Len(a))) = Len(a)
          /\ \A i \in 1..Len(a) : SubSeq(s, 1, Len(a))[i] = s[i]
      <3>1. \A i \in 1..Len(a) : s[i] \in S BY <1>2, <1>3
      <3> QED BY <1>2, <3>1, SubSeqProperties
    <2>2. \A i \in 1..Len(a) : s[i] = a[i] BY <1>1, <1>2 DEF s
    <2> HIDE DEF s
    <2> QED BY <2>1, <2>2, SeqEqual
  <1>5. SubSeq(s, Len(a) + 1, Len(a) + Len(b)) = b
    <2> DEFINE t == SubSeq(s, Len(a) + 1, Len(a) + Len(b))
    <2>1. /\ t \in Seq(S) /\ Len(t) = Len(b)
          /\ \A i \in 1..Len(b) : t[i] = s[Len(a) + i]
      <3>1. \A i \in (Len(a) + 1)..(Len(a) + Len(b)) : s[i] \in S BY <1>2, <1>3
      <3>2. /\ t \in Seq(S)
            /\ Len(t) = IF Len(a) + 1 <= Len(a) + Len(b)
                        THEN (Len(a) + Len(b)) - (Len(a) + 1) + 1 ELSE 0
            /\ \A i \in 1..((Len(a) + Len(b)) - (Len(a) + 1) + 1) :
                 t[i] = s[(Len(a) + 1) + i - 1]
        BY <1>2, <3>1, SubSeqProperties
      <3> HIDE DEF t
      <3>3. (Len(a) + Len(b)) - (Len(a) + 1) + 1 = Len(b) BY <1>2
      <3>4. \A i \in 1..Len(b) : (Len(a) + 1) + i - 1 = Len(a) + i BY <1>2
      <3> QED BY <1>2, <3>2, <3>3, <3>4
    <2>2. \A i \in 1..Len(b) : s[Len(a) + i] = b[i] BY <1>1, <1>2 DEF s
    <2> HIDE DEF t
    <2>3. \A i \in 1..Len(t) : t[i] = b[i] BY <2>1, <2>2
    <2>4. t = b BY <2>1, <2>3, SeqEqual
    <2> QED BY <2>4 DEF t
  <1> QED BY <1>1, <1>4, <1>5 DEF s

\* Concatenation does not depend on the grouping.
Grouped(a, b, c) == (a \o b) \o c = a \o (b \o c)
LEMMA Regroup == \A S : \A a, b, c \in Seq(S) : Grouped(a, b, c)
  BY ConcatAssociative DEF Grouped

\* What lies between the first and the last of three.
LEMMA Between ==
  ASSUME NEW S, NEW a \in Seq(S), NEW b \in Seq(S), NEW c \in Seq(S), NEW d \in Seq(S)
  PROVE  SubSeq(((a \o b) \o c) \o d, Len(a) + 1, Len(a) + Len(b)) = b
  <1> DEFINE r == c \o d
  <1>1. r \in Seq(S) BY ConcatProperties
  <1>2. ((a \o b) \o c) \o d = (a \o b) \o r
    <2> DEFINE u == a \o b
    <2>1. u \in Seq(S) BY ConcatProperties
    <2> HIDE DEF u
    <2>2. Grouped(u, c, d) BY <2>1, Regroup
    <2> QED BY <2>2 DEF u, Grouped
  <1>3. Len(a) \in Nat /\ Len(b) \in Nat /\ Len(r) \in Nat BY <1>1
  <1> DEFINE w == a \o b
             s == w \o r
             t == SubSeq(s, Len(a) + 1, Len(a) + Len(b))
  <1>4. /\ w \in Seq(S) /\ Len(w) = Len(a) + Len(b)
        /\ \A i \in 1..(Len(a) + Len(b)) : w[i] = IF i <= Len(a) THEN a[i] ELSE b[i - Len(a)]
    BY ConcatProperties
  <1>5. /\ s \in Seq(S) /\ Len(s) = Len(w) + Len(r)
        /\ \A i \in 1..(Len(w) + Len(r)) : s[i] = IF i <= Len(w) THEN w[i] ELSE r[i - Len(w)]
    <2>1. w \in Seq(S) BY <1>4
    <2> HIDE DEF w, r
    <2> QED BY <1>1, <2>1, ConcatProperties
  <1> HIDE DEF w, r, s
  <1>6. \A i \in (Len(a) + 1)..(Len(a) + Len(b)) : s[i] \in S BY <1>3, <1>4, <1>5
  <1>7. /\ t \in Seq(S)
        /\ Len(t) = IF Len(a) + 1 <= Len(a) + Len(b)
                    THEN (Len(a) + Len(b)) - (Len(a) + 1) + 1 ELSE 0
        /\ \A i \in 1..((Len(a) + Len(b)) - (Len(a) + 1) + 1) : t[i] = s[(Len(a) + 1) + i - 1]
    BY <1>3, <1>6, SubSeqProperties
  <1> HIDE DEF t
  <1>8. (Len(a) + Len(b)) - (Len(a) + 1) + 1 = Len(b) BY <1>3
  <1>9. ASSUME NEW i \in 1..Len(b) PROVE t[i] = b[i]
    <2>1. (Len(a) + 1) + i - 1 = Len(a) + i BY <1>3
    <2>2. t[i] = s[Len(a) + i] BY <1>7, <1>8, <2>1
    <2>3. s[Len(a) + i] = w[Len(a) + i] BY <1>3, <1>4, <1>5
    <2>4. w[Len(a) + i] = b[i]
      <3>1. Len(a) + i \in 1..(Len(a) + Len(b)) /\ ~(Len(a) + i <= Len(a))
        BY <1>3
      <3>2. (Len(a) + i) - Len(a) = i BY <1>3
      <3> QED BY <1>4, <3>1, <3>2
    <2> QED BY <2>2, <2>3, <2>4
  <1>10. Len(t) = Len(b) BY <1>3, <1>7
  <1>11. t = b BY <1>7, <1>9, <1>10, SeqEqual
  <1> QED BY <1>2, <1>11 DEF t, s, w

LEMMA KeyBits ==
  ASSUME NEW key \in Seq(Bit), NEW i \in Nat \ {0}
  PROVE  KeyBit(key, i) \in Bit
  <1>1. CASE key = <<>> BY <1>1 DEF KeyBit, Bit
  <1>2. CASE key # <<>>
    <2>1. Len(key) \in Nat /\ Len(key) > 0 BY <1>2
    <2>2. ((i - 1) % Len(key)) + 1 \in 1..Len(key) BY <2>1
    <2> QED BY <1>2, <2>2 DEF KeyBit
  <1> QED BY <1>1, <1>2

\* Encryption undoes itself.
LEMMA Crypto ==
  ASSUME NEW key \in Seq(Bit), NEW data \in Seq(Bit)
  PROVE  /\ xorcrypto(key, data) \in Seq(Bit) /\ Len(xorcrypto(key, data)) = Len(data)
         /\ xorcrypto(key, xorcrypto(key, data)) = data
  <1> DEFINE c == xorcrypto(key, data)
             d == xorcrypto(key, c)
  <1>1. Len(data) \in Nat /\ DOMAIN data = 1..Len(data) OBVIOUS
  <1>2. \A i \in 1..Len(data) : data[i] \in Bit /\ KeyBit(key, i) \in Bit BY <1>1, KeyBits
  <1>3. \A x, k \in Bit : (x + k) % 2 \in Bit /\ (((x + k) % 2) + k) % 2 = x BY DEF Bit
  <1>4. c = [i \in 1..Len(data) |-> (data[i] + KeyBit(key, i)) % 2] BY <1>1 DEF xorcrypto
  <1>5. c \in Seq(Bit) /\ Len(c) = Len(data) /\ DOMAIN c = 1..Len(data)
    <2> HIDE DEF c
    <2>1. c \in [1..Len(data) -> Bit] BY <1>2, <1>3, <1>4
    <2> QED BY <1>1, <2>1
  <1> HIDE DEF c
  <1>6. d = [i \in 1..Len(data) |-> (c[i] + KeyBit(key, i)) % 2] BY <1>5 DEF xorcrypto
  <1> HIDE DEF d
  <1>7. \A i \in 1..Len(data) : d[i] = data[i] BY <1>2, <1>3, <1>4, <1>6
  <1>8. d = data BY <1>1, <1>6, <1>7
  <1> QED BY <1>5, <1>8 DEF c, d

LEMMA IcvType ==
  ASSUME NEW key, NEW n \in Nat, NEW d1 \in Seq(Bit), NEW d2 \in Seq(Bit)
  PROVE  xoricv(key, n, d1, d2) \in Seq(Bit) /\ Len(xoricv(key, n, d1, d2)) = n
  <1> DEFINE Of(d, i) == {j \in DOMAIN d : (j - 1) % n = i - 1 /\ d[j] # KeyBit(key, j)}
             C(i) == Cardinality(Of(d1, i)) + Cardinality(Of(d2, i))
             icv == xoricv(key, n, d1, d2)
  <1>1. icv = [i \in 1..n |-> C(i) % 2] BY DEF xoricv
  <1>2. ASSUME NEW d \in Seq(Bit), NEW i PROVE Cardinality(Of(d, i)) \in Nat
    <2>1. IsFiniteSet(DOMAIN d) BY FS_Interval
    <2>2. IsFiniteSet(Of(d, i)) BY <2>1, FS_Subset
    <2> QED BY <2>2, FS_CardinalityType
  <1>3. \A i \in 1..n : C(i) % 2 \in Bit
    <2> TAKE i \in 1..n
    <2>1. C(i) \in Nat
      <3>1. Cardinality(Of(d1, i)) \in Nat BY <1>2
      <3>2. Cardinality(Of(d2, i)) \in Nat BY <1>2
      <3> QED BY <3>1, <3>2
    <2> HIDE DEF C
    <2> QED BY <2>1 DEF Bit
  <1> HIDE DEF C, icv
  <1>4. icv \in [1..n -> Bit] BY <1>1, <1>3
  <1> QED BY <1>4 DEF icv

\* The body of an ESP packet, and where the data lie in it.
LEMMA Body ==
  ASSUME NEW b \in EspPackBlock, NEW data \in Seq(Bit), NEW icv \in Seq(Bit)
  PROVE  LET body == EspBody(b, data)
             pad  == PadOf(b, data)
         IN /\ pad \in Nat /\ body \in Seq(Bit)
            /\ Len(body) - 2 - pad = Len(b.iv) + Len(data)
            /\ SubSeq(body \o icv, Len(b.iv) + 1, Len(b.iv) + Len(data)) = data
  <1> DEFINE pad  == PadOf(b, data)
             tail == <<pad % 2, 0>>
             zero == Zeros(pad)
             rest == zero \o tail
             iv   == b.iv
             body == EspBody(b, data)
  <1>1. iv \in Seq(Bit) /\ Len(iv) \in Nat /\ Len(data) \in Nat BY DEF EspPackBlock
  <1>2. pad \in Nat
    <2>1. \A n \in Nat : (6 - (n % 4)) % 4 \in Nat OBVIOUS
    <2>2. Len(data) + Len(iv) \in Nat BY <1>1
    <2>3. b.pad \in Nat BY DEF EspPackBlock
    <2> QED BY <2>1, <2>2, <2>3 DEF PadOf
  <1>3. body = ((iv \o data) \o zero) \o tail BY DEF EspBody
  <1> HIDE DEF pad, iv, body
  <1>4. zero \in Seq(Bit) /\ Len(zero) = pad
    <2>1. zero = [i \in 1..pad |-> 0] BY DEF Zeros
    <2>2. zero \in [1..pad -> Bit] BY <2>1 DEF Bit
    <2> QED BY <1>2, <2>2
  <1>5. tail \in Seq(Bit) /\ Len(tail) = 2
    <2>1. pad % 2 \in Bit /\ 0 \in Bit BY <1>2 DEF Bit
    <2> HIDE DEF Bit
    <2> QED BY <2>1
  <1> HIDE DEF zero, tail
  <1>6. rest \in Seq(Bit) /\ Len(rest) = pad + 2 BY <1>2, <1>4, <1>5, Parts
  <1>7. iv \o data \in Seq(Bit) /\ Len(iv \o data) = Len(iv) + Len(data) BY <1>1, Parts
  <1>8. body = (iv \o data) \o rest
    <2> DEFINE u == iv \o data
    <2>1. u \in Seq(Bit) BY <1>7
    <2> HIDE DEF u
    <2>2. Grouped(u, zero, tail) BY <1>4, <1>5, <2>1, Regroup
    <2> QED BY <1>3, <2>2 DEF u, Grouped
  <1> HIDE DEF rest
  <1>9. body \in Seq(Bit) /\ Len(body) = (Len(iv) + Len(data)) + (pad + 2)
    BY <1>6, <1>7, <1>8, Parts
  <1>10. SubSeq(((iv \o data) \o rest) \o icv, Len(iv) + 1, Len(iv) + Len(data)) = data
    BY <1>1, <1>6, Between
  <1>11. SubSeq(body \o icv, Len(iv) + 1, Len(iv) + Len(data)) = data BY <1>8, <1>10
  <1>12. Len(body) - 2 - pad = Len(iv) + Len(data) BY <1>1, <1>2, <1>9
  <1> QED BY <1>2, <1>9, <1>11, <1>12 DEF pad, iv, body

\* What finalize() makes of the data opens to them again.
LEMMA SealOpens ==
  ASSUME pack \in EspPack, NEW h \in 1..2, NEW q, NEW data \in Seq(Bit),
         q.authesp = pack.authesp, q.cryptoesp = pack.cryptoesp,
         q.esp[h] = [pack.esp[h] EXCEPT !.pad = PadOf(pack.esp[h], data)]
  PROVE  LET b == pack.esp[h]
             out == EspHdr \o Sealed(b, EspBody(b, data))
         IN out \in Seq(Bit) /\ OpensTo(q, h, out, data)
  <1> DEFINE b     == pack.esp[h]
             body  == EspBody(b, data)
             icv   == Icv(b, body)
             whole == body \o icv
             pad   == PadOf(b, data)
             seal  == Sealed(b, body)
             out   == EspHdr \o seal
  <1>1. b \in EspPackBlock BY DEF EspPack
  <1>2. b.iv \in Seq(Bit) /\ b.icv \in Seq(Bit) /\ b.key \in Seq(Bit)
    BY <1>1 DEF EspPackBlock
  <1>3. EspHdr \in Seq(Bit) /\ Len(EspHdr) \in Nat BY DEF EspHdr, Bit
  <1>4. pad \in Nat /\ body \in Seq(Bit) BY <1>1, <1>2, Body
  <1>5. /\ icv = IF pack.authesp THEN xoricv(b.key, Len(b.icv), EspHdr, body) ELSE b.icv
        /\ seal = IF pack.cryptoesp THEN xorcrypto(b.key, whole) ELSE whole
    BY DEF Icv, Sealed
  <1>6. q.esp[h].iv = b.iv /\ q.esp[h].icv = b.icv /\ q.esp[h].key = b.key /\ q.esp[h].pad = pad
    BY <1>1 DEF EspPackBlock
  <1>7. /\ Len(body) - 2 - pad = Len(b.iv) + Len(data)
        /\ icv \in Seq(Bit) => SubSeq(whole, Len(b.iv) + 1, Len(b.iv) + Len(data)) = data
    BY <1>1, Body
  <1> HIDE DEF b, body, icv, pad, seal
  <1>8. icv \in Seq(Bit) /\ Len(icv) = Len(b.icv)
    <2>1. Len(b.icv) \in Nat BY <1>2
    <2> QED BY <1>2, <1>3, <1>4, <1>5, <2>1, IcvType
  <1>9. /\ whole \in Seq(Bit) /\ Len(whole) = Len(body) + Len(icv)
        /\ SubSeq(whole, 1, Len(body)) = body
        /\ SubSeq(whole, Len(body) + 1, Len(body) + Len(icv)) = icv
    <2>1. body \in Seq(Bit) /\ icv \in Seq(Bit) BY <1>4, <1>8
    <2> QED BY <2>1, Parts
  <1> HIDE DEF whole
  <1>10. seal \in Seq(Bit) BY <1>2, <1>5, <1>9, Crypto
  <1>11. out \in Seq(Bit) /\ SubSeq(out, Len(EspHdr) + 1, Len(out)) = seal
    BY <1>3, <1>10, Parts
  <1> HIDE DEF out
  <1>12. PlainOf(q, h, out) = whole
    <2>1. CASE pack.cryptoesp
      <3>1. seal = xorcrypto(b.key, whole) BY <1>5, <2>1
      <3>2. xorcrypto(b.key, seal) = whole BY <1>2, <1>9, <3>1, Crypto
      <3> QED BY <1>6, <1>11, <2>1, <3>2 DEF PlainOf
    <2>2. CASE ~pack.cryptoesp BY <1>5, <1>11, <2>2 DEF PlainOf
    <2> QED BY <2>1, <2>2
  <1>13. Len(whole) - Len(b.icv) = Len(body)
    <2>1. Len(body) \in Nat /\ Len(icv) \in Nat BY <1>4, <1>8
    <2> QED BY <1>8, <1>9, <2>1
  <1>14. OpensTo(q, h, out, data)
    <2>1. SubSeq(whole, Len(b.iv) + 1, Len(body) - 2 - pad) = data BY <1>7, <1>8
    <2>2. q.authesp => SubSeq(whole, Len(body) + 1, Len(whole))
                         = xoricv(b.key, Len(b.icv), EspHdr, SubSeq(whole, 1, Len(body)))
      BY <1>5, <1>9
    <2> QED BY <1>6, <1>12, <1>13, <2>1, <2>2 DEF OpensTo
  <1> QED BY <1>11, <1>14 DEF out, seal, body, b

\* What an option sets, and the block it sets it in, have the right type.
LEMMA EspOption ==
  ASSUME EspInv, module = "esp", module' = module,
         \/ EspField
         \/ \E h \in {1, 2} : \/ \E n \in EspPads : EspPad(h, n)
                              \/ \E n \in VarSizes : EspIv(h, n) \/ EspIcv(h, n)
                              \/ \E key \in Keys : EspKey(h, key)
         \/ \E name \in {"authesp", "cryptoesp"}, loaded \in BOOLEAN : EspModule(name, loaded)
  PROVE  EspInv'
  <1>1. pack \in EspPack /\ pack.left = 2 /\ pack.data = Payload
    BY DEF EspInv, EspField, EspPad, EspIv, EspIcv, EspKey, EspModule, AuthMore
  <1>2. pc' # "done"
    <2>1. \A o, q : Apply(o, q) => pc' # "done" BY DEF Apply
    <2>2. \A h, new : EspSet(h, new) => pc' # "done" BY <2>1 DEF EspSet
    <2>3. \A h, new : EspStore(h, new) => pc' # "done" BY <2>2 DEF EspStore
    <2>4. \A h, n : EspPad(h, n) => pc' # "done" BY <2>2 DEF EspPad
    <2>5. \A h, n : EspIv(h, n) \/ EspIcv(h, n) => pc' # "done" BY <2>3 DEF EspIv, EspIcv
    <2>6. \A h, key : EspKey(h, key) => pc' # "done" BY <2>2 DEF EspKey
    <2>7. \A name, loaded : EspModule(name, loaded) => pc' # "done" BY <2>1 DEF EspModule
    <2>8. EspField => pc' # "done" BY <2>1 DEF EspField
    <2> QED BY <2>4, <2>5, <2>6, <2>7, <2>8
  <1>3. ASSUME NEW h \in {1, 2}, NEW new \in EspPackBlock,
               pack' = [pack EXCEPT !.esp[h] = new]
        PROVE  pack' \in EspPack /\ pack'.left = 2 /\ pack'.data = Payload
    <2>1. pack.esp \in [1..2 -> EspPackBlock] BY <1>1 DEF EspPack
    <2>2. [pack.esp EXCEPT ![h] = new] \in [1..2 -> EspPackBlock] BY <2>1
    <2>3. pack' = [pack EXCEPT !.esp = [pack.esp EXCEPT ![h] = new]] BY <1>1, <1>3 DEF EspPack
    <2> QED BY <1>1, <2>2, <2>3 DEF EspPack
  <1>4. pack' \in EspPack /\ pack'.left = 2 /\ pack'.data = Payload
    <2>1. CASE EspField BY <1>1, <2>1 DEF EspField, Apply
    <2>2. ASSUME NEW h \in {1, 2}, NEW n \in EspPads, EspPad(h, n)
          PROVE  pack' \in EspPack /\ pack'.left = 2 /\ pack'.data = Payload
      <3> DEFINE b == pack.esp[h]
                 new == [b EXCEPT !.pad = n, !.mod = @ \union {"padding"},
                                  !.alloc = IF n > Slack THEN @ + n - Slack ELSE @]
      <3>1. b \in EspPackBlock /\ n \in Nat BY <1>1, AuthAssumption DEF EspPack
      <3>2. new \in EspPackBlock
        <4> HIDE DEF b
        <4>1. b.alloc \in Int /\ b.mod \union {"padding"} \in SUBSET {"padding"}
          BY <3>1 DEF EspPackBlock
        <4>2. (IF n > Slack THEN b.alloc + n - Slack ELSE b.alloc) \in Int
          BY <3>1, <4>1 DEF Slack
        <4> QED BY <3>1, <4>1, <4>2 DEF EspPackBlock
      <3>3. pack' = [pack EXCEPT !.esp[h] = new] BY <2>2 DEF EspPad, EspSet, Apply
      <3> HIDE DEF new
      <3> QED BY <1>3, <3>2, <3>3
    <2>3. ASSUME NEW h \in {1, 2}, NEW n \in VarSizes, EspIv(h, n)
          PROVE  pack' \in EspPack /\ pack'.left = 2 /\ pack'.data = Payload
      <3> DEFINE b == pack.esp[h]
                 icv == IF b.iv = <<>> THEN b.icv
                        ELSE [i \in DOMAIN b.icv |-> IF i <= Len(b.iv) THEN 1 ELSE 0]
                 new == [b EXCEPT !.iv = Ones(n), !.alloc = @ + n,
                           !.icv = IF b.iv = <<>> THEN @
                                   ELSE [i \in DOMAIN @ |-> IF i <= Len(b.iv) THEN 1 ELSE 0]]
      <3>1. b \in EspPackBlock /\ n \in Nat BY <1>1, AuthAssumption DEF EspPack
      <3>2. Ones(n) \in Seq(Bit)
        <4>1. Ones(n) \in [1..n -> Bit] BY DEF Ones, Bit
        <4> QED BY <3>1, <4>1
      <3>3. icv \in Seq(Bit)
        <4>1. b.icv \in Seq(Bit) /\ DOMAIN b.icv = 1..Len(b.icv) /\ Len(b.icv) \in Nat
          BY <3>1 DEF EspPackBlock
        <4>2. [i \in 1..Len(b.icv) |-> IF i <= Len(b.iv) THEN 1 ELSE 0]
                \in [1..Len(b.icv) -> Bit]
          BY DEF Bit
        <4>3. [i \in DOMAIN b.icv |-> IF i <= Len(b.iv) THEN 1 ELSE 0] \in Seq(Bit)
          BY <4>1, <4>2
        <4> QED BY <4>1, <4>3
      <3>4. new = [b EXCEPT !.iv = Ones(n), !.alloc = @ + n, !.icv = icv]
        BY <3>1 DEF EspPackBlock
      <3> HIDE DEF icv
      <3>5. new \in EspPackBlock
        <4> HIDE DEF new, b
        <4>1. b.alloc + n \in Int BY <3>1 DEF EspPackBlock
        <4> QED BY <3>1, <3>2, <3>3, <3>4, <4>1 DEF EspPackBlock
      <3>6. pack' = pack \/ pack' = [pack EXCEPT !.esp[h] = new]
        BY <2>3 DEF EspIv, EspStore, EspSet, Apply
      <3> HIDE DEF new
      <3> QED BY <1>1, <1>3, <3>5, <3>6
    <2>4. ASSUME NEW h \in {1, 2}, NEW n \in VarSizes, EspIcv(h, n)
          PROVE  pack' \in EspPack /\ pack'.left = 2 /\ pack'.data = Payload
      <3> DEFINE b == pack.esp[h]
                 new == [b EXCEPT !.icv = Ones(n), !.alloc = @ + n]
      <3>1. b \in EspPackBlock /\ n \in Nat BY <1>1, AuthAssumption DEF EspPack
      <3>2. Ones(n) \in Seq(Bit)
        <4>1. Ones(n) \in [1..n -> Bit] BY DEF Ones, Bit
        <4> QED BY <3>1, <4>1
      <3>3. new \in EspPackBlock
        <4> HIDE DEF b
        <4>1. b.alloc + n \in Int BY <3>1 DEF EspPackBlock
        <4> QED BY <3>1, <3>2, <4>1 DEF EspPackBlock
      <3>4. pack' = pack \/ pack' = [pack EXCEPT !.esp[h] = new]
        BY <2>4 DEF EspIcv, EspStore, EspSet, Apply
      <3> HIDE DEF new
      <3> QED BY <1>1, <1>3, <3>3, <3>4
    <2>5. ASSUME NEW h \in {1, 2}, NEW key \in Keys, EspKey(h, key)
          PROVE  pack' \in EspPack /\ pack'.left = 2 /\ pack'.data = Payload
      <3> DEFINE new == [pack.esp[h] EXCEPT !.key = key]
      <3>1. pack.esp[h] \in EspPackBlock /\ key \in Seq(Bit)
        BY <1>1, AuthAssumption DEF EspPack, Bit
      <3>2. new \in EspPackBlock BY <3>1 DEF EspPackBlock
      <3>3. pack' = [pack EXCEPT !.esp[h] = new] BY <2>5 DEF EspKey, EspSet, Apply
      <3> HIDE DEF new
      <3> QED BY <1>3, <3>2, <3>3
    <2>6. ASSUME NEW name \in {"authesp", "cryptoesp"}, NEW loaded \in BOOLEAN,
                 EspModule(name, loaded)
          PROVE  pack' \in EspPack /\ pack'.left = 2 /\ pack'.data = Payload
      <3>1. \E x \in BOOLEAN : pack' = [pack EXCEPT ![name] = x]
        BY <2>6 DEF EspModule, Apply
      <3>2. PICK x \in BOOLEAN : \/ pack' = [pack EXCEPT !.authesp = x]
                                \/ pack' = [pack EXCEPT !.cryptoesp = x]
        BY <3>1
      <3> QED BY <1>1, <3>2 DEF EspPack
    <2> QED BY <2>1, <2>2, <2>3, <2>4, <2>5, <2>6
  <1> QED BY <1>2, <1>4 DEF EspInv

LEMMA EspSeals ==
  ASSUME EspInv, EspFinalize
  PROVE  EspInv'
  <1>1. module = "esp" /\ pack \in EspPack /\ pack.left \in {1, 2} /\ pc = "options"
    BY DEF EspInv, EspFinalize, EspPack
  <1>2. CASE pack' = pack
    BY <1>1, <1>2 DEF EspInv, EspFinalize
  <1>3. CASE pack' # pack
    <2> DEFINE h   == pack.left
               b   == pack.esp[h]
               pad == PadOf(b, pack.data)
               out == EspHdr \o Sealed(b, EspBody(b, pack.data))
    <2>1. /\ pack' = [pack EXCEPT !.data = out, !.esp[h].pad = pad, !.left = @ - 1]
          /\ pc' = "options"
      BY <1>1, <1>3 DEF EspFinalize
    <2>2. h \in 1..2 /\ b \in EspPackBlock /\ pack.data \in Seq(Bit) BY <1>1 DEF EspPack
    <2>3. pad \in Nat
      <3>1. <<>> \in Seq(Bit) OBVIOUS
      <3> QED BY <2>2, <3>1, Body
    <2>4. /\ pack'.authesp = pack.authesp /\ pack'.cryptoesp = pack.cryptoesp
          /\ pack'.esp = [pack.esp EXCEPT ![h] = [b EXCEPT !.pad = pad]]
          /\ pack'.data = out /\ pack'.left = pack.left - 1
      <3> HIDE DEF out, pad
      <3> QED BY <1>1, <2>1 DEF EspPack
    <2>5. pack'.esp[h] = [b EXCEPT !.pad = pad] BY <1>1, <2>2, <2>4 DEF EspPack
    <2>6. out \in Seq(Bit) /\ OpensTo(pack', h, out, pack.data)
      BY <1>1, <2>2, <2>4, <2>5, SealOpens
    <2>7. [b EXCEPT !.pad = pad] \in EspPackBlock
      <3> HIDE DEF pad
      <3> QED BY <2>2, <2>3 DEF EspPackBlock
    <2> HIDE DEF out, pad
    <2>8. pack' \in EspPack
      <3> DEFINE blocks == [pack.esp EXCEPT ![h] = [b EXCEPT !.pad = pad]]
      <3>1. blocks \in [1..2 -> EspPackBlock] BY <1>1, <2>7 DEF EspPack
      <3>2. pack' = [pack EXCEPT !.data = out, !.esp = blocks, !.left = @ - 1]
        BY <1>1, <2>1 DEF EspPack
      <3>3. pack.left - 1 \in 0..2 BY <1>1
      <3> HIDE DEF blocks, h
      <3>4. pack' = [pack EXCEPT !.data = out, !.esp = blocks, !.left = pack.left - 1]
        BY <1>1, <3>2 DEF EspPack
      <3> QED BY <1>1, <2>6, <3>1, <3>3, <3>4 DEF EspPack
    <2>9. CASE h = 2
      <3>1. pack.data = Payload /\ pack'.left = 1 BY <1>1, <2>4, <2>9 DEF EspInv
      <3> QED BY <2>1, <2>4, <2>6, <2>8, <2>9, <3>1 DEF EspInv
    <2>10. CASE h = 1
      <3>1. OpensTo(pack, 2, pack.data, Payload) /\ pack'.left = 0
        BY <1>1, <2>4, <2>10 DEF EspInv
      <3>2. pack'.esp[2] = pack.esp[2] BY <1>1, <2>4, <2>10 DEF EspPack
      <3>3. OpensTo(pack', 2, pack.data, Payload)
        BY <2>4, <3>1, <3>2 DEF OpensTo, PlainOf
      <3> QED BY <2>1, <2>2, <2>4, <2>6, <2>8, <2>10, <3>1, <3>3 DEF EspInv
    <2> QED BY <1>1, <2>9, <2>10
  <1> QED BY <1>2, <1>3

LEMMA EspStart == AuthInit => EspInv
  <1> SUFFICES ASSUME AuthInit, module = "esp" PROVE EspInv BY DEF EspInv
  <1>1. pack = [esp |-> <<EspBlock, EspBlock>>, authesp |-> FALSE, cryptoesp |-> FALSE,
                data |-> Payload, left |-> 2]
    BY DEF AuthInit
  <1>2. EspBlock \in EspPackBlock BY DEF EspBlock, EspPackBlock, Slack
  <1>3. <<EspBlock, EspBlock>> \in [1..2 -> EspPackBlock] BY <1>2
  <1>4. Payload \in Seq(Bit) BY DEF Payload, Bit
  <1>5. pack \in EspPack BY <1>1, <1>3, <1>4 DEF EspPack
  <1>6. pack.left = 2 /\ pack.data = Payload BY <1>1
  <1>7. pc = "options" BY DEF AuthInit
  <1> QED BY <1>5, <1>6, <1>7 DEF EspInv

LEMMA EspStep == EspInv /\ [AuthNext]_vars => EspInv'
  <1> SUFFICES ASSUME EspInv, [AuthNext]_vars, module' = "esp" PROVE EspInv'
    BY DEF EspInv
  <1>1. CASE AuthNext
    <2>1. module = "esp" BY <1>1, AuthFrame
    <2>2. CASE \/ EspField
               \/ \E h \in {1, 2} : \/ \E n \in EspPads : EspPad(h, n)
                                    \/ \E n \in VarSizes : EspIv(h, n) \/ EspIcv(h, n)
                                    \/ \E key \in Keys : EspKey(h, key)
               \/ \E name \in {"authesp", "cryptoesp"}, loaded \in BOOLEAN :
                    EspModule(name, loaded)
      BY <2>1, <2>2, EspOption
    <2>3. CASE EspFinalize BY <2>3, EspSeals
    <2>4. CASE EspSent
      BY <2>1, <2>4 DEF EspSent, FinalizeWith, EspInv
    <2> QED
      BY <1>1, <2>1, <2>2, <2>3, <2>4
         DEF AuthNext, AhModule, AhField, AhFinalize, AhIpFinalize, AhData, AhIpField, AuthMore
  <1>2. CASE UNCHANGED vars BY <1>2 DEF vars, EspInv
  <1> QED BY <1>1, <1>2

LEMMA EspInvariance == AuthSpec => []EspInv
  BY EspStart, EspStep, PTL DEF AuthSpec

\* A receiver that has the keys undoes both ESP headers (esp.c, xorauth.c and
\* xorcrypto.c), for any keys, any sizes of IV and ICV and any padding.
THEOREM EspOpens == AuthSpec => []EspUnwraps
  <1>1. EspInv => EspUnwraps
    <2> SUFFICES ASSUME EspInv, module = "esp", pc = "done" PROVE EspUnwraps
      BY DEF EspUnwraps
    <2>1. PICK mid : OpensTo(pack, 1, pack.data, mid) /\ OpensTo(pack, 2, mid, Payload)
      BY DEF EspInv, EspPack
    <2>2. \A h, data : Plain(h, data) = PlainOf(pack, h, data) BY DEF Plain, PlainOf
    <2>3. ASSUME NEW h, NEW data, NEW inner, OpensTo(pack, h, data, inner)
          PROVE  Checks(h, Plain(h, data)) /\ Inner(h, Plain(h, data)) = inner
      BY <2>2, <2>3 DEF OpensTo, Checks, Inner, Cut
    <2> QED BY <2>1, <2>3 DEF EspUnwraps
  <1> QED BY <1>1, EspInvariance, PTL

-----------------------------------------------------------------------------
\* bgp.  The statics point to the part that came last and to the length fields of
\* the parts in front of it, as long as one header has all the options: that is
\* why the field an option bumps is the one that counts what it adds.

BgpKind == {"open", "opt", "wdrlen", "wdr", "attrlen", "attr", "nlri", "notfn"}
BgpPart == [kind : BgpKind, at : Nat, size : Nat, len : Int]
BgpBlock ==
  [alloc : Nat, len : Int, mod : SUBSET {"length", "opt", "wdr", "attr"}, parts : Seq(BgpPart)]
BgpPack ==
  [blocks : [{1, 2} -> BgpBlock], cur : 1..3, prev : BgpKind \union {"header"}, len_ptr : {2},
   opt_len_ptr : Nat \X Nat, wdr_len_ptr : Nat \X Nat, attr_len_ptr : Nat \X Nat]

\* Where the statics have to point to.
Statics(p) ==
  LET P == p.blocks[2].parts IN
  /\ p.prev = IF P = <<>> THEN "header" ELSE P[Len(P)].kind
  /\ \A i \in DOMAIN P : /\ P[i].kind = "open" => p.opt_len_ptr = <<2, i>>
                         /\ P[i].kind = "wdrlen" => p.wdr_len_ptr = <<2, i>>
                         /\ P[i].kind = "attrlen" => p.attr_len_ptr = <<2, i>>

BgpGood(p) ==
  LET b == p.blocks[2] IN
  p \in BgpPack /\ Statics(p) /\ BackToBack(b) /\ FieldsLead(b) /\ InOrder(b.parts)

BgpInv ==
  /\ module = "bgp" /\ opts \in Seq({opts[i] : i \in DOMAIN opts})
  /\ OneBgp => BgpGood(pack) /\ AddsUp(pack.blocks[2])

LEMMA BgpNames ==
  ASSUME NEW k \in BgpKind
  PROVE  /\ k # "header"
         /\ k \in DOMAIN Counted <=> k \in {"open", "wdrlen", "attrlen"}
         /\ Counted["open"] = "opt" /\ Counted["wdrlen"] = "wdr" /\ Counted["attrlen"] = "attr"
         /\ FlagOf["open"] = "opt" /\ FlagOf["wdrlen"] = "wdr" /\ FlagOf["attrlen"] = "attr"
  BY DEF BgpKind, Counted, FlagOf

\* The parts a part may follow: the guards of the options.
Follows(k, last) ==
  \/ k \in {"open", "wdrlen", "notfn"} /\ last = "header"
  \/ k = "opt" /\ last \in {"open", "opt"}
  \/ k \in {"wdr", "attrlen"} /\ last \in {"wdrlen", "wdr"}
  \/ k = "attr" /\ last \in {"attrlen", "attr"}
  \/ k = "nlri" /\ last \in {"attrlen", "attr", "nlri"}

\* InOrder, kind by kind.
Rank(k) ==
  IF k \in {"open", "wdrlen", "notfn"} THEN 1 ELSE IF k \in {"opt", "wdr"} THEN 2
  ELSE IF k = "attrlen" THEN 3 ELSE IF k = "attr" THEN 4 ELSE 5
OfOneType(P) ==
  \/ \A i \in DOMAIN P : P[i].kind \in {"open", "opt"}
  \/ \A i \in DOMAIN P : P[i].kind = "notfn"
  \/ \A i \in DOMAIN P : P[i].kind \in {"wdrlen", "wdr", "attrlen", "attr", "nlri"}
Ranked(P) ==
  \A i, j \in DOMAIN P :
    /\ i < j => Rank(P[i].kind) <= Rank(P[j].kind)
    /\ P[i].kind = P[j].kind /\ P[i].kind \in {"open", "wdrlen", "attrlen", "notfn"} => i = j
Headed(P) ==
  \A i \in DOMAIN P :
    /\ P[i].kind \in {"opt", "wdr", "attrlen"} => P[1].kind \in {"open", "wdrlen"}
    /\ P[i].kind \in {"attr", "nlri"} => \E j \in DOMAIN P : P[j].kind = "attrlen"

LEMMA PartType ==
  ASSUME NEW P \in Seq(BgpPart), NEW i \in DOMAIN P
  PROVE  /\ P[i].kind \in BgpKind /\ P[i].at \in Nat
         /\ P[i].size \in Nat /\ P[i].len \in Int
  <1>1. P[i] \in BgpPart OBVIOUS
  <1> QED BY <1>1 DEF BgpPart

LEMMA InOrderIs ==
  ASSUME NEW P \in Seq(BgpPart)
  PROVE  InOrder(P) <=> OfOneType(P) /\ Ranked(P) /\ Headed(P)
  <1> DEFINE Order == [open |-> 1, opt |-> 2, wdrlen |-> 1, wdr |-> 2, attrlen |-> 3,
                       attr |-> 4, nlri |-> 5, notfn |-> 1]
             Kinds == {P[i].kind : i \in DOMAIN P}
             Once  == {"open", "wdrlen", "attrlen", "notfn"}
  <1>1. \A k \in BgpKind : Order[k] = Rank(k) BY DEF BgpKind, Rank
  <1>2. \A i \in DOMAIN P : P[i].kind \in BgpKind BY PartType
  <1>3. (\A i, j \in DOMAIN P :
          /\ i < j => Order[P[i].kind] <= Order[P[j].kind]
          /\ P[i].kind = P[j].kind /\ P[i].kind \in Once => i = j)
        <=> Ranked(P)
    <2> HIDE DEF Order
    <2> QED BY <1>1, <1>2 DEF Ranked
  <1>4. (\/ Kinds \subseteq {"open", "opt"} \/ Kinds \subseteq {"notfn"}
         \/ Kinds \subseteq {"wdrlen", "wdr", "attrlen", "attr", "nlri"})
        <=> OfOneType(P)
    BY DEF OfOneType
  <1>5. /\ Kinds \intersect {"opt", "wdr", "attrlen"} # {} <=>
             \E i \in DOMAIN P : P[i].kind \in {"opt", "wdr", "attrlen"}
        /\ Kinds \intersect {"attr", "nlri"} # {} <=>
             \E i \in DOMAIN P : P[i].kind \in {"attr", "nlri"}
        /\ "attrlen" \in Kinds <=> \E j \in DOMAIN P : P[j].kind = "attrlen"
    OBVIOUS
  <1>6. (/\ Kinds \intersect {"opt", "wdr", "attrlen"} # {} => P[1].kind \in {"open", "wdrlen"}
         /\ Kinds \intersect {"attr", "nlri"} # {} => "attrlen" \in Kinds)
        <=> Headed(P)
    BY <1>5 DEF Headed
  <1>7. InOrder(P) <=>
          /\ \/ Kinds \subseteq {"open", "opt"} \/ Kinds \subseteq {"notfn"}
             \/ Kinds \subseteq {"wdrlen", "wdr", "attrlen", "attr", "nlri"}
          /\ \A i, j \in DOMAIN P :
               /\ i < j => Order[P[i].kind] <= Order[P[j].kind]
               /\ P[i].kind = P[j].kind /\ P[i].kind \in Once => i = j
          /\ Kinds \intersect {"opt", "wdr", "attrlen"} # {} => P[1].kind \in {"open", "wdrlen"}
          /\ Kinds \intersect {"attr", "nlri"} # {} => "attrlen" \in Kinds
    BY DEF InOrder
  <1> QED BY <1>3, <1>4, <1>6, <1>7

\* q is p with a part of kind k and of size bytes at the end.  The field that counts
\* it has grown, by whatever it is for -bua.
Kept(p, q, i) ==
  /\ q[i].kind = p[i].kind /\ q[i].at = p[i].at /\ q[i].size = p[i].size
CountedIn(p, q, k, size, i) ==
  LET P == p.blocks[2].parts
      Q == q.blocks[2].parts
  IN P[i].kind \in DOMAIN Counted =>
       \/ FlagOf[P[i].kind] \in q.blocks[2].mod
       \/ k = "attr" /\ P[i].kind = "attrlen"
       \/ Counted[P[i].kind] # k /\ Q[i].len = P[i].len
       \/ /\ Counted[P[i].kind] = k
          /\ P[i].len # Unknown => Q[i].len = (P[i].len + size) % Width(P[i].kind)

Extended(p, q, k, size) ==
  LET b == p.blocks[2]
      c == q.blocks[2]
      n == Len(b.parts)
  IN /\ q \in BgpPack /\ q.prev = k /\ q.cur = p.cur
     /\ Len(c.parts) = n + 1 /\ c.alloc = b.alloc + size /\ b.mod \subseteq c.mod
     /\ c.parts[n + 1].kind = k /\ c.parts[n + 1].at = b.alloc /\ c.parts[n + 1].size = size
     /\ \A i \in 1..n : Kept(b.parts, c.parts, i) /\ CountedIn(p, q, k, size, i)
     /\ k \in DOMAIN Counted => c.parts[n + 1].len = 0 \/ FlagOf[k] \in c.mod
     /\ q.opt_len_ptr = IF k = "open" THEN <<2, n + 1>> ELSE p.opt_len_ptr
     /\ q.wdr_len_ptr = IF k = "wdrlen" THEN <<2, n + 1>> ELSE p.wdr_len_ptr
     /\ q.attr_len_ptr = IF k = "attrlen" THEN <<2, n + 1>> ELSE p.attr_len_ptr

LEMMA Typed ==
  ASSUME NEW p \in BgpPack
  PROVE  LET b == p.blocks[2] IN
         /\ b \in BgpBlock /\ b.alloc \in Nat /\ b.parts \in Seq(BgpPart)
         /\ Len(b.parts) \in Nat /\ DOMAIN b.parts = 1..Len(b.parts)
         /\ \A i \in DOMAIN b.parts :
              /\ b.parts[i].kind \in BgpKind /\ b.parts[i].at \in Nat
              /\ b.parts[i].size \in Nat /\ b.parts[i].len \in Int
  <1>1. p.blocks[2] \in BgpBlock BY DEF BgpPack
  <1>2. p.blocks[2].parts \in Seq(BgpPart) /\ p.blocks[2].alloc \in Nat BY <1>1 DEF BgpBlock
  <1> DEFINE P == p.blocks[2].parts
  <1>3. \A i \in DOMAIN P : /\ P[i].kind \in BgpKind /\ P[i].at \in Nat
                            /\ P[i].size \in Nat /\ P[i].len \in Int
    BY <1>2, PartType
  <1> QED BY <1>1, <1>2, <1>3

\* The order is kept.
LEMMA ExtendOrder ==
  ASSUME NEW p, NEW q, NEW k \in BgpKind, NEW size \in Nat,
         BgpGood(p), Extended(p, q, k, size), Follows(k, p.prev)
  PROVE  InOrder(q.blocks[2].parts)
  <1> DEFINE P == p.blocks[2].parts
             Q == q.blocks[2].parts
             n == Len(P)
  <1>1. /\ P \in Seq(BgpPart) /\ n \in Nat /\ DOMAIN P = 1..n
        /\ Q \in Seq(BgpPart) /\ Len(Q) = n + 1 /\ DOMAIN Q = 1..(n + 1)
        /\ \A i \in 1..n : P[i].kind \in BgpKind
    BY Typed DEF BgpGood, Extended
  <1>2. \A i \in 1..n : Q[i].kind = P[i].kind BY DEF Extended, Kept
  <1>3. Q[n + 1].kind = k BY DEF Extended
  <1>4. p.prev = IF P = <<>> THEN "header" ELSE P[n].kind BY DEF BgpGood, Statics
  <1>5. OfOneType(P) /\ Ranked(P) /\ Headed(P)
    BY <1>1, InOrderIs DEF BgpGood
  <1> HIDE DEF P, Q, n
  <1>6. CASE P = <<>>
    <2>1. k \in {"open", "wdrlen", "notfn"} BY <1>4, <1>6 DEF Follows
    <2>2. n = 0 BY <1>6 DEF n
    <2>3. \A i \in DOMAIN Q : i = 1 /\ Q[i].kind = k BY <1>1, <1>3, <2>2
    <2>4. OfOneType(Q) /\ Ranked(Q) /\ Headed(Q)
      BY <2>1, <2>3 DEF OfOneType, Ranked, Headed
    <2> QED BY <1>1, <2>4, InOrderIs DEF Q
  <1>7. CASE P # <<>>
    <2> DEFINE last == P[n].kind
    <2>1. n >= 1 /\ n \in DOMAIN P /\ 1 \in DOMAIN P BY <1>1, <1>7 DEF n
    <2>2. Follows(k, last) /\ last \in BgpKind BY <1>1, <1>4, <1>7, <2>1
    <2>3. k \in {"opt", "wdr", "attrlen", "attr", "nlri"} BY <2>2 DEF Follows, BgpKind
    <2>4. \A i \in DOMAIN P : Rank(P[i].kind) <= Rank(last)
      BY <1>1, <1>5, <2>1 DEF Ranked, Rank
    <2>5. Rank(last) <= Rank(k) /\ (k = "attrlen" => Rank(last) <= 2)
      BY <2>2 DEF Follows, Rank, BgpKind
    <2>6. \A i \in DOMAIN Q : \/ i \in DOMAIN P /\ Q[i].kind = P[i].kind
                              \/ i = n + 1 /\ Q[i].kind = k
      BY <1>1, <1>2, <1>3
    <2>7. Q[1].kind = P[1].kind BY <1>1, <1>2, <2>1
    <2> HIDE DEF last
    <2>8. OfOneType(Q)
      <3>1. CASE \A i \in DOMAIN P : P[i].kind \in {"open", "opt"}
        <4>1. k = "opt" BY <2>1, <2>2, <3>1 DEF Follows, last
        <4> QED BY <2>6, <3>1, <4>1 DEF OfOneType
      <3>2. CASE \A i \in DOMAIN P : P[i].kind = "notfn"
        BY <2>1, <2>2, <3>2 DEF Follows, last
      <3>3. CASE \A i \in DOMAIN P : P[i].kind \in {"wdrlen", "wdr", "attrlen", "attr", "nlri"}
        <4>1. k \in {"wdr", "attrlen", "attr", "nlri"} BY <2>1, <2>2, <3>3 DEF Follows, last
        <4> QED BY <2>6, <3>3, <4>1 DEF OfOneType
      <3> QED BY <1>5, <3>1, <3>2, <3>3 DEF OfOneType
    <2>9. Ranked(Q)
      <3> SUFFICES ASSUME NEW i \in DOMAIN Q, NEW j \in DOMAIN Q
                   PROVE  /\ i < j => Rank(Q[i].kind) <= Rank(Q[j].kind)
                          /\ Q[i].kind = Q[j].kind /\
                             Q[i].kind \in {"open", "wdrlen", "attrlen", "notfn"} => i = j
        BY DEF Ranked
      <3>1. CASE i \in DOMAIN P /\ j \in DOMAIN P
        BY <1>1, <1>2, <1>5, <3>1 DEF Ranked
      <3>2. CASE i = n + 1 /\ j = n + 1 BY <1>1, <3>2
      <3>3. \A x \in DOMAIN P : /\ Rank(P[x].kind) \in Nat /\ Rank(P[x].kind) <= Rank(k)
                                /\ k = "attrlen" => P[x].kind # k
        <4> TAKE x \in DOMAIN P
        <4>1. Rank(P[x].kind) <= Rank(last) /\ Rank(last) <= Rank(k) BY <2>4, <2>5
        <4>2. Rank(P[x].kind) \in Nat /\ Rank(last) \in Nat /\ Rank(k) \in Nat BY DEF Rank
        <4>3. k = "attrlen" => Rank(k) = 3 BY DEF Rank
        <4> HIDE DEF Rank
        <4> QED BY <2>5, <4>1, <4>2, <4>3
      <3>4. CASE i \in DOMAIN P /\ j = n + 1
        BY <1>1, <1>2, <1>3, <2>3, <3>3, <3>4
      <3>5. CASE i = n + 1 /\ j \in DOMAIN P
        BY <1>1, <1>2, <1>3, <2>3, <3>3, <3>5
      <3> QED BY <2>6, <3>1, <3>2, <3>4, <3>5
    <2>10. Headed(Q)
      <3>1. k \in {"opt", "wdr", "attrlen"} => P[1].kind \in {"open", "wdrlen"}
        <4> SUFFICES ASSUME k \in {"opt", "wdr", "attrlen"}
                     PROVE  P[1].kind \in {"open", "wdrlen"}
          OBVIOUS
        <4>1. CASE last \in {"opt", "wdr"} BY <1>5, <2>1, <4>1 DEF Headed, last
        <4>2. CASE last \in {"open", "wdrlen"}
          <5>1. Rank(P[1].kind) <= 1 BY <2>1, <2>4, <4>2 DEF Rank
          <5>2. P[1].kind \in {"open", "wdrlen", "notfn"} BY <5>1 DEF Rank
          <5> QED BY <1>5, <2>1, <4>2, <5>2 DEF OfOneType, last
        <4> QED BY <2>2, <4>1, <4>2 DEF Follows
      <3>2. k \in {"attr", "nlri"} => \E j \in DOMAIN P : P[j].kind = "attrlen"
        BY <1>5, <2>1, <2>2 DEF Follows, Headed, last
      <3>3. DOMAIN P \subseteq DOMAIN Q BY <1>1
      <3>4. (\E j \in DOMAIN P : P[j].kind = "attrlen") => \E j \in DOMAIN Q : Q[j].kind = "attrlen"
        BY <1>1, <1>2, <3>3
      <3> QED BY <1>5, <2>6, <2>7, <3>1, <3>2, <3>4 DEF Headed
    <2> QED BY <1>1, <2>8, <2>9, <2>10, InOrderIs DEF Q
  <1> QED BY <1>6, <1>7

\* Every length field still leads over what it counts.
LEMMA ModAdd ==
  ASSUME NEW a \in Int, NEW s \in Nat, NEW w \in {BYTE, WORD}
  PROVE  ((a % w) + s) % w = (a + s) % w
  BY DEF BYTE, WORD

LEMMA ExtendFields ==
  ASSUME NEW p, NEW q, NEW k \in BgpKind, NEW size \in Nat,
         BgpGood(p), Extended(p, q, k, size), Follows(k, p.prev)
  PROVE  FieldsLead(q.blocks[2])
  <1> DEFINE b == p.blocks[2]
             c == q.blocks[2]
             P == b.parts
             Q == c.parts
             n == Len(P)
  <1>1. /\ P \in Seq(BgpPart) /\ n \in Nat /\ DOMAIN P = 1..n
        /\ Q \in Seq(BgpPart) /\ Len(Q) = n + 1 /\ DOMAIN Q = 1..(n + 1)
        /\ \A i \in 1..n : P[i].kind \in BgpKind /\ P[i].at \in Nat /\ P[i].len \in Int
        /\ b.alloc \in Nat
    BY Typed DEF BgpGood, Extended
  <1>2. \A i \in 1..n : Q[i].kind = P[i].kind /\ Q[i].at = P[i].at BY DEF Extended, Kept
  <1>3. /\ Q[n + 1].kind = k /\ Q[n + 1].at = b.alloc
        /\ c.alloc = b.alloc + size /\ b.mod \subseteq c.mod
    BY DEF Extended
  <1>0. n \in Nat /\ DOMAIN P = 1..n /\ DOMAIN Q = 1..(n + 1) /\ n = Len(P) BY <1>1
  <1>n. n \in Nat BY <1>0
  <1> HIDE DEF n
  <1>4. \A j \in 1..(n + 1) : PartAt(b, j) \in Nat /\ PartAt(c, j) = PartAt(b, j)
    <2> TAKE j \in 1..(n + 1)
    <2>1. CASE j \in 1..n
      <3>1. j \in DOMAIN P /\ j \in DOMAIN Q BY <1>0, <2>1
      <3>2. PartAt(b, j) = P[j].at /\ PartAt(c, j) = Q[j].at BY <3>1 DEF PartAt
      <3> QED BY <1>1, <1>2, <2>1, <3>2
    <2>2. CASE j = n + 1
      <3>1. n + 1 \notin 1..n /\ n + 1 \in 1..(n + 1) BY <1>n
      <3>d. j \notin DOMAIN P /\ j \in DOMAIN Q BY <1>0, <2>2, <3>1
      <3>2. PartAt(b, j) = b.alloc /\ PartAt(c, j) = Q[j].at BY <3>d DEF PartAt
      <3> QED BY <1>1, <1>3, <2>2, <3>2
    <2>3. \A m \in Nat : \A x \in 1..(m + 1) : x \in 1..m \/ x = m + 1 OBVIOUS
    <2> QED BY <1>n, <2>1, <2>2, <2>3
  <1>5. PartAt(c, n + 2) = PartAt(b, n + 1) + size /\ PartAt(b, n + 1) = b.alloc
    <2>1. n + 1 \notin 1..n /\ n + 2 \notin 1..(n + 1) BY <1>n
    <2>2. n + 1 \notin DOMAIN P /\ n + 2 \notin DOMAIN Q BY <1>0, <2>1
    <2> QED BY <1>3, <2>2 DEF PartAt
  <1>6. \A kind : Width(kind) \in {BYTE, WORD} BY DEF Width
  <1>7. ASSUME NEW i \in 1..n, P[i].kind \in DOMAIN Counted
        PROVE  FlagOf[Q[i].kind] \in c.mod \/ CountsAttributes(c, i) \/ Leads(c, i)
    <2> DEFINE kind == Counted[P[i].kind]
               w == Width(P[i].kind)
    <2>1. CountedIn(p, q, k, size, i) BY DEF Extended, n
    <2>2. FlagOf[P[i].kind] \in b.mod \/ CountsAttributes(b, i) \/ Leads(b, i)
      <3>1. FieldsLead(b) /\ i \in DOMAIN b.parts BY <1>0, <1>7 DEF BgpGood
      <3> QED BY <1>7, <3>1 DEF FieldsLead
    <2> SUFFICES ASSUME FlagOf[P[i].kind] \notin c.mod, ~CountsAttributes(c, i)
                 PROVE  Leads(c, i)
      BY <1>2
    <2>b. Q[i].kind = P[i].kind /\ i \in DOMAIN Q /\ n + 1 \in DOMAIN Q BY <1>0, <1>2
    <2>c. ~(k = "attr" /\ P[i].kind = "attrlen")
      BY <1>3, <2>b DEF CountsAttributes
    <2>d. ~CountsAttributes(b, i)
      <3> SUFFICES ASSUME P[i].kind = "attrlen", NEW x \in DOMAIN P, P[x].kind = "attr"
                   PROVE  FALSE
        BY DEF CountsAttributes
      <3>1. x \in 1..n /\ x \in DOMAIN Q BY <1>0
      <3>2. Q[x].kind = "attr" BY <1>2, <3>1
      <3> QED BY <2>b, <3>1, <3>2 DEF CountsAttributes
    <2>5. Leads(b, i) BY <1>3, <2>2, <2>d
    <2>6. PICK j \in (i + 1)..(n + 1) :
            /\ \A x \in (i + 1)..(j - 1) : P[x].kind = kind
            /\ \A x \in j..n : P[x].kind # kind
            /\ P[i].len = (PartAt(b, j) - PartAt(b, i + 1)) % w
      BY <1>0, <2>5 DEF Leads
    <2>a. n \in Nat /\ j \in Nat /\ i \in Nat /\ 1 <= i /\ i <= n /\ i + 1 <= j /\ j <= n + 1
      BY <1>n
    <2>4. P[i].len # Unknown
      <3>1. j \in 1..(n + 1) /\ i + 1 \in 1..(n + 1) BY <2>a
      <3>2. PartAt(b, j) \in Nat /\ PartAt(b, i + 1) \in Nat /\ w \in {BYTE, WORD}
        BY <1>4, <1>6, <3>1
      <3>3. \A x, y \in Nat, v \in {BYTE, WORD} : (x - y) % v # Unknown
        BY DEF BYTE, WORD, Unknown
      <3> HIDE DEF w
      <3> QED BY <2>6, <3>2, <3>3
    <2>3. \/ kind # k /\ Q[i].len = P[i].len
          \/ kind = k /\ Q[i].len = (P[i].len + size) % w
      BY <1>7, <2>1, <2>4, <2>c DEF CountedIn
    <2>7. Leads(c, i) <=>
            \E y \in (i + 1)..(n + 2) :
              /\ \A x \in (i + 1)..(y - 1) : Q[x].kind = kind
              /\ \A x \in y..(n + 1) : Q[x].kind # kind
              /\ Q[i].len = (PartAt(c, y) - PartAt(c, i + 1)) % w
      <3>1. Len(Q) + 1 = n + 2 BY <1>0, <1>1
      <3>2. Q[i].kind = P[i].kind BY <1>2
      <3> QED BY <1>1, <3>1, <3>2 DEF Leads
    <2>8. w \in {BYTE, WORD} /\ PartAt(b, i + 1) \in Nat /\ PartAt(c, i + 1) = PartAt(b, i + 1)
      <3>1. i + 1 \in 1..(n + 1) BY <1>0
      <3> QED BY <1>4, <1>6, <3>1
    <2> HIDE DEF kind, w
    <2>9. CASE kind # k
      <3>1. Q[i].len = P[i].len BY <2>3, <2>9
      <3>2. PartAt(c, j) = PartAt(b, j)
        <4>1. j \in 1..(n + 1) BY <1>0
        <4> QED BY <1>4, <4>1
      <3>3. \A x \in (i + 1)..(j - 1) : Q[x].kind = kind
        <4> TAKE x \in (i + 1)..(j - 1)
        <4>1. x \in 1..n BY <2>a
        <4>2. P[x].kind = kind BY <2>6
        <4>3. Q[x].kind = P[x].kind BY <1>2, <4>1
        <4> QED BY <4>2, <4>3
      <3>4. \A x \in j..(n + 1) : Q[x].kind # kind
        <4> TAKE x \in j..(n + 1)
        <4>1. CASE x = n + 1 BY <1>3, <2>9, <4>1
        <4>2. CASE x <= n
          <5>1. x \in j..n /\ x \in 1..n BY <2>a, <4>2
          <5> QED BY <1>2, <2>6, <5>1
        <4> QED BY <2>a, <4>1, <4>2
      <3>5. j \in (i + 1)..(n + 2) BY <1>0
      <3> QED BY <2>6, <2>7, <2>8, <3>1, <3>2, <3>3, <3>4, <3>5
    <2>10. CASE kind = k
      <3>1. j = n + 1
        <4> SUFFICES ASSUME j <= n PROVE FALSE BY <2>a
        <4>1. n \in j..n /\ n \in DOMAIN P /\ n > i BY <1>0, <2>a
        <4>2. P[n].kind # k BY <2>6, <2>10, <4>1
        <4>3. Follows(k, P[n].kind)
          <5>0. Statics(p) BY DEF BgpGood
          <5>1. p.prev = IF P = <<>> THEN "header" ELSE P[n].kind BY <5>0, <1>0 DEF Statics
          <5>2. P # <<>> BY <1>0, <4>1
          <5> QED BY <5>1, <5>2
        <4>4. P[i].kind \in BgpKind /\ k = Counted[P[i].kind] BY <1>1, <2>10 DEF kind
        <4>5. \/ P[i].kind = "open" /\ k = "opt"
              \/ P[i].kind = "wdrlen" /\ k = "wdr"
              \/ P[i].kind = "attrlen" /\ k = "attr"
          BY <1>7, <4>4, BgpNames
        <4>6. P[n].kind = P[i].kind BY <4>2, <4>3, <4>5 DEF Follows
        <4>7. Ranked(P) BY <1>1, InOrderIs DEF BgpGood
        <4>8. n = i
          <5>1. i \in DOMAIN P BY <1>0
          <5> QED BY <4>1, <4>5, <4>6, <4>7, <5>1 DEF Ranked
        <4> QED BY <1>0, <4>1, <4>8
      <3>2. Q[i].len = (PartAt(c, n + 2) - PartAt(c, i + 1)) % w
        <4> DEFINE s == PartAt(b, n + 1)
                   t == PartAt(b, i + 1)
        <4>1. s \in Nat /\ t \in Nat
          <5>1. n + 1 \in 1..(n + 1) BY <1>0
          <5> QED BY <1>4, <2>8, <5>1
        <4>2. Q[i].len = (((s - t) % w) + size) % w BY <2>3, <2>6, <2>10, <3>1
        <4>3. PartAt(c, n + 2) - PartAt(c, i + 1) = (s - t) + size
          BY <1>5, <2>8, <4>1
        <4> HIDE DEF s, t
        <4>4. s - t \in Int BY <4>1
        <4>5. (((s - t) % w) + size) % w = ((s - t) + size) % w BY <2>8, <4>4, ModAdd
        <4> QED BY <4>2, <4>3, <4>5
      <3>3. \A x \in (i + 1)..(n + 1) : Q[x].kind = kind
        <4> TAKE x \in (i + 1)..(n + 1)
        <4>1. CASE x = n + 1 BY <1>3, <2>10, <4>1
        <4>2. CASE x <= n
          <5>1. x \in (i + 1)..(j - 1) /\ x \in 1..n BY <2>a, <3>1, <4>2
          <5> QED BY <1>2, <2>6, <5>1
        <4> QED BY <2>a, <4>1, <4>2
      <3>4. n + 2 \in (i + 1)..(n + 2) /\ (n + 2) - 1 = n + 1 BY <1>0
      <3>5. \A x \in (n + 2)..(n + 1) : Q[x].kind # kind
        <4>1. (n + 2)..(n + 1) = {} BY <1>n
        <4> QED BY <4>1
      <3> QED BY <2>7, <3>2, <3>3, <3>4, <3>5
    <2> QED BY <2>9, <2>10
  <1>8. ASSUME k \in DOMAIN Counted
        PROVE  FlagOf[k] \in c.mod \/ Leads(c, n + 1)
    <2> SUFFICES ASSUME FlagOf[k] \notin c.mod PROVE Leads(c, n + 1) OBVIOUS
    <2>1. Q[n + 1].len = 0 BY <1>8 DEF Extended, n
    <2>2. Leads(c, n + 1) <=>
            \E y \in (n + 2)..(n + 2) :
              /\ \A x \in (n + 2)..(y - 1) : Q[x].kind = Counted[k]
              /\ \A x \in y..(n + 1) : Q[x].kind # Counted[k]
              /\ Q[n + 1].len = (PartAt(c, y) - PartAt(c, n + 2)) % Width(k)
      <3>1. Len(Q) + 1 = n + 2 /\ (n + 1) + 1 = n + 2 BY <1>0, <1>1
      <3> QED BY <1>1, <1>3, <3>1 DEF Leads
    <2>3. PartAt(c, n + 2) - PartAt(c, n + 2) = 0 BY <1>1, <1>5
    <2>4. 0 % Width(k) = 0 BY DEF Width, BYTE, WORD
    <2>a. (n + 2)..((n + 2) - 1) = {} /\ (n + 2)..(n + 1) = {} BY <1>n
    <2>5. \A x \in (n + 2)..((n + 2) - 1) : Q[x].kind = Counted[k] BY <2>a
    <2>6. \A x \in (n + 2)..(n + 1) : Q[x].kind # Counted[k] BY <2>a
    <2>7. n + 2 \in (n + 2)..(n + 2) BY <1>n
    <2> QED BY <2>1, <2>2, <2>3, <2>4, <2>5, <2>6, <2>7
  <1>9. ASSUME NEW i \in DOMAIN Q, Q[i].kind \in DOMAIN Counted
        PROVE  FlagOf[Q[i].kind] \in c.mod \/ CountsAttributes(c, i) \/ Leads(c, i)
    <2>1. CASE i \in 1..n BY <1>2, <1>7, <1>9, <2>1
    <2>2. CASE i = n + 1 BY <1>3, <1>8, <1>9, <2>2
    <2>3. \A m \in Nat : \A x \in 1..(m + 1) : x \in 1..m \/ x = m + 1 OBVIOUS
    <2>4. i \in 1..(n + 1) BY <1>0
    <2>5. i \in 1..n \/ i = n + 1
      <3> HIDE DEF n
      <3> QED BY <1>n, <2>3, <2>4
    <2> QED BY <2>1, <2>2, <2>5
  <1> HIDE DEF c
  <1>10. c.parts = Q BY DEF c
  <1> HIDE DEF Q
  <1> QED BY <1>9, <1>10 DEF FieldsLead, c

LEMMA ExtendGood ==
  ASSUME NEW p, NEW q, NEW k \in BgpKind, NEW size \in Nat,
         BgpGood(p), Extended(p, q, k, size), Follows(k, p.prev)
  PROVE  BgpGood(q)
  <1> DEFINE b == p.blocks[2]
             c == q.blocks[2]
             P == b.parts
             Q == c.parts
             n == Len(P)
  <1>1. /\ n \in Nat /\ DOMAIN P = 1..n
        /\ Len(Q) = n + 1 /\ DOMAIN Q = 1..(n + 1)
        /\ \A i \in 1..n : P[i].at \in Nat /\ P[i].size \in Nat
        /\ b.alloc \in Nat
    BY Typed DEF BgpGood, Extended
  <1>2. \A i \in 1..n : Q[i].kind = P[i].kind /\ Q[i].at = P[i].at /\ Q[i].size = P[i].size
    BY DEF Extended, Kept
  <1>3. /\ Q[n + 1].kind = k /\ Q[n + 1].at = b.alloc /\ Q[n + 1].size = size
        /\ c.alloc = b.alloc + size /\ q.prev = k /\ q \in BgpPack
    BY DEF Extended
  <1>0. n \in Nat /\ DOMAIN P = 1..n /\ DOMAIN Q = 1..(n + 1) /\ n = Len(P) /\ Len(Q) = n + 1
    BY <1>1
  <1>a. /\ q.opt_len_ptr = IF k = "open" THEN <<2, n + 1>> ELSE p.opt_len_ptr
        /\ q.wdr_len_ptr = IF k = "wdrlen" THEN <<2, n + 1>> ELSE p.wdr_len_ptr
        /\ q.attr_len_ptr = IF k = "attrlen" THEN <<2, n + 1>> ELSE p.attr_len_ptr
    BY DEF Extended
  <1> HIDE DEF n
  <1>4. Statics(q)
    <2>1. q.prev = IF Q = <<>> THEN "header" ELSE Q[Len(Q)].kind
      <3>1. Q # <<>> BY <1>0
      <3> QED BY <1>0, <1>3, <3>1
    <2>2. ASSUME NEW i \in DOMAIN Q
          PROVE  /\ Q[i].kind = "open" => q.opt_len_ptr = <<2, i>>
                 /\ Q[i].kind = "wdrlen" => q.wdr_len_ptr = <<2, i>>
                 /\ Q[i].kind = "attrlen" => q.attr_len_ptr = <<2, i>>
      <3>1. CASE i = n + 1 BY <1>3, <1>a, <3>1
      <3>2. CASE i \in 1..n
        <4>1. Ranked(P) /\ Follows(k, p.prev)
          BY Typed, InOrderIs DEF BgpGood
        <4>2. p.prev = P[n].kind /\ n \in DOMAIN P /\ i \in DOMAIN P
          <5>1. n \in DOMAIN P /\ i \in DOMAIN P /\ P # <<>> BY <1>0, <3>2
          <5> QED BY <1>0, <5>1 DEF BgpGood, Statics
        <4>3. Rank(P[i].kind) <= Rank(P[n].kind)
          <5>1. CASE i = n BY <5>1 DEF Rank
          <5>2. CASE i < n BY <4>1, <4>2, <5>2 DEF Ranked
          <5> QED BY <1>0, <3>2, <5>1, <5>2
        <4>4. k \notin {"open", "wdrlen"}
          <5>1. P[n].kind \in BgpKind BY <4>2, Typed DEF BgpGood
          <5> QED BY <4>1, <4>2, <5>1 DEF Follows, BgpKind
        <4>5. k = "attrlen" => P[i].kind # "attrlen"
          <5> SUFFICES ASSUME k = "attrlen", P[i].kind = "attrlen" PROVE FALSE OBVIOUS
          <5>1. P[n].kind \in {"wdrlen", "wdr"} BY <4>1, <4>2 DEF Follows
          <5> QED BY <4>3, <5>1 DEF Rank
        <4>6. /\ P[i].kind = "open" => p.opt_len_ptr = <<2, i>>
              /\ P[i].kind = "wdrlen" => p.wdr_len_ptr = <<2, i>>
              /\ P[i].kind = "attrlen" => p.attr_len_ptr = <<2, i>>
          BY <4>2 DEF BgpGood, Statics
        <4> QED BY <1>2, <1>a, <3>2, <4>4, <4>5, <4>6
      <3>3. \A m \in Nat : \A x \in 1..(m + 1) : x = m + 1 \/ x \in 1..m OBVIOUS
      <3>4. i = n + 1 \/ i \in 1..n BY <1>0, <2>2, <3>3
      <3> QED BY <3>1, <3>2, <3>4
    <2> QED BY <2>1, <2>2 DEF Statics
  <1>5. BackToBack(c)
    <2>1. ASSUME NEW i \in DOMAIN Q
          PROVE  Q[i].at + Q[i].size = IF i = Len(Q) THEN c.alloc ELSE Q[i + 1].at
      <3>1. CASE i = n + 1 BY <1>0, <1>3, <3>1
      <3>2. CASE i \in 1..n
        <4>1. P[i].at + P[i].size = IF i = n THEN b.alloc ELSE P[i + 1].at
          BY <1>0, <3>2 DEF BgpGood, BackToBack
        <4>2. i # n => i + 1 \in 1..n BY <1>0, <3>2
        <4>3. Q[i + 1].at = IF i = n THEN b.alloc ELSE P[i + 1].at BY <1>2, <1>3, <4>2
        <4>4. i # Len(Q) /\ i \in DOMAIN Q BY <1>0, <3>2
        <4>5. Q[i].at + Q[i].size = P[i].at + P[i].size BY <1>2, <3>2
        <4>6. (IF i = Len(Q) THEN c.alloc ELSE Q[i + 1].at) = Q[i + 1].at BY <4>4
        <4>7. Q[i + 1].at = P[i].at + P[i].size BY <4>1, <4>3
        <4> QED BY <4>5, <4>6, <4>7
      <3>4. \A m \in Nat : \A x \in 1..(m + 1) : x = m + 1 \/ x \in 1..m OBVIOUS
      <3>3. i = n + 1 \/ i \in 1..n BY <1>0, <2>1, <3>4
      <3> QED BY <3>1, <3>2, <3>3
    <2> QED BY <2>1 DEF BackToBack
  <1>6. FieldsLead(c) /\ InOrder(Q) BY ExtendFields, ExtendOrder
  <1> QED BY <1>3, <1>4, <1>5, <1>6 DEF BgpGood

\* q is p with one more part, and no field has grown yet.
WithPart(p, q, k, size, len) ==
  LET b == p.blocks[2]
      c == q.blocks[2]
  IN /\ q \in BgpPack /\ q.cur = 2 /\ q.prev = k /\ c.alloc = b.alloc + size /\ b.mod \subseteq c.mod
     /\ c.parts = Append(b.parts, [kind |-> k, at |-> b.alloc, size |-> size, len |-> len])
SamePointers(p, q) ==
  /\ q.opt_len_ptr = p.opt_len_ptr /\ q.wdr_len_ptr = p.wdr_len_ptr
  /\ q.attr_len_ptr = p.attr_len_ptr

\* A pack with another second block.
WithBlock(p, b) == [p EXCEPT !.blocks = [p.blocks EXCEPT ![2] = b]]

LEMMA WithBlockType ==
  ASSUME NEW p \in BgpPack, NEW b \in BgpBlock, NEW q, q = WithBlock(p, b)
  PROVE  /\ q \in BgpPack /\ q.blocks[2] = b /\ q.cur = p.cur /\ q.prev = p.prev
         /\ SamePointers(p, q)
  <1> DEFINE blocks == [p.blocks EXCEPT ![2] = b]
  <1>1. p.blocks \in [{1, 2} -> BgpBlock] BY DEF BgpPack
  <1>2. blocks \in [{1, 2} -> BgpBlock] /\ blocks[2] = b BY <1>1
  <1> HIDE DEF blocks
  <1>3. q = [p EXCEPT !.blocks = blocks] BY DEF blocks, WithBlock
  <1> QED BY <1>2, <1>3 DEF BgpPack, SamePointers

LEMMA PutGrown ==
  ASSUME NEW p \in BgpPack, p.cur = 2, NEW k \in BgpKind, NEW size \in Nat, NEW len \in Int
  PROVE  LET q == Put(p, k, size, len)
         IN /\ WithPart(p, q, k, size, len) /\ SamePointers(p, q)
            /\ Next_part(p) = <<2, Len(p.blocks[2].parts) + 1>>
  <1> DEFINE b == p.blocks[2]
             new == [kind |-> k, at |-> b.alloc, size |-> size, len |-> len]
             c == [b EXCEPT !.alloc = b.alloc + size, !.parts = Append(b.parts, new)]
             r == [p EXCEPT !.prev = k]
             q == WithBlock(r, c)
  <1>1. Target(p) = 2 /\ Block(p) = b BY DEF Target, Block
  <1>2. b \in BgpBlock /\ p.blocks \in [{1, 2} -> BgpBlock] BY DEF BgpPack
  <1>3. b.alloc \in Nat /\ b.parts \in Seq(BgpPart) BY <1>2 DEF BgpBlock
  <1>4. new \in BgpPart BY <1>3 DEF BgpPart
  <1>5. Put(p, k, size, len) = q
    <2>1. Put(p, k, size, len) = [p EXCEPT !.prev = k, !.blocks[2] = c] BY <1>1 DEF Put
    <2> HIDE DEF c
    <2>2. r.blocks = p.blocks BY <1>2 DEF BgpPack
    <2> QED BY <2>1, <2>2 DEF WithBlock
  <1> HIDE DEF new
  <1>6. c \in BgpBlock /\ c.alloc = b.alloc + size /\ c.mod = b.mod /\ c.parts = Append(b.parts, new)
    <2>1. Append(b.parts, new) \in Seq(BgpPart) /\ b.alloc + size \in Nat BY <1>3, <1>4
    <2> HIDE DEF b
    <2> QED BY <1>2, <2>1 DEF BgpBlock
  <1> HIDE DEF c
  <1>7. r \in BgpPack /\ r.prev = k /\ r.cur = 2 /\ SamePointers(p, r) BY DEF BgpPack, SamePointers
  <1> HIDE DEF r
  <1>8. q \in BgpPack /\ q.blocks[2] = c /\ q.cur = 2 /\ q.prev = k /\ SamePointers(r, q)
    BY <1>6, <1>7, WithBlockType
  <1> HIDE DEF q
  <1>9. Next_part(p) = <<2, Len(b.parts) + 1>> BY <1>1 DEF Next_part
  <1> QED BY <1>5, <1>6, <1>7, <1>8, <1>9 DEF WithPart, SamePointers, new

\* What is at the end and in front of it.
PartsGrown(p, q, k, size, len) ==
  LET P == p.blocks[2].parts
      Q == q.blocks[2].parts
      n == Len(P)
  IN /\ n \in Nat /\ DOMAIN P = 1..n /\ Len(Q) = n + 1 /\ DOMAIN Q = 1..(n + 1)
     /\ Q \in Seq(BgpPart)
     /\ \A i \in 1..n : Q[i] = P[i]
     /\ Q[n + 1] = [kind |-> k, at |-> p.blocks[2].alloc, size |-> size, len |-> len]

LEMMA GrownParts ==
  ASSUME NEW p \in BgpPack, NEW q, NEW k \in BgpKind, NEW size \in Nat, NEW len \in Int,
         WithPart(p, q, k, size, len)
  PROVE  PartsGrown(p, q, k, size, len)
  <1> DEFINE P == p.blocks[2].parts
             Q == q.blocks[2].parts
             new == [kind |-> k, at |-> p.blocks[2].alloc, size |-> size, len |-> len]
  <1>1. P \in Seq(BgpPart) /\ p.blocks[2].alloc \in Nat BY Typed
  <1>2. new \in BgpPart BY <1>1 DEF BgpPart
  <1>3. Q = Append(P, new) BY DEF WithPart
  <1> HIDE DEF P, Q, new
  <1>4. /\ Q \in Seq(BgpPart) /\ Len(Q) = Len(P) + 1
        /\ \A i \in 1..Len(P) : Q[i] = P[i]
        /\ Q[Len(P) + 1] = new
    BY <1>1, <1>2, <1>3, AppendProperties
  <1> QED BY <1>1, <1>4 DEF P, Q, new, PartsGrown

\* The end of an option that grows nothing but the message.
LEMMA GrownExtends ==
  ASSUME NEW p \in BgpPack, p.cur = 2, NEW q, NEW k \in BgpKind \ {"opt", "wdr", "attr"},
         NEW size \in Nat, NEW len \in Int, WithPart(p, q, k, size, len),
         k \in DOMAIN Counted => len = 0 \/ FlagOf[k] \in q.blocks[2].mod,
         LET at == <<2, Len(p.blocks[2].parts) + 1>>
         IN /\ q.opt_len_ptr = IF k = "open" THEN at ELSE p.opt_len_ptr
            /\ q.wdr_len_ptr = IF k = "wdrlen" THEN at ELSE p.wdr_len_ptr
            /\ q.attr_len_ptr = IF k = "attrlen" THEN at ELSE p.attr_len_ptr
  PROVE  Extended(p, q, k, size)
  <1> DEFINE P == p.blocks[2].parts
             Q == q.blocks[2].parts
             n == Len(P)
  <1>1. /\ n \in Nat /\ DOMAIN P = 1..n /\ Len(Q) = n + 1
        /\ \A i \in 1..n : Q[i] = P[i]
        /\ Q[n + 1] = [kind |-> k, at |-> p.blocks[2].alloc, size |-> size, len |-> len]
    <2>1. PartsGrown(p, q, k, size, len) BY GrownParts
    <2> QED BY <2>1 DEF PartsGrown
  <1>2. \A i \in 1..n : Kept(P, Q, i) BY <1>1 DEF Kept
  <1>3. ASSUME NEW i \in 1..n PROVE CountedIn(p, q, k, size, i)
    <2>1. P[i].kind \in BgpKind BY <1>1, Typed
    <2>2. P[i].kind \in DOMAIN Counted => Counted[P[i].kind] \in {"opt", "wdr", "attr"}
      BY <2>1, BgpNames
    <2> QED BY <1>1, <2>2 DEF CountedIn
  <1>4. Q[n + 1].kind = k /\ Q[n + 1].at = p.blocks[2].alloc /\ Q[n + 1].size = size
        /\ Q[n + 1].len = len
    BY <1>1
  <1> HIDE DEF P, Q
  <1>5. /\ q \in BgpPack /\ q.prev = k /\ q.cur = 2
        /\ q.blocks[2].alloc = p.blocks[2].alloc + size
        /\ p.blocks[2].mod \subseteq q.blocks[2].mod
    BY DEF WithPart
  <1> QED BY <1>1, <1>2, <1>3, <1>4, <1>5 DEF Extended, P, Q

\* The length field that counts parts of kind k is there, and only once.
LEMMA Counter ==
  ASSUME NEW p, BgpGood(p), NEW k0 \in {"open", "wdrlen", "attrlen"}, NEW k,
         k = Counted[k0], Follows(k, p.prev)
  PROVE  LET P == p.blocks[2].parts IN
         \E c \in DOMAIN P :
           /\ P[c].kind = k0
           /\ \A i \in DOMAIN P : P[i].kind \in DOMAIN Counted /\ Counted[P[i].kind] = k => i = c
  <1> DEFINE P == p.blocks[2].parts
             n == Len(P)
  <1>1. /\ n \in Nat /\ DOMAIN P = 1..n /\ P \in Seq(BgpPart)
        /\ \A i \in DOMAIN P : P[i].kind \in BgpKind
    BY Typed DEF BgpGood
  <1>2. k0 \in BgpKind /\ k0 \in DOMAIN Counted BY DEF BgpKind, Counted
  <1>3. \/ k0 = "open" /\ k = "opt"
        \/ k0 = "wdrlen" /\ k = "wdr"
        \/ k0 = "attrlen" /\ k = "attr"
    BY <1>2, BgpNames
  <1>4. OfOneType(P) /\ Ranked(P) /\ Headed(P) BY <1>1, InOrderIs DEF BgpGood
  <1>5. p.prev = P[n].kind /\ n \in DOMAIN P /\ 1 \in DOMAIN P
    <2>1. p.prev # "header" BY <1>3 DEF Follows
    <2>2. P # <<>> /\ p.prev = P[n].kind BY <2>1 DEF BgpGood, Statics
    <2> QED BY <1>1, <2>2
  <1> HIDE DEF n, P
  <1>6. \E c \in DOMAIN P : P[c].kind = k0
    <2>1. CASE P[n].kind = k0 BY <1>5, <2>1
    <2>2. CASE P[n].kind = k /\ k \in {"opt", "wdr"}
      <3>1. P[1].kind \in {"open", "wdrlen"} BY <1>4, <1>5, <2>2 DEF Headed
      <3>2. P[1].kind = k0 BY <1>3, <1>4, <1>5, <2>2, <3>1 DEF OfOneType
      <3> QED BY <1>5, <3>2
    <2>3. CASE P[n].kind = k /\ k = "attr" BY <1>3, <1>4, <1>5, <2>3 DEF Headed
    <2> QED BY <1>3, <1>5, <2>1, <2>2, <2>3 DEF Follows
  <1>7. PICK c \in DOMAIN P : P[c].kind = k0 BY <1>6
  <1>8. ASSUME NEW i \in DOMAIN P, P[i].kind \in DOMAIN Counted, Counted[P[i].kind] = k
        PROVE  i = c
    <2>1. P[i].kind = k0 BY <1>1, <1>3, <1>8, BgpNames
    <2> QED BY <1>4, <1>7, <2>1 DEF Ranked
  <1> QED BY <1>7, <1>8 DEF P

\* The end of an option that grows a length field as well.
LEMMA BumpExtends ==
  ASSUME NEW p, BgpGood(p), p.cur = 2, NEW k0 \in {"open", "wdrlen", "attrlen"},
         NEW k, k = Counted[k0], Follows(k, p.prev), NEW size \in Nat, NEW len \in Int,
         NEW r, WithPart(p, r, k, size, len), SamePointers(p, r),
         NEW ptr, ptr = IF k0 = "open" THEN p.opt_len_ptr
                        ELSE IF k0 = "wdrlen" THEN p.wdr_len_ptr ELSE p.attr_len_ptr,
         NEW m \in {size, Unknown}, m = size \/ k = "attr"
  PROVE  Extended(p, Bump(r, FlagOf[k0], ptr, m, Width(k0)), k, size)
  <1> DEFINE P == p.blocks[2].parts
             R == r.blocks[2].parts
             n == Len(P)
             flag == FlagOf[k0]
             w == Width(k0)
             q == Bump(r, flag, ptr, m, w)
             Q == q.blocks[2].parts
  <1>4. /\ k0 \in BgpKind /\ k0 \in DOMAIN Counted /\ k \in BgpKind /\ k \notin DOMAIN Counted
        /\ k \in {"opt", "wdr", "attr"}
    BY BgpNames DEF BgpKind, Counted
  <1>1. /\ n \in Nat /\ DOMAIN P = 1..n /\ Len(R) = n + 1 /\ DOMAIN R = 1..(n + 1)
        /\ R \in Seq(BgpPart) /\ \A i \in 1..n : R[i] = P[i]
        /\ R[n + 1] = [kind |-> k, at |-> p.blocks[2].alloc, size |-> size, len |-> len]
    <2>1. p \in BgpPack /\ k \in BgpKind /\ WithPart(p, r, k, size, len) BY <1>4 DEF BgpGood
    <2>2. PartsGrown(p, r, k, size, len) BY <2>1, GrownParts
    <2> QED BY <2>2 DEF PartsGrown
  <1>2. PICK c \in DOMAIN P :
          /\ P[c].kind = k0
          /\ \A i \in DOMAIN P : P[i].kind \in DOMAIN Counted /\ Counted[P[i].kind] = k => i = c
    BY Counter
  <1>3. ptr = <<2, c>> BY <1>2 DEF BgpGood, Statics
  <1>5. /\ r \in BgpPack /\ r.cur = 2 /\ r.prev = k /\ r.blocks[2] \in BgpBlock
        /\ r.blocks[2].alloc = p.blocks[2].alloc + size
        /\ p.blocks[2].mod \subseteq r.blocks[2].mod
    BY DEF WithPart, BgpPack
  <1>6. Target(r) = 2 /\ Block(r) = r.blocks[2] BY <1>5 DEF Target, Block
  <1>7. c \in 1..n /\ c \in DOMAIN R /\ R[c] = P[c] /\ R[c].len \in Int
    <2> HIDE DEF R, P, n
    <2>1. c \in 1..n /\ c \in DOMAIN R /\ R[c] = P[c] BY <1>1, <1>2
    <2> QED BY <1>1, <2>1, PartType
  <1> DEFINE L == IF Unknown \in {R[c].len, m} THEN Unknown ELSE (R[c].len + m) % w
             S == [R EXCEPT ![c].len = L]
             b == [r.blocks[2] EXCEPT !.parts = S]
             s == WithBlock(r, b)
  <1>8. q = IF flag \in r.blocks[2].mod THEN r ELSE s
    <2>1. q = IF flag \in Block(r).mod THEN r
              ELSE [r EXCEPT !.blocks[2].parts[c].len =
                      IF Unknown \in {@, m} THEN Unknown ELSE (@ + m) % w]
      <3>1. ptr[1] = 2 /\ ptr[2] = c BY <1>3
      <3> QED BY <3>1 DEF Bump
    <2>2. [r EXCEPT !.blocks[2].parts[c].len =
             IF Unknown \in {@, m} THEN Unknown ELSE (@ + m) % w] = s
      <3> HIDE DEF R, w
      <3> QED BY <1>5, <1>7 DEF BgpPack, BgpBlock, R, WithBlock
    <2> HIDE DEF q, s
    <2> QED BY <1>6, <2>1, <2>2
  <1>9. L \in Int
    <2>1. w \in {BYTE, WORD} BY DEF Width
    <2>2. \A x \in Int, y \in Nat : (x + y) % w \in Int
      <3> HIDE DEF w
      <3> QED BY <2>1 DEF BYTE, WORD
    <2>3. Unknown \in Int BY DEF Unknown
    <2> HIDE DEF w, R
    <2> QED BY <1>7, <2>2, <2>3
  <1>10. /\ S \in Seq(BgpPart) /\ Len(S) = n + 1
         /\ S[c].len = L
         /\ \A i \in 1..(n + 1) : Kept(R, S, i) /\ (i # c => S[i].len = R[i].len)
    <2> HIDE DEF L
    <2>0. R[c] \in BgpPart
      <3> HIDE DEF R
      <3> QED BY <1>1, <1>7
    <2>1. [R[c] EXCEPT !.len = L] \in BgpPart
      <3> HIDE DEF R
      <3> QED BY <1>9, <2>0 DEF BgpPart
    <2>2. R[c] \in BgpPart /\ [R[c] EXCEPT !.len = L].kind = R[c].kind
          /\ [R[c] EXCEPT !.len = L].at = R[c].at /\ [R[c] EXCEPT !.len = L].size = R[c].size
          /\ [R[c] EXCEPT !.len = L].len = L
      <3> HIDE DEF R
      <3> QED BY <2>0 DEF BgpPart
    <2> DEFINE new == [R[c] EXCEPT !.len = L]
    <2>3. S = [R EXCEPT ![c] = new] OBVIOUS
    <2> HIDE DEF new, S, R
    <2>4. S \in Seq(BgpPart) /\ Len(S) = Len(R) /\ S[c] = new
          /\ \A i \in 1..(n + 1) : i # c => S[i] = R[i]
      BY <1>1, <1>7, <2>1, <2>3 DEF new
    <2> QED BY <1>1, <2>2, <2>4 DEF Kept, new
  <1>11. s \in BgpPack /\ s.blocks[2] = b /\ s.cur = r.cur /\ s.prev = r.prev /\ SamePointers(r, s)
         /\ b.parts = S /\ b.alloc = r.blocks[2].alloc /\ b.mod = r.blocks[2].mod
    <2>1. b \in BgpBlock /\ b.parts = S /\ b.alloc = r.blocks[2].alloc /\ b.mod = r.blocks[2].mod
      <3> HIDE DEF S
      <3> QED BY <1>5, <1>10 DEF BgpBlock
    <2> HIDE DEF b
    <2> QED BY <1>5, <2>1, WithBlockType
  <1> HIDE DEF s, b, S, q, L
  <1>12. /\ q \in BgpPack /\ q.cur = 2 /\ q.prev = k /\ SamePointers(p, q)
         /\ q.blocks[2].alloc = p.blocks[2].alloc + size
         /\ p.blocks[2].mod \subseteq q.blocks[2].mod /\ Len(Q) = n + 1
         /\ \A i \in 1..(n + 1) : Kept(R, Q, i) /\ (i # c => Q[i].len = R[i].len)
         /\ flag \in q.blocks[2].mod \/ Q[c].len = L
    <2>1. CASE flag \in r.blocks[2].mod
      <3>1. q = r BY <1>8, <2>1
      <3> QED BY <1>1, <1>5, <2>1, <3>1 DEF Kept
    <2>2. CASE flag \notin r.blocks[2].mod
      <3>1. q = s BY <1>8, <2>2
      <3> QED BY <1>5, <1>10, <1>11, <3>1 DEF SamePointers
    <2> QED BY <2>1, <2>2
  <1> HIDE DEF R, flag, w
  <1>13. ASSUME NEW i \in 1..n PROVE Kept(P, Q, i) /\ CountedIn(p, q, k, size, i)
    <2>1. Kept(R, Q, i) /\ R[i] = P[i] /\ i \in 1..(n + 1) /\ i \in DOMAIN P BY <1>1, <1>12
    <2>2. Kept(P, Q, i) BY <2>1 DEF Kept
    <2>3. CASE i = c
      <3>1. flag \in q.blocks[2].mod \/ Q[c].len = L BY <1>12
      <3>2. P[c].kind = k0 /\ Counted[P[c].kind] = k BY <1>2
      <3>3. CASE m = size
        <4>1. P[c].len # Unknown => L = (P[c].len + size) % w
          <5>1. size # Unknown BY DEF Unknown
          <5> QED BY <1>7, <3>3, <5>1 DEF L
        <4> QED BY <2>2, <2>3, <3>1, <3>2, <4>1 DEF CountedIn, flag, w
      <3>4. CASE k = "attr"
        <4>1. k0 = "attrlen" BY <1>4, <3>4, BgpNames
        <4> QED BY <2>2, <2>3, <3>2, <3>4, <4>1 DEF CountedIn
      <3> QED BY <3>3, <3>4
    <2>4. CASE i # c
      <3>1. Q[i].len = P[i].len BY <1>12, <2>1, <2>4
      <3>2. P[i].kind \in DOMAIN Counted => Counted[P[i].kind] # k BY <1>2, <2>1, <2>4
      <3> QED BY <2>2, <3>1, <3>2 DEF CountedIn
    <2> QED BY <2>3, <2>4
  <1>14. Q[n + 1].kind = k /\ Q[n + 1].at = p.blocks[2].alloc /\ Q[n + 1].size = size
    <2>1. n + 1 \in 1..(n + 1) BY <1>1
    <2>2. Kept(R, Q, n + 1) BY <1>12, <2>1
    <2>3. /\ Q[n + 1].kind = R[n + 1].kind /\ Q[n + 1].at = R[n + 1].at
          /\ Q[n + 1].size = R[n + 1].size
      BY <2>2 DEF Kept
    <2>4. R[n + 1].kind = k /\ R[n + 1].at = p.blocks[2].alloc /\ R[n + 1].size = size
      BY <1>1
    <2> QED BY <2>3, <2>4
  <1>15. Extended(p, q, k, size)
    BY <1>4, <1>12, <1>13, <1>14 DEF Extended, SamePointers
  <1> QED BY <1>15 DEF q, flag, w

\* Whatever else changes in a message: what was said of its parts is kept.
LEMMA SameParts ==
  ASSUME NEW p, BgpGood(p), NEW q \in BgpPack, q.prev = p.prev, SamePointers(p, q),
         q.blocks[2].parts = p.blocks[2].parts, q.blocks[2].alloc = p.blocks[2].alloc,
         p.blocks[2].mod \subseteq q.blocks[2].mod
  PROVE  BgpGood(q)
  <1> DEFINE b == p.blocks[2]
             c == q.blocks[2]
  <1> SUFFICES Statics(q) /\ BackToBack(c) /\ FieldsLead(c) /\ InOrder(c.parts) BY DEF BgpGood
  <1>1. Statics(q) /\ BackToBack(c) /\ InOrder(c.parts)
    BY DEF BgpGood, Statics, SamePointers, BackToBack
  <1>2. \A i : PartAt(c, i) = PartAt(b, i) BY DEF PartAt
  <1>3. ASSUME NEW i, Leads(b, i) PROVE Leads(c, i)
    <2> DEFINE P == b.parts
    <2>1. c.parts = P OBVIOUS
    <2> HIDE DEF P
    <2>2. PICK j \in (i + 1)..(Len(P) + 1) :
            /\ \A x \in (i + 1)..(j - 1) : P[x].kind = Counted[P[i].kind]
            /\ \A x \in j..Len(P) : P[x].kind # Counted[P[i].kind]
            /\ P[i].len = (PartAt(b, j) - PartAt(b, i + 1)) % Width(P[i].kind)
      BY <1>3 DEF Leads, P
    <2>3. P[i].len = (PartAt(c, j) - PartAt(c, i + 1)) % Width(P[i].kind) BY <1>2, <2>2
    <2> HIDE DEF c
    <2> QED BY <2>1, <2>2, <2>3 DEF Leads
  <1>4. FieldsLead(b) BY DEF BgpGood
  <1>5. FieldsLead(c)
    <2>1. \A i : CountsAttributes(c, i) <=> CountsAttributes(b, i) BY DEF CountsAttributes
    <2>2. c.parts = b.parts /\ b.mod \subseteq c.mod OBVIOUS
    <2> HIDE DEF b, c
    <2> QED BY <1>3, <1>4, <2>1, <2>2 DEF FieldsLead
  <1> QED BY <1>1, <1>5

LEMMA FlagKeeps ==
  ASSUME NEW p \in BgpPack, p.cur = 2, NEW flag \in {"length", "opt", "wdr", "attr"}
  PROVE  LET q == Flag(p, flag)
             b == p.blocks[2]
             c == q.blocks[2]
         IN /\ q \in BgpPack /\ q.cur = 2 /\ q.prev = p.prev /\ SamePointers(p, q)
            /\ c.parts = b.parts /\ c.alloc = b.alloc /\ c.mod = b.mod \union {flag}
  <1> DEFINE b == p.blocks[2]
             c == [b EXCEPT !.mod = b.mod \union {flag}]
             q == Flag(p, flag)
  <1>1. b \in BgpBlock BY DEF BgpPack
  <1>2. c \in BgpBlock /\ c.parts = b.parts /\ c.alloc = b.alloc /\ c.mod = b.mod \union {flag}
    <2> HIDE DEF b
    <2> QED BY <1>1 DEF BgpBlock
  <1>3. q = WithBlock(p, c)
    <2>1. Target(p) = 2 BY DEF Target
    <2>2. q = [p EXCEPT !.blocks[2].mod = @ \union {flag}] BY <2>1 DEF Flag
    <2> HIDE DEF q
    <2> QED BY <1>1, <2>2 DEF BgpPack, BgpBlock, WithBlock
  <1> HIDE DEF q, c
  <1>4. q \in BgpPack /\ q.blocks[2] = c /\ q.cur = p.cur /\ q.prev = p.prev /\ SamePointers(p, q)
    BY <1>2, <1>3, WithBlockType
  <1> QED BY <1>2, <1>4 DEF q

LEMMA CloseKeeps ==
  ASSUME NEW p, BgpGood(p), p.cur = 2
  PROVE  LET q == Close(p) IN BgpGood(q) /\ q.cur = 2 /\ AddsUp(q.blocks[2])
  <1> DEFINE b == p.blocks[2]
             c == [b EXCEPT !.len = b.alloc % WORD]
             q == Close(p)
  <1>1. b \in BgpBlock /\ b.alloc \in Nat /\ p \in BgpPack /\ p.len_ptr = 2
    BY Typed DEF BgpGood, BgpPack
  <1>2. Target(p) = 2 /\ Block(p) = b BY DEF Target, Block
  <1>3. q = IF "length" \in b.mod THEN p ELSE WithBlock(p, c)
    <2>1. q = IF "length" \in b.mod THEN p ELSE [p EXCEPT !.blocks[2].len = b.alloc % WORD]
      BY <1>1, <1>2 DEF Close
    <2>2. [p EXCEPT !.blocks[2].len = b.alloc % WORD] = WithBlock(p, c)
      BY <1>1 DEF BgpPack, BgpBlock, WithBlock
    <2> HIDE DEF q
    <2> QED BY <2>1, <2>2
  <1>4. /\ c \in BgpBlock /\ c.parts = b.parts /\ c.alloc = b.alloc /\ c.mod = b.mod
        /\ c.len = b.alloc % WORD
    <2>1. b.alloc % WORD \in Int BY <1>1 DEF WORD
    <2> HIDE DEF b
    <2> QED BY <1>1, <2>1 DEF BgpBlock
  <1> HIDE DEF q, c
  <1>5. CASE "length" \in b.mod
    <2>1. q = p BY <1>3, <1>5
    <2> QED BY <1>5, <2>1 DEF BgpGood, AddsUp, q
  <1>6. CASE "length" \notin b.mod
    <2>1. q = WithBlock(p, c) BY <1>3, <1>6
    <2>2. q \in BgpPack /\ q.blocks[2] = c /\ q.cur = p.cur /\ q.prev = p.prev /\ SamePointers(p, q)
      BY <1>1, <1>4, <2>1, WithBlockType
    <2>3. BgpGood(q)
      <3>1. q.blocks[2].parts = b.parts /\ q.blocks[2].alloc = b.alloc /\ b.mod \subseteq q.blocks[2].mod
        BY <1>4, <2>2
      <3> QED BY <2>2, <3>1, SameParts
    <2>4. AddsUp(q.blocks[2]) BY <1>4, <2>2, <2>3 DEF AddsUp, BgpGood
    <2> QED BY <2>2, <2>3, <2>4 DEF q
  <1> QED BY <1>5, <1>6

\* A part with a length field, which a static points to from then on; unless it
\* starts from 0, the user gave its value and it is marked.
Pointed(p, r, k) ==
  LET at == Next_part(p)
  IN IF k = "open" THEN [r EXCEPT !.opt_len_ptr = at]
     ELSE IF k = "wdrlen" THEN [r EXCEPT !.wdr_len_ptr = at] ELSE [r EXCEPT !.attr_len_ptr = at]

LEMMA LengthField ==
  ASSUME NEW p, BgpGood(p), p.cur = 2, NEW k \in {"open", "wdrlen", "attrlen"},
         Follows(k, p.prev), NEW size \in Nat, NEW len \in Int, NEW q,
         LET s == Pointed(p, Put(p, k, size, len), k)
         IN (q = s /\ len = 0) \/ q = Flag(s, FlagOf[k])
  PROVE  BgpGood(q) /\ q.cur = 2 /\ q.prev = k
  <1> DEFINE r == Put(p, k, size, len)
             s == Pointed(p, r, k)
             n == Len(p.blocks[2].parts)
  <1>1. p \in BgpPack /\ k \in BgpKind /\ k \in DOMAIN Counted /\ n \in Nat
    BY Typed DEF BgpGood, BgpKind, Counted
  <1>2. WithPart(p, r, k, size, len) /\ SamePointers(p, r) /\ Next_part(p) = <<2, n + 1>>
    BY <1>1, PutGrown
  <1>3. r \in BgpPack BY <1>2 DEF WithPart
  <1> HIDE DEF r, n
  <1>4. /\ s \in BgpPack /\ s.cur = r.cur /\ s.prev = r.prev /\ s.blocks = r.blocks
        /\ s.opt_len_ptr = IF k = "open" THEN <<2, n + 1>> ELSE r.opt_len_ptr
        /\ s.wdr_len_ptr = IF k = "wdrlen" THEN <<2, n + 1>> ELSE r.wdr_len_ptr
        /\ s.attr_len_ptr = IF k = "attrlen" THEN <<2, n + 1>> ELSE r.attr_len_ptr
    BY <1>1, <1>2, <1>3 DEF BgpPack, Pointed
  <1> HIDE DEF s
  <1>5. WithPart(p, s, k, size, len) BY <1>2, <1>4 DEF WithPart
  <1>6. /\ WithPart(p, q, k, size, len) /\ SamePointers(s, q)
        /\ len = 0 \/ FlagOf[k] \in q.blocks[2].mod
    <2>1. CASE q = s /\ len = 0 BY <1>5, <2>1 DEF SamePointers
    <2>2. CASE q = Flag(s, FlagOf[k])
      <3>1. FlagOf[k] \in {"length", "opt", "wdr", "attr"} BY DEF FlagOf
      <3>2. s.cur = 2 BY <1>5 DEF WithPart
      <3> DEFINE f == FlagOf[k]
      <3>3. /\ q \in BgpPack /\ q.cur = 2 /\ q.prev = s.prev /\ SamePointers(s, q)
            /\ q.blocks[2].parts = s.blocks[2].parts /\ q.blocks[2].alloc = s.blocks[2].alloc
            /\ q.blocks[2].mod = s.blocks[2].mod \union {f}
        BY <1>4, <2>2, <3>1, <3>2, FlagKeeps
      <3> HIDE DEF f
      <3>4. f \in q.blocks[2].mod BY <3>3
      <3>5. WithPart(p, q, k, size, len) BY <1>5, <3>3 DEF WithPart
      <3> QED BY <3>3, <3>4, <3>5 DEF f
    <2> QED BY <2>1, <2>2 DEF s, r
  <1>7. /\ q.opt_len_ptr = IF k = "open" THEN <<2, n + 1>> ELSE p.opt_len_ptr
        /\ q.wdr_len_ptr = IF k = "wdrlen" THEN <<2, n + 1>> ELSE p.wdr_len_ptr
        /\ q.attr_len_ptr = IF k = "attrlen" THEN <<2, n + 1>> ELSE p.attr_len_ptr
    BY <1>2, <1>4, <1>6 DEF SamePointers
  <1>8. Extended(p, q, k, size)
    <2>1. k \notin {"opt", "wdr", "attr"} OBVIOUS
    <2> QED BY <1>1, <1>6, <1>7, <2>1, GrownExtends DEF n
  <1>9. BgpGood(q) BY <1>1, <1>8, ExtendGood
  <1> QED BY <1>6, <1>9 DEF WithPart

\* A part without one.
LEMMA PlainPart ==
  ASSUME NEW p, BgpGood(p), p.cur = 2, NEW k \in {"nlri", "notfn"},
         Follows(k, p.prev), NEW size \in Nat, NEW len \in Int
  PROVE  LET q == Put(p, k, size, len) IN BgpGood(q) /\ q.cur = 2
  <1> DEFINE q == Put(p, k, size, len)
  <1>1. p \in BgpPack /\ k \in BgpKind /\ k \notin DOMAIN Counted BY DEF BgpGood, BgpKind, Counted
  <1>2. WithPart(p, q, k, size, len) /\ SamePointers(p, q) BY <1>1, PutGrown
  <1> HIDE DEF q
  <1>3. Extended(p, q, k, size)
    BY <1>1, <1>2, GrownExtends DEF SamePointers
  <1>4. BgpGood(q) BY <1>1, <1>3, ExtendGood
  <1> QED BY <1>2, <1>4 DEF WithPart, q

\* A part that a length field counts.
LEMMA CountedPart ==
  ASSUME NEW p, BgpGood(p), p.cur = 2, NEW k0 \in {"open", "wdrlen", "attrlen"},
         NEW k, k = Counted[k0], Follows(k, p.prev), NEW size \in Nat, NEW len \in Int,
         NEW m \in {size, Unknown}, m = size \/ k = "attr"
  PROVE  LET r == Put(p, k, size, len)
             ptr == IF k0 = "open" THEN r.opt_len_ptr
                    ELSE IF k0 = "wdrlen" THEN r.wdr_len_ptr ELSE r.attr_len_ptr
             q == Bump(r, FlagOf[k0], ptr, m, Width(k0))
         IN BgpGood(q) /\ q.cur = 2
  <1> DEFINE r == Put(p, k, size, len)
             ptr == IF k0 = "open" THEN r.opt_len_ptr
                    ELSE IF k0 = "wdrlen" THEN r.wdr_len_ptr ELSE r.attr_len_ptr
             q == Bump(r, FlagOf[k0], ptr, m, Width(k0))
  <1>1. p \in BgpPack /\ k \in BgpKind BY DEF BgpGood, BgpKind, Counted
  <1>2. WithPart(p, r, k, size, len) /\ SamePointers(p, r) BY <1>1, PutGrown
  <1>3. ptr = IF k0 = "open" THEN p.opt_len_ptr
              ELSE IF k0 = "wdrlen" THEN p.wdr_len_ptr ELSE p.attr_len_ptr
    <2> HIDE DEF r
    <2> QED BY <1>2 DEF SamePointers
  <1> HIDE DEF r, ptr
  <1>4. Extended(p, q, k, size) BY <1>2, <1>3, BumpExtends
  <1> HIDE DEF q
  <1>5. BgpGood(q) BY <1>1, <1>4, ExtendGood
  <1> QED BY <1>4, <1>5 DEF Extended, q, ptr, r

\* The length fields an update needs in front.
LEMMA Before ==
  ASSUME NEW p, BgpGood(p), p.cur = 2
  PROVE  /\ BgpGood(Withdrawn(p)) /\ Withdrawn(p).cur = 2
         /\ BgpGood(Attributes(p)) /\ Attributes(p).cur = 2
  <1>1. BgpGood(Withdrawn(p)) /\ Withdrawn(p).cur = 2
    <2>1. CASE p.prev # "header" BY <2>1 DEF Withdrawn
    <2>2. CASE p.prev = "header"
      <3>1. Withdrawn(p) = Pointed(p, Put(p, "wdrlen", 2, 0), "wdrlen")
        BY <2>2 DEF Withdrawn, Pointed
      <3>2. Follows("wdrlen", p.prev) BY <2>2 DEF Follows
      <3> QED BY <3>1, <3>2, LengthField
    <2> QED BY <2>1, <2>2
  <1>2. BgpGood(Attributes(p)) /\ Attributes(p).cur = 2
    <2>1. CASE p.prev \notin {"wdrlen", "wdr"} BY <2>1 DEF Attributes
    <2>2. CASE p.prev \in {"wdrlen", "wdr"}
      <3>1. Attributes(p) = Pointed(p, Put(p, "attrlen", 2, 0), "attrlen")
        BY <2>2 DEF Attributes, Pointed
      <3>2. Follows("attrlen", p.prev) BY <2>2 DEF Follows
      <3> QED BY <3>1, <3>2, LengthField
    <2> QED BY <2>1, <2>2
  <1> QED BY <1>1, <1>2

-----------------------------------------------------------------------------
LEMMA OwnValues ==
  ASSUME NEW S, NEW s \in Seq(S)
  PROVE  s \in Seq({s[i] : i \in DOMAIN s})
  <1> DEFINE T == {s[i] : i \in DOMAIN s}
  <1>1. Len(s) \in Nat /\ s \in [1..Len(s) -> S] OBVIOUS
  <1>2. s \in [1..Len(s) -> T] BY <1>1
  <1> HIDE DEF T
  <1> QED BY <1>1, <1>2 DEF T

LEMMA OneMoreOption ==
  ASSUME opts \in Seq({opts[i] : i \in DOMAIN opts}), NEW e, opts' = Append(opts, e)
  PROVE  /\ opts' \in Seq({opts'[i] : i \in DOMAIN opts'})
         /\ OneBgp' => OneBgp /\ (e[1] = "-p" \/ e[2] = 2)
  <1> DEFINE S == {opts[i] : i \in DOMAIN opts} \union {e}
             n == Len(opts)
  <1>1. opts \in Seq(S) /\ e \in S /\ n \in Nat /\ DOMAIN opts = 1..n
    <2>1. opts \in Seq({opts[i] : i \in DOMAIN opts}) OBVIOUS
    <2>2. n \in Nat /\ opts \in [1..n -> {opts[i] : i \in DOMAIN opts}] BY <2>1
    <2>3. opts \in [1..n -> S] BY <2>2
    <2> QED BY <2>2, <2>3
  <1> HIDE DEF S
  <1>2. /\ opts' \in Seq(S) /\ Len(opts') = n + 1 /\ opts'[n + 1] = e
        /\ \A i \in 1..n : opts'[i] = opts[i]
    BY <1>1, AppendProperties
  <1> HIDE DEF n
  <1>3. DOMAIN opts' = 1..(n + 1) BY <1>1, <1>2
  <1>4. opts' \in Seq({opts'[i] : i \in DOMAIN opts'})
    <2>1. opts' \in Seq(S) BY <1>2
    <2> QED BY <2>1, OwnValues
  <1>5. ASSUME OneBgp' PROVE OneBgp /\ (e[1] = "-p" \/ e[2] = 2)
    <2>1. \A i \in 1..(n + 1) : opts'[i][1] = "-p" \/ opts'[i][2] = 2 BY <1>3, <1>5 DEF OneBgp
    <2>2. n + 1 \in 1..(n + 1) /\ \A i \in 1..n : i \in 1..(n + 1) BY <1>1
    <2>3. \A i \in DOMAIN opts : opts[i][1] = "-p" \/ opts[i][2] = 2 BY <1>1, <1>2, <2>1, <2>2
    <2> QED BY <1>2, <2>1, <2>2, <2>3 DEF OneBgp
  <1> QED BY <1>4, <1>5

\* An option that leaves the pack of the only header good.
LEMMA Applied ==
  ASSUME BgpInv, NEW o, o # "-p", NEW p, BgpApply(o, p),
         BgpGood(pack) /\ pack.cur = 2 => BgpGood(p) /\ p.cur = 2
  PROVE  BgpInv'
  <1>1. /\ opts' = Append(opts, <<o, Target(pack)>>) /\ pack' = Close(p) /\ module' = module
    BY DEF BgpApply, Apply
  <1> DEFINE e == <<o, Target(pack)>>
  <1>2. /\ opts' \in Seq({opts'[i] : i \in DOMAIN opts'})
        /\ OneBgp' => OneBgp /\ (e[1] = "-p" \/ e[2] = 2)
    <2> HIDE DEF e
    <2>1. opts' = Append(opts, e) BY <1>1 DEF e
    <2>2. opts \in Seq({opts[i] : i \in DOMAIN opts}) BY DEF BgpInv
    <2> QED BY <2>1, <2>2, OneMoreOption
  <1>3. ASSUME OneBgp' PROVE BgpGood(pack') /\ AddsUp(pack'.blocks[2])
    <2>1. OneBgp /\ Target(pack) = 2 BY <1>2, <1>3
    <2>2. BgpGood(pack) /\ pack.cur = 2 BY <2>1 DEF BgpInv, Target
    <2> QED BY <1>1, <2>2, CloseKeeps
  <1> QED BY <1>1, <1>2, <1>3 DEF BgpInv

LEMMA Unchanging ==
  ASSUME BgpInv, pack' = pack, opts' = opts, module' = module
  PROVE  BgpInv'
  BY DEF BgpInv, OneBgp

\* The options of an OPEN and of a NOTIFICATION, and those of fixed fields.
LEMMA MessageStep ==
  ASSUME BgpInv, NEW n \in Nat, NEW olen \in {NotGiven, 3}, NEW len \in {NotGiven, 3},
         \/ BgpField \/ BgpLength(n) \/ BgpNotification(n)
         \/ BgpOpen(olen) \/ BgpOpenOpt(n, len)
  PROVE  BgpInv'
  <1>1. CASE BgpField
    <2>1. BgpApply("t", pack) BY <1>1 DEF BgpField
    <2> QED BY <2>1, Applied
  <1>2. CASE BgpLength(n)
    <2> DEFINE p == [pack EXCEPT !.blocks[Target(pack)].len = n % WORD]
               q == Flag(p, "length")
    <2>1. BgpApply("l", q) BY <1>2 DEF BgpLength
    <2>2. ASSUME BgpGood(pack), pack.cur = 2 PROVE BgpGood(q) /\ q.cur = 2
      <3> DEFINE c == [pack.blocks[2] EXCEPT !.len = n % WORD]
      <3>1. pack \in BgpPack /\ pack.blocks[2] \in BgpBlock BY <2>2 DEF BgpGood, BgpPack
      <3>2. p = WithBlock(pack, c) BY <2>2, <3>1 DEF Target, BgpPack, WithBlock
      <3>3. /\ c \in BgpBlock /\ c.parts = pack.blocks[2].parts
            /\ c.alloc = pack.blocks[2].alloc /\ c.mod = pack.blocks[2].mod
        <4> DEFINE b == pack.blocks[2]
                   x == n % WORD
        <4>1. b \in BgpBlock BY <3>1
        <4>2. x \in Int BY DEF WORD
        <4> HIDE DEF b, x
        <4>3. LET d == [b EXCEPT !.len = x]
              IN d \in BgpBlock /\ d.parts = b.parts /\ d.alloc = b.alloc /\ d.mod = b.mod
          BY <4>1, <4>2 DEF BgpBlock
        <4> QED BY <4>3 DEF b, x
      <3> HIDE DEF p, c, q
      <3>4. /\ p \in BgpPack /\ p.blocks[2] = c /\ p.cur = pack.cur /\ p.prev = pack.prev
            /\ SamePointers(pack, p)
        BY <3>1, <3>2, <3>3, WithBlockType
      <3>5. BgpGood(p)
        <4>1. p.blocks[2].parts = pack.blocks[2].parts /\ p.blocks[2].alloc = pack.blocks[2].alloc
              /\ pack.blocks[2].mod \subseteq p.blocks[2].mod
          BY <3>3, <3>4
        <4> QED BY <2>2, <3>4, <4>1, SameParts
      <3>6. /\ q \in BgpPack /\ q.cur = 2 /\ q.prev = p.prev /\ SamePointers(p, q)
            /\ q.blocks[2].parts = p.blocks[2].parts /\ q.blocks[2].alloc = p.blocks[2].alloc
            /\ p.blocks[2].mod \subseteq q.blocks[2].mod
        BY <2>2, <3>4, FlagKeeps DEF q
      <3> QED BY <3>5, <3>6, SameParts
    <2> HIDE DEF q
    <2> QED BY <2>1, <2>2, Applied
  <1>3. CASE BgpNotification(n)
    <2> DEFINE q == Put(pack, "notfn", 2 + n, n)
    <2>1. BgpApply("n", q) /\ pack.prev = "header" BY <1>3 DEF BgpNotification
    <2>2. BgpGood(pack) /\ pack.cur = 2 => BgpGood(q) /\ q.cur = 2
      BY <2>1, PlainPart DEF Follows
    <2> HIDE DEF q
    <2> QED BY <2>1, <2>2, Applied
  <1>4. CASE BgpOpen(olen)
    <2> DEFINE l == IF olen = NotGiven THEN 0 ELSE olen
               s == Pointed(pack, Put(pack, "open", 10, l), "open")
               q == IF olen = NotGiven THEN s ELSE Flag(s, "opt")
    <2>1. BgpApply("o", q) /\ pack.prev = "header" BY <1>4 DEF BgpOpen, Pointed
    <2>2. ASSUME BgpGood(pack), pack.cur = 2 PROVE BgpGood(q) /\ q.cur = 2
      <3>1. Follows("open", pack.prev) /\ l \in Int /\ FlagOf["open"] = "opt"
        BY <2>1 DEF Follows, NotGiven, FlagOf
      <3>2. (q = s /\ l = 0) \/ q = Flag(s, FlagOf["open"]) BY <3>1
      <3> HIDE DEF q, l
      <3> QED BY <2>2, <3>1, <3>2, LengthField
    <2> HIDE DEF q
    <2> QED BY <2>1, <2>2, Applied
  <1>5. CASE BgpOpenOpt(n, len)
    <2> DEFINE size == 2 + n
               l == (IF len = NotGiven THEN size ELSE len) % BYTE
               r == Put(pack, "opt", size, l)
               q == Bump(r, "opt", r.opt_len_ptr, size, BYTE)
               o == IF len = NotGiven THEN "oo" ELSE "oo:len"
    <2>1. BgpApply(o, q) /\ pack.prev \in {"open", "opt"} /\ o # "-p" BY <1>5 DEF BgpOpenOpt
    <2>2. ASSUME BgpGood(pack), pack.cur = 2 PROVE BgpGood(q) /\ q.cur = 2
      <3>1. Follows("opt", pack.prev) BY <2>1 DEF Follows
      <3>2. "opt" = Counted["open"] /\ "opt" = FlagOf["open"] /\ BYTE = Width("open")
        BY DEF Counted, FlagOf, Width
      <3>3. size \in Nat /\ l \in Int BY DEF BYTE, NotGiven
      <3> DEFINE z == Bump(r, FlagOf["open"], r.opt_len_ptr, size, Width("open"))
      <3>4. z = q BY <3>2
      <3> HIDE DEF size, l, q
      <3>5. BgpGood(z) /\ z.cur = 2 BY <2>2, <3>1, <3>2, <3>3, CountedPart
      <3> HIDE DEF z
      <3> QED BY <3>4, <3>5
    <2> HIDE DEF q, o
    <2> QED BY <2>1, <2>2, Applied
  <1> QED BY <1>1, <1>2, <1>3, <1>4, <1>5

LEMMA RouteSize ==
  ASSUME NEW route \in NlriArgs \union {BadRoute}
  PROVE  NlriSize(route) \in Nat
  <1>1. CASE route = BadRoute BY <1>1 DEF NlriSize
  <1>2. CASE route # BadRoute
    <2>1. route \in Nat \X (Nat \union {NotGiven}) BY <1>2, BgpAssumption
    <2>2. route[1] \in Nat /\ route[2] \in Nat \union {NotGiven} BY <2>1
    <2>3. \A x \in Nat : x > 0 => (x - 1) \div 8 \in Nat OBVIOUS
    <2>4. (IF route[1] > 0 THEN ((route[1] - 1) \div 8) + 1 ELSE 0) \in Nat BY <2>2, <2>3
    <2> QED BY <1>2, <2>2, <2>4 DEF NlriSize, NotGiven
  <1> QED BY <1>1, <1>2

\* The options of an UPDATE.
LEMMA UpdateStep ==
  ASSUME BgpInv, NEW n \in Nat, NEW width \in 1..2, NEW route \in NlriArgs \union {BadRoute},
         \/ BgpWithdrawnLen(n) \/ BgpWithdraw(route) \/ BgpAttrLen(n)
         \/ BgpAttr(width, n) \/ BgpNlri(route)
  PROVE  BgpInv'
  <1>1. CASE BgpWithdrawnLen(n)
    <2> DEFINE s == Pointed(pack, Put(pack, "wdrlen", 2, n % WORD), "wdrlen")
               q == Flag(s, "wdr")
    <2>1. BgpApply("ul", q) /\ pack.prev = "header" BY <1>1 DEF BgpWithdrawnLen, Pointed
    <2>2. ASSUME BgpGood(pack), pack.cur = 2 PROVE BgpGood(q) /\ q.cur = 2
      <3>1. Follows("wdrlen", pack.prev) /\ q = Flag(s, FlagOf["wdrlen"]) /\ n % WORD \in Int
        BY <2>1 DEF Follows, FlagOf, WORD
      <3> HIDE DEF q
      <3> QED BY <2>2, <3>1, LengthField
    <2> HIDE DEF q
    <2> QED BY <2>1, <2>2, Applied
  <1>2. CASE BgpWithdraw(route)
    <2> DEFINE p == Withdrawn(pack)
               m == NlriSize(route)
               r == Put(p, "wdr", m, m)
               q == Bump(r, "wdr", r.wdr_len_ptr, m, WORD)
    <2>1. BgpApply("uw", q) /\ p.prev \in {"wdrlen", "wdr"} BY <1>2 DEF BgpWithdraw
    <2>2. ASSUME BgpGood(pack), pack.cur = 2 PROVE BgpGood(q) /\ q.cur = 2
      <3>1. Follows("wdr", p.prev) BY <2>1 DEF Follows
      <3>2. "wdr" = Counted["wdrlen"] /\ "wdr" = FlagOf["wdrlen"] /\ WORD = Width("wdrlen")
        BY DEF Counted, FlagOf, Width
      <3>3. m \in Nat BY RouteSize
      <3>4. BgpGood(p) /\ p.cur = 2 BY <2>2, Before
      <3> HIDE DEF p, m
      <3> QED BY <3>1, <3>2, <3>3, <3>4, CountedPart
    <2> HIDE DEF q
    <2> QED BY <2>1, <2>2, Applied
  <1>3. CASE BgpAttrLen(n)
    <2> DEFINE p == Withdrawn(pack)
               s == Pointed(p, Put(p, "attrlen", 2, n % WORD), "attrlen")
               q == Flag(s, "attr")
    <2>1. BgpApply("us", q) /\ p.prev \in {"wdrlen", "wdr"}
      BY <1>3 DEF BgpAttrLen, Pointed
    <2>2. ASSUME BgpGood(pack), pack.cur = 2 PROVE BgpGood(q) /\ q.cur = 2
      <3>1. Follows("attrlen", p.prev) /\ q = Flag(s, FlagOf["attrlen"]) /\ n % WORD \in Int
        BY <2>1 DEF Follows, FlagOf, WORD
      <3>2. BgpGood(p) /\ p.cur = 2 BY <2>2, Before
      <3> HIDE DEF q, p
      <3> QED BY <3>1, <3>2, LengthField
    <2> HIDE DEF q
    <2> QED BY <2>1, <2>2, Applied
  <1>4. CASE BgpAttr(width, n)
    <2> DEFINE p == Attributes(Withdrawn(pack))
               size == 2 + width + n
               r == Put(p, "attr", size, n)
               q == Bump(r, "attr", r.attr_len_ptr, Unknown, WORD)
    <2>1. BgpApply("ua", q) /\ p.prev \in {"attrlen", "attr"} BY <1>4 DEF BgpAttr
    <2>2. ASSUME BgpGood(pack), pack.cur = 2 PROVE BgpGood(q) /\ q.cur = 2
      <3>1. Follows("attr", p.prev) BY <2>1 DEF Follows
      <3>2. "attr" = Counted["attrlen"] /\ "attr" = FlagOf["attrlen"] /\ WORD = Width("attrlen")
        BY DEF Counted, FlagOf, Width
      <3>3. size \in Nat OBVIOUS
      <3>4. BgpGood(Withdrawn(pack)) /\ Withdrawn(pack).cur = 2 BY <2>2, Before
      <3>5. BgpGood(p) /\ p.cur = 2 BY <3>4, Before
      <3> HIDE DEF p, size
      <3> QED BY <3>1, <3>2, <3>3, <3>5, CountedPart
    <2> HIDE DEF q
    <2> QED BY <2>1, <2>2, Applied
  <1>5. CASE BgpNlri(route)
    <2> DEFINE p == Attributes(Withdrawn(pack))
               m == NlriSize(route)
               q == Put(p, "nlri", m, m)
    <2>1. BgpApply("un", q) /\ p.prev \in {"attrlen", "attr", "nlri"} BY <1>5 DEF BgpNlri
    <2>2. ASSUME BgpGood(pack), pack.cur = 2 PROVE BgpGood(q) /\ q.cur = 2
      <3>1. Follows("nlri", p.prev) BY <2>1 DEF Follows
      <3>2. m \in Nat BY RouteSize
      <3>3. BgpGood(Withdrawn(pack)) /\ Withdrawn(pack).cur = 2 BY <2>2, Before
      <3>4. BgpGood(p) /\ p.cur = 2 BY <3>3, Before
      <3> HIDE DEF p, m
      <3> QED BY <3>1, <3>2, <3>4, PlainPart
    <2> HIDE DEF q
    <2> QED BY <2>1, <2>2, Applied
  <1> QED BY <1>1, <1>2, <1>3, <1>4, <1>5

\* -p: the options that follow are for the next header.
LEMMA NextHeaderStep ==
  ASSUME BgpInv, BgpNextHeader
  PROVE  BgpInv'
  <1>1. /\ opts' = Append(opts, <<"-p", pack.cur>>) /\ pack' = [pack EXCEPT !.cur = @ + 1]
        /\ module' = module /\ pack.cur < 3
    BY DEF BgpNextHeader, Apply
  <1>2. opts' \in Seq({opts'[i] : i \in DOMAIN opts'}) /\ (OneBgp' => OneBgp)
    BY <1>1, OneMoreOption DEF BgpInv
  <1>3. ASSUME OneBgp' PROVE BgpGood(pack') /\ AddsUp(pack'.blocks[2])
    <2>1. BgpGood(pack) /\ AddsUp(pack.blocks[2]) BY <1>2, <1>3 DEF BgpInv
    <2>0. pack \in BgpPack /\ pack.cur + 1 \in 1..3
      <3>1. pack \in BgpPack BY <2>1 DEF BgpGood
      <3>2. pack.cur \in 1..3 BY <3>1 DEF BgpPack
      <3> QED BY <1>1, <3>1, <3>2
    <2>a. pack' \in BgpPack /\ pack'.blocks = pack.blocks /\ pack'.prev = pack.prev
      BY <1>1, <2>0 DEF BgpPack
    <2>b. SamePointers(pack, pack') BY <1>1, <2>0 DEF BgpPack, SamePointers
    <2>2. /\ pack' \in BgpPack /\ pack'.blocks = pack.blocks /\ pack'.prev = pack.prev
          /\ SamePointers(pack, pack')
      BY <2>a, <2>b
    <2>3. BgpGood(pack') BY <2>1, <2>2, SameParts
    <2> QED BY <2>1, <2>2, <2>3
  <1> QED BY <1>1, <1>2, <1>3 DEF BgpInv

LEMMA BgpStart == BgpInit => BgpInv
  <1> SUFFICES ASSUME BgpInit PROVE BgpInv OBVIOUS
  <1> DEFINE b == [alloc |-> MessageStart, len |-> MessageStart, mod |-> {}, parts |-> <<>>]
  <1>1. /\ module = "bgp" /\ opts = <<>>
        /\ pack = [blocks |-> [h \in {1, 2} |-> b],
                   cur |-> 1, prev |-> "header", len_ptr |-> 2,
                   opt_len_ptr |-> <<0, 0>>, wdr_len_ptr |-> <<0, 0>>, attr_len_ptr |-> <<0, 0>>]
    BY DEF BgpInit
  <1>2. b \in BgpBlock /\ b.parts = <<>> /\ b.len = 19 /\ b.alloc = 19
    BY DEF BgpBlock, MessageStart
  <1> HIDE DEF b
  <1>3. pack \in BgpPack /\ pack.blocks[2] = b /\ pack.prev = "header" BY <1>1, <1>2 DEF BgpPack
  <1>4. Statics(pack) /\ BackToBack(b) /\ FieldsLead(b)
    BY <1>2, <1>3 DEF Statics, BackToBack, FieldsLead
  <1>5. InOrder(b.parts)
    <2>1. <<>> \in Seq(BgpPart) OBVIOUS
    <2>2. OfOneType(<<>>) /\ Ranked(<<>>) /\ Headed(<<>>) BY DEF OfOneType, Ranked, Headed
    <2> QED BY <1>2, <2>1, <2>2, InOrderIs
  <1>6. AddsUp(b) BY <1>2, <1>4 DEF AddsUp, WORD
  <1>7. opts \in Seq({opts[i] : i \in DOMAIN opts}) BY <1>1
  <1> QED BY <1>1, <1>3, <1>4, <1>5, <1>6, <1>7 DEF BgpInv, BgpGood

LEMMA BgpStep == BgpInv /\ [BgpNext]_vars => BgpInv'
  <1> SUFFICES ASSUME BgpInv, [BgpNext]_vars PROVE BgpInv' OBVIOUS
  <1>1. CASE BgpNextHeader BY <1>1, NextHeaderStep
  <1>2. CASE BgpGarbled \/ BgpRefused \/ BgpFinalize \/ BgpAttrCrash \/ UNCHANGED vars
    BY <1>2, Unchanging
       DEF BgpGarbled, BgpRefused, Refuse, BgpFinalize, FinalizeWith, BgpAttrCrash, vars
  <1>3. Bytes \subseteq Nat BY BgpAssumption
  <1>4. CASE \/ BgpField
             \/ \E n \in Bytes : BgpLength(n) \/ BgpNotification(n)
             \/ \E olen \in {NotGiven, 3} : BgpOpen(olen)
             \/ \E n \in Bytes, len \in {NotGiven, 3} : BgpOpenOpt(n, len)
    <2>1. \E n \in Nat, olen, len \in {NotGiven, 3} :
            \/ BgpField \/ BgpLength(n) \/ BgpNotification(n)
            \/ BgpOpen(olen) \/ BgpOpenOpt(n, len)
      <3>1. 0 \in Nat /\ NotGiven \in {NotGiven, 3} OBVIOUS
      <3> QED BY <1>3, <1>4, <3>1
    <2> QED BY <2>1, MessageStep
  <1>5. CASE \/ \E n \in Bytes : BgpWithdrawnLen(n) \/ BgpAttrLen(n)
             \/ \E width \in 1..2, n \in Bytes : BgpAttr(width, n)
             \/ \E route \in NlriArgs \union {BadRoute} : BgpWithdraw(route) \/ BgpNlri(route)
    <2>1. \E n \in Nat, width \in 1..2, route \in NlriArgs \union {BadRoute} :
            \/ BgpWithdrawnLen(n) \/ BgpWithdraw(route) \/ BgpAttrLen(n)
            \/ BgpAttr(width, n) \/ BgpNlri(route)
      <3>1. 0 \in Nat /\ 1 \in 1..2 /\ BadRoute \in NlriArgs \union {BadRoute} OBVIOUS
      <3> QED BY <1>3, <1>5, <3>1
    <2> QED BY <2>1, UpdateStep
  <1> QED BY <1>1, <1>2, <1>4, <1>5 DEF BgpNext

\* For any sequence of options, any lists of bytes and any routes the parts of the
\* message of a single bgp header lie in order and without gaps, and the length
\* fields do_opt() of bgp.c computes count what follows them, but for the three
\* that are wrong: the total -bua adds to, the own length of a -boo, and the order
\* in which PUTSHORT() stores the two bytes of a number.
THEOREM MessageWellFormed == BgpSpec => []BgpWellFormed
  <1>1. BgpInv => BgpWellFormed BY DEF BgpInv, BgpWellFormed, BgpGood
  <1> QED BY <1>1, BgpStart, BgpStep, PTL DEF BgpSpec
===============================================================================

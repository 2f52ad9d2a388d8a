-------------------------------- MODULE Sctp --------------------------------
\* sctp.c: the SCTP header and its chunks.  Every option that concerns a chunk
\* works on the chunk currentchunk points to, a static of do_opt() that outlives
\* the block it points into: another packet or another sctp header starts with
\* the pointer the last one left.
EXTENDS Header

CONSTANTS
  MaxSctpOpts,  \* bound: options of the header
  DataSizes     \* the sizes of the text and data arguments

ASSUME SctpAssumption == MaxSctpOpts \in Nat /\ DataSizes \subseteq Nat

HeaderSize == 12   \* sizeof(sctp_header)
ChunkSize  == 4    \* sizeof(sctp_chunk_header)

MAXSUPPORTEDADDRS == 8

\* current: the index of a chunk, or
NoChunk == 0     \* NULL
Stale   == -1    \* a chunk of a block that is freed

SctpInit ==
  /\ module = "sctp" /\ opts = <<>> /\ pc = "options"
  /\ pack \in [alloc : {HeaderSize}, chunks : {<<>>}, current : {NoChunk, Stale},
               copies : {{}}, lied : {FALSE}]

round2(n) == n + (n % 2)
round4(n) == n + ((-n) % 4)

add_chunk(p) ==
  [p EXCEPT !.alloc   = @ + ChunkSize,
            !.chunks  = Append(@, [at |-> p.alloc, length |-> ChunkSize]),
            !.current = Len(p.chunks) + 1]

\* Mutant: The length the chunk announces leaves out the rounding.
Grow_unrounded(p, size, copied) ==
  LET c == p.chunks[p.current] IN
  [p EXCEPT !.alloc  = @ + size,
            !.chunks[p.current].length = (@ + copied) % WORD,
            !.copies = @ \union {[from |-> c.at + ChunkSize * c.length, size |-> copied]}]

\* The block grows by size bytes and the chunk's length with it.  What is copied
\* goes to chunk + length, and chunk points to headers of ChunkSize bytes.
Grow(p, size, copied) ==
  LET c == p.chunks[p.current] IN
  [p EXCEPT !.alloc  = @ + size,
            !.chunks[p.current].length = (@ + size) % WORD,
            !.copies = @ \union {[from |-> c.at + ChunkSize * c.length, size |-> copied]}]

grow_chunk(p, size) == Grow(p, size, size)
grow_chunk_round4(p, size) == Grow(p, round4(size), size)

SctpMore == module = "sctp" /\ Len(opts) < MaxSctpOpts

Within(p) == p.current \in DOMAIN p.chunks

\* The chunk of -sF, -sL and -sD: these add one if there is none.
Chunk(p) == IF p.current = NoChunk THEN add_chunk(p) ELSE p

\* Mutant: The new chunk is not made the current one.
SctpType_behind ==
  SctpMore /\ Apply("T", [add_chunk(pack) EXCEPT !.current = pack.current])

\* -sT
SctpType == SctpMore /\ Apply("T", add_chunk(pack))

\* -sF
SctpFlags == SctpMore /\ pack.current # Stale /\ Apply("F", Chunk(pack))

\* -sL: the length is whatever the user says, cut to 16 bits.
SctpLength(n) ==
  /\ SctpMore /\ pack.current # Stale
  /\ LET p == Chunk(pack) IN
     Apply("L", [p EXCEPT !.chunks[p.current].length = n % WORD, !.lied = TRUE])

\* -sD: nothing at all for an empty argument.
SctpData(n) ==
  /\ SctpMore
  /\ IF n = 0 THEN Apply("D", pack)
     ELSE pack.current # Stale /\ Apply("D", grow_chunk(Chunk(pack), n))

\* -sI: a complete INIT chunk, 16 bytes.
SctpInitChunk == SctpMore /\ Apply("I", grow_chunk(add_chunk(pack), 16))

\* -s4, -s6, -sC, -sE, -sW, -sY: one parameter of a fixed size.
ParamSizes == {4, 8, 20}

SctpParam(n) == SctpMore /\ Within(pack) /\ Apply("P", grow_chunk(pack, n))

\* -sH: the parameter header, then the name with its 0 rounded up.
SctpHostname(n) ==
  /\ SctpMore /\ Within(pack)
  /\ Apply("H", grow_chunk_round4(grow_chunk(pack, 4), n + 1))

\* -sA: the parameter header, then an even number of 16 bit types.
SctpAddresses(n) ==
  /\ SctpMore /\ Within(pack)
  /\ n <= MAXSUPPORTEDADDRS
  /\ Apply("A", grow_chunk(grow_chunk(pack, 4), 2 * round2(n)))

\* A chunk option writes through the stale pointer, a parameter also through
\* NULL: it may crash, and what the heap holds then is anybody's guess.
SctpWild ==
  /\ SctpMore /\ ~Within(pack)
  /\ pc \in {"options", "failed"} /\ pc' = "corrupt"
  /\ UNCHANGED <<module, pack, opts>>

\* The allocator notices a copy that ran over the end of the block; it need not.
SctpAbort ==
  /\ module = "sctp"
  /\ \E c \in pack.copies : c.from + c.size > pack.alloc
  /\ pc \in {"options", "failed"} /\ pc' = "crash"
  /\ UNCHANGED <<module, pack, opts>>

\* A type or flags above 255, an address that does not parse.
SctpRefused == SctpMore /\ Refuse

\* -ss, -sd, -sv, -sc set fields; finalize() computes the CRC in place.
SctpFinalize == module = "sctp" /\ FinalizeWith(pack)

SctpNext ==
  \/ SctpType \/ SctpFlags \/ SctpInitChunk \/ SctpWild \/ SctpAbort \/ SctpRefused
  \/ SctpFinalize
  \/ \E n \in DataSizes : SctpData(n) \/ SctpHostname(n) \/ SctpAddresses(n) \/ SctpLength(n)
  \/ \E n \in ParamSizes : SctpParam(n)

SctpSpec == SctpInit /\ [][SctpNext]_vars

-----------------------------------------------------------------------------
\* Properties.

SctpEnd(i) == pack.chunks[i].at + pack.chunks[i].length

\* Types and ranges.
SctpTypeOK ==
  module = "sctp" =>
    /\ pack.alloc \in Nat /\ pack.lied \in BOOLEAN
    /\ pack.chunks \in Seq([at : Nat, length : 0..(WORD - 1)])
    /\ pack.current \in {NoChunk, Stale} \union DOMAIN pack.chunks

\* A receiver that goes from chunk to chunk by the lengths they announce meets
\* every chunk and ends with the packet, as long as no -sL was given and the
\* lengths have 16 bits.
SctpChunksTile ==
  module = "sctp" /\ ~pack.lied /\ pack.alloc < WORD /\ pack.chunks # <<>> =>
    /\ pack.chunks[1].at = HeaderSize
    /\ \A i \in 2..Len(pack.chunks) : pack.chunks[i].at = SctpEnd(i - 1)
    /\ SctpEnd(Len(pack.chunks)) = pack.alloc

\* Whatever is written outside of the chunks of this packet is written before its
\* first -sT or -sI: from then on every option works on a chunk of its own, also
\* if the packet started with the pointer the last one left (SctpWritesInside).
SctpOwnChunk ==
  module = "sctp" /\ pc = "corrupt" => \A i \in DOMAIN opts : opts[i] \notin {"T", "I"}

\* sctp.c:60: "Add in data space"; sendip.1:69-71: "each packet sent will be
\* identical".  What an option copies lies in a chunk of the packet being built,
\* behind no block and in no packet that was sent before.
SctpWritesInside ==
  module = "sctp" =>
    /\ pc = "corrupt" => pack.current # Stale
    /\ \A c \in pack.copies : c.from + c.size <= pack.alloc

=============================================================================

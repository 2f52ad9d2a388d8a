------------------------------- MODULE Packet -------------------------------
(***************************************************************************)
(* Geometry of one packet: option processing lets headers grow, main()     *)
(* adds the lengths up, copies headers and payload into one block and      *)
(* finalizes from the inside out.  Only lengths and offsets are modelled.  *)
(*                                                                         *)
(* ESP is the header with a trailer: its fake header reserves room for the *)
(* trailer, and its finalize() moves everything inside it to the front.    *)
(* All other finalize() functions leave lengths and locations alone.       *)
(***************************************************************************)
EXTENDS Integers

CONSTANTS
  N,         \* number of headers
  HeaderLens, \* lengths of the other headers, after initialize() or an option
  PadLens,   \* arguments of -ep
  VarLens,   \* lengths of the values of -ei and -eI
  DataLens,  \* payload lengths
  MaxOpts    \* options explored

ESP_MIN_PADDING == 4
EspHdrLen == 8                   \* struct ip_esp_hdr: SPI, sequence number
EspLen == 12 + ESP_MIN_PADDING   \* fake header and preallocated padding

Headers == 1 .. N

ASSUME NAssumption == N \in Nat
ASSUME LenAssumption == /\ HeaderLens \subseteq Nat
                        /\ PadLens \subseteq 0 .. 255 /\ VarLens \subseteq Nat
                        /\ DataLens \subseteq Nat /\ MaxOpts \in Nat

VARIABLES
  pc,
  esp,      \* which headers are ESP headers
  len,      \* pack->alloc_len
  pad, padset, iv, icv, \* ESP: tail.padlen, ESP_MOD_PADDING, ivlen, icvlen
  nopts,    \* options processed
  datalen,
  k,        \* loop index e
  total,    \* packet.alloc_len before the trim
  cum,      \* history: bytes added up in front of each header
  pos,      \* i of the copy loop
  off,      \* pack->data - packet.data
  dstart, dlen, \* d.data - packet.data, d.alloc_len
  high,     \* history: end of the last ESP trailer written
  sendlen   \* packet.alloc_len when sent

optvars == <<len, pad, padset, iv, icv, nopts>>
vars == <<pc, esp, optvars, datalen, k, total, cum, pos, off, dstart, dlen, high, sendlen>>

\* initialize() of every module has run.
Init ==
  /\ pc = "options"
  /\ esp \in SUBSET Headers
  /\ len \in [Headers -> HeaderLens \cup {EspLen}]
  /\ \A j \in Headers : IF j \in esp THEN len[j] = EspLen ELSE len[j] \in HeaderLens
  /\ pad = [j \in Headers |-> 0] /\ padset = {}
  /\ iv = [j \in Headers |-> 0] /\ icv = [j \in Headers |-> 0]
  /\ nopts = 0 /\ datalen \in DataLens
  /\ k = 1 /\ total = 0 /\ pos = 0
  /\ cum = [j \in 1 .. (N + 1) |-> 0] /\ off = [j \in Headers |-> 0]
  /\ dstart = 0 /\ dlen = 0 /\ high = 0 /\ sendlen = 0

-----------------------------------------------------------------------------
\* do_opt()

Option ==
  /\ pc = "options" /\ nopts < MaxOpts /\ nopts' = nopts + 1
  /\ UNCHANGED <<pc, esp, datalen, k, total, cum, pos, off, dstart, dlen, high, sendlen>>

\* Padding beyond the preallocated bytes.
ExtraPad_none(n) == 0   \* mutant: padding assumed to fit the preallocated bytes
ExtraPad(n) == IF n > ESP_MIN_PADDING THEN n - ESP_MIN_PADDING ELSE 0

\* -ep: the extra padding is added to the header.
EspPadding(j, n) ==
  /\ Option /\ j \in esp
  /\ pad' = [pad EXCEPT ![j] = n] /\ padset' = padset \cup {j}
  /\ len' = [len EXCEPT ![j] = @ + ExtraPad(n)]
  /\ UNCHANGED <<iv, icv>>

\* -ei and -eI: room for the value is added; a repeated option adds again.
EspIV(j, n) ==
  /\ Option /\ j \in esp
  /\ iv' = [iv EXCEPT ![j] = n] /\ len' = [len EXCEPT ![j] = @ + n]
  /\ UNCHANGED <<pad, padset, icv>>

EspICV(j, n) ==
  /\ Option /\ j \in esp
  /\ icv' = [icv EXCEPT ![j] = n] /\ len' = [len EXCEPT ![j] = @ + n]
  /\ UNCHANGED <<pad, padset, iv>>

\* An option of another module may make its header longer (IP and TCP options,
\* SCTP chunks, ...) or give it a new length (AH data, route addresses, GRE).
HeaderOption(j, n) ==
  /\ Option /\ j \in Headers \ esp
  /\ len' = [len EXCEPT ![j] = n]
  /\ UNCHANGED <<pad, padset, iv, icv>>

OptionsEnd ==
  /\ pc = "options" /\ pc' = "size"
  /\ UNCHANGED <<esp, optvars, datalen, k, total, cum, pos, off, dstart, dlen, high, sendlen>>

-----------------------------------------------------------------------------
\* Sticking the bits together.

\* First loop: the lengths are added up.
Size ==
  /\ pc = "size" /\ k <= N
  /\ total' = total + len[k] /\ cum' = [cum EXCEPT ![k + 1] = total']
  /\ k' = k + 1
  /\ UNCHANGED <<pc, esp, optvars, datalen, pos, off, dstart, dlen, high, sendlen>>

BlockSize_headers == total   \* mutant: the payload is forgotten
BlockSize == total + datalen

Malloc ==
  /\ pc = "size" /\ k > N
  /\ total' = BlockSize
  /\ k' = 1 /\ pos' = 0 /\ pc' = "copy"
  /\ UNCHANGED <<esp, optvars, datalen, cum, off, dstart, dlen, high, sendlen>>

\* Second loop: header k goes to offset pos.
CopyHeader ==
  /\ pc = "copy" /\ k <= N
  /\ off' = [off EXCEPT ![k] = pos] /\ pos' = pos + len[k] /\ k' = k + 1
  /\ UNCHANGED <<pc, esp, optvars, datalen, total, cum, dstart, dlen, high, sendlen>>

\* The payload goes behind the headers; d describes it, counted from the end.
CopyData ==
  /\ pc = "copy" /\ k > N
  /\ dstart' = total - datalen /\ dlen' = datalen
  /\ k' = N /\ pc' = "finalize"
  /\ UNCHANGED <<esp, optvars, datalen, total, cum, pos, off, high, sendlen>>

-----------------------------------------------------------------------------
\* Finalize from inside out.

\* The padding ESP computes if -ep was not given: IV, data and padding end two
\* bytes before a multiple of four.
AutoPad_signed(n) == 2 - (n % 4)       \* mutant: not taken modulo 4 again
AutoPad_to4(n) == (4 - (n % 4)) % 4    \* mutant: pad length and next header forgotten
AutoPad(n) == (6 - (n % 4)) % 4

\* The padding length the trailer gets.
TrailerPad(j) == IF j \in padset THEN pad[j] ELSE AutoPad(dlen + iv[j])

\* Trailer behind the moved data: padding, pad length, next header, ICV.
EspEnd(j) == off[j] + EspHdrLen + iv[j] + dlen + TrailerPad(j) + 2 + icv[j]

\* Where d.data points after ESP has moved the data.
MovedTo_stale(j) == dstart   \* mutant: data->data is not pulled back
MovedTo(j) == off[j] + EspHdrLen

\* ESP: IV and data move up behind SPI and sequence number, the trailer is
\* written behind them; the header is now the real one, d covers the rest.
\* Then main() steps d over the header.
EspFinalize ==
  /\ pc = "finalize" /\ k \in esp
  /\ pad' = [pad EXCEPT ![k] = TrailerPad(k)]
  /\ high' = EspEnd(k)
  /\ len' = [len EXCEPT ![k] = EspHdrLen]
  /\ dstart' = MovedTo(k) - len'[k]
  /\ dlen' = dlen + iv[k] + TrailerPad(k) + icv[k] + 2 + len'[k]
  /\ k' = k - 1
  /\ UNCHANGED <<pc, esp, padset, iv, icv, nopts, datalen, total, cum, pos, off, sendlen>>

\* Any other module: lengths and locations stay.
HeaderFinalize ==
  /\ pc = "finalize" /\ k \in Headers \ esp
  /\ dstart' = dstart - len[k] /\ dlen' = dlen + len[k]
  /\ k' = k - 1
  /\ UNCHANGED <<pc, esp, optvars, datalen, total, cum, pos, off, high, sendlen>>

Trimmed == IF dlen < total THEN dlen ELSE total

\* Trim back the packet length if need be.
Trim ==
  /\ pc = "finalize" /\ k = 0
  /\ sendlen' = Trimmed
  /\ pc' = "done"
  /\ UNCHANGED <<esp, optvars, datalen, k, total, cum, pos, off, dstart, dlen, high>>

Done == pc = "done" /\ UNCHANGED vars

Next ==
  \/ \E j \in Headers : \/ \E n \in PadLens : EspPadding(j, n)
                        \/ \E n \in VarLens : EspIV(j, n)
                        \/ \E n \in VarLens : EspICV(j, n)
                        \/ \E n \in HeaderLens : HeaderOption(j, n)
  \/ OptionsEnd \/ Size \/ Malloc \/ CopyHeader \/ CopyData
  \/ EspFinalize \/ HeaderFinalize \/ Trim \/ Done

Spec == Init /\ [][Next]_vars

-----------------------------------------------------------------------------
\* Properties.

\* Types of the variables.
TypeOK ==
  /\ pc \in {"options", "size", "copy", "finalize", "done"}
  /\ esp \in SUBSET Headers /\ padset \in SUBSET Headers
  /\ len \in [Headers -> Nat] /\ pad \in [Headers -> Nat]
  /\ iv \in [Headers -> Nat] /\ icv \in [Headers -> Nat]
  /\ nopts \in Nat /\ datalen \in Nat /\ k \in 0 .. (N + 1)
  /\ total \in Nat /\ cum \in [1 .. (N + 1) -> Nat] /\ pos \in Nat
  /\ off \in [Headers -> Nat]
  /\ dstart \in Nat /\ dlen \in Nat /\ high \in Nat /\ sendlen \in Nat

\* Every memcpy() of the assembly stays inside the block malloc() returned,
\* although the size and the positions come from two different loops.
CopiesFit ==
  pc = "copy" => pos + (IF k <= N THEN len[k] ELSE datalen) <= total

\* When header k is finalized the inner part starts right behind it and ends
\* inside the block, so that "data" and "pack" describe adjacent bytes however
\* many ESP headers further in have already pulled the data up.
DataAbutsHeader ==
  pc = "finalize" => /\ dstart + dlen <= total
                     /\ k >= 1 => dstart = off[k] + len[k]

\* "We allow finalize to shrink, but not expand the packet": the trailer ESP
\* writes behind the data ends inside the block, for every combination of
\* padding, IV and ICV options, repeated or not, and every nesting of ESP.
TrailerFits ==
  /\ pc = "finalize" /\ k \in esp => EspEnd(k) <= total
  /\ high <= total

\* What is sent starts at the first header and is exactly what the outermost
\* header was finalized with; the packet never got longer.
SendsWholePacket ==
  pc = "done" => dstart = 0 /\ sendlen = dlen /\ sendlen <= total

\* "We need to pad out IV+packet data length to be equal to 2 mod 4": without
\* -ep an ESP trailer ends on a 4-byte boundary behind the ICV-less payload.
EspAligned ==
  [][EspFinalize /\ k \notin padset => (iv[k] + dlen + pad'[k] + 2) % 4 = 0]_vars

-----------------------------------------------------------------------------
\* The assembly as main() relies on it.
Abstract == INSTANCE Assembly WITH
  phase <- IF pc \in {"options", "size", "copy"} THEN "build" ELSE pc,
  total <- total,
  start <- IF pc \in {"options", "size", "copy"} THEN 0 ELSE dstart,
  size <- IF pc \in {"options", "size", "copy"} THEN 0 ELSE dlen

\* Packet assembly with ESP implements the contract of module Assembly.
ImplementsAssembly == Abstract!ASpec
=============================================================================

------------------------------ MODULE Assembly ------------------------------
(***************************************************************************)
(* What main() relies on when it sticks a packet together: the block is    *)
(* allocated once; every finalize() may shrink the packet but not expand   *)
(* it, pulls the inner data to the end of its own header, and hands the    *)
(* enclosing header one piece of data that starts where the enclosing      *)
(* header ends; what is sent is a prefix of the block.                     *)
(* (Comment in front of the assembly in sendip.c.)                         *)
(***************************************************************************)
EXTENDS Integers

VARIABLES phase,    \* "build", "finalize" or "done"
          total,    \* size of the packet block
          start, size  \* the finalized inner part: offset and length

avars == <<phase, total, start, size>>

AInit == phase = "build" /\ total = 0 /\ start = 0 /\ size = 0

\* The block is sized while the headers are added up.
ASize == phase = "build" /\ phase' = "build" /\ total' \in Nat /\ total' >= total
         /\ UNCHANGED <<start, size>>

\* The payload is in place at the end of the block.
ABuilt == phase = "build" /\ phase' = "finalize"
          /\ size' \in 0 .. total /\ start' = total - size'
          /\ UNCHANGED total

\* One more header, in front of the inner part, is finalized.
AFinalize == phase = "finalize" /\ phase' = "finalize"
             /\ start' \in Nat /\ start' <= start
             /\ size' \in Nat /\ size' >= size
             /\ start' + size' <= total
             /\ UNCHANGED total

\* The packet is trimmed to the outermost header's view.
ASend == phase = "finalize" /\ phase' = "done" /\ start = 0
         /\ UNCHANGED <<total, start, size>>

ANext == ASize \/ ABuilt \/ AFinalize \/ ASend

ASpec == AInit /\ [][ANext]_avars
=============================================================================

------------------------------- MODULE Header -------------------------------
\* The life of one header between initialize() and finalize() of its module.
\* main() calls do_opt() once for every option of the header, in the order of
\* the command line, also after one has returned FALSE; then it exits instead of
\* finalizing.  Each module that extends this one has the actions of one header
\* module; the composition runs the header the command line names.
EXTENDS Integers, Sequences

CONSTANT MaxOpts  \* bound: options on the command line

ASSUME MaxOptsAssumption == MaxOpts \in Nat

VARIABLES
  module,  \* the header module that was loaded
  pack,    \* sendip_data: alloc_len, and what the module keeps in data and modified
  opts,    \* the options applied so far, oldest first
  pc       \* "options", "failed" (do_opt() returned FALSE), "done" (finalized)

vars == <<module, pack, opts, pc>>

BYTE == 256    \* a u_int8_t counts modulo BYTE,
WORD == 65536  \* a u_int16_t modulo WORD

\* main() applies one more option, and do_opt() returns TRUE.
Apply(o, newPack) ==
  /\ pc \in {"options", "failed"}
  /\ opts' = Append(opts, o)
  /\ pack' = newPack
  /\ UNCHANGED <<module, pc>>

\* do_opt() returns FALSE: usage = 1.
Refuse ==
  /\ pc \in {"options", "failed"}
  /\ pc' = "failed"
  /\ UNCHANGED <<module, pack, opts>>

\* All options are applied and finalize() runs once.
FinalizeWith(newPack) ==
  /\ pc = "options"
  /\ pc' = "done"
  /\ pack' = newPack
  /\ UNCHANGED <<module, opts>>

=============================================================================

------------------------------ MODULE Pipeline ------------------------------
(***************************************************************************)
(* What pipeline-parallel training promises: every stage runs the forward  *)
(* and then the backward of each chunk, in chunk order; a forward follows  *)
(* the forward of the stage before it, a backward follows the backward of  *)
(* the stage after it, and at the last stage the chunk's own forward.      *)
(***************************************************************************)
EXTENDS Integers

CONSTANT PP              \* number of stages

VARIABLES chunks,        \* chunks to process
          backward,      \* whether chunks go back through the pipeline
          fwd, bwd       \* fwd[s], bwd[s]: chunks stage s is through with
vars == <<chunks, backward, fwd, bwd>>

Stages == 0 .. PP - 1

Init == /\ chunks \in Nat
        /\ backward \in BOOLEAN
        /\ fwd = [s \in Stages |-> 0]
        /\ bwd = [s \in Stages |-> 0]

FwdInput(s) == IF s = 0 THEN chunks ELSE fwd[s - 1]
BwdInput(s) == IF s = PP - 1 THEN fwd[s] ELSE bwd[s + 1]

ForwardChunk(s) ==
    /\ fwd[s] < FwdInput(s)
    /\ fwd' = [fwd EXCEPT ![s] = @ + 1]
    /\ UNCHANGED <<chunks, backward, bwd>>

BackwardChunk(s) ==
    /\ backward
    /\ bwd[s] < BwdInput(s)
    /\ bwd' = [bwd EXCEPT ![s] = @ + 1]
    /\ UNCHANGED <<chunks, backward, fwd>>

Next == \E s \in Stages : ForwardChunk(s) \/ BackwardChunk(s)

Spec == Init /\ [][Next]_vars
=============================================================================

----------------------------- MODULE MCProcLife -----------------------------
(***************************************************************************)
(* The process tables of the two kernels for TLC: a behaviour is one of    *)
(* the modified kernel (Proc) or one of the original (ProcRR), as kernel   *)
(* says.                                                                   *)
(***************************************************************************)
EXTENDS Proc, ProcRR

VARIABLE kernel

LifeInit == /\ Init /\ RRInit
            /\ kernel = "original" \/ (kernel = "modified" /\ watch = 0)

LifeNext == /\ \/ kernel = "modified" /\ Next /\ UNCHANGED rvars
               \/ kernel = "original" /\ RRNext /\ UNCHANGED vars
            /\ UNCHANGED kernel

LifeSpec == LifeInit /\ [][LifeNext]_<<vars, rvars, kernel>>
=============================================================================

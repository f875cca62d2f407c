----------------------------- MODULE MCRunLock ------------------------------
(***************************************************************************)
(* Instances of RunLock for TLC: the casio_japan and casio_multi collectors*)
(* share one lock file; the dashboard probes it as casio_japan.            *)
(***************************************************************************)
EXTENDS RunLock, TLC

CONSTANTS timer, manual, multi, dash, japan, both, shared

MCLaneOf == [s \in Slot |-> IF s = multi THEN both ELSE japan]
MCFileOf == [l \in Lane |-> shared]

=============================================================================

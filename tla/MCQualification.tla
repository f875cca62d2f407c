-------------------------- MODULE MCQualification ---------------------------
(***************************************************************************)
(* Instances of Qualification for TLC: the catalogue lane, the casio_multi *)
(* lane that judges its events as that lane, and three revisions, one of   *)
(* which holds the catalogue lane experimental.                            *)
(***************************************************************************)
EXTENDS Qualification

CONSTANTS catalogue, multi, old, new, soak

MCJudgesAs == [l \in Lane |-> {catalogue}]
MCExperimental == [c \in Code |-> IF c = soak THEN {catalogue} ELSE {}]
=============================================================================

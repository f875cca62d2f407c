------------------------------ MODULE MCReview ------------------------------
(***************************************************************************)
(* Instances of Review for TLC.  All items are about one reference.         *)
(***************************************************************************)
EXTENDS Review

CONSTANTS ann, ben, useful, rejected, soldout, r

MCReferenceOf == [e \in Item |-> r]
OneTier == [e \in Item |-> 0]
LateWeak == [e \in Item |-> IF e = 1 THEN 0 ELSE IF e = 2 THEN 3 ELSE 0]

(* Every verdict about an item stays on record, as the docstring of        *)
(* submit_review has it of every correction (qc.py: a correction stays     *)
(* auditable).  Not so of three: ReviewAudit.cfg.                          *)
VerdictsStayAuditable == \A e \in Item : ToSet(given[e]) \subseteq OnRecord(e)
=============================================================================

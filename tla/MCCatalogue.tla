---------------------------- MODULE MCCatalogue -----------------------------
(***************************************************************************)
(* Instances of Catalogue for TLC: one lane whose collector serves its     *)
(* whole catalogue to a baseline, and one in another market whose          *)
(* collector fetches a single page per run.                                *)
(***************************************************************************)
EXTENDS Catalogue, TLC

CONSTANTS timex, retail, p, q, i1, i2, i3, i4

Lanes == [x \in Proc |-> IF x = p THEN {timex} ELSE Lane]
One == [l \in Lane |-> 1]
Two == [l \in Lane |-> 2]
Three == [l \in Lane |-> 3]
MCRegionOf == [l \in Lane |-> l]
MCListing == [l \in Lane |-> IF l = retail THEN Item ELSE {}]
AllButFirst == [l \in Lane |-> Item \ {i1}]
MCDetailCap == [l \in Lane |-> IF l = retail THEN 1 ELSE 3]

(* The document order: for the runs under symmetry all watches stand at    *)
(* its head, in the others they stand in the order of their names.         *)
AtHead == [l \in Lane |-> [i \in Item |-> 0]]
InOrder == [l \in Lane |-> [i \in Item |-> CASE i = i1 -> 1 [] i = i2 -> 2 [] i = i3 -> 3 [] OTHER -> 4]]
NoneMoved == [l \in Lane |-> {}]
SecondMoved == [l \in Lane |-> {i2}]

Symmetry == Permutations(Item)
=============================================================================

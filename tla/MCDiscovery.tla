---------------------------- MODULE MCDiscovery ----------------------------
(***************************************************************************)
(* An instance of Discovery for TLC: two commands and two proposals, one of *)
(* them observed in two versions; every version refers to one shared file.  *)
(***************************************************************************)
EXTENDS Discovery

CONSTANTS w1, w2, l1, l2, old, new, b1

MCBlobsOf == [v \in Version |-> {b1}]

AboutWatch(l, v) == [lead |-> l, version |-> v, subject |-> "watch"]

MCExports == {<<AboutWatch(l1, new)>>, <<AboutWatch(l1, old), AboutWatch(l2, old)>>,
              <<[AboutWatch(l2, old) EXCEPT !.subject = "accessory"]>>}

MCRoots == {[b \in Blob |-> found] : found \in Found}

Alike == Permutations(Writer)
=============================================================================

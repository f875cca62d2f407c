---------------------------- MODULE OverlapGuard ----------------------------
(***************************************************************************)
(* What overlap protection promises: for every resource (one advisory lock *)
(* file), at most one process at a time is inside a collector run.  A      *)
(* process may leave at any moment, because it finished, failed or died.   *)
(* RunLock is shown to implement this.                                     *)
(***************************************************************************)
CONSTANTS Worker,       \* processes that may enter
          Resource,     \* what they may be inside of
          ResourceOf    \* the one resource each worker contends for

VARIABLE inside         \* the workers currently inside their resource

Vacant(w) == \A v \in inside : ResourceOf[v] # ResourceOf[w]

Init == inside = {}

Enter(w) == /\ w \notin inside
            /\ Vacant(w)
            /\ inside' = inside \union {w}

Leave(w) == /\ w \in inside
            /\ inside' = inside \ {w}

Next == \E w \in Worker : Enter(w) \/ Leave(w)

Spec == Init /\ [][Next]_inside
=============================================================================

----------------------------- MODULE MCNovelty ------------------------------
EXTENDS Novelty, TLC

CONSTANTS us, uk, a, b, dress, sport, US, UK, anna, bert

MCRegionOf == [l \in Lane |-> IF l = us THEN US ELSE UK]
MCFirstParty == {us}
MCFamily == {dress}

P(w, coll, pub, stock, price) ==
    [ref |-> w, facts |-> [coll |-> coll, pub |-> pub, back |-> FALSE, named |-> 1],
     stock |-> stock, price |-> price]

(* A catalogue-sync batch in both orders; a page dated tomorrow; a sell-   *)
(* out beside a reactivated page; another market, with less on a page.     *)
MCServed ==
    LET x == P(a, dress, 0, "AVAILABLE", 1)
        y == P(b, sport, 0, None, None)
    IN  [l \in Lane |->
           IF l = us THEN {<<x, y>>, <<y, x>>,
                           <<P(a, dress, 1, "AVAILABLE", 1)>>,
                           <<P(a, dress, 0, "SOLD_OUT", 2), [y EXCEPT !.facts.back = TRUE]>>}
           ELSE {<<P(b, dress, None, None, 2), P(a, None, 1, "SOLD_OUT", 1)>>}]

MCSymmetry == Permutations(Operator)
=============================================================================

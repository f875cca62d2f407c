------------------------------ MODULE MCLeads -------------------------------
(***************************************************************************)
(* Instances of Leads for TLC.  Two urls share a reference, the second     *)
(* claims another one as well.  Blog and club correlate the same maker.    *)
(***************************************************************************)
EXTENDS Leads

CONSTANTS blog, club, magazine, operator, one, two, a, b, casio, colour

MCMakers == [l \in Standing |-> {casio}]
MCMakerOf == [u \in Url |-> casio]
MCRefsOf == [u \in Url |-> IF u = one THEN {a} ELSE {a, b}]
MCExact == [u \in Url |-> IF u = one THEN {colour} ELSE {}]
MCFamily == [u \in Url |-> {colour}]

On == [discord |-> "on", baseline |-> FALSE]
NoHook == [discord |-> "nohook", baseline |-> FALSE]
MCConfigs == [l \in Lane |-> IF l \in Standing THEN {On, NoHook} ELSE {On}]

MCFeeds == [l \in Lane |-> IF l \in Standing THEN {{one}} ELSE {{two}}]
BusyFeeds == [l \in Lane |-> {{one, two}}]
=============================================================================

------------------------------ MODULE Tripwire ------------------------------
(***************************************************************************)
(* What the Horology Sentinel promises about each watch identity, whatever *)
(* the sources list, however sweeps overlap, fail and restart.             *)
(*                                                                         *)
(* The ledger is what the database durably knows of an identity.  It is    *)
(* write-once: unseen, then perhaps admitted, then one final entry, which  *)
(* says how its one WATCH SIGHTING ended or that it was imported silently. *)
(* Pings are the Discord messages that went out for it: none once the      *)
(* ledger holds its final entry, and one delivery's worth per sweep lost   *)
(* to a crash, plus one.                                                   *)
(***************************************************************************)
EXTENDS Naturals

CONSTANTS Key,          \* watch identities
          MaxPost       \* messages one delivery may leave at the provider

VARIABLES ledger, pings, lost

vars == <<ledger, pings, lost>>

Final == {"BASELINE", "SENT", "FAILED", "DISABLED", "CAPPED"}
Entry == Final \union {"UNSEEN", "ADMITTED"}

Init == /\ ledger = [k \in Key |-> "UNSEEN"]
        /\ pings = [k \in Key |-> 0]
        /\ lost = 0

(* Discord took n messages for k. *)
Ping(k, n) ==
    /\ ledger[k] \notin Final
    /\ pings[k] + n <= MaxPost * (lost + 1)
    /\ pings' = [pings EXCEPT ![k] = @ + n]
    /\ UNCHANGED <<ledger, lost>>

(* An entry may move on to the next one, and be SENT only if it was. *)
MayBecome(k, old, new) ==
    \/ new = old
    \/ old = "UNSEEN" /\ (new = "SENT" => pings[k] > 0)
    \/ old = "ADMITTED" /\ new \in Final \ {"BASELINE"} /\ (new = "SENT" => pings[k] > 0)

(* A commit makes any number of entries durable at once. *)
Record ==
    /\ ledger' \in [Key -> Entry]
    /\ \A k \in Key : MayBecome(k, ledger[k], ledger'[k])
    /\ UNCHANGED <<pings, lost>>

Lose == lost' = lost + 1 /\ UNCHANGED <<ledger, pings>>

Next == (\E k \in Key, n \in 1..MaxPost : Ping(k, n)) \/ Record \/ Lose

Spec == Init /\ [][Next]_vars
=============================================================================

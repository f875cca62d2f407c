--------------------------- MODULE Qualification ----------------------------
(***************************************************************************)
(* The qualification log (app/services/qualification.py) that decides      *)
(* whether a lane's events may leave for Discord.  Runs append a reset row *)
(* at their start when they execute other code than the last run of the    *)
(* lane did, and a terminal row at their end; the delivery gate compares   *)
(* the lane's newest row with the configured maturity set and may append   *)
(* a reset row itself; an operator appends promotions.                     *)
(*                                                                         *)
(* The maturity set is part of the source, so code stands for both, and    *)
(* the epoch identity is the set.  The gate is asked inside an item's      *)
(* write transaction, so nothing comes between its answer and the post.    *)
(* An item that is rolled back takes back the gate's row: as if it had not *)
(* been asked.                                                             *)
(*                                                                         *)
(* A lane is a collector id.  casio_multi runs under its own lock and its  *)
(* own rows but judges its catalogue events as casio_jp_sitemap.           *)
(***************************************************************************)
EXTENDS Naturals

CONSTANTS Proc,          \* processes that execute runs
          Lane,          \* collector ids
          JudgesAs,      \* the lanes under which a lane's events are judged
          Code,          \* source revisions
          Experimental,  \* EXPERIMENTAL_MATURITY_COLLECTORS of each revision
          Started,       \* the provenances runs are started with
          MaxDeploys,    \* bound of the model: deployments
          MaxFaults,     \* bound of the model: runs that raise or die
          NoCode, Nobody

Provenance == {"SCHEDULED", "MANUAL", "DEPLOY", "RECOVERY", "UNKNOWN"}

ASSUME QualificationAssumption ==
    /\ Lane # {} /\ Started \subseteq Provenance
    /\ JudgesAs \in [Lane -> SUBSET Lane]
    /\ Experimental \in [Code -> SUBSET Lane]
    /\ MaxDeploys \in Nat /\ MaxFaults \in Nat
    /\ NoCode \notin Code
    /\ Nobody \notin Proc

VARIABLES deployed,   \* the revision new processes execute
          newest,     \* newest evidence row of each lane
          material,   \* revision in the lane's newest row that names one
          holder,     \* process that holds the run lock of each lane
          pc, run,    \* where each process is, and what it executes
          deploys, faults

vars == <<deployed, newest, material, holder, pc, run, deploys, faults>>

(* kind tells the writers of rows apart; gate is qualification_gate, and   *)
(* eligibility_gate says ELIGIBLE whenever it does.                        *)
Row == [kind : {"NONE", "TERMINAL", "CODE_RESET", "CONFIG_RESET", "PROMOTION"},
        epoch : SUBSET Lane,
        gate : {"ELIGIBLE", "UNKNOWN", "RESET"}]

NoRow == [kind |-> "NONE", epoch |-> {}, gate |-> "UNKNOWN"]

Run == [lane : Lane, code : Code \union {NoCode}, provenance : Provenance,
        reset : BOOLEAN]     \* its start appended a reset row

NoRun == [lane |-> CHOOSE l \in Lane : TRUE, code |-> NoCode, provenance |-> "UNKNOWN",
          reset |-> FALSE]

TypeOK ==
    /\ deployed \in Code
    /\ newest \in [Lane -> Row]
    /\ material \in [Lane -> Code \union {NoCode}]
    /\ holder \in [Lane -> Proc \union {Nobody}]
    /\ pc \in [Proc -> {"idle", "started", "collecting"}]
    /\ run \in [Proc -> Run]
    /\ deploys \in 0..MaxDeploys
    /\ faults \in 0..MaxFaults

Init ==
    /\ deployed \in Code
    /\ newest = [l \in Lane |-> NoRow]
    /\ material = [l \in Lane |-> NoCode]
    /\ holder = [l \in Lane |-> Nobody]
    /\ pc = [p \in Proc |-> "idle"]
    /\ run = [p \in Proc |-> NoRun]
    /\ deploys = 0
    /\ faults = 0

-----------------------------------------------------------------------------
(* Rows *)

(* _epoch_id: the identity of the configured maturity decision. *)
Epoch(c) == Experimental[c]

Append(l, kind, c, gate) ==
    newest' = [newest EXCEPT ![l] = [kind |-> kind, epoch |-> Epoch(c), gate |-> gate]]

Stamp(l, c) == material' = [material EXCEPT ![l] = c]

(* record_execution: only scheduled executions qualify a lane, whatever    *)
(* their outcome.                                                          *)
Credit(provenance) == IF provenance = "SCHEDULED" THEN "ELIGIBLE" ELSE "UNKNOWN"

-----------------------------------------------------------------------------
(* A run *)

(* The lock is taken and the RUNNING row committed. *)
Start(p, l, provenance) ==
    /\ pc[p] = "idle"
    /\ holder[l] = Nobody
    /\ holder' = [holder EXCEPT ![l] = p]
    /\ run' = [run EXCEPT ![p] = [lane |-> l, code |-> deployed,
                                  provenance |-> provenance, reset |-> FALSE]]
    /\ pc' = [pc EXCEPT ![p] = "started"]
    /\ UNCHANGED <<deployed, newest, material, deploys, faults>>

(* Is this the first run of the lane with other code than before? *)
Changed_Always(p) == TRUE
Changed_EpochOnly(p) ==
    LET m == material[run[p].lane] IN m # NoCode /\ Epoch(m) # Epoch(run[p].code)
Changed(p) == material[run[p].lane] \notin {NoCode, run[p].code}

(* prepare_epoch_for_run and its commit, before the run collects. *)
Prepare(p) ==
    /\ pc[p] = "started"
    /\ IF Changed(p)
       THEN /\ Append(run[p].lane, "CODE_RESET", run[p].code, "RESET")
            /\ Stamp(run[p].lane, run[p].code)
       ELSE UNCHANGED <<newest, material>>
    /\ run' = [run EXCEPT ![p].reset = Changed(p)]
    /\ pc' = [pc EXCEPT ![p] = "collecting"]
    /\ UNCHANGED <<deployed, holder, deploys, faults>>

(* delivery_allowed returns True. *)
MayDeliver(p, l) ==
    /\ newest[l].kind # "NONE"
    /\ newest[l].epoch = Epoch(run[p].code)
    /\ l \notin Experimental[run[p].code]
    /\ newest[l].gate = "ELIGIBLE"

(* delivery_allowed finds a row of another configuration: it appends a     *)
(* reset that names no revision, and the item commits it.                  *)
Drift(p, l) ==
    /\ pc[p] = "collecting"
    /\ l \in JudgesAs[run[p].lane]
    /\ newest[l].kind # "NONE"
    /\ newest[l].epoch # Epoch(run[p].code)
    /\ Append(l, "CONFIG_RESET", run[p].code, "RESET")
    /\ UNCHANGED <<deployed, material, holder, pc, run, deploys, faults>>

Left(p) ==
    /\ holder' = [holder EXCEPT ![run[p].lane] = Nobody]
    /\ run' = [run EXCEPT ![p] = NoRun]
    /\ pc' = [pc EXCEPT ![p] = "idle"]

(* The closing commit: run row and terminal evidence, then the lock.       *)
End(p) ==
    /\ pc[p] = "collecting"
    /\ Append(run[p].lane, "TERMINAL", run[p].code, Credit(run[p].provenance))
    /\ Stamp(run[p].lane, run[p].code)
    /\ Left(p)
    /\ UNCHANGED <<deployed, deploys, faults>>

(* The run raises or its process dies: no evidence of it. *)
Abort(p) ==
    /\ pc[p] # "idle"
    /\ faults < MaxFaults
    /\ faults' = faults + 1
    /\ Left(p)
    /\ UNCHANGED <<deployed, newest, material, deploys>>

-----------------------------------------------------------------------------
(* Operators *)

(* Another revision is deployed; runs under way keep executing theirs. *)
Deploy(c) ==
    /\ c # deployed
    /\ deploys < MaxDeploys
    /\ deploys' = deploys + 1
    /\ deployed' = c
    /\ UNCHANGED <<newest, material, holder, pc, run, faults>>

(* record_operator_promotion: a row that names no revision. *)
Promote(l) ==
    /\ l \notin Experimental[deployed]
    /\ Append(l, "PROMOTION", deployed, "ELIGIBLE")
    /\ UNCHANGED <<deployed, material, holder, pc, run, deploys, faults>>

RunStep(p) == Prepare(p) \/ End(p) \/ \E l \in Lane : Drift(p, l)

Next ==
    \/ \E p \in Proc : \/ \E l \in Lane, provenance \in Started : Start(p, l, provenance)
                       \/ RunStep(p) \/ Abort(p)
    \/ \E c \in Code : Deploy(c)
    \/ \E l \in Lane : Promote(l)

Spec == Init /\ [][Next]_vars

(* Every lane has a timer, and other runs leave its lock free between      *)
(* them, if only for an instant; a run that has begun comes to its end.    *)
FairSpec ==
    /\ Spec
    /\ \A l \in Lane : SF_vars(\E p \in Proc : Start(p, l, "SCHEDULED"))
    /\ \A p \in Proc : WF_vars(Prepare(p)) /\ WF_vars(End(p))

-----------------------------------------------------------------------------
(* Properties *)

(* Whenever a run could deliver an event of its own lane, the lane was     *)
(* promoted since its last run, or a scheduled run of the very code that   *)
(* delivers has ended since that code replaced another: across deployments *)
(* in mid-run, rollbacks, runs that left no evidence, other lanes that     *)
(* append rows to this lane's log, and promotions (qualification.py:61-83).*)
DeliversQualifiedCode ==
    \A p \in Proc : LET l == run[p].lane IN
        pc[p] = "collecting" /\ MayDeliver(p, l) =>
           \/ newest[l].kind = "PROMOTION"
           \/ newest[l].kind = "TERMINAL" /\ material[l] = run[p].code /\ ~run[p].reset

(* The gate fails closed but not for ever: a lane that is not experimental *)
(* again and again has a run that may deliver, whatever manual runs and    *)
(* deployments did to its evidence before.                                 *)
DeliveryComesBack ==
    \A l \in Lane :
        []<>(\/ l \in Experimental[deployed]
             \/ \E p \in Proc : pc[p] = "collecting" /\ run[p].lane = l /\ MayDeliver(p, l))

(* qualification.py:62, "Fail-closed pre-event material reset": an event   *)
(* is delivered only by the code the evidence was reset for.  The code     *)
(* does not ensure it: a run resets its own lane, and casio_multi delivers *)
(* events of another.                                                      *)
EvidenceIsResetFirst ==
    \A p \in Proc : pc[p] = "collecting" =>
        \A l \in JudgesAs[run[p].lane] :
            MayDeliver(p, l) => material[l] \in {NoCode, run[p].code}
=============================================================================

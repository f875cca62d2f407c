------------------------------ MODULE Sentinel ------------------------------
(***************************************************************************)
(* The Horology Sentinel: SentinelRunner (app/sentinel/runner.py) with its *)
(* store, its alerter, the SQLite session it writes through, the run lock  *)
(* and the entry point that catches its exceptions.                        *)
(*                                                                         *)
(* A sweep polls the sources that are due, turns what they list into       *)
(* identities, and sends one Discord WATCH SIGHTING for each identity the  *)
(* store has never seen, unless the source is still being baselined.       *)
(*                                                                         *)
(* The database is db, the committed rows, and wal, the rows as the one    *)
(* connection in a write transaction sees them (SQLite admits one writer). *)
(* The session does not autoflush: what mark_poll and refresh_last_seen    *)
(* assign stays in the process until the next flush.                       *)
(***************************************************************************)
EXTENDS Naturals

CONSTANTS Proc,            \* processes that run sweeps
          Source,          \* the registry of monitored sources
          Key,             \* identity keys
          EditorialModes,  \* is the editorial lane enabled: the settings met
          MaxAlerts,       \* sentinel_max_alerts_per_sweep
          MaxPost,         \* messages one delivery can leave at Discord
          Locked,          \* the kernel lock works between these processes
          MaxCrashes,      \* bound of the model: crashes
          MaxRaises,       \* bound of the model: exceptions out of a sweep
          NoSource, NoKey, Nobody

ASSUME SentinelAssumption ==
    /\ NoSource \notin Source /\ NoKey \notin Key /\ Nobody \notin Proc
    /\ EditorialModes \subseteq BOOLEAN
    /\ Locked \in BOOLEAN
    /\ MaxAlerts \in Nat \ {0} /\ MaxPost \in Nat \ {0}
    /\ MaxCrashes \in Nat /\ MaxRaises \in Nat

VARIABLES db,        \* committed rows
          wal,       \* rows seen by the writing connection
          writer,    \* the process in a write transaction
          holder,    \* holder of horology_sentinel.run.lock
          pc,        \* where each process is
          sw,        \* what each process keeps in memory during a sweep
          run,       \* status of the run row each process wrote last
          pings,     \* messages Discord has taken, by identity
          crashes,   \* processes that died in a sweep
          raises     \* sweeps an exception ended

vars == <<db, wal, writer, holder, pc, sw, run, pings, crashes, raises>>

-----------------------------------------------------------------------------
(* Rows *)

Via == {"ABSENT", "BASELINE", "SIGHTING"}
AlertState == {"SENT", "FAILED", "DISABLED", "CAPPED"}

(* via is admitted_via of the identity; sightings counts its sighting      *)
(* rows and alert is their alert_state, NONE without a row; rows are the   *)
(* sources with a sentinel_source_state row, armed those whose armed_at is *)
(* set.                                                                    *)
DB == [via : [Key -> Via], alert : [Key -> AlertState \union {"NONE"}],
       sightings : [Key -> Nat], rows : SUBSET Source, armed : SUBSET Source]

EmptyDB == [via |-> [k \in Key |-> "ABSENT"], alert |-> [k \in Key |-> "NONE"],
            sightings |-> [k \in Key |-> 0], rows |-> {}, armed |-> {}]

EndStatus == {"SUCCESS", "PARTIAL", "BLOCKED", "FAILED", "SKIPPED_OVERLAP"}

(* Memory of a sweep: the sources still to poll, the one being processed,  *)
(* its candidates left and the identity in hand, the snapshots taken at    *)
(* the start (known keys, armed sources), the invocation's force_baseline  *)
(* and editorial setting, the sources this sweep arms, whether unflushed   *)
(* assignments exist, deliveries attempted, poll outcomes, what the        *)
(* current poll listed, and (for the properties) what the polls that arm   *)
(* their source listed.                                                    *)
Sweep == [due : SUBSET Source, src : Source \union {NoSource}, cand : SUBSET Key,
          cur : Key \union {NoKey}, known : SUBSET Key, armed : SUBSET Source,
          force : BOOLEAN, editorial : BOOLEAN, arming : SUBSET Source,
          dirty : BOOLEAN, sends : Nat, polls : SUBSET {"OK", "FAILED", "BLOCKED"},
          items : SUBSET Key, catalogue : SUBSET Key]

NoSweep == [due |-> {}, src |-> NoSource, cand |-> {}, cur |-> NoKey, known |-> {},
            armed |-> {}, force |-> FALSE, editorial |-> FALSE, arming |-> {},
            dirty |-> FALSE, sends |-> 0, polls |-> {}, items |-> {}, catalogue |-> {}]

PC == {"idle", "skipping", "granted", "opened", "loaded", "sweeping", "candidates",
       "absent", "admitted", "sighted", "closing", "unwinding"}

TypeOK ==
    /\ db \in DB /\ wal \in DB
    /\ writer \in Proc \union {Nobody} /\ holder \in Proc \union {Nobody}
    /\ pc \in [Proc -> PC]
    /\ sw \in [Proc -> Sweep]
    /\ run \in [Proc -> EndStatus \union {"NONE", "RUNNING"}]
    /\ pings \in [Key -> Nat]
    /\ crashes \in Nat /\ raises \in Nat

Init ==
    /\ db = EmptyDB /\ wal = EmptyDB
    /\ writer = Nobody /\ holder = Nobody
    /\ pc = [p \in Proc |-> "idle"]
    /\ sw = [p \in Proc |-> NoSweep]
    /\ run = [p \in Proc |-> "NONE"]
    /\ pings = [k \in Key |-> 0]
    /\ crashes = 0 /\ raises = 0

-----------------------------------------------------------------------------
(* The session *)

View(p) == IF writer = p THEN wal ELSE db

(* Others wait for the writer; one that waits longer than the busy timeout *)
(* gets an error, which is a Crash.                                        *)
MayWrite(p) == writer \in {Nobody, p}

(* The rows with the pending assignments of p's session applied. *)
Flushed(p) == [View(p) EXCEPT !.armed = @ \union sw[p].arming]

(* A flush opens a write transaction or continues it. *)
Write(p, rows) ==
    /\ MayWrite(p)
    /\ writer' = p
    /\ wal' = rows
    /\ UNCHANGED db

Commit(p) ==
    /\ MayWrite(p)
    /\ db' = Flushed(p)
    /\ wal' = Flushed(p)
    /\ writer' = Nobody

(* begin_nested flushes what is pending, then issues SAVEPOINT.  The       *)
(* sqlite3 driver opens a transaction before a write, never before a       *)
(* SAVEPOINT: when nothing was pending and no transaction is open, the     *)
(* savepoint is outermost and releasing it commits the inserted row.       *)
InTransaction(p) == writer = p \/ sw[p].dirty

WriteInSavepoint(p, rows) ==
    \/ InTransaction(p) /\ Write(p, rows)
    \/ /\ ~InTransaction(p)
       /\ MayWrite(p)
       /\ db' = rows
       /\ wal' = rows
       /\ UNCHANGED writer

Unlocked(p) == IF holder = p THEN Nobody ELSE holder

-----------------------------------------------------------------------------
(* run_sweep: the lock, the run row *)

Grantable == Locked => holder = Nobody

Begin(p) ==
    /\ pc[p] = "idle"
    /\ Grantable
    /\ holder' = IF Locked THEN p ELSE Nobody
    /\ pc' = [pc EXCEPT ![p] = "granted"]
    /\ UNCHANGED <<db, wal, writer, sw, run, pings, crashes, raises>>

(* A firing that finds the lock held writes its row in two commits. *)
Overlap(p) ==
    /\ pc[p] = "idle"
    /\ ~Grantable
    /\ MayWrite(p)
    /\ run' = [run EXCEPT ![p] = "RUNNING"]
    /\ pc' = [pc EXCEPT ![p] = "skipping"]
    /\ UNCHANGED <<db, wal, writer, holder, sw, pings, crashes, raises>>

RecordOverlap(p) ==
    /\ pc[p] = "skipping"
    /\ MayWrite(p)
    /\ run' = [run EXCEPT ![p] = "SKIPPED_OVERLAP"]
    /\ pc' = [pc EXCEPT ![p] = "idle"]
    /\ UNCHANGED <<db, wal, writer, holder, sw, pings, crashes, raises>>

OpenRun(p) ==
    /\ pc[p] = "granted"
    /\ MayWrite(p)
    /\ run' = [run EXCEPT ![p] = "RUNNING"]
    /\ pc' = [pc EXCEPT ![p] = "opened"]
    /\ UNCHANGED <<db, wal, writer, holder, sw, pings, crashes, raises>>

(* only_source names no source: the run fails before it reads anything. *)
UnknownSource(p) ==
    /\ pc[p] = "opened"
    /\ MayWrite(p)
    /\ run' = [run EXCEPT ![p] = "FAILED"]
    /\ pc' = [pc EXCEPT ![p] = "closing"]
    /\ UNCHANGED <<db, wal, writer, holder, sw, pings, crashes, raises>>

(* Which sources a sweep polls: all of scope when forced or single, else   *)
(* those whose cadence has elapsed, and always the never-successful ones.  *)
Due(p, scope, force) ==
    IF force \/ scope # Source THEN {scope}
    ELSE {d \in SUBSET Source : Source \ View(p).armed \subseteq d}

Scopes == {Source} \union {{s} : s \in Source}

(* Source states are read, and created where missing. *)
LoadSources(p) ==
    /\ pc[p] = "opened"
    /\ \E scope \in Scopes, force \in BOOLEAN, editorial \in EditorialModes :
       \E due \in Due(p, scope, force) :
          /\ sw' = [sw EXCEPT ![p] =
                       [NoSweep EXCEPT !.due = due, !.force = force,
                                       !.editorial = editorial, !.armed = View(p).armed]]
          /\ IF scope \subseteq View(p).rows THEN UNCHANGED <<db, wal, writer>>
             ELSE Write(p, [View(p) EXCEPT !.rows = @ \union scope])
    /\ pc' = [pc EXCEPT ![p] = "loaded"]
    /\ UNCHANGED <<holder, run, pings, crashes, raises>>

(* The known keys are read once, for the whole sweep. *)
LoadKnown(p) ==
    /\ pc[p] = "loaded"
    /\ sw' = [sw EXCEPT ![p].known = {k \in Key : View(p).via[k] # "ABSENT"}]
    /\ pc' = [pc EXCEPT ![p] = "sweeping"]
    /\ UNCHANGED <<db, wal, writer, holder, run, pings, crashes, raises>>

-----------------------------------------------------------------------------
(* Polls *)

(* The adapter raised, or the fetch failed or was blocked. *)
PollFails(p, s, outcome) ==
    /\ pc[p] = "sweeping"
    /\ s \in sw[p].due
    /\ sw' = [sw EXCEPT ![p].due = @ \ {s}, ![p].dirty = TRUE,
                        ![p].polls = @ \union {outcome}]
    /\ UNCHANGED <<db, wal, writer, holder, pc, run, pings, crashes, raises>>

(* The source lists these identities: SUCCESS, or ZERO_ITEMS when none. *)
PollReturns(p, s, listed) ==
    /\ pc[p] = "sweeping"
    /\ s \in sw[p].due
    /\ sw' = [sw EXCEPT ![p].due = @ \ {s}, ![p].src = s, ![p].cand = listed,
                        ![p].items = listed]
    /\ pc' = [pc EXCEPT ![p] = "candidates"]
    /\ UNCHANGED <<db, wal, writer, holder, run, pings, crashes, raises>>

(* Arming takes a poll that saw candidates; ZERO_ITEMS does not arm. *)
Arms_ZeroItemsToo(p) == TRUE
Arms(p) == sw[p].items # {}

(* mark_poll at the end of a source. *)
FinishSource(p) ==
    /\ pc[p] = "candidates"
    /\ sw[p].cand = {}
    /\ sw' = [sw EXCEPT ![p].src = NoSource, ![p].items = {}, ![p].dirty = TRUE,
                        ![p].arming = IF Arms(p) THEN @ \union {sw[p].src} ELSE @,
                        ![p].catalogue = IF Arms(p) THEN @ \union sw[p].items ELSE @,
                        ![p].polls = @ \union {"OK"}]
    /\ pc' = [pc EXCEPT ![p] = "sweeping"]
    /\ UNCHANGED <<db, wal, writer, holder, run, pings, crashes, raises>>

-----------------------------------------------------------------------------
(* Candidates *)

Silent_IgnoresForce(p) == sw[p].src \notin sw[p].armed
Silent(p) == sw[p].force \/ sw[p].src \notin sw[p].armed

Exists(p, k) == View(p).via[k] # "ABSENT"

(* Known at the snapshot, or already there when admit looks: suppressed.   *)
(* refresh_last_seen may assign to the row, except in the late case.       *)
Suppress(p, k) ==
    /\ pc[p] = "candidates"
    /\ k \in sw[p].cand
    /\ (~Silent(p) /\ k \in sw[p].known) \/ Exists(p, k)
    /\ \E touched \in BOOLEAN :
          /\ touched => Silent(p) \/ k \in sw[p].known
          /\ sw' = [sw EXCEPT ![p].cand = @ \ {k}, ![p].dirty = @ \/ touched]
    /\ UNCHANGED <<db, wal, writer, holder, pc, run, pings, crashes, raises>>

(* admit looks the identity up and does not find it. *)
LookUp(p, k) ==
    /\ pc[p] = "candidates"
    /\ k \in sw[p].cand
    /\ Silent(p) \/ k \notin sw[p].known
    /\ ~Exists(p, k)
    /\ sw' = [sw EXCEPT ![p].cand = @ \ {k}, ![p].cur = k]
    /\ pc' = [pc EXCEPT ![p] = "absent"]
    /\ UNCHANGED <<db, wal, writer, holder, run, pings, crashes, raises>>

(* The unique constraint on identity_key, when the insert is executed. *)
Taken_NotConstrained(p) == FALSE
Taken(p) == Exists(p, sw[p].cur)

Insert(p, via) ==
    /\ pc[p] = "absent"
    /\ ~Taken(p)
    /\ WriteInSavepoint(p, [Flushed(p) EXCEPT !.via[sw[p].cur] = via])

AdmitBaseline(p) ==
    /\ Silent(p)
    /\ Insert(p, "BASELINE")
    /\ sw' = [sw EXCEPT ![p].cur = NoKey, ![p].dirty = FALSE]
    /\ pc' = [pc EXCEPT ![p] = "candidates"]
    /\ UNCHANGED <<holder, run, pings, crashes, raises>>

AdmitSighting(p) ==
    /\ ~Silent(p)
    /\ Insert(p, "SIGHTING")
    /\ sw' = [sw EXCEPT ![p].known = @ \union {sw[p].cur}, ![p].dirty = FALSE]
    /\ pc' = [pc EXCEPT ![p] = "admitted"]
    /\ UNCHANGED <<holder, run, pings, crashes, raises>>

(* IntegrityError: another process admitted it since the lookup.  Only the *)
(* savepoint is rolled back, not what the flush before it wrote.           *)
LoseRace(p) ==
    /\ pc[p] = "absent"
    /\ Taken(p)
    /\ MayWrite(p)
    /\ IF InTransaction(p) THEN Write(p, Flushed(p)) ELSE UNCHANGED <<db, wal, writer>>
    /\ \E touched \in BOOLEAN :
          /\ touched => Silent(p)
          /\ sw' = [sw EXCEPT ![p].cur = NoKey, ![p].dirty = touched]
    /\ pc' = [pc EXCEPT ![p] = "candidates"]
    /\ UNCHANGED <<holder, run, pings, crashes, raises>>

(* The row is inserted without an alert_state: the column's default, SENT, *)
(* stands until the alerter or the cap has decided.                        *)
RecordSighting(p) ==
    /\ pc[p] = "admitted"
    /\ Write(p, [Flushed(p) EXCEPT !.sightings[sw[p].cur] = @ + 1,
                                   !.alert[sw[p].cur] = "SENT"])
    /\ sw' = [sw EXCEPT ![p].dirty = FALSE]
    /\ pc' = [pc EXCEPT ![p] = "sighted"]
    /\ UNCHANGED <<holder, run, pings, crashes, raises>>

-----------------------------------------------------------------------------
(* Alerts.  The sighting is new, so no receipt can exist for it yet, and   *)
(* the receipt written here says what alert_state says.                    *)

CapReached(p) == sw[p].sends >= MaxAlerts

Decide(p, state, attempts) ==
    /\ pc[p] = "sighted"
    /\ Write(p, [Flushed(p) EXCEPT !.alert[sw[p].cur] = state])
    /\ sw' = [sw EXCEPT ![p].cur = NoKey, ![p].dirty = TRUE, ![p].sends = @ + attempts]
    /\ pc' = [pc EXCEPT ![p] = "candidates"]
    /\ UNCHANGED <<holder, run, crashes, raises>>

Cap(p) ==
    /\ CapReached(p)
    /\ Decide(p, "CAPPED", 0)
    /\ UNCHANGED pings

Disable(p) ==
    /\ ~CapReached(p)
    /\ ~sw[p].editorial
    /\ Decide(p, "DISABLED", 0)
    /\ UNCHANGED pings

Posted(p, n) == pings' = [pings EXCEPT ![sw[p].cur] = @ + n]

(* Discord accepted; earlier tries of the same delivery may have arrived   *)
(* too although they looked failed.                                        *)
SendAccepted(p) ==
    /\ ~CapReached(p)
    /\ sw[p].editorial
    /\ Decide(p, "SENT", 1)
    /\ \E n \in 1..MaxPost : Posted(p, n)

(* Every try failed, as far as this side can tell. *)
SendFailed(p) ==
    /\ ~CapReached(p)
    /\ sw[p].editorial
    /\ Decide(p, "FAILED", 1)
    /\ \E n \in 0..MaxPost : Posted(p, n)

-----------------------------------------------------------------------------
(* End of a sweep *)

SweepStatus(polls) ==
    IF polls \subseteq {"OK"} THEN "SUCCESS"
    ELSE IF "OK" \in polls THEN "PARTIAL"
    ELSE IF "FAILED" \notin polls THEN "BLOCKED"
    ELSE "FAILED"

(* The one commit of everything the sweep did. *)
FinishSweep(p) ==
    /\ pc[p] = "sweeping"
    /\ sw[p].due = {}
    /\ Commit(p)
    /\ run' = [run EXCEPT ![p] = SweepStatus(sw[p].polls)]
    /\ sw' = [sw EXCEPT ![p] = NoSweep]
    /\ pc' = [pc EXCEPT ![p] = "closing"]
    /\ UNCHANGED <<holder, pings, crashes, raises>>

Release(p) ==
    /\ pc[p] = "closing"
    /\ holder' = Unlocked(p)
    /\ pc' = [pc EXCEPT ![p] = "idle"]
    /\ UNCHANGED <<db, wal, writer, sw, run, pings, crashes, raises>>

(* build_identity raises outside the per-source try: the lock is released  *)
(* in the finally block, with the session still open ...                   *)
Raise(p) ==
    /\ pc[p] = "candidates"
    /\ sw[p].cand # {}
    /\ raises < MaxRaises
    /\ raises' = raises + 1
    /\ holder' = Unlocked(p)
    /\ pc' = [pc EXCEPT ![p] = "unwinding"]
    /\ UNCHANGED <<db, wal, writer, sw, run, pings, crashes>>

(* ... run_sentinel swallows it inside session_scope, which then commits   *)
(* what the sweep had done so far.  The run row stays RUNNING.             *)
CommitUnwound_RolledBack(p) ==
    /\ pc[p] = "unwinding"
    /\ writer' = IF writer = p THEN Nobody ELSE writer
    /\ wal' = IF writer = p THEN db ELSE wal
    /\ sw' = [sw EXCEPT ![p] = NoSweep]
    /\ pc' = [pc EXCEPT ![p] = "idle"]
    /\ UNCHANGED <<db, holder, run, pings, crashes, raises>>
CommitUnwound(p) ==
    /\ pc[p] = "unwinding"
    /\ Commit(p)
    /\ sw' = [sw EXCEPT ![p] = NoSweep]
    /\ pc' = [pc EXCEPT ![p] = "idle"]
    /\ UNCHANGED <<holder, run, pings, crashes, raises>>

(* The process dies, or a statement fails for good (the busy timeout): the *)
(* open transaction is rolled back, the lock freed, the row left RUNNING.  *)
Crash(p) ==
    /\ pc[p] # "idle"
    /\ crashes < MaxCrashes
    /\ crashes' = crashes + 1
    /\ writer' = IF writer = p THEN Nobody ELSE writer
    /\ wal' = IF writer = p THEN db ELSE wal
    /\ holder' = Unlocked(p)
    /\ sw' = [sw EXCEPT ![p] = NoSweep]
    /\ pc' = [pc EXCEPT ![p] = "idle"]
    /\ UNCHANGED <<db, run, pings, raises>>

Poll(p) == \E s \in Source :
    \/ \E outcome \in {"FAILED", "BLOCKED"} : PollFails(p, s, outcome)
    \/ \E listed \in SUBSET Key : PollReturns(p, s, listed)

Candidate(p) == \/ \E k \in Key : Suppress(p, k) \/ LookUp(p, k)
                \/ AdmitBaseline(p) \/ AdmitSighting(p) \/ LoseRace(p)

Alert(p) == Cap(p) \/ Disable(p) \/ SendAccepted(p) \/ SendFailed(p)

SweepStep(p) ==
    \/ OpenRun(p) \/ RecordOverlap(p) \/ UnknownSource(p) \/ LoadSources(p) \/ LoadKnown(p)
    \/ Poll(p) \/ Candidate(p) \/ RecordSighting(p) \/ Alert(p)
    \/ FinishSource(p) \/ FinishSweep(p) \/ Release(p) \/ CommitUnwound(p)

Next == \E p \in Proc : Begin(p) \/ Overlap(p) \/ SweepStep(p) \/ Raise(p) \/ Crash(p)

Spec == Init /\ [][Next]_vars

-----------------------------------------------------------------------------
(* Properties *)

(* The identity store is consistent in itself, committed or not: an        *)
(* identity is sighted at most once whatever sweeps race for it (the       *)
(* unique constraint is the final authority, store.py:6-9), a silently     *)
(* imported one never, and an alert state has its sighting row.            *)
OneSightingPerIdentity ==
    \A rows \in {db, wal}, k \in Key :
        /\ rows.sightings[k] <= 1
        /\ rows.sightings[k] = 1 => rows.via[k] = "SIGHTING"
        /\ rows.alert[k] # "NONE" => rows.sightings[k] = 1

(* A message goes out only for a source that the database durably holds as *)
(* armed, from a sweep that is not a forced baseline, and for an identity  *)
(* the database had not decided on (runner.py:3-8, one WATCH SIGHTING per  *)
(* genuinely unseen identity, never for what a baseline imports).          *)
PingsOnlyWhenArmed ==
    [][\A k \in Key : pings'[k] # pings[k] =>
          /\ db.via[k] # "BASELINE" /\ db.alert[k] = "NONE"
          /\ \E p \in Proc : /\ sw[p].cur = k /\ sw[p].src \in db.armed
                            /\ ~sw[p].force /\ sw[p].editorial]_vars

(* A source becomes armed in one commit with the catalogue it was armed    *)
(* on: everything the arming polls listed is durably known, and that is    *)
(* not nothing.  Otherwise the catalogue would later be alerted as unseen  *)
(* (runner.py:246-254).                                                    *)
ArmedOnAKnownCatalogue ==
    [][db'.armed # db.armed =>
          \E p \in Proc : /\ db'.armed \ db.armed \subseteq sw[p].arming
                          /\ sw[p].catalogue # {}
                          /\ \A k \in sw[p].catalogue : db'.via[k] # "ABSENT"]_vars

(* Unless a process died, every durably admitted sighting has its durable  *)
(* sighting row and verdict once the sweeps are over, even those that      *)
(* raised: nothing is silently lost (alerting.py:10).                      *)
SightingsAreDecided ==
    crashes = 0 /\ (\A p \in Proc : pc[p] \in {"idle", "skipping"}) =>
        \A k \in Key : db.via[k] = "SIGHTING" => db.alert[k] # "NONE"

(* alerting.py:8-10: "a retried sweep can never double-ping an already     *)
(* accepted sighting".  The code does not ensure it: the receipt shares    *)
(* the sweep's transaction, so a crash after the message forgets both.     *)
NeverPingedTwice == \A k \in Key : pings[k] <= MaxPost

(* models/sentinel.py:15-19: "SIGHTING rows were admitted live and have a  *)
(* matching SentinelSighting row".  The code does not ensure it: the       *)
(* savepoint of a sweep's first admission may commit the identity alone.   *)
SightingsHaveARow ==
    (\A p \in Proc : pc[p] = "idle") =>
        \A k \in Key : db.via[k] = "SIGHTING" => db.sightings[k] = 1

-----------------------------------------------------------------------------
(* Refinement: what the committed rows say of an identity. *)

LedgerEntry(k) ==
    IF db.via[k] = "ABSENT" THEN "UNSEEN"
    ELSE IF db.via[k] = "BASELINE" THEN "BASELINE"
    ELSE IF db.alert[k] = "NONE" THEN "ADMITTED"
    ELSE db.alert[k]

Ledger == INSTANCE Tripwire
    WITH ledger <- [k \in Key |-> LedgerEntry(k)], lost <- crashes

ImplementsTripwire == Ledger!Spec
=============================================================================

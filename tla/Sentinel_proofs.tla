-------------------------- MODULE Sentinel_proofs --------------------------
(***************************************************************************)
(* Proofs about Sentinel for any number of processes, sources, identities, *)
(* crashes and exceptions, any alert cap and any number of tries of a      *)
(* delivery, with and without a working lock.                              *)
(***************************************************************************)
EXTENDS Sentinel, TLAPS

-----------------------------------------------------------------------------
(* Types *)

SweepsTyped == sw \in [Proc -> Sweep]
RowsTyped == db \in DB /\ wal \in DB /\ writer \in Proc \union {Nobody}

LEMMA InitTypeOK == Init => TypeOK
<1> SUFFICES ASSUME Init PROVE TypeOK
  OBVIOUS
<1> USE SentinelAssumption DEF Init
<1>1. NoSweep \in Sweep
  BY DEF NoSweep, Sweep
<1>2. EmptyDB \in DB
  BY DEF EmptyDB, DB, Via, AlertState
<1> QED
  BY <1>1, <1>2 DEF TypeOK, PC

(* While it processes a source, and an identity, a sweep has one in hand. *)
InHand ==
    \A p \in Proc :
        /\ pc[p] \in {"candidates", "absent", "admitted", "sighted"} => sw[p].src \in Source
        /\ pc[p] \in {"absent", "admitted", "sighted"} => sw[p].cur \in Key

(* What a sweep remembers keeps its type. *)
LEMMA NextSweepsTyped == TypeOK /\ InHand /\ [Next]_vars => SweepsTyped'
<1> SUFFICES ASSUME TypeOK, InHand, [Next]_vars PROVE SweepsTyped'
  OBVIOUS
<1> USE SentinelAssumption DEF SweepsTyped
<1>1. sw \in [Proc -> Sweep]
  BY DEF TypeOK
<1>2. NoSweep \in Sweep
  BY DEF NoSweep, Sweep
<1>3. ASSUME NEW p \in Proc, LoadSources(p) PROVE SweepsTyped'
  <2>1. \A scope \in Scopes, force \in BOOLEAN : Due(p, scope, force) \subseteq SUBSET Source
    BY DEF Due, Scopes
  <2>2. PICK due \in SUBSET Source, force \in BOOLEAN, editorial \in BOOLEAN :
             sw' = [sw EXCEPT ![p] =
                       [NoSweep EXCEPT !.due = due, !.force = force,
                                       !.editorial = editorial, !.armed = View(p).armed]]
    BY <1>3, <2>1 DEF LoadSources
  <2>3. View(p).armed \in SUBSET Source
    BY DEF TypeOK, DB, View
  <2>4. \A w \in Sweep, d, a \in SUBSET Source, f, e \in BOOLEAN :
           [w EXCEPT !.due = d, !.force = f, !.editorial = e, !.armed = a] \in Sweep
    BY ZenonT(40) DEF Sweep
  <2>5. [NoSweep EXCEPT !.due = due, !.force = force, !.editorial = editorial,
                        !.armed = View(p).armed] \in Sweep
    BY <1>2, <2>3, <2>4
  <2> QED
    BY <1>1, <2>2, <2>5
<1>4. ASSUME NEW p \in Proc, LoadKnown(p) PROVE SweepsTyped'
  <2>1. \A w \in Sweep, ks \in SUBSET Key : [w EXCEPT !.known = ks] \in Sweep
    BY DEF Sweep
  <2>2. {k \in Key : View(p).via[k] # "ABSENT"} \in SUBSET Key
    OBVIOUS
  <2> QED
    BY <1>1, <1>4, <2>1, <2>2 DEF LoadKnown
<1>5. ASSUME NEW p \in Proc, NEW s \in Source, NEW outcome \in {"FAILED", "BLOCKED"},
             PollFails(p, s, outcome)
      PROVE  SweepsTyped'
  <2>1. \A w \in Sweep :
           [w EXCEPT !.due = @ \ {s}, !.dirty = TRUE, !.polls = @ \union {outcome}] \in Sweep
    BY DEF Sweep
  <2> QED
    BY <1>1, <1>5, <2>1 DEF PollFails
<1>6. ASSUME NEW p \in Proc, NEW s \in Source, NEW listed \in SUBSET Key,
             PollReturns(p, s, listed)
      PROVE  SweepsTyped'
  <2>1. \A w \in Sweep :
           [w EXCEPT !.due = @ \ {s}, !.src = s, !.cand = listed, !.items = listed] \in Sweep
    BY DEF Sweep
  <2> QED
    BY <1>1, <1>6, <2>1 DEF PollReturns
<1>7. ASSUME NEW p \in Proc, FinishSource(p) PROVE SweepsTyped'
  <2> DEFINE arming == IF Arms(p) THEN sw[p].arming \union {sw[p].src} ELSE sw[p].arming
             catalogue == IF Arms(p) THEN sw[p].catalogue \union sw[p].items
                          ELSE sw[p].catalogue
  <2>1. \A w \in Sweep, a \in SUBSET Source, c \in SUBSET Key :
           [w EXCEPT !.src = NoSource, !.items = {}, !.dirty = TRUE, !.arming = a,
                     !.catalogue = c, !.polls = @ \union {"OK"}] \in Sweep
    BY DEF Sweep
  <2>2. sw[p] \in Sweep /\ sw[p].src \in Source
    BY <1>1, <1>7 DEF FinishSource, InHand
  <2>3. arming \in SUBSET Source /\ catalogue \in SUBSET Key
    BY <2>2 DEF Sweep
  <2>4. sw' = [sw EXCEPT ![p].src = NoSource, ![p].items = {}, ![p].dirty = TRUE,
                         ![p].arming = arming, ![p].catalogue = catalogue,
                         ![p].polls = @ \union {"OK"}]
    BY <1>7 DEF FinishSource
  <2> HIDE DEF arming, catalogue
  <2> QED
    BY <1>1, <2>1, <2>3, <2>4
<1>8. ASSUME NEW p \in Proc, NEW k \in Key, Suppress(p, k) PROVE SweepsTyped'
  <2>1. \A w \in Sweep, touched \in BOOLEAN :
           [w EXCEPT !.cand = @ \ {k}, !.dirty = @ \/ touched] \in Sweep
    BY ZenonT(40) DEF Sweep
  <2>2. PICK touched \in BOOLEAN :
           sw' = [sw EXCEPT ![p].cand = @ \ {k}, ![p].dirty = @ \/ touched]
    BY <1>8 DEF Suppress
  <2> QED
    BY <1>1, <2>1, <2>2
<1>9. ASSUME NEW p \in Proc, NEW k \in Key, LookUp(p, k) PROVE SweepsTyped'
  <2>1. \A w \in Sweep : [w EXCEPT !.cand = @ \ {k}, !.cur = k] \in Sweep
    BY DEF Sweep
  <2> QED
    BY <1>1, <1>9, <2>1 DEF LookUp
<1>10. ASSUME NEW p \in Proc, AdmitBaseline(p) PROVE SweepsTyped'
  <2>1. \A w \in Sweep : [w EXCEPT !.cur = NoKey, !.dirty = FALSE] \in Sweep
    BY DEF Sweep
  <2> QED
    BY <1>1, <1>10, <2>1 DEF AdmitBaseline
<1>11. ASSUME NEW p \in Proc, AdmitSighting(p) PROVE SweepsTyped'
  <2>1. \A w \in Sweep : w.cur \in Key =>
           [w EXCEPT !.known = @ \union {w.cur}, !.dirty = FALSE] \in Sweep
    BY DEF Sweep
  <2> QED
    BY <1>1, <1>11, <2>1 DEF AdmitSighting, Insert, InHand
<1>12. ASSUME NEW p \in Proc, LoseRace(p) PROVE SweepsTyped'
  <2>1. \A w \in Sweep, touched \in BOOLEAN :
           [w EXCEPT !.cur = NoKey, !.dirty = touched] \in Sweep
    BY DEF Sweep
  <2>2. PICK touched \in BOOLEAN : sw' = [sw EXCEPT ![p].cur = NoKey, ![p].dirty = touched]
    BY <1>12 DEF LoseRace
  <2> QED
    BY <1>1, <2>1, <2>2
<1>13. ASSUME NEW p \in Proc, RecordSighting(p) PROVE SweepsTyped'
  <2>1. \A w \in Sweep : [w EXCEPT !.dirty = FALSE] \in Sweep
    BY DEF Sweep
  <2> QED
    BY <1>1, <1>13, <2>1 DEF RecordSighting
<1>14. ASSUME NEW p \in Proc, NEW state, NEW n \in Nat, Decide(p, state, n)
       PROVE  SweepsTyped'
  <2>1. \A w \in Sweep, m \in Nat :
           [w EXCEPT !.cur = NoKey, !.dirty = TRUE, !.sends = m] \in Sweep
    BY DEF Sweep
  <2>2. sw[p].sends + n \in Nat
    BY <1>1 DEF Sweep
  <2> QED
    BY <1>1, <1>14, <2>1, <2>2 DEF Decide
<1>15. ASSUME NEW p \in Proc, sw' = [sw EXCEPT ![p] = NoSweep] PROVE SweepsTyped'
  BY <1>1, <1>2, <1>15
<1>16. CASE UNCHANGED sw
  BY <1>1, <1>16
<1> QED
  BY <1>3, <1>4, <1>5, <1>6, <1>7, <1>8, <1>9, <1>10, <1>11, <1>12, <1>13, <1>14, <1>15, <1>16
  DEF Next, SweepStep, Poll, Candidate, Alert, Cap, Disable, SendAccepted, SendFailed,
      Begin, Overlap, OpenRun, RecordOverlap, UnknownSource, FinishSweep, Release,
      CommitUnwound, Raise, Crash, vars

(* A step of p leaves what another process remembers alone, and p keeps    *)
(* the source and the identity in hand where the code goes on using them.  *)
LEMMA NextInHand == TypeOK /\ InHand /\ [Next]_vars => InHand'
<1> SUFFICES ASSUME TypeOK, InHand, [Next]_vars PROVE InHand'
  OBVIOUS
<1> USE SentinelAssumption DEF InHand
<1>1. sw \in [Proc -> Sweep] /\ pc \in [Proc -> PC]
  BY DEF TypeOK
<1>2. ASSUME NEW p \in Proc,
             pc' = [pc EXCEPT ![p] = pc'[p]],
             pc'[p] \notin {"candidates", "absent", "admitted", "sighted"},
             \A q \in Proc \ {p} : sw'[q] = sw[q]
      PROVE  InHand'
  BY <1>1, <1>2
<1>3. ASSUME NEW p \in Proc, Begin(p) \/ Overlap(p) \/ OpenRun(p) \/ RecordOverlap(p)
                \/ UnknownSource(p) \/ LoadKnown(p) \/ FinishSource(p) \/ FinishSweep(p)
                \/ Release(p) \/ CommitUnwound(p) \/ Raise(p) \/ Crash(p)
      PROVE  InHand'
  BY <1>1, <1>2, <1>3 DEF Begin, Overlap, OpenRun, RecordOverlap, UnknownSource, LoadKnown,
      FinishSource, FinishSweep, Release, CommitUnwound, Raise, Crash
<1>4. ASSUME NEW p \in Proc, LoadSources(p) PROVE InHand'
  BY <1>1, <1>2, <1>4 DEF LoadSources
<1>5. ASSUME NEW p \in Proc, NEW s \in Source, NEW outcome, PollFails(p, s, outcome)
      PROVE  InHand'
  BY <1>1, <1>5 DEF PollFails
<1>6. ASSUME NEW p \in Proc, NEW s \in Source, NEW listed, PollReturns(p, s, listed)
      PROVE  InHand'
  BY <1>1, <1>6 DEF PollReturns, Sweep
<1>7. ASSUME NEW p \in Proc, NEW k \in Key, Suppress(p, k) PROVE InHand'
  BY <1>1, <1>7 DEF Suppress
<1>8. ASSUME NEW p \in Proc, NEW k \in Key, LookUp(p, k) PROVE InHand'
  BY <1>1, <1>8 DEF LookUp, Sweep
<1>9. ASSUME NEW p \in Proc, AdmitBaseline(p) PROVE InHand'
  BY <1>1, <1>9 DEF AdmitBaseline, Insert
<1>10. ASSUME NEW p \in Proc, AdmitSighting(p) PROVE InHand'
  BY <1>1, <1>10 DEF AdmitSighting, Insert
<1>11. ASSUME NEW p \in Proc, LoseRace(p) PROVE InHand'
  BY <1>1, <1>11 DEF LoseRace
<1>12. ASSUME NEW p \in Proc, RecordSighting(p) PROVE InHand'
  BY <1>1, <1>12 DEF RecordSighting
<1>13. ASSUME NEW p \in Proc, NEW state, NEW n, Decide(p, state, n) PROVE InHand'
  BY <1>1, <1>13 DEF Decide
<1>14. CASE UNCHANGED vars
  BY <1>14 DEF vars
<1> QED
  BY <1>3, <1>4, <1>5, <1>6, <1>7, <1>8, <1>9, <1>10, <1>11, <1>12, <1>13, <1>14
  DEF Next, SweepStep, Poll, Candidate, Alert, Cap, Disable, SendAccepted, SendFailed

(* The rows a process sees, with its pending assignments, are rows, and    *)
(* say of every identity what the rows without them say.                   *)
LEMMA FlushedTyped ==
    ASSUME TypeOK, NEW p \in Proc
    PROVE  /\ View(p) \in DB /\ Flushed(p) \in DB
           /\ Flushed(p).via = View(p).via
           /\ Flushed(p).sightings = View(p).sightings
           /\ Flushed(p).alert = View(p).alert
<1>1. View(p) \in DB
  BY DEF TypeOK, View
<1>2. sw[p].arming \in SUBSET Source
  BY DEF TypeOK, Sweep
<1>3. \A rows \in DB, a \in SUBSET Source :
         LET flushed == [rows EXCEPT !.armed = @ \union a]
         IN  /\ flushed \in DB /\ flushed.via = rows.via
             /\ flushed.sightings = rows.sightings /\ flushed.alert = rows.alert
  BY DEF DB
<1> QED
  BY <1>1, <1>2, <1>3 DEF Flushed

-----------------------------------------------------------------------------
(* The inductive invariant *)

(* Rows of the identity store agree with each other. *)
Consistent(rows) ==
    \A k \in Key :
        /\ rows.sightings[k] \in {0, 1}
        /\ rows.sightings[k] = 1 => rows.via[k] = "SIGHTING"
        /\ rows.alert[k] = "NONE" <=> rows.sightings[k] = 0

(* The writer adds to what is committed and changes none of it. *)
Extending ==
    /\ writer = Nobody => wal = db
    /\ \A k \in Key :
          /\ db.via[k] # "ABSENT" => wal.via[k] = db.via[k]
          /\ db.sightings[k] = 1 => wal.sightings[k] = 1 /\ wal.alert[k] = db.alert[k]

(* An admitted identity awaits its sighting row, from one process only. *)
Admitting ==
    \A p \in Proc : pc[p] = "admitted" =>
        /\ wal.via[sw[p].cur] = "SIGHTING" /\ wal.sightings[sw[p].cur] = 0
        /\ writer = p \/ db.via[sw[p].cur] = "SIGHTING"
        /\ \A q \in Proc \ {p} : pc[q] = "admitted" => sw[q].cur # sw[p].cur

(* A sighting awaits its verdict in an open transaction. *)
Sighting ==
    \A p \in Proc : pc[p] = "sighted" =>
        writer = p /\ wal.sightings[sw[p].cur] = 1 /\ db.sightings[sw[p].cur] = 0

Awaiting(k) == \E p \in Proc : pc[p] = "sighted" /\ sw[p].cur = k

(* One delivery's worth of messages for every crash, and one more once the *)
(* verdict is written; SENT is written for a message that went out.        *)
Budgeted ==
    \A k \in Key :
        /\ wal.sightings[k] = 0 \/ Awaiting(k) => pings[k] <= MaxPost * crashes
        /\ pings[k] <= MaxPost * (crashes + 1)
        /\ wal.alert[k] = "SENT" /\ ~Awaiting(k) => pings[k] > 0

IInv == TypeOK /\ InHand /\ Consistent(db) /\ Consistent(wal) /\ Extending
          /\ Admitting /\ Sighting /\ Budgeted

SameIdentities(r, t) == r.via = t.via /\ r.sightings = t.sightings /\ r.alert = t.alert

(* Whoever may write sees the newest rows. *)
LEMMA WriterSeesAll ==
    ASSUME IInv, NEW p \in Proc, MayWrite(p)
    PROVE  View(p) = wal
BY SentinelAssumption DEF IInv, Extending, MayWrite, View

(* Most steps: no identity changes, nobody picks one up or lays one down,  *)
(* and the transaction stays open, opens, or is committed.                 *)
LEMMA CalmStep ==
    ASSUME IInv, TypeOK', InHand',
           UNCHANGED <<pings, crashes>>,
           \A q \in Proc :
               pc[q] \in {"admitted", "sighted"} \/ pc'[q] \in {"admitted", "sighted"} =>
                   /\ pc'[q] = pc[q] /\ sw'[q].cur = sw[q].cur
                   /\ writer = q => writer' = q,
           SameIdentities(wal', wal),
           \/ SameIdentities(db', db)
           \/ SameIdentities(db', wal) /\ \A q \in Proc : pc[q] # "sighted",
           writer' = Nobody => wal' = db'
    PROVE  IInv'
<1> USE DEF IInv, SameIdentities
<1>1. Consistent(db)' /\ Consistent(wal)' /\ Extending'
  <2>1. Consistent(wal)'
    BY DEF Consistent
  <2>2. Consistent(db)'
    BY DEF Consistent
  <2>3. \A k \in Key :
          /\ db'.via[k] # "ABSENT" => wal'.via[k] = db'.via[k]
          /\ db'.sightings[k] = 1 => wal'.sightings[k] = 1 /\ wal'.alert[k] = db'.alert[k]
    BY DEF Extending
  <2> QED
    BY <2>1, <2>2, <2>3 DEF Extending
<1>2. Admitting'
  <2> SUFFICES ASSUME NEW p \in Proc, pc'[p] = "admitted"
               PROVE  /\ wal'.via[sw'[p].cur] = "SIGHTING" /\ wal'.sightings[sw'[p].cur] = 0
                      /\ writer' = p \/ db'.via[sw'[p].cur] = "SIGHTING"
                      /\ \A q \in Proc \ {p} :
                            pc'[q] = "admitted" => sw'[q].cur # sw'[p].cur
    BY DEF Admitting
  <2>1. pc[p] = "admitted" /\ sw'[p].cur = sw[p].cur /\ (writer = p => writer' = p)
    OBVIOUS
  <2>2. wal.via[sw[p].cur] = "SIGHTING" /\ wal.sightings[sw[p].cur] = 0
    BY <2>1 DEF Admitting
  <2>3. writer' = p \/ db'.via[sw'[p].cur] = "SIGHTING"
    BY <2>1, <2>2 DEF Admitting
  <2>4. ASSUME NEW q \in Proc \ {p}, pc'[q] = "admitted" PROVE sw'[q].cur # sw'[p].cur
    <3>1. pc[q] = "admitted" /\ sw'[q].cur = sw[q].cur
      BY <2>4
    <3>2. sw[q].cur # sw[p].cur
      BY <2>1, <3>1 DEF Admitting
    <3> QED
      BY <2>1, <3>1, <3>2
  <2> QED
    BY <2>1, <2>2, <2>3, <2>4
<1>3. Sighting'
  BY DEF Sighting
<1>4. \A k \in Key : Awaiting(k)' <=> Awaiting(k)
  BY DEF Awaiting
<1>5. Budgeted'
  BY <1>4 DEF Budgeted
<1> QED
  BY <1>1, <1>2, <1>3, <1>5

-----------------------------------------------------------------------------
(* What each write does to the rows *)

(* An insert: committed at once, or pending in the transaction of p. *)
LEMMA InsertEffect ==
    ASSUME TypeOK, InHand, NEW p \in Proc, NEW via \in {"BASELINE", "SIGHTING"},
           Insert(p, via)
    PROVE  LET k == sw[p].cur IN
           /\ k \in Key /\ MayWrite(p) /\ View(p).via[k] = "ABSENT"
           /\ wal' \in DB /\ wal'.via = [View(p).via EXCEPT ![k] = via]
           /\ wal'.sightings = View(p).sightings /\ wal'.alert = View(p).alert
           /\ \/ db' = db /\ writer' = p
              \/ db' = wal' /\ writer' = Nobody /\ writer = Nobody
<1> DEFINE k == sw[p].cur
           rows == [Flushed(p) EXCEPT !.via[k] = via]
<1>1. k \in Key
  BY DEF Insert, InHand
<1>2. \A r \in DB : LET t == [r EXCEPT !.via[k] = via] IN
        /\ t \in DB /\ t.via = [r.via EXCEPT ![k] = via]
        /\ t.sightings = r.sightings /\ t.alert = r.alert
  BY <1>1 DEF DB, Via
<1>3. /\ rows \in DB /\ rows.via = [View(p).via EXCEPT ![k] = via]
      /\ rows.sightings = View(p).sightings /\ rows.alert = View(p).alert
  BY <1>2, FlushedTyped
<1>4. View(p).via[k] = "ABSENT"
  BY DEF Insert, Taken, Exists
<1>5. WriteInSavepoint(p, rows)
  BY DEF Insert
<1> HIDE DEF rows
<1> QED
  BY <1>1, <1>3, <1>4, <1>5 DEF WriteInSavepoint, Write, MayWrite, InTransaction

(* A sighting row, with the default of its alert_state. *)
LEMMA RecordEffect ==
    ASSUME TypeOK, InHand, NEW p \in Proc, RecordSighting(p)
    PROVE  LET k == sw[p].cur IN
           /\ k \in Key /\ MayWrite(p) /\ writer' = p /\ db' = db
           /\ wal' \in DB /\ wal'.via = View(p).via
           /\ wal'.sightings = [View(p).sightings EXCEPT ![k] = @ + 1]
           /\ wal'.alert = [View(p).alert EXCEPT ![k] = "SENT"]
<1> DEFINE k == sw[p].cur
           rows == [Flushed(p) EXCEPT !.sightings[k] = @ + 1, !.alert[k] = "SENT"]
<1>1. k \in Key
  BY DEF RecordSighting, InHand
<1>2. \A r \in DB : LET t == [r EXCEPT !.sightings[k] = @ + 1, !.alert[k] = "SENT"] IN
        /\ t \in DB /\ t.via = r.via
        /\ t.sightings = [r.sightings EXCEPT ![k] = @ + 1]
        /\ t.alert = [r.alert EXCEPT ![k] = "SENT"]
  <2> SUFFICES ASSUME NEW r \in DB
               PROVE  LET t == [r EXCEPT !.sightings[k] = @ + 1, !.alert[k] = "SENT"] IN
                      /\ t \in DB /\ t.via = r.via
                      /\ t.sightings = [r.sightings EXCEPT ![k] = @ + 1]
                      /\ t.alert = [r.alert EXCEPT ![k] = "SENT"]
    OBVIOUS
  <2>1. [r.sightings EXCEPT ![k] = @ + 1] \in [Key -> Nat]
    BY <1>1 DEF DB
  <2>2. [r.alert EXCEPT ![k] = "SENT"] \in [Key -> AlertState \union {"NONE"}]
    BY <1>1 DEF DB, AlertState
  <2> QED
    BY <2>1, <2>2 DEF DB
<1>3. /\ rows \in DB /\ rows.via = View(p).via
      /\ rows.sightings = [View(p).sightings EXCEPT ![k] = @ + 1]
      /\ rows.alert = [View(p).alert EXCEPT ![k] = "SENT"]
  <2>1. PICK r \in DB : r = Flushed(p)
    BY FlushedTyped
  <2>2. rows = [r EXCEPT !.sightings[k] = @ + 1, !.alert[k] = "SENT"]
    BY <2>1
  <2>3. /\ r.via = View(p).via /\ r.sightings = View(p).sightings
        /\ r.alert = View(p).alert
    BY <2>1, FlushedTyped
  <2> HIDE DEF rows
  <2>4. /\ rows \in DB /\ rows.via = r.via
        /\ rows.sightings = [r.sightings EXCEPT ![k] = @ + 1]
        /\ rows.alert = [r.alert EXCEPT ![k] = "SENT"]
    BY <1>2, <2>2
  <2> QED
    BY <2>3, <2>4
<1>4. Write(p, rows)
  BY DEF RecordSighting
<1> HIDE DEF rows
<1> QED
  BY <1>1, <1>3, <1>4 DEF Write

(* The verdict on a sighting. *)
LEMMA DecideEffect ==
    ASSUME TypeOK, InHand, NEW p \in Proc, NEW state \in AlertState, NEW n,
           Decide(p, state, n)
    PROVE  LET k == sw[p].cur IN
           /\ k \in Key /\ MayWrite(p) /\ writer' = p /\ db' = db
           /\ wal' \in DB /\ wal'.via = View(p).via
           /\ wal'.sightings = View(p).sightings
           /\ wal'.alert = [View(p).alert EXCEPT ![k] = state]
<1> DEFINE k == sw[p].cur
           rows == [Flushed(p) EXCEPT !.alert[k] = state]
<1>1. k \in Key
  BY DEF Decide, InHand
<1>2. \A r \in DB : LET t == [r EXCEPT !.alert[k] = state] IN
        /\ t \in DB /\ t.via = r.via /\ t.sightings = r.sightings
        /\ t.alert = [r.alert EXCEPT ![k] = state]
  BY <1>1 DEF DB
<1>3. /\ rows \in DB /\ rows.via = View(p).via /\ rows.sightings = View(p).sightings
      /\ rows.alert = [View(p).alert EXCEPT ![k] = state]
  BY <1>2, FlushedTyped
<1>4. Write(p, rows)
  BY DEF Decide
<1> HIDE DEF rows
<1> QED
  BY <1>1, <1>3, <1>4 DEF Write

(* A commit makes what the committing process sees durable. *)
LEMMA CommitEffect ==
    ASSUME TypeOK, NEW p \in Proc, Commit(p)
    PROVE  /\ MayWrite(p) /\ writer' = Nobody /\ db' = wal' /\ wal' \in DB
           /\ SameIdentities(wal', View(p))
BY FlushedTyped DEF Commit, SameIdentities

(* Source rows are created where they are missing. *)
LEMMA LoadEffect ==
    ASSUME TypeOK, NEW p \in Proc, LoadSources(p)
    PROVE  /\ db' = db
           /\ \/ UNCHANGED <<wal, writer>>
              \/ /\ MayWrite(p) /\ writer' = p /\ wal' \in DB
                 /\ SameIdentities(wal', View(p))
<1>1. \A scope \in SUBSET Source : LET t == [View(p) EXCEPT !.rows = @ \union scope] IN
        t \in DB /\ SameIdentities(t, View(p))
  BY FlushedTyped DEF DB, SameIdentities
<1>2. Scopes \subseteq SUBSET Source
  BY DEF Scopes
<1> QED
  BY <1>1, <1>2 DEF LoadSources, Write

-----------------------------------------------------------------------------
(* The kinds of steps, as far as identities are concerned *)

(* The committed and pending rows stay as they are. *)
QuietStep(p) ==
    \/ Begin(p) \/ Overlap(p) \/ RecordOverlap(p) \/ OpenRun(p) \/ UnknownSource(p)
    \/ LoadKnown(p) \/ FinishSource(p) \/ Release(p) \/ Raise(p)
    \/ \E s \in Source, outcome \in {"FAILED", "BLOCKED"} : PollFails(p, s, outcome)
    \/ \E s \in Source, listed \in SUBSET Key : PollReturns(p, s, listed)
    \/ \E k \in Key : Suppress(p, k) \/ LookUp(p, k)

CommitStep(p) == FinishSweep(p) \/ CommitUnwound(p)

(* A sighting gets this verdict, and Discord took m messages for it. *)
Verdict(p, state, m) ==
    /\ \E n \in {0, 1} : Decide(p, state, n)
    /\ state = "SENT" => m > 0
    /\ pings' = [pings EXCEPT ![sw[p].cur] = @ + m]

LEMMA Kinds ==
    ASSUME TypeOK, Next
    PROVE  \E p \in Proc :
              \/ QuietStep(p) \/ CommitStep(p) \/ LoadSources(p) \/ LoseRace(p)
              \/ AdmitBaseline(p) \/ AdmitSighting(p) \/ RecordSighting(p) \/ Crash(p)
              \/ \E state \in AlertState, m \in 0..MaxPost : Verdict(p, state, m)
<1>1. ASSUME NEW p \in Proc, Alert(p)
      PROVE  \E state \in AlertState, m \in 0..MaxPost : Verdict(p, state, m)
  <2>1. CASE Cap(p) \/ Disable(p)
    <3>1. pings' = [pings EXCEPT ![sw[p].cur] = @ + 0]
      BY <2>1 DEF Cap, Disable, TypeOK
    <3>2. Decide(p, "CAPPED", 0) \/ Decide(p, "DISABLED", 0)
      BY <2>1 DEF Cap, Disable
    <3>3. Verdict(p, "CAPPED", 0) \/ Verdict(p, "DISABLED", 0)
      BY <3>1, <3>2 DEF Verdict
    <3> QED
      BY <3>3, SentinelAssumption DEF AlertState
  <2>2. CASE SendAccepted(p)
    <3>1. PICK m \in 1..MaxPost : Posted(p, m) /\ Decide(p, "SENT", 1)
      BY <2>2 DEF SendAccepted
    <3>2. m \in 0..MaxPost /\ m > 0
      BY SentinelAssumption
    <3> QED
      BY <3>1, <3>2 DEF Posted, Verdict, AlertState
  <2>3. CASE SendFailed(p)
    BY <2>3, SentinelAssumption DEF SendFailed, Posted, Verdict, AlertState
  <2> QED
    BY <1>1, <2>1, <2>2, <2>3 DEF Alert
<1>2. ASSUME NEW p \in Proc, Poll(p) \/ (\E k \in Key : Suppress(p, k) \/ LookUp(p, k))
      PROVE  QuietStep(p)
  BY <1>2 DEF Poll, QuietStep
<1> QED
  BY <1>1, <1>2 DEF Next, SweepStep, Candidate, QuietStep, CommitStep

(* What a quiet step leaves alone: it concerns one process, which has no   *)
(* identity admitted.                                                      *)
LeavesAlone(p) ==
    /\ UNCHANGED <<db, wal, writer, pings, crashes>>
    /\ pc[p] \notin {"admitted", "sighted"} /\ pc'[p] \notin {"admitted", "sighted"}
    /\ pc' \in [Proc -> PC]
    /\ \A q \in Proc \ {p} : pc'[q] = pc[q] /\ sw'[q] = sw[q]

LEMMA QuietEffect == ASSUME TypeOK, NEW p \in Proc, QuietStep(p) PROVE LeavesAlone(p)
<1> USE DEF PC, LeavesAlone
<1>1. pc \in [Proc -> PC] /\ sw \in [Proc -> Sweep]
  BY DEF TypeOK
<1>2. CASE Begin(p) \/ Overlap(p) \/ RecordOverlap(p) \/ OpenRun(p) \/ UnknownSource(p)
              \/ Release(p) \/ Raise(p)
  BY <1>1, <1>2 DEF Begin, Overlap, RecordOverlap, OpenRun, UnknownSource, Release, Raise
<1>3. CASE LoadKnown(p) \/ FinishSource(p)
  BY <1>1, <1>3 DEF LoadKnown, FinishSource
<1>4. ASSUME NEW s \in Source, NEW outcome, PollFails(p, s, outcome) PROVE LeavesAlone(p)
  BY <1>1, <1>4 DEF PollFails
<1>5. ASSUME NEW s \in Source, NEW listed, PollReturns(p, s, listed) PROVE LeavesAlone(p)
  BY <1>1, <1>5 DEF PollReturns
<1>6. ASSUME NEW k \in Key, Suppress(p, k) PROVE LeavesAlone(p)
  BY <1>1, <1>6 DEF Suppress
<1>7. ASSUME NEW k \in Key, LookUp(p, k) PROVE LeavesAlone(p)
  BY <1>1, <1>7 DEF LookUp
<1> QED
  BY <1>2, <1>3, <1>4, <1>5, <1>6, <1>7 DEF QuietStep

-----------------------------------------------------------------------------
(* Every step keeps the types. *)
LEMMA NextTypeOK == TypeOK /\ InHand /\ [Next]_vars => TypeOK'
<1> SUFFICES ASSUME TypeOK, InHand, [Next]_vars PROVE TypeOK'
  OBVIOUS
<1> USE SentinelAssumption
<1> DEFINE Plain == /\ holder \in Proc \union {Nobody} /\ raises \in Nat
                    /\ run \in [Proc -> EndStatus \union {"NONE", "RUNNING"}]
           Moves == /\ pc \in [Proc -> PC] /\ pings \in [Key -> Nat] /\ crashes \in Nat
<1>1. Plain /\ Moves /\ RowsTyped
  BY DEF TypeOK, RowsTyped
<1>2. CASE UNCHANGED vars
  BY <1>2 DEF vars, TypeOK
<1>3. ASSUME NEW p \in Proc, QuietStep(p) PROVE RowsTyped' /\ Moves'
  BY <1>1, <1>3, QuietEffect DEF LeavesAlone, RowsTyped
<1>4. ASSUME NEW p \in Proc, CommitStep(p) PROVE RowsTyped' /\ Moves'
  BY <1>1, <1>4, CommitEffect DEF CommitStep, FinishSweep, CommitUnwound, RowsTyped, PC
<1>5. ASSUME NEW p \in Proc, LoadSources(p) PROVE RowsTyped' /\ Moves'
  <2>1. RowsTyped'
    BY <1>1, <1>5, LoadEffect DEF RowsTyped
  <2> QED
    BY <1>1, <1>5, <2>1 DEF LoadSources, PC
<1>6. ASSUME NEW p \in Proc, LoseRace(p) PROVE RowsTyped' /\ Moves'
  BY <1>1, <1>6, FlushedTyped DEF LoseRace, Write, RowsTyped, PC
<1>7. ASSUME NEW p \in Proc, AdmitBaseline(p) \/ AdmitSighting(p) PROVE RowsTyped' /\ Moves'
  BY <1>1, <1>7, InsertEffect DEF AdmitBaseline, AdmitSighting, RowsTyped, PC
<1>8. ASSUME NEW p \in Proc, RecordSighting(p) PROVE RowsTyped' /\ Moves'
  <2>1. RowsTyped'
    BY <1>1, <1>8, RecordEffect DEF RowsTyped
  <2> QED
    BY <1>1, <1>8, <2>1 DEF RecordSighting, PC
<1>9. ASSUME NEW p \in Proc, Crash(p) PROVE RowsTyped' /\ Moves'
  BY <1>1, <1>9 DEF Crash, RowsTyped, PC
<1>10. ASSUME NEW p \in Proc, NEW state \in AlertState, NEW m \in 0..MaxPost,
              Verdict(p, state, m)
       PROVE  RowsTyped' /\ Moves'
  <2>1. PICK n \in {0, 1} : Decide(p, state, n)
    BY <1>10 DEF Verdict
  <2>2. RowsTyped'
    BY <1>1, <2>1, DecideEffect DEF RowsTyped
  <2>3. pc' \in [Proc -> PC] /\ crashes' = crashes
    BY <1>1, <2>1 DEF Decide, PC
  <2>4. pings' \in [Key -> Nat]
    <3>1. \A k \in Key : pings[k] + m \in Nat
      BY <1>1
    <3> QED
      BY <1>1, <1>10, <3>1 DEF Verdict
  <2> QED
    BY <1>1, <2>2, <2>3, <2>4
<1>11. ASSUME Next PROVE Plain'
  <2>1. ASSUME NEW p \in Proc, Begin(p) \/ Overlap(p) \/ RecordOverlap(p) \/ OpenRun(p)
                 \/ UnknownSource(p) \/ Release(p) \/ Raise(p) \/ Crash(p)
        PROVE  Plain'
    BY <1>1, <2>1 DEF Begin, Overlap, RecordOverlap, OpenRun, UnknownSource, Release, Raise,
        Crash, Unlocked, EndStatus
  <2>2. ASSUME NEW p \in Proc, FinishSweep(p) PROVE Plain'
    BY <1>1, <2>2 DEF FinishSweep, SweepStatus, EndStatus
  <2>3. ASSUME NEW p \in Proc,
               \/ LoadSources(p) \/ LoadKnown(p) \/ FinishSource(p) \/ CommitUnwound(p)
               \/ AdmitBaseline(p) \/ AdmitSighting(p) \/ LoseRace(p) \/ RecordSighting(p)
        PROVE  Plain'
    BY <1>1, <2>3 DEF LoadSources, LoadKnown, FinishSource, CommitUnwound, AdmitBaseline,
        AdmitSighting, LoseRace, RecordSighting
  <2>4. ASSUME NEW p \in Proc, Poll(p) PROVE Plain'
    BY <1>1, <2>4 DEF Poll, PollFails, PollReturns
  <2>5. ASSUME NEW p \in Proc, NEW k \in Key, Suppress(p, k) \/ LookUp(p, k) PROVE Plain'
    BY <1>1, <2>5 DEF Suppress, LookUp
  <2>6. ASSUME NEW p \in Proc, NEW state, NEW n, Decide(p, state, n) PROVE Plain'
    BY <1>1, <2>6 DEF Decide
  <2> HIDE DEF Plain
  <2> QED
    BY <1>11, <2>1, <2>2, <2>3, <2>4, <2>5, <2>6
    DEF Next, SweepStep, Candidate, Alert, Cap, Disable, SendAccepted, SendFailed
<1>12. SweepsTyped'
  BY NextSweepsTyped
<1>13. ASSUME Next PROVE RowsTyped' /\ Moves'
  <2> HIDE DEF Moves
  <2> QED
    BY <1>3, <1>4, <1>5, <1>6, <1>7, <1>8, <1>9, <1>10, <1>13, Kinds
<1> QED
  BY <1>2, <1>11, <1>12, <1>13 DEF TypeOK, RowsTyped, SweepsTyped

-----------------------------------------------------------------------------
(* The inductive invariant is one. *)

LEMMA InitIInv == Init => IInv
<1> SUFFICES ASSUME Init PROVE IInv
  OBVIOUS
<1>1. TypeOK
  BY InitTypeOK
<1> QED
  BY <1>1, SentinelAssumption
  DEF Init, IInv, InHand, Consistent, Extending, Admitting, Sighting, Budgeted, Awaiting, EmptyDB

LEMMA CalmKinds ==
    ASSUME IInv, TypeOK', InHand', NEW p \in Proc,
           QuietStep(p) \/ CommitStep(p) \/ LoadSources(p) \/ LoseRace(p)
    PROVE  IInv'
<1> USE SentinelAssumption
<1>1. pc \in [Proc -> PC] /\ sw \in [Proc -> Sweep] /\ TypeOK
  BY DEF IInv, TypeOK
<1>2. \A q \in Proc : pc[q] = "sighted" => writer = q
  BY DEF IInv, Sighting
<1>3. writer = Nobody => wal = db
  BY DEF IInv, Extending
<1>4. CASE QuietStep(p)
  BY <1>1, <1>3, <1>4, QuietEffect, CalmStep DEF LeavesAlone, SameIdentities
<1>5. CASE CommitStep(p)
  <2>1. MayWrite(p) /\ writer' = Nobody /\ db' = wal' /\ SameIdentities(wal', wal)
    BY <1>1, <1>5, CommitEffect, WriterSeesAll DEF CommitStep, FinishSweep, CommitUnwound
  <2>2. /\ UNCHANGED <<pings, crashes>>
        /\ pc[p] \notin {"admitted", "sighted"} /\ pc'[p] \notin {"admitted", "sighted"}
        /\ \A q \in Proc \ {p} : pc'[q] = pc[q] /\ sw'[q] = sw[q]
    BY <1>1, <1>5 DEF CommitStep, FinishSweep, CommitUnwound
  <2>3. \A q \in Proc : pc[q] # "sighted"
    BY <1>2, <2>1, <2>2 DEF MayWrite
  <2>4. SameIdentities(db', wal)
    BY <2>1 DEF SameIdentities
  <2>5. \A q \in Proc \ {p} : writer # q
    BY <2>1 DEF MayWrite
  <2> QED
    BY <2>1, <2>2, <2>3, <2>4, <2>5, CalmStep
<1>6. CASE LoadSources(p)
  <2>1. /\ UNCHANGED <<pings, crashes>>
        /\ pc[p] \notin {"admitted", "sighted"} /\ pc'[p] \notin {"admitted", "sighted"}
        /\ \A q \in Proc \ {p} : pc'[q] = pc[q] /\ sw'[q] = sw[q]
    BY <1>1, <1>6 DEF LoadSources
  <2>2. SameIdentities(db', db) /\ SameIdentities(wal', wal)
    BY <1>1, <1>6, LoadEffect, WriterSeesAll DEF SameIdentities
  <2>3. /\ writer' = Nobody => wal' = db'
        /\ \A q \in Proc \ {p} : writer = q => writer' = q
    BY <1>1, <1>3, <1>6, LoadEffect DEF MayWrite
  <2> QED
    BY <2>1, <2>2, <2>3, CalmStep
<1>7. CASE LoseRace(p)
  <2>1. /\ UNCHANGED <<pings, crashes>>
        /\ pc[p] \notin {"admitted", "sighted"} /\ pc'[p] \notin {"admitted", "sighted"}
        /\ \A q \in Proc \ {p} : pc'[q] = pc[q] /\ sw'[q] = sw[q]
    BY <1>1, <1>7 DEF LoseRace
  <2>2. /\ db' = db /\ MayWrite(p)
        /\ UNCHANGED <<wal, writer>> \/ (wal' = Flushed(p) /\ writer' = p)
    BY <1>7 DEF LoseRace, Write
  <2>3. SameIdentities(db', db) /\ SameIdentities(wal', wal)
    BY <1>1, <2>2, FlushedTyped, WriterSeesAll DEF SameIdentities
  <2>4. /\ writer' = Nobody => wal' = db'
        /\ \A q \in Proc \ {p} : writer = q => writer' = q
    BY <1>3, <2>2 DEF MayWrite
  <2> QED
    BY <2>1, <2>3, <2>4, CalmStep
<1> QED
  BY <1>4, <1>5, <1>6, <1>7

(* Admission: the identity was absent from everything its process could    *)
(* see, so nobody holds it and nothing was sent or decided for it.         *)
LEMMA AdmitKinds ==
    ASSUME IInv, TypeOK', InHand', NEW p \in Proc, AdmitBaseline(p) \/ AdmitSighting(p)
    PROVE  IInv'
<1> USE SentinelAssumption
<1> DEFINE k == sw[p].cur
<1>1. pc \in [Proc -> PC] /\ sw \in [Proc -> Sweep] /\ TypeOK /\ InHand
  BY DEF IInv, TypeOK
<1>2. PICK via \in {"BASELINE", "SIGHTING"} :
        /\ Insert(p, via)
        /\ pc'[p] = "admitted" => via = "SIGHTING"
  BY <1>1 DEF AdmitBaseline, AdmitSighting
<1>3. /\ k \in Key /\ MayWrite(p) /\ wal.via[k] = "ABSENT"
      /\ wal' \in DB /\ wal'.via = [wal.via EXCEPT ![k] = via]
      /\ wal'.sightings = wal.sightings /\ wal'.alert = wal.alert
      /\ (db' = db /\ writer' = p) \/ (db' = wal' /\ writer' = Nobody /\ writer = Nobody)
  <2>1. /\ k \in Key /\ MayWrite(p) /\ View(p).via[k] = "ABSENT"
        /\ wal' \in DB /\ wal'.via = [View(p).via EXCEPT ![k] = via]
        /\ wal'.sightings = View(p).sightings /\ wal'.alert = View(p).alert
        /\ \/ db' = db /\ writer' = p
           \/ db' = wal' /\ writer' = Nobody /\ writer = Nobody
    BY <1>1, <1>2, InsertEffect
  <2>2. View(p) = wal
    BY <2>1, WriterSeesAll
  <2> QED
    BY <2>1, <2>2
<1>4. /\ UNCHANGED <<pings, crashes>> /\ pc[p] = "absent" /\ pc'[p] # "sighted"
      /\ pc'[p] = "admitted" => sw'[p].cur = k
      /\ \A q \in Proc \ {p} : pc'[q] = pc[q] /\ sw'[q] = sw[q]
  BY <1>1 DEF AdmitBaseline, AdmitSighting, Insert, Sweep
<1>5. wal.sightings[k] = 0 /\ db.via[k] = "ABSENT"
  BY <1>3 DEF IInv, Consistent, Extending
<1>6. wal.via \in [Key -> Via] /\ db.via \in [Key -> Via]
  BY <1>1 DEF TypeOK, DB
<1> HIDE DEF k
<1>7. Consistent(wal)'
  BY <1>3, <1>5, <1>6 DEF IInv, Consistent
<1>8. Consistent(db)'
  <2>1. CASE db' = db
    BY <2>1 DEF IInv, Consistent
  <2>2. CASE db' = wal'
    BY <1>7, <2>2 DEF Consistent
  <2> QED
    BY <1>3, <2>1, <2>2
<1>9. Extending'
  BY <1>3, <1>5, <1>6 DEF IInv, Extending
<1>10. \A q \in Proc \ {p} : pc[q] = "admitted" => sw[q].cur # k
  BY <1>3 DEF IInv, Admitting
<1>11. Admitting'
  <2> SUFFICES ASSUME NEW q \in Proc, pc'[q] = "admitted"
               PROVE  /\ wal'.via[sw'[q].cur] = "SIGHTING" /\ wal'.sightings[sw'[q].cur] = 0
                      /\ writer' = q \/ db'.via[sw'[q].cur] = "SIGHTING"
                      /\ \A r \in Proc \ {q} :
                            pc'[r] = "admitted" => sw'[r].cur # sw'[q].cur
    BY DEF Admitting
  <2>1. CASE q = p
    BY <1>2, <1>3, <1>4, <1>5, <1>6, <1>10, <2>1
  <2>2. CASE q # p
    <3>1. pc[q] = "admitted" /\ sw'[q].cur = sw[q].cur /\ sw[q].cur # k /\ sw[q].cur \in Key
      BY <1>1, <1>4, <1>10, <2>2 DEF InHand
    <3>2. wal'.via[sw[q].cur] = "SIGHTING" /\ wal'.sightings[sw[q].cur] = 0
      BY <1>3, <1>6, <3>1 DEF IInv, Admitting
    <3>3. writer # q
      BY <1>3, <2>2 DEF MayWrite
    <3>4. db'.via[sw[q].cur] = "SIGHTING"
      BY <1>3, <3>1, <3>2, <3>3 DEF IInv, Admitting
    <3>5. ASSUME NEW r \in Proc \ {q}, pc'[r] = "admitted" PROVE sw'[r].cur # sw'[q].cur
      BY <1>4, <3>1, <3>5 DEF IInv, Admitting
    <3> QED
      BY <3>1, <3>2, <3>4, <3>5
  <2> QED
    BY <2>1, <2>2
<1>12. \A q \in Proc : pc[q] # "sighted"
  BY <1>3, <1>4 DEF IInv, Sighting, MayWrite
<1>13. \A q \in Proc : pc'[q] # "sighted"
  BY <1>4, <1>12
<1>14. Sighting'
  BY <1>13 DEF Sighting
<1>15. Budgeted'
  BY <1>3, <1>4, <1>12, <1>13 DEF IInv, Budgeted, Awaiting
<1> QED
  BY <1>7, <1>8, <1>9, <1>11, <1>14, <1>15 DEF IInv

(* The sighting row: its identity is the one its process admitted.         *)
LEMMA RecordKind ==
    ASSUME IInv, TypeOK', InHand', NEW p \in Proc, RecordSighting(p)
    PROVE  IInv'
<1> USE SentinelAssumption
<1> DEFINE k == sw[p].cur
<1>1. pc \in [Proc -> PC] /\ sw \in [Proc -> Sweep] /\ TypeOK /\ InHand
  BY DEF IInv, TypeOK
<1>2. /\ k \in Key /\ MayWrite(p) /\ writer' = p /\ db' = db
      /\ wal' \in DB /\ wal'.via = wal.via
      /\ wal'.sightings = [wal.sightings EXCEPT ![k] = @ + 1]
      /\ wal'.alert = [wal.alert EXCEPT ![k] = "SENT"]
  BY <1>1, RecordEffect, WriterSeesAll
<1>3. /\ UNCHANGED <<pings, crashes>> /\ pc[p] = "admitted" /\ pc'[p] = "sighted"
      /\ sw'[p].cur = k
      /\ \A q \in Proc \ {p} : pc'[q] = pc[q] /\ sw'[q] = sw[q]
  BY <1>1 DEF RecordSighting, Sweep
<1>4. wal.via[k] = "SIGHTING" /\ wal.sightings[k] = 0 /\ db.sightings[k] = 0
  BY <1>2, <1>3 DEF IInv, Admitting, Extending, Consistent
<1>5. wal.sightings \in [Key -> Nat] /\ wal.alert \in [Key -> AlertState \union {"NONE"}]
  BY <1>1 DEF TypeOK, DB
<1> HIDE DEF k
<1>6. Consistent(wal)' /\ Consistent(db)'
  BY <1>2, <1>4, <1>5 DEF IInv, Consistent
<1>7. Extending'
  BY <1>2, <1>4, <1>5 DEF IInv, Extending
<1>8. Admitting'
  <2> SUFFICES ASSUME NEW q \in Proc, pc'[q] = "admitted"
               PROVE  /\ wal'.via[sw'[q].cur] = "SIGHTING" /\ wal'.sightings[sw'[q].cur] = 0
                      /\ writer' = q \/ db'.via[sw'[q].cur] = "SIGHTING"
                      /\ \A r \in Proc \ {q} :
                            pc'[r] = "admitted" => sw'[r].cur # sw'[q].cur
    BY DEF Admitting
  <2>1. q # p /\ pc[q] = "admitted" /\ sw'[q].cur = sw[q].cur /\ sw[q].cur \in Key
    BY <1>1, <1>3 DEF InHand
  <2>2. sw[q].cur # k
    BY <1>3, <2>1 DEF IInv, Admitting, k
  <2>3. wal'.via[sw[q].cur] = "SIGHTING" /\ wal'.sightings[sw[q].cur] = 0
    BY <1>2, <1>5, <2>1, <2>2 DEF IInv, Admitting
  <2>4. db'.via[sw[q].cur] = "SIGHTING"
    BY <1>2, <2>1 DEF IInv, Admitting, MayWrite
  <2>5. ASSUME NEW r \in Proc \ {q}, pc'[r] = "admitted" PROVE sw'[r].cur # sw'[q].cur
    <3>1. r # p /\ pc[r] = "admitted" /\ sw'[r].cur = sw[r].cur
      BY <1>3, <2>5
    <3> QED
      BY <2>1, <3>1 DEF IInv, Admitting
  <2> QED
    BY <2>1, <2>3, <2>4, <2>5
<1>9. \A q \in Proc : pc[q] # "sighted"
  BY <1>2, <1>3 DEF IInv, Sighting, MayWrite
<1>10. Sighting'
  BY <1>2, <1>3, <1>4, <1>5, <1>9 DEF Sighting
<1>11. \A j \in Key : ~Awaiting(j) /\ (Awaiting(j)' <=> j = k)
  BY <1>3, <1>9 DEF Awaiting
<1>12. Budgeted'
  BY <1>2, <1>3, <1>4, <1>5, <1>11 DEF IInv, Budgeted
<1> QED
  BY <1>6, <1>7, <1>8, <1>10, <1>12 DEF IInv

(* The verdict: its identity was within the budget of the crashes, and the *)
(* one delivery comes on top.                                              *)
LEMMA VerdictKind ==
    ASSUME IInv, TypeOK', InHand', NEW p \in Proc, NEW state \in AlertState,
           NEW m \in 0..MaxPost, Verdict(p, state, m)
    PROVE  IInv'
<1> USE SentinelAssumption
<1> DEFINE k == sw[p].cur
<1>1. pc \in [Proc -> PC] /\ sw \in [Proc -> Sweep] /\ TypeOK /\ InHand
  BY DEF IInv, TypeOK
<1>2. PICK n \in {0, 1} : Decide(p, state, n)
  BY DEF Verdict
<1>3. /\ k \in Key /\ MayWrite(p) /\ writer' = p /\ db' = db
      /\ wal' \in DB /\ wal'.via = wal.via /\ wal'.sightings = wal.sightings
      /\ wal'.alert = [wal.alert EXCEPT ![k] = state]
  BY <1>1, <1>2, DecideEffect, WriterSeesAll
<1>4. /\ crashes' = crashes /\ pings' = [pings EXCEPT ![k] = @ + m]
      /\ state = "SENT" => m > 0
      /\ pc[p] = "sighted" /\ pc'[p] = "candidates"
      /\ \A q \in Proc \ {p} : pc'[q] = pc[q] /\ sw'[q] = sw[q]
  BY <1>1, <1>2 DEF Decide, Verdict
<1>5. writer = p /\ wal.sightings[k] = 1 /\ db.sightings[k] = 0
  BY <1>4 DEF IInv, Sighting
<1>6. /\ wal.alert \in [Key -> AlertState \union {"NONE"}]
      /\ pings \in [Key -> Nat] /\ crashes \in Nat
  BY <1>1 DEF TypeOK, DB
<1>7. \A q \in Proc : pc[q] = "sighted" => q = p
  BY <1>5 DEF IInv, Sighting
<1>8. \A j \in Key : (Awaiting(j) <=> j = k) /\ ~Awaiting(j)'
  BY <1>4, <1>7 DEF Awaiting
<1> HIDE DEF k
<1>9. Consistent(wal)' /\ Consistent(db)'
  <2>1. Consistent(wal)'
    BY <1>3, <1>5, <1>6 DEF IInv, Consistent, AlertState
  <2>2. Consistent(db)'
    BY <1>3 DEF IInv, Consistent
  <2> QED
    BY <2>1, <2>2
<1>10. Extending'
  BY <1>3, <1>5, <1>6 DEF IInv, Extending
<1>11. Admitting'
  <2> SUFFICES ASSUME NEW q \in Proc, pc'[q] = "admitted"
               PROVE  /\ wal'.via[sw'[q].cur] = "SIGHTING" /\ wal'.sightings[sw'[q].cur] = 0
                      /\ writer' = q \/ db'.via[sw'[q].cur] = "SIGHTING"
                      /\ \A r \in Proc \ {q} :
                            pc'[r] = "admitted" => sw'[r].cur # sw'[q].cur
    BY DEF Admitting
  <2>1. q # p /\ pc[q] = "admitted" /\ sw'[q].cur = sw[q].cur
    BY <1>4
  <2>2. ASSUME NEW r \in Proc \ {q}, pc'[r] = "admitted" PROVE sw'[r].cur # sw'[q].cur
    <3>1. r # p /\ pc[r] = "admitted" /\ sw'[r].cur = sw[r].cur
      BY <1>4, <2>2
    <3> QED
      BY <2>1, <3>1 DEF IInv, Admitting
  <2> QED
    BY <1>3, <1>5, <2>1, <2>2 DEF IInv, Admitting
<1>12. Sighting'
  BY <1>4, <1>7 DEF Sighting
<1>13. Budgeted'
  <2> SUFFICES ASSUME NEW j \in Key
               PROVE  /\ wal'.sightings[j] = 0 => pings'[j] <= MaxPost * crashes
                      /\ pings'[j] <= MaxPost * (crashes + 1)
                      /\ wal'.alert[j] = "SENT" => pings'[j] > 0
    BY <1>4, <1>8 DEF Budgeted
  <2>1. CASE j # k
    BY <1>3, <1>4, <1>6, <1>8, <2>1 DEF IInv, Budgeted
  <2>2. CASE j = k
    <3>1. pings[k] <= MaxPost * crashes
      BY <1>3, <1>8 DEF IInv, Budgeted
    <3>2. MaxPost * (crashes + 1) = MaxPost * crashes + MaxPost /\ MaxPost * crashes \in Nat
      BY <1>6
    <3>3. pings'[k] = pings[k] + m
      BY <1>3, <1>4, <1>6
    <3> QED
      BY <1>3, <1>4, <1>5, <1>6, <2>2, <3>1, <3>2, <3>3
  <2> QED
    BY <2>1, <2>2
<1> QED
  BY <1>9, <1>10, <1>11, <1>12, <1>13 DEF IInv

(* A crash forgets one delivery at most, and allows for one more.          *)
LEMMA CrashKind ==
    ASSUME IInv, TypeOK', InHand', NEW p \in Proc, Crash(p)
    PROVE  IInv'
<1> USE SentinelAssumption
<1>1. pc \in [Proc -> PC] /\ sw \in [Proc -> Sweep] /\ TypeOK /\ InHand
  BY DEF IInv, TypeOK
<1>2. /\ db' = db /\ pings' = pings /\ crashes' = crashes + 1 /\ pc'[p] = "idle"
      /\ writer' = (IF writer = p THEN Nobody ELSE writer)
      /\ wal' = (IF writer = p THEN db ELSE wal)
      /\ \A q \in Proc \ {p} : pc'[q] = pc[q] /\ sw'[q] = sw[q]
  BY <1>1 DEF Crash
<1>3. pings \in [Key -> Nat] /\ crashes \in Nat
  BY <1>1 DEF TypeOK
<1>4. Consistent(db)' /\ Consistent(wal)'
  <2>1. Consistent(db)'
    BY <1>2 DEF IInv, Consistent
  <2>2. CASE writer = p
    BY <1>2, <2>1, <2>2 DEF Consistent
  <2>3. CASE writer # p
    BY <1>2, <2>3 DEF IInv, Consistent
  <2> QED
    BY <2>1, <2>2, <2>3
<1>5. Extending'
  BY <1>2 DEF IInv, Extending
<1>6. Admitting'
  <2> SUFFICES ASSUME NEW q \in Proc, pc'[q] = "admitted"
               PROVE  /\ wal'.via[sw'[q].cur] = "SIGHTING" /\ wal'.sightings[sw'[q].cur] = 0
                      /\ writer' = q \/ db'.via[sw'[q].cur] = "SIGHTING"
                      /\ \A r \in Proc \ {q} :
                            pc'[r] = "admitted" => sw'[r].cur # sw'[q].cur
    BY DEF Admitting
  <2>1. q # p /\ pc[q] = "admitted" /\ sw'[q].cur = sw[q].cur /\ sw[q].cur \in Key
    BY <1>1, <1>2 DEF InHand
  <2>2. ASSUME NEW r \in Proc \ {q}, pc'[r] = "admitted" PROVE sw'[r].cur # sw'[q].cur
    <3>1. r # p /\ pc[r] = "admitted" /\ sw'[r].cur = sw[r].cur
      BY <1>2, <2>2
    <3> QED
      BY <2>1, <3>1 DEF IInv, Admitting
  <2>3. /\ wal.via[sw[q].cur] = "SIGHTING" /\ wal.sightings[sw[q].cur] = 0
        /\ writer = q \/ db.via[sw[q].cur] = "SIGHTING"
    BY <2>1 DEF IInv, Admitting
  <2>4. CASE writer = p
    BY <1>2, <2>1, <2>2, <2>3, <2>4 DEF IInv, Extending, Consistent
  <2>5. CASE writer # p
    BY <1>2, <2>1, <2>2, <2>3, <2>5
  <2> QED
    BY <2>4, <2>5
<1>7. Sighting'
  BY <1>2 DEF IInv, Sighting
<1>8. Budgeted'
  <2> SUFFICES ASSUME NEW j \in Key
               PROVE  /\ pings[j] <= MaxPost * (crashes + 1)
                      /\ pings[j] <= MaxPost * (crashes + 1 + 1)
                      /\ wal'.alert[j] = "SENT" /\ ~Awaiting(j)' => pings[j] > 0
    BY <1>2 DEF Budgeted
  <2>1. pings[j] <= MaxPost * (crashes + 1)
    BY DEF IInv, Budgeted
  <2>2. pings[j] <= MaxPost * (crashes + 1 + 1)
    BY <1>3, <2>1
  <2>3. ASSUME wal'.alert[j] = "SENT", ~Awaiting(j)' PROVE pings[j] > 0
    <3>1. CASE writer = p
      <4>1. db.alert[j] = "SENT" /\ db.sightings[j] = 1
        BY <1>2, <2>3, <3>1 DEF IInv, Consistent
      <4>2. wal.alert[j] = "SENT" /\ ~Awaiting(j)
        BY <4>1 DEF IInv, Extending, Sighting, Awaiting
      <4> QED
        BY <4>2 DEF IInv, Budgeted
    <3>2. CASE writer # p
      <4>1. pc[p] # "sighted"
        BY <3>2 DEF IInv, Sighting
      <4>2. wal.alert[j] = "SENT" /\ ~Awaiting(j)
        BY <1>2, <2>3, <3>2, <4>1 DEF Awaiting
      <4> QED
        BY <4>2 DEF IInv, Budgeted
    <3> QED
      BY <3>1, <3>2
  <2> QED
    BY <2>1, <2>2, <2>3
<1> QED
  BY <1>4, <1>5, <1>6, <1>7, <1>8 DEF IInv

(* The inductive invariant: types, agreement of the rows, the one writer   *)
(* in front of the committed rows, and the budget of messages.             *)
THEOREM Inductive == Spec => []IInv
<1>1. ASSUME IInv, [Next]_vars PROVE IInv'
  <2>1. TypeOK' /\ InHand'
    BY <1>1, NextTypeOK, NextInHand DEF IInv
  <2>2. CASE UNCHANGED vars
    BY <1>1, <2>1, <2>2 DEF vars, IInv, Consistent, Extending, Admitting, Sighting, Budgeted,
       Awaiting
  <2>3. CASE Next
    BY <1>1, <2>1, <2>3, Kinds, CalmKinds, AdmitKinds, RecordKind, VerdictKind, CrashKind
    DEF IInv
  <2> QED
    BY <1>1, <2>2, <2>3
<1> QED
  BY InitIInv, <1>1, PTL DEF Spec

-----------------------------------------------------------------------------
(* Theorems *)

(* Every variable keeps its type in every reachable state. *)
THEOREM TypeCorrect == Spec => []TypeOK
BY Inductive, PTL DEF IInv

(* However many sweeps race, with or without a lock that works, and        *)
(* whatever crashes: an identity is sighted at most once, an imported one  *)
(* never (store.py:6-9).                                                   *)
THEOREM SightedOnce == Spec => []OneSightingPerIdentity
<1>1. IInv => OneSightingPerIdentity
  BY DEF IInv, Consistent, OneSightingPerIdentity
<1> QED
  BY <1>1, Inductive, PTL

(* The bound the code keeps where its documentation promises one message:  *)
(* each crash may repeat one delivery.                                     *)
THEOREM PingsBounded == Spec => [](\A k \in Key : pings[k] <= MaxPost * (crashes + 1))
<1>1. IInv => \A k \in Key : pings[k] <= MaxPost * (crashes + 1)
  BY DEF IInv, Budgeted
<1> QED
  BY <1>1, Inductive, PTL

-----------------------------------------------------------------------------
(* Sentinel implements Tripwire. *)

ledger == [k \in Key |-> LedgerEntry(k)]

LEMMA LedgerTyped == TypeOK => ledger \in [Key -> Ledger!Entry]
BY DEF TypeOK, DB, Via, AlertState, ledger, LedgerEntry, Ledger!Entry, Ledger!Final

(* When the committed rows become rows that extend them, and every SENT in *)
(* them is backed by a message, the ledger moves as it may.                *)
LEMMA RecordStep ==
    ASSUME IInv, TypeOK', UNCHANGED <<pings, crashes>>,
           \A k \in Key :
              /\ db.via[k] # "ABSENT" => db'.via[k] = db.via[k]
              /\ db.alert[k] # "NONE" => db'.alert[k] = db.alert[k]
              /\ db'.alert[k] = "SENT" => pings[k] > 0
    PROVE  Ledger!Record
<1>1. ledger' \in [Key -> Ledger!Entry]
  BY DEF TypeOK, DB, Via, AlertState, ledger, LedgerEntry, Ledger!Entry, Ledger!Final
<1>2. ASSUME NEW k \in Key PROVE Ledger!MayBecome(k, ledger[k], ledger'[k])
  <2>1. /\ db.via[k] \in Via /\ db'.via[k] \in Via
        /\ db.alert[k] \in AlertState \union {"NONE"}
        /\ db'.alert[k] \in AlertState \union {"NONE"}
    BY DEF IInv, TypeOK, DB
  <2>2. ledger[k] = LedgerEntry(k) /\ ledger'[k] = LedgerEntry(k)'
    BY DEF ledger
  <2>3. db.alert[k] # "NONE" => db.via[k] = "SIGHTING"
    BY DEF IInv, Consistent
  <2>4. LedgerEntry(k)' = "SENT" => pings[k] > 0
    BY <2>1 DEF LedgerEntry, Via
  <2>5. CASE db.via[k] = "ABSENT"
    BY <2>2, <2>4, <2>5 DEF LedgerEntry, Ledger!MayBecome
  <2>6. CASE db.via[k] = "BASELINE"
    BY <2>2, <2>6 DEF LedgerEntry, Ledger!MayBecome
  <2>7. CASE db.via[k] = "SIGHTING"
    BY <2>1, <2>2, <2>4, <2>7 DEF LedgerEntry, Ledger!MayBecome, Ledger!Final, AlertState
  <2> QED
    BY <2>1, <2>5, <2>6, <2>7 DEF Via
<1> QED
  BY <1>1, <1>2 DEF Ledger!Record, ledger

(* Admissions and commits add entries, a delivery pings, a crash loses one *)
(* sweep; nothing else shows in the ledger.                                *)
THEOREM Refinement == Spec => ImplementsTripwire
<1>1. Init => Ledger!Init
  BY DEF Init, EmptyDB, Ledger!Init, LedgerEntry
<1>2. ASSUME IInv, IInv', [Next]_vars PROVE [Ledger!Next]_<<ledger, pings, crashes>>
  <2> USE <1>2, SentinelAssumption
  <2>1. TypeOK /\ TypeOK' /\ InHand /\ pc \in [Proc -> PC]
    BY DEF IInv, TypeOK
  <2> DEFINE Hidden == UNCHANGED <<ledger, pings, crashes>>
  <2>2. db' = db => ledger' = ledger
    BY DEF ledger, LedgerEntry
  <2>3. CASE UNCHANGED vars
    BY <2>2, <2>3 DEF vars
  <2>4. ASSUME NEW p \in Proc, QuietStep(p) PROVE Hidden
    BY <2>1, <2>2, <2>4, QuietEffect DEF LeavesAlone
  <2>5. ASSUME NEW p \in Proc, LoadSources(p) \/ LoseRace(p) \/ RecordSighting(p) PROVE Hidden
    <3>1. CASE LoadSources(p)
      BY <2>1, <2>2, <3>1, LoadEffect DEF LoadSources
    <3>2. CASE LoseRace(p)
      BY <2>2, <3>2 DEF LoseRace, Write
    <3>3. CASE RecordSighting(p)
      BY <2>2, <3>3 DEF RecordSighting, Write
    <3> QED
      BY <2>5, <3>1, <3>2, <3>3
  <2>6. ASSUME NEW p \in Proc, CommitStep(p) PROVE Ledger!Record
    <3>1. MayWrite(p) /\ db' = wal' /\ SameIdentities(wal', wal) /\ UNCHANGED <<pings, crashes>>
      BY <2>1, <2>6, CommitEffect, WriterSeesAll DEF CommitStep, FinishSweep, CommitUnwound
    <3>2. pc[p] # "sighted"
      BY <2>6 DEF CommitStep, FinishSweep, CommitUnwound
    <3>3. \A k \in Key : ~Awaiting(k)
      BY <3>1, <3>2 DEF IInv, Sighting, Awaiting, MayWrite
    <3>4. ASSUME NEW k \in Key
          PROVE  /\ db.via[k] # "ABSENT" => db'.via[k] = db.via[k]
                 /\ db.alert[k] # "NONE" => db'.alert[k] = db.alert[k]
                 /\ db'.alert[k] = "SENT" => pings[k] > 0
      BY <3>1, <3>3 DEF IInv, Extending, Consistent, Budgeted, SameIdentities
    <3> QED
      BY <2>1, <3>1, <3>4, RecordStep
  <2>7. ASSUME NEW p \in Proc, AdmitBaseline(p) \/ AdmitSighting(p)
        PROVE  Hidden \/ Ledger!Record
    <3>1. PICK via \in {"BASELINE", "SIGHTING"} : Insert(p, via) /\ UNCHANGED <<pings, crashes>>
      BY <2>7 DEF AdmitBaseline, AdmitSighting
    <3> DEFINE j == sw[p].cur
    <3>2. /\ j \in Key /\ wal.via[j] = "ABSENT"
          /\ wal'.via = [wal.via EXCEPT ![j] = via] /\ wal'.alert = wal.alert
          /\ db' = db \/ (db' = wal' /\ writer = Nobody)
      BY <2>1, <3>1, InsertEffect, WriterSeesAll
    <3>3. CASE db' = db
      BY <2>2, <3>1, <3>3
    <3>4. CASE db' = wal' /\ writer = Nobody
      <4>1. wal = db
        BY <3>4 DEF IInv, Extending
      <4>2. \A k \in Key : ~Awaiting(k)
        BY <3>4 DEF IInv, Sighting, Awaiting
      <4>3. wal.via \in [Key -> Via]
        BY DEF IInv, TypeOK, DB
      <4> HIDE DEF j
      <4>4. ASSUME NEW k \in Key
            PROVE  /\ db.via[k] # "ABSENT" => db'.via[k] = db.via[k]
                   /\ db.alert[k] # "NONE" => db'.alert[k] = db.alert[k]
                   /\ db'.alert[k] = "SENT" => pings[k] > 0
        BY <3>2, <3>4, <4>1, <4>2, <4>3 DEF IInv, Budgeted
      <4> QED
        BY <2>1, <3>1, <4>4, RecordStep
    <3> QED
      BY <3>2, <3>3, <3>4
  <2>8. ASSUME NEW p \in Proc, NEW state \in AlertState, NEW m \in 0..MaxPost,
               Verdict(p, state, m)
        PROVE  Hidden \/ \E k \in Key, n \in 1..MaxPost : Ledger!Ping(k, n)
    <3> DEFINE k == sw[p].cur
    <3>1. k \in Key /\ db' = db /\ crashes' = crashes /\ pc[p] = "sighted"
          /\ pings' = [pings EXCEPT ![k] = @ + m]
      BY <2>1, <2>8, DecideEffect DEF Verdict, Decide
    <3>2. pings \in [Key -> Nat]
      BY <2>1 DEF TypeOK
    <3>3. CASE m = 0
      BY <2>2, <3>1, <3>2, <3>3
    <3>4. CASE m # 0
      <4>1. m \in 1..MaxPost
        BY <3>4
      <4>2. db.alert[k] = "NONE" /\ db.via[k] # "BASELINE"
        BY <3>1 DEF IInv, Sighting, Consistent, Extending
      <4>3. ledger[k] \notin Ledger!Final
        BY <3>1, <4>2 DEF ledger, LedgerEntry, Ledger!Final
      <4>4. pings'[k] = pings[k] + m
        BY <3>1, <3>2
      <4>5. pings'[k] <= MaxPost * (crashes + 1)
        BY <3>1 DEF IInv, Budgeted
      <4>6. Ledger!Ping(k, m)
        BY <2>2, <3>1, <4>3, <4>4, <4>5 DEF Ledger!Ping, ledger
      <4> QED
        BY <3>1, <4>1, <4>6
    <3> QED
      BY <3>3, <3>4
  <2>9. ASSUME NEW p \in Proc, Crash(p) PROVE Ledger!Lose
    BY <2>2, <2>9 DEF Crash, Ledger!Lose, ledger
  <2>10. CASE Next
    BY <2>1, <2>4, <2>5, <2>6, <2>7, <2>8, <2>9, <2>10, Kinds DEF Ledger!Next
  <2> QED
    BY <2>3, <2>10
<1> QED
  BY <1>1, <1>2, Inductive, PTL DEF Spec, ImplementsTripwire, Ledger!Spec, Ledger!vars, ledger

-----------------------------------------------------------------------------
(* What a sweep remembers, and what it may therefore say *)

Working == {"loaded", "sweeping", "candidates", "absent", "admitted", "sighted", "unwinding"}

(* The identities a sweep takes for known: those of its snapshot, those of *)
(* the polls that arm their source, and those it has done of this poll.    *)
Seen(p) ==
    sw[p].known \union sw[p].catalogue
      \union {k \in sw[p].items \ sw[p].cand : pc[p] = "absent" => k # sw[p].cur}

(* A sweep's memory is true: what it saw armed is durably so, what it takes *)
(* for known is there, and it arms nothing on an empty catalogue.  What it *)
(* arms is pending in its session, or in rows it can see; the rows pending *)
(* in its transaction arm nothing else.                                    *)
Remembered(p) ==
    /\ sw[p].armed \subseteq db.armed
    /\ pc[p] \in {"admitted", "sighted"} => ~Silent(p)
    /\ sw[p].arming # {} => sw[p].catalogue # {}
    /\ \A k \in Seen(p) : View(p).via[k] # "ABSENT"
    /\ ~sw[p].dirty => sw[p].arming \subseteq View(p).armed
    /\ writer = p => pc[p] \in Working /\ wal.armed \subseteq db.armed \union sw[p].arming

(* Unless a process died, a sighting without a row is in some sweep's hand. *)
Decided ==
    crashes = 0 => \A k \in Key : wal.via[k] = "SIGHTING" /\ wal.alert[k] = "NONE" =>
        \E p \in Proc : pc[p] = "admitted" /\ sw[p].cur = k

MInv == (\A p \in Proc : Remembered(p)) /\ db.armed \subseteq wal.armed /\ Decided

(* A step of p, as the other processes see it. *)
Apart(p) ==
    /\ \A q \in Proc \ {p} : pc'[q] = pc[q] /\ sw'[q] = sw[q]
    /\ \A q \in Proc \ {p} : (writer' = q <=> writer = q) /\ (writer = q => wal' = wal)
    /\ db.armed \subseteq db'.armed /\ db'.armed \subseteq wal'.armed
    /\ \A k \in Key : db.via[k] # "ABSENT" => db'.via[k] # "ABSENT"

LEMMA OthersRemember ==
    ASSUME IInv, MInv, NEW p \in Proc, Apart(p), NEW q \in Proc \ {p}
    PROVE  Remembered(q)'
<1>1. Remembered(q) /\ pc'[q] = pc[q] /\ sw'[q] = sw[q] /\ Seen(q) \subseteq Key
  BY DEF MInv, Apart, IInv, TypeOK, Sweep, Seen
<1>2. /\ View(q).armed \subseteq View(q)'.armed
      /\ \A k \in Key : View(q).via[k] # "ABSENT" => View(q)'.via[k] # "ABSENT"
  BY DEF Apart, View
<1>3. writer' = q => writer = q /\ wal' = wal
  BY DEF Apart
<1>4. Seen(q)' = Seen(q) /\ (Silent(q)' <=> Silent(q))
  BY <1>1 DEF Seen, Silent
<1>5. db.armed \subseteq db'.armed
  BY DEF Apart
<1> QED
  BY <1>1, <1>2, <1>3, <1>4, <1>5 DEF Remembered

(* What a write of p makes of the armed sources. *)
LEMMA ArmedBy ==
    ASSUME TypeOK, InHand, NEW p \in Proc
    PROVE  /\ \A via \in {"BASELINE", "SIGHTING"} :
                 Insert(p, via) => wal'.armed = View(p).armed \union sw[p].arming
           /\ RecordSighting(p) => wal'.armed = View(p).armed \union sw[p].arming
           /\ \A state, n : Decide(p, state, n) => wal'.armed = View(p).armed \union sw[p].arming
           /\ Commit(p) => wal'.armed = View(p).armed \union sw[p].arming
           /\ LoseRace(p) => \/ UNCHANGED <<wal, writer>> /\ ~InTransaction(p)
                             \/ writer' = p /\ wal'.armed = View(p).armed \union sw[p].arming
           /\ LoadSources(p) => UNCHANGED <<wal, writer>> \/ wal'.armed = View(p).armed
<1>1. View(p) \in DB /\ Flushed(p) \in DB
  BY FlushedTyped
<1>2. Flushed(p).armed = View(p).armed \union sw[p].arming
  BY <1>1 DEF Flushed, DB
<1>3. ASSUME NEW r \in DB, NEW k, NEW x, NEW y, NEW z
      PROVE  /\ [r EXCEPT !.via[k] = x].armed = r.armed
             /\ [r EXCEPT !.alert[k] = x].armed = r.armed
             /\ [r EXCEPT !.sightings[k] = y, !.alert[k] = x].armed = r.armed
             /\ [r EXCEPT !.rows = z].armed = r.armed
  BY DEF DB
<1>4. \A via \in {"BASELINE", "SIGHTING"} : Insert(p, via) => wal'.armed = Flushed(p).armed
  <2> SUFFICES ASSUME NEW via \in {"BASELINE", "SIGHTING"}, Insert(p, via)
               PROVE  wal'.armed = Flushed(p).armed
    OBVIOUS
  <2> DEFINE rows == [Flushed(p) EXCEPT !.via[sw[p].cur] = via]
  <2>1. rows.armed = Flushed(p).armed /\ WriteInSavepoint(p, rows)
    BY <1>1, <1>3 DEF Insert
  <2> HIDE DEF rows
  <2> QED
    BY <2>1 DEF WriteInSavepoint, Write
<1>5. RecordSighting(p) => wal'.armed = Flushed(p).armed
  BY <1>1, <1>3 DEF RecordSighting, Write
<1>6. \A state, n : Decide(p, state, n) => wal'.armed = Flushed(p).armed
  BY <1>1, <1>3 DEF Decide, Write
<1>7. Commit(p) => wal'.armed = Flushed(p).armed
  BY DEF Commit
<1>8. LoseRace(p) => \/ UNCHANGED <<wal, writer>> /\ ~InTransaction(p)
                     \/ writer' = p /\ wal'.armed = Flushed(p).armed
  BY DEF LoseRace, Write
<1>9. LoadSources(p) => UNCHANGED <<wal, writer>> \/ wal'.armed = View(p).armed
  <2> SUFFICES ASSUME LoadSources(p)
               PROVE  UNCHANGED <<wal, writer>> \/ wal'.armed = View(p).armed
    OBVIOUS
  <2>1. PICK scope \in Scopes :
           UNCHANGED <<wal, writer>> \/ wal' = [View(p) EXCEPT !.rows = @ \union scope]
    BY DEF LoadSources, Write
  <2>2. [View(p) EXCEPT !.rows = @ \union scope].armed = View(p).armed
    BY <1>1 DEF DB
  <2> QED
    BY <2>1, <2>2
<1> QED
  BY <1>2, <1>4, <1>5, <1>6, <1>7, <1>8, <1>9

(* Quiet steps: the rows stay, the memory of one process moves on. *)
LEMMA QuietMemory ==
    ASSUME IInv, MInv, NEW p \in Proc, QuietStep(p)
    PROVE  Apart(p) /\ Remembered(p)' /\ Decided'
<1> USE SentinelAssumption
<1>1. TypeOK /\ InHand /\ pc \in [Proc -> PC] /\ sw \in [Proc -> Sweep] /\ sw[p] \in Sweep
  BY DEF IInv, TypeOK
<1>2. LeavesAlone(p)
  BY <1>1, QuietEffect
<1>3. Apart(p)
  BY <1>2 DEF LeavesAlone, Apart, MInv
<1>4. Decided'
  BY <1>2 DEF LeavesAlone, MInv, Decided
<1>5. UNCHANGED <<db, wal, writer>> /\ View(p)' = View(p) /\ Remembered(p)
  BY <1>2 DEF LeavesAlone, View, MInv
<1> SUFFICES Remembered(p)'
  BY <1>3, <1>4
<1> USE <1>1, <1>5 DEF Remembered, Silent, Working
<1>6. CASE Begin(p) \/ Overlap(p) \/ RecordOverlap(p) \/ OpenRun(p) \/ UnknownSource(p)
              \/ Release(p) \/ Raise(p)
  <2>1. /\ sw' = sw /\ pc[p] # "absent" /\ pc'[p] \notin {"absent", "admitted", "sighted"}
        /\ pc[p] \in Working => pc'[p] \in Working
    BY <1>6 DEF Begin, Overlap, RecordOverlap, OpenRun, UnknownSource, Release, Raise
  <2>2. Seen(p)' = Seen(p)
    BY <2>1 DEF Seen
  <2> QED
    BY <2>1, <2>2
<1>7. CASE LoadKnown(p)
  <2> DEFINE w == [sw[p] EXCEPT !.known = {k \in Key : View(p).via[k] # "ABSENT"}]
  <2>1. sw'[p] = w /\ pc[p] = "loaded" /\ pc'[p] = "sweeping"
    BY <1>7 DEF LoadKnown
  <2>2. /\ w.known = {k \in Key : View(p).via[k] # "ABSENT"}
        /\ \A f \in {"armed", "arming", "catalogue", "items", "cand", "dirty"} : w[f] = sw[p][f]
    BY DEF Sweep
  <2> HIDE DEF w
  <2>3. Seen(p)' \subseteq Seen(p) \union {k \in Key : View(p).via[k] # "ABSENT"}
    BY <2>1, <2>2 DEF Seen
  <2> QED
    BY <2>1, <2>2, <2>3
<1>8. CASE FinishSource(p)
  <2> DEFINE w == sw'[p]
  <2>1. /\ pc[p] = "candidates" /\ pc'[p] = "sweeping" /\ sw[p].cand = {}
        /\ w.armed = sw[p].armed /\ w.known = sw[p].known /\ w.items = {} /\ w.dirty = TRUE
        /\ w.arming = IF Arms(p) THEN sw[p].arming \union {sw[p].src} ELSE sw[p].arming
        /\ w.catalogue = IF Arms(p) THEN sw[p].catalogue \union sw[p].items ELSE sw[p].catalogue
    BY <1>8 DEF FinishSource, Sweep
  <2>2. Arms(p) <=> sw[p].items # {}
    BY DEF Arms
  <2> HIDE DEF w
  <2>3. sw[p].items \subseteq Seen(p)
    BY <2>1 DEF Seen
  <2>4. Seen(p)' \subseteq Seen(p)
    BY <2>1, <2>3 DEF w, Seen
  <2>5. w.arming # {} => w.catalogue # {}
    BY <2>1, <2>2
  <2> QED
    BY <2>1, <2>4, <2>5 DEF w
<1>9. ASSUME NEW s \in Source, NEW outcome, PollFails(p, s, outcome) PROVE Remembered(p)'
  BY <1>9 DEF PollFails, Sweep, Seen
<1>10. ASSUME NEW s \in Source, NEW listed, PollReturns(p, s, listed) PROVE Remembered(p)'
  BY <1>10 DEF PollReturns, Sweep, Seen
<1>11. ASSUME NEW k \in Key, Suppress(p, k) PROVE Remembered(p)'
  BY <1>11 DEF Suppress, Exists, Sweep, Seen
<1>12. ASSUME NEW k \in Key, LookUp(p, k) PROVE Remembered(p)'
  BY <1>12 DEF LookUp, Sweep, Seen
<1> QED
  BY <1>6, <1>7, <1>8, <1>9, <1>10, <1>11, <1>12 DEF QuietStep

(* Writing steps: p sees everything, and leaves its assignments flushed. *)
LEMMA WriteMemory ==
    ASSUME IInv, MInv, NEW p \in Proc, MayWrite(p),
           (writer' = p /\ db' = db) \/ (writer' = Nobody /\ db' = wal'),
           wal'.armed = View(p).armed \union sw[p].arming,
           \A k \in Key : View(p).via[k] # "ABSENT" => wal'.via[k] # "ABSENT",
           \A q \in Proc \ {p} : pc'[q] = pc[q] /\ sw'[q] = sw[q]
    PROVE  /\ Apart(p) /\ View(p)' = wal' /\ View(p) = wal
           /\ sw[p].arming \subseteq wal'.armed
           /\ wal'.armed \subseteq db.armed \union sw[p].arming
<1> USE SentinelAssumption
<1>1. View(p) = wal /\ db.armed \subseteq wal.armed
  BY WriterSeesAll DEF MInv
<1>2. View(p)' = wal'
  BY DEF View
<1>3. \A k \in Key : db.via[k] # "ABSENT" => wal.via[k] # "ABSENT"
  BY DEF IInv, Extending
<1>4. Apart(p)
  BY <1>1, <1>3 DEF Apart, MayWrite
<1>5. wal.armed \subseteq db.armed \union sw[p].arming
  BY DEF MInv, Remembered, IInv, Extending, MayWrite
<1> QED
  BY <1>1, <1>2, <1>4, <1>5

(* The rows of a sweep are written, or committed, with its last one. *)
LEMMA EndMemory ==
    ASSUME IInv, MInv, NEW p \in Proc, CommitStep(p) \/ Crash(p)
    PROVE  Apart(p) /\ Remembered(p)' /\ Decided'
<1> USE SentinelAssumption
<1>1. TypeOK /\ InHand /\ pc \in [Proc -> PC] /\ sw \in [Proc -> Sweep] /\ crashes \in Nat
  BY DEF IInv, TypeOK
<1>2. /\ sw'[p] = NoSweep /\ pc'[p] \in {"closing", "idle"} /\ writer' # p
      /\ \A q \in Proc \ {p} : pc'[q] = pc[q] /\ sw'[q] = sw[q]
  BY <1>1 DEF CommitStep, FinishSweep, CommitUnwound, Commit, Crash
<1>3. Remembered(p)'
  BY <1>2 DEF Remembered, Seen, NoSweep
<1>4. CASE CommitStep(p)
  <2>1. /\ MayWrite(p) /\ writer' = Nobody /\ db' = wal' /\ SameIdentities(wal', View(p))
        /\ wal'.armed = View(p).armed \union sw[p].arming /\ crashes' = crashes
        /\ pc[p] # "admitted"
    BY <1>1, <1>4, CommitEffect, ArmedBy DEF CommitStep, FinishSweep, CommitUnwound
  <2>2. Apart(p) /\ View(p) = wal
    BY <1>2, <2>1, WriteMemory DEF SameIdentities
  <2>3. Decided'
    BY <1>2, <2>1, <2>2 DEF MInv, Decided, SameIdentities
  <2> QED
    BY <1>3, <2>2, <2>3
<1>5. CASE Crash(p)
  <2>1. /\ db' = db /\ crashes' = crashes + 1
        /\ writer' = (IF writer = p THEN Nobody ELSE writer)
        /\ wal' = (IF writer = p THEN db ELSE wal)
    BY <1>5 DEF Crash
  <2>2. Apart(p)
    BY <1>2, <2>1 DEF Apart, MInv
  <2>3. Decided'
    BY <1>1, <2>1 DEF Decided
  <2> QED
    BY <1>3, <2>2, <2>3
<1> QED
  BY <1>4, <1>5

(* The snapshot of the armed sources is taken by a sweep that has written  *)
(* nothing yet: what it sees is what is committed.                         *)
LEMMA LoadMemory ==
    ASSUME IInv, MInv, NEW p \in Proc, LoadSources(p)
    PROVE  Apart(p) /\ Remembered(p)' /\ Decided'
<1> USE SentinelAssumption
<1>1. TypeOK /\ InHand /\ pc \in [Proc -> PC] /\ sw \in [Proc -> Sweep]
  BY DEF IInv, TypeOK
<1>2. /\ pc[p] = "opened" /\ pc'[p] = "loaded" /\ db' = db /\ crashes' = crashes
      /\ \A q \in Proc \ {p} : pc'[q] = pc[q] /\ sw'[q] = sw[q]
  BY <1>1, LoadEffect DEF LoadSources
<1>3. writer # p /\ View(p) = db /\ db.armed \subseteq wal.armed
  BY <1>2 DEF MInv, Remembered, Working, View
<1>4. PICK scope \in Scopes, force \in BOOLEAN, editorial \in EditorialModes :
        \E due \in Due(p, scope, force) :
          sw' = [sw EXCEPT ![p] =
                    [NoSweep EXCEPT !.due = due, !.force = force, !.editorial = editorial,
                                    !.armed = View(p).armed]]
  BY DEF LoadSources
<1>5. /\ sw'[p].armed = db.armed /\ sw'[p].arming = {} /\ sw'[p].catalogue = {}
      /\ sw'[p].known = {} /\ sw'[p].items = {}
  BY <1>1, <1>3, <1>4 DEF NoSweep
<1>6. \/ UNCHANGED <<wal, writer>>
      \/ MayWrite(p) /\ writer' = p /\ SameIdentities(wal', db) /\ wal'.armed = db.armed
  BY <1>1, <1>3, LoadEffect, ArmedBy
<1>7. Remembered(p)'
  BY <1>2, <1>3, <1>5, <1>6 DEF Remembered, Seen, Working
<1>8. Apart(p)
  BY <1>2, <1>3, <1>6 DEF Apart, MayWrite
<1>9. SameIdentities(wal', wal)
  BY <1>3, <1>6, WriterSeesAll DEF SameIdentities
<1>10. Decided'
  BY <1>2, <1>9 DEF MInv, Decided, SameIdentities
<1> QED
  BY <1>7, <1>8, <1>10

(* A lost race: the identity is there, and another process decides on it. *)
LEMMA RaceMemory ==
    ASSUME IInv, MInv, NEW p \in Proc, LoseRace(p)
    PROVE  Apart(p) /\ Remembered(p)' /\ Decided'
<1> USE SentinelAssumption
<1>1. TypeOK /\ InHand /\ pc \in [Proc -> PC] /\ sw \in [Proc -> Sweep] /\ sw[p] \in Sweep
  BY DEF IInv, TypeOK
<1>2. /\ pc[p] = "absent" /\ pc'[p] = "candidates" /\ MayWrite(p) /\ crashes' = crashes
      /\ View(p).via[sw[p].cur] # "ABSENT" /\ db' = db
      /\ \A q \in Proc \ {p} : pc'[q] = pc[q] /\ sw'[q] = sw[q]
  BY <1>1 DEF LoseRace, Taken, Exists, Write
<1>3. PICK touched \in BOOLEAN : sw' = [sw EXCEPT ![p].cur = NoKey, ![p].dirty = touched]
  BY DEF LoseRace
<1>4. /\ sw'[p].armed = sw[p].armed /\ sw'[p].arming = sw[p].arming
      /\ sw'[p].catalogue = sw[p].catalogue /\ sw'[p].known = sw[p].known
      /\ sw'[p].items = sw[p].items /\ sw'[p].cand = sw[p].cand
  BY <1>1, <1>3 DEF Sweep
<1>5. Seen(p)' \subseteq Seen(p) \union {sw[p].cur} /\ Seen(p)' \subseteq Key
  BY <1>1, <1>2, <1>4 DEF Seen, Sweep
<1>6. Remembered(p) /\ db.armed \subseteq wal.armed
  BY DEF MInv
<1>7. CASE UNCHANGED <<wal, writer>> /\ ~InTransaction(p)
  <2>1. View(p)' = View(p) /\ writer # p /\ sw[p].arming \subseteq View(p).armed
    BY <1>2, <1>6, <1>7 DEF View, InTransaction, Remembered
  <2>2. Remembered(p)'
    BY <1>2, <1>4, <1>5, <1>6, <1>7, <2>1 DEF Remembered
  <2>3. Apart(p) /\ Decided'
    BY <1>2, <1>6, <1>7 DEF Apart, MInv, Decided
  <2> QED
    BY <2>2, <2>3
<1>8. CASE wal' = Flushed(p) /\ writer' = p
  <2>1. wal'.armed = View(p).armed \union sw[p].arming /\ SameIdentities(wal', View(p))
    BY <1>1, <1>8, FlushedTyped DEF Flushed, DB, SameIdentities
  <2>2. /\ Apart(p) /\ View(p)' = wal' /\ View(p) = wal
        /\ sw[p].arming \subseteq wal'.armed
        /\ wal'.armed \subseteq db.armed \union sw[p].arming
    BY <1>2, <1>8, <2>1, WriteMemory DEF SameIdentities
  <2>3. Remembered(p)'
    BY <1>2, <1>4, <1>5, <1>6, <1>8, <2>1, <2>2 DEF Remembered, Working, SameIdentities
  <2>4. Decided'
    BY <1>2, <2>1, <2>2 DEF MInv, Decided, SameIdentities
  <2> QED
    BY <2>2, <2>3, <2>4
<1> QED
  BY <1>7, <1>8 DEF LoseRace, Write

(* An admission: what p had in hand is there now, and from the one that is *)
(* no baseline's its process goes on to the sighting row.                  *)
LEMMA AdmitMemory ==
    ASSUME IInv, MInv, NEW p \in Proc, AdmitBaseline(p) \/ AdmitSighting(p)
    PROVE  Apart(p) /\ Remembered(p)' /\ Decided'
<1> USE SentinelAssumption
<1> DEFINE k == sw[p].cur
<1>1. TypeOK /\ InHand /\ pc \in [Proc -> PC] /\ sw \in [Proc -> Sweep] /\ sw[p] \in Sweep
  BY DEF IInv, TypeOK
<1>2. PICK via \in {"BASELINE", "SIGHTING"} :
        /\ Insert(p, via)
        /\ via = "SIGHTING" => pc'[p] = "admitted" /\ sw'[p].cur = k /\ ~Silent(p)
        /\ pc'[p] = "admitted" => via = "SIGHTING"
  BY <1>1 DEF AdmitBaseline, AdmitSighting, Sweep
<1>3. /\ pc[p] = "absent" /\ pc'[p] \in {"candidates", "admitted"} /\ crashes' = crashes
      /\ \A q \in Proc \ {p} : pc'[q] = pc[q] /\ sw'[q] = sw[q]
      /\ sw'[p].armed = sw[p].armed /\ sw'[p].arming = sw[p].arming
      /\ sw'[p].catalogue = sw[p].catalogue /\ sw'[p].known \subseteq sw[p].known \union {k}
      /\ sw'[p].items = sw[p].items /\ sw'[p].cand = sw[p].cand
      /\ sw'[p].force = sw[p].force /\ sw'[p].src = sw[p].src
  BY <1>1 DEF AdmitBaseline, AdmitSighting, Insert, Sweep
<1>4. /\ k \in Key /\ MayWrite(p) /\ wal' \in DB /\ wal'.via = [View(p).via EXCEPT ![k] = via]
      /\ wal'.alert = View(p).alert
      /\ (db' = db /\ writer' = p) \/ (db' = wal' /\ writer' = Nobody)
  BY <1>1, <1>2, InsertEffect
<1>5. wal'.armed = View(p).armed \union sw[p].arming
  BY <1>1, <1>2, ArmedBy
<1>6. View(p).via \in [Key -> Via] /\ View(p).via[k] = "ABSENT"
  BY <1>1, <1>2, FlushedTyped DEF DB, Insert, Taken, Exists
<1>7. Seen(p)' \subseteq Seen(p) \union {k} /\ Seen(p) \subseteq Key
  BY <1>1, <1>3 DEF Seen, Sweep
<1> HIDE DEF k
<1>8. \A j \in Key : /\ View(p).via[j] # "ABSENT" => wal'.via[j] # "ABSENT"
                     /\ wal'.via[k] # "ABSENT"
  BY <1>4, <1>6
<1>9. /\ Apart(p) /\ View(p)' = wal' /\ View(p) = wal
      /\ sw[p].arming \subseteq wal'.armed
      /\ wal'.armed \subseteq db.armed \union sw[p].arming
  BY <1>3, <1>4, <1>5, <1>8, WriteMemory
<1>10. Remembered(p)'
  <2>1. \A j \in Seen(p)' : View(p)'.via[j] # "ABSENT"
    BY <1>4, <1>7, <1>8, <1>9 DEF MInv, Remembered
  <2>2. pc'[p] \in {"admitted", "sighted"} => ~Silent(p)'
    BY <1>2, <1>3 DEF Silent
  <2>3. writer' = p => db' = db
    BY <1>4
  <2>4. db.armed \subseteq db'.armed
    BY <1>9 DEF Apart
  <2> QED
    BY <1>3, <1>9, <2>1, <2>2, <2>3, <2>4 DEF MInv, Remembered, Working
<1>11. Decided'
  <2> SUFFICES ASSUME crashes = 0, NEW j \in Key, wal'.via[j] = "SIGHTING", wal'.alert[j] = "NONE"
               PROVE  \E q \in Proc : pc'[q] = "admitted" /\ sw'[q].cur = j
    BY <1>3 DEF Decided
  <2>1. CASE j = k
    BY <1>2, <1>4, <1>6, <2>1 DEF k
  <2>2. CASE j # k
    <3>1. wal.via[j] = "SIGHTING" /\ wal.alert[j] = "NONE"
      BY <1>4, <1>6, <1>9, <2>2
    <3> QED
      BY <1>3, <3>1 DEF MInv, Decided
  <2> QED
    BY <2>1, <2>2
<1> QED
  BY <1>9, <1>10, <1>11

(* The sighting row, and the verdict. *)
LEMMA SightMemory ==
    ASSUME IInv, MInv, NEW p \in Proc,
           \/ RecordSighting(p)
           \/ \E state \in AlertState, m \in 0..MaxPost : Verdict(p, state, m)
    PROVE  Apart(p) /\ Remembered(p)' /\ Decided'
<1> USE SentinelAssumption
<1> DEFINE k == sw[p].cur
<1>1. TypeOK /\ InHand /\ pc \in [Proc -> PC] /\ sw \in [Proc -> Sweep] /\ sw[p] \in Sweep
  BY DEF IInv, TypeOK
<1>2. PICK state \in AlertState :
        /\ k \in Key /\ MayWrite(p) /\ writer' = p /\ db' = db
        /\ wal'.via = View(p).via /\ wal'.alert = [View(p).alert EXCEPT ![k] = state]
        /\ wal'.armed = View(p).armed \union sw[p].arming
  <2>1. CASE RecordSighting(p)
    <3>1. "SENT" \in AlertState
      BY DEF AlertState
    <3> QED
      BY <1>1, <2>1, <3>1, RecordEffect, ArmedBy
  <2>2. ASSUME NEW state \in AlertState, NEW n, Decide(p, state, n)
        PROVE  /\ k \in Key /\ MayWrite(p) /\ writer' = p /\ db' = db
               /\ wal'.via = View(p).via /\ wal'.alert = [View(p).alert EXCEPT ![k] = state]
               /\ wal'.armed = View(p).armed \union sw[p].arming
    BY <1>1, <2>2, DecideEffect, ArmedBy
  <2> QED
    BY <2>1, <2>2 DEF Verdict
<1>3. /\ pc[p] \in {"admitted", "sighted"} /\ pc'[p] \in {"sighted", "candidates"}
      /\ crashes' = crashes /\ \A q \in Proc \ {p} : pc'[q] = pc[q] /\ sw'[q] = sw[q]
      /\ sw'[p].armed = sw[p].armed /\ sw'[p].arming = sw[p].arming
      /\ sw'[p].catalogue = sw[p].catalogue /\ sw'[p].known = sw[p].known
      /\ sw'[p].items = sw[p].items /\ sw'[p].cand = sw[p].cand
      /\ sw'[p].force = sw[p].force /\ sw'[p].src = sw[p].src
  <2>1. CASE RecordSighting(p)
    BY <1>1, <2>1 DEF RecordSighting, Sweep
  <2>2. ASSUME NEW s, NEW n, Decide(p, s, n)
        PROVE  /\ pc[p] = "sighted" /\ pc'[p] = "candidates" /\ crashes' = crashes
               /\ \A q \in Proc \ {p} : pc'[q] = pc[q] /\ sw'[q] = sw[q]
               /\ sw'[p].armed = sw[p].armed /\ sw'[p].arming = sw[p].arming
               /\ sw'[p].catalogue = sw[p].catalogue /\ sw'[p].known = sw[p].known
               /\ sw'[p].items = sw[p].items /\ sw'[p].cand = sw[p].cand
               /\ sw'[p].force = sw[p].force /\ sw'[p].src = sw[p].src
    BY <1>1, <2>2 DEF Decide, Sweep
  <2> QED
    BY <2>1, <2>2 DEF Verdict
<1>4. Seen(p)' = Seen(p) /\ Seen(p) \subseteq Key /\ (Silent(p)' <=> Silent(p))
  BY <1>1, <1>3 DEF Seen, Silent, Sweep
<1>5. View(p).alert \in [Key -> AlertState \union {"NONE"}] /\ state # "NONE"
  BY <1>1, FlushedTyped DEF DB, AlertState
<1> HIDE DEF k
<1>6. /\ Apart(p) /\ View(p)' = wal' /\ View(p) = wal
      /\ sw[p].arming \subseteq wal'.armed
      /\ wal'.armed \subseteq db.armed \union sw[p].arming
  BY <1>2, <1>3, WriteMemory
<1>7. Remembered(p)'
  BY <1>2, <1>3, <1>4, <1>6 DEF MInv, Remembered, Working
<1>8. Decided'
  <2> SUFFICES ASSUME crashes = 0, NEW j \in Key, wal'.via[j] = "SIGHTING", wal'.alert[j] = "NONE"
               PROVE  \E q \in Proc : pc'[q] = "admitted" /\ sw'[q].cur = j
    BY <1>3 DEF Decided
  <2>1. j # k /\ wal.via[j] = "SIGHTING" /\ wal.alert[j] = "NONE"
    BY <1>2, <1>5, <1>6
  <2>2. PICK q \in Proc : pc[q] = "admitted" /\ sw[q].cur = j
    BY <2>1 DEF MInv, Decided
  <2> QED
    BY <1>3, <2>1, <2>2 DEF k
<1> QED
  BY <1>6, <1>7, <1>8

LEMMA NextMemory ==
    ASSUME IInv, MInv, Next
    PROVE  MInv' /\ \E p \in Proc : Apart(p)
<1>1. PICK p \in Proc : Apart(p) /\ Remembered(p)' /\ Decided'
  BY Kinds, QuietMemory, EndMemory, LoadMemory, RaceMemory, AdmitMemory, SightMemory DEF IInv
<1>2. db'.armed \subseteq wal'.armed
  BY <1>1 DEF Apart
<1> QED
  BY <1>1, <1>2, OthersRemember DEF MInv

THEOREM TrueMemory == Spec => [](IInv /\ MInv)
<1>1. ASSUME Init PROVE MInv
  BY <1>1, SentinelAssumption
  DEF Init, MInv, Remembered, Seen, Decided, View, NoSweep, EmptyDB
<1>2. ASSUME IInv, MInv, [Next]_vars PROVE MInv'
  <2>1. CASE UNCHANGED vars
    BY <1>2, <2>1 DEF vars, MInv, Remembered, Seen, Silent, View, Decided
  <2> QED
    BY <1>2, <2>1, NextMemory
<1> QED
  BY <1>1, <1>2, Inductive, PTL DEF Spec

(* Only an alert that is delivered leaves a message. *)
LEMMA Pinging ==
    ASSUME Next, pings' # pings
    PROVE  \E p \in Proc : SendAccepted(p) \/ SendFailed(p)
<1>1. PICK p \in Proc : Begin(p) \/ Overlap(p) \/ SweepStep(p) \/ Raise(p) \/ Crash(p)
  BY DEF Next
<1>2. ~Begin(p) /\ ~Overlap(p) /\ ~Raise(p) /\ ~Crash(p)
  BY DEF Begin, Overlap, Raise, Crash
<1>3. ~OpenRun(p) /\ ~RecordOverlap(p) /\ ~UnknownSource(p) /\ ~LoadSources(p) /\ ~LoadKnown(p)
      /\ ~RecordSighting(p) /\ ~FinishSource(p) /\ ~FinishSweep(p) /\ ~Release(p)
      /\ ~CommitUnwound(p)
  BY DEF OpenRun, RecordOverlap, UnknownSource, LoadSources, LoadKnown, RecordSighting,
         FinishSource, FinishSweep, Release, CommitUnwound
<1>4. ~Poll(p)
  BY DEF Poll, PollFails, PollReturns
<1>5. ~Candidate(p)
  BY DEF Candidate, Suppress, LookUp, AdmitBaseline, AdmitSighting, LoseRace
<1>6. ~Cap(p) /\ ~Disable(p)
  BY DEF Cap, Disable
<1> QED
  BY <1>1, <1>2, <1>3, <1>4, <1>5, <1>6 DEF SweepStep, Alert

(* A message is only sent for an identity nothing was decided on, by a     *)
(* sweep of a source the database holds as armed: the snapshot a sweep is  *)
(* silent by is never ahead of what is committed (runner.py:3-8).          *)
THEOREM NeverOnABaseline == Spec => PingsOnlyWhenArmed
<1> DEFINE Allowed == \A k \in Key : pings'[k] # pings[k] =>
               /\ db.via[k] # "BASELINE" /\ db.alert[k] = "NONE"
               /\ \E p \in Proc : /\ sw[p].cur = k /\ sw[p].src \in db.armed
                                 /\ ~sw[p].force /\ sw[p].editorial
<1>1. ASSUME IInv, MInv, Next, NEW k \in Key, pings'[k] # pings[k]
      PROVE  /\ db.via[k] # "BASELINE" /\ db.alert[k] = "NONE"
             /\ \E p \in Proc : /\ sw[p].cur = k /\ sw[p].src \in db.armed
                               /\ ~sw[p].force /\ sw[p].editorial
  <2>1. PICK p \in Proc : SendAccepted(p) \/ SendFailed(p)
    BY <1>1, Pinging
  <2>2. /\ sw[p].editorial /\ pc[p] = "sighted"
        /\ \E n \in Nat : pings' = [pings EXCEPT ![sw[p].cur] = @ + n]
    BY <2>1, SentinelAssumption DEF SendAccepted, SendFailed, Decide, Posted
  <2>3. sw[p].cur = k
    BY <1>1, <2>2 DEF IInv, TypeOK
  <2>4. wal.sightings[k] = 1 /\ db.sightings[k] = 0
    BY <1>1, <2>2, <2>3 DEF IInv, Sighting
  <2>5. db.alert[k] = "NONE" /\ db.via[k] # "BASELINE"
    BY <1>1, <2>4 DEF IInv, Consistent, Extending
  <2>6. ~sw[p].force /\ sw[p].src \in db.armed
    BY <1>1, <2>2 DEF MInv, Remembered, Silent
  <2> QED
    BY <2>2, <2>3, <2>5, <2>6
<1>2. IInv /\ MInv /\ [Next]_vars => [Allowed]_vars
  BY <1>1
<1> QED
  BY <1>2, TrueMemory, PTL DEF Spec, PingsOnlyWhenArmed

(* A source becomes armed by the commit that makes durable what the arming *)
(* polls listed; the commit a first savepoint is by accident arms nothing  *)
(* (runner.py:246-254).                                                    *)
THEOREM ArmedWithItsCatalogue == Spec => ArmedOnAKnownCatalogue
<1> DEFINE Allowed == db'.armed # db.armed =>
               \E p \in Proc : /\ db'.armed \ db.armed \subseteq sw[p].arming
                               /\ sw[p].catalogue # {}
                               /\ \A k \in sw[p].catalogue : db'.via[k] # "ABSENT"
<1>1. ASSUME IInv, MInv, Next, db'.armed # db.armed
      PROVE  \E p \in Proc : /\ db'.armed \ db.armed \subseteq sw[p].arming
                            /\ sw[p].catalogue # {}
                            /\ \A k \in sw[p].catalogue : db'.via[k] # "ABSENT"
  <2> USE SentinelAssumption
  <2>1. TypeOK /\ InHand
    BY <1>1 DEF IInv
  <2>2. ASSUME NEW p \in Proc, QuietStep(p) \/ LoadSources(p) \/ LoseRace(p)
                                \/ RecordSighting(p) \/ Crash(p)
        PROVE  FALSE
    BY <1>1, <2>1, <2>2, QuietEffect, LoadEffect, RecordEffect
       DEF LeavesAlone, LoseRace, Write, Crash
  <2>3. ASSUME NEW p \in Proc, NEW state \in AlertState, NEW m \in 0..MaxPost,
               Verdict(p, state, m)
        PROVE  FALSE
    BY <1>1, <2>1, <2>3, DecideEffect DEF Verdict
  <2>4. ASSUME NEW p \in Proc, AdmitBaseline(p) \/ AdmitSighting(p) PROVE FALSE
    <3>1. PICK via \in {"BASELINE", "SIGHTING"} : Insert(p, via)
      BY <2>4 DEF AdmitBaseline, AdmitSighting
    <3>2. db' = wal' /\ ~InTransaction(p)
      BY <1>1, <3>1 DEF Insert, WriteInSavepoint, Write
    <3>3. sw[p].arming \subseteq View(p).armed /\ View(p) = db
      BY <1>1, <3>2 DEF InTransaction, MInv, Remembered, View
    <3>4. wal'.armed = View(p).armed \union sw[p].arming
      BY <2>1, <3>1, ArmedBy
    <3> QED
      BY <1>1, <3>2, <3>3, <3>4
  <2>5. ASSUME NEW p \in Proc, CommitStep(p)
        PROVE  /\ db'.armed \ db.armed \subseteq sw[p].arming
               /\ sw[p].catalogue # {}
               /\ \A k \in sw[p].catalogue : db'.via[k] # "ABSENT"
    <3>1. /\ MayWrite(p) /\ writer' = Nobody /\ db' = wal' /\ SameIdentities(wal', View(p))
          /\ wal'.armed = View(p).armed \union sw[p].arming
      BY <2>1, <2>5, CommitEffect, ArmedBy DEF CommitStep, FinishSweep, CommitUnwound
    <3>2. \A q \in Proc \ {p} : pc'[q] = pc[q] /\ sw'[q] = sw[q]
      BY <2>1, <2>5 DEF CommitStep, FinishSweep, CommitUnwound, TypeOK
    <3>3. Apart(p) /\ wal'.armed \subseteq db.armed \union sw[p].arming
      BY <1>1, <3>1, <3>2, WriteMemory DEF SameIdentities
    <3>4. sw[p].arming # {}
      BY <1>1, <3>1, <3>3 DEF Apart
    <3>5. Remembered(p) /\ sw[p].catalogue \subseteq Seen(p)
      BY <1>1 DEF MInv, Seen
    <3> QED
      BY <3>1, <3>3, <3>4, <3>5 DEF Remembered, SameIdentities
  <2> QED
    BY <1>1, <2>1, <2>2, <2>3, <2>4, <2>5, Kinds
<1>2. IInv /\ MInv /\ [Next]_vars => [Allowed]_vars
  BY <1>1
<1> QED
  BY <1>2, TrueMemory, PTL DEF Spec, ArmedOnAKnownCatalogue

(* Nothing is silently lost: when no process died and no sweep goes on, no *)
(* transaction is open and every sighting has its verdict (alerting.py:10). *)
THEOREM NothingUndecided == Spec => []SightingsAreDecided
<1>1. ASSUME IInv, MInv PROVE SightingsAreDecided
  <2> SUFFICES ASSUME crashes = 0, \A p \in Proc : pc[p] \in {"idle", "skipping"},
                      NEW k \in Key, db.via[k] = "SIGHTING"
               PROVE  db.alert[k] # "NONE"
    BY DEF SightingsAreDecided
  <2>1. writer = Nobody
    BY <1>1 DEF IInv, TypeOK, MInv, Remembered, Working
  <2>2. wal = db
    BY <1>1, <2>1 DEF IInv, Extending
  <2> QED
    BY <1>1, <2>2 DEF MInv, Decided
<1> QED
  BY <1>1, TrueMemory, PTL
=============================================================================

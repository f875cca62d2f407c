------------------------------- MODULE Leads --------------------------------
(***************************************************************************)
(* Specialist leads (app/services/specialist_leads.py): early warnings     *)
(* from fan sites and publications, and the follow-up when the official    *)
(* watch appears.                                                          *)
(*                                                                         *)
(* A run of a lane is one database transaction: leads are inserted and     *)
(* announced to Discord one by one, pending leads are compared with the    *)
(* catalogue, matches are announced as well, and only then is anything     *)
(* committed.  SQLite has one writer; a lane becomes it with its first     *)
(* INSERT or UPDATE and until then reads what others have committed.  The  *)
(* lanes hold different run locks and do run at the same time.             *)
(*                                                                         *)
(* The run lock itself is RunLock's subject; a lane here is whoever holds  *)
(* it.  A run whose feed cannot be read writes nothing about leads and is  *)
(* left out.                                                               *)
(***************************************************************************)
EXTENDS Naturals, FiniteSets

CONSTANTS Standing,     \* lanes that correlate their makers in every run
          Publication,  \* lanes that correlate the makers of their new leads
          Manual,       \* operators that paste one lead
          Url, Ref, Watch, Maker,
          Makers,       \* makers of each standing lane
          MakerOf,      \* of each url
          RefsOf,       \* reference candidates of each url
          Exact,        \* watches whose reference is a candidate of the url
          Family,       \* watches whose family root is one
          Stale,        \* urls whose publication date is not FRESH
          Weak,         \* urls below the early-warning confidence
          Feeds,        \* what each lane's feed may show in a run
          Configs,      \* the settings of each lane's runs
          MaxFaults,    \* bound of the model: lost runs and lost answers
          NoUrl, Nobody

Lane == Standing \union Publication \union Manual

(* editorial_notifications_enabled, the webhook, and whether the run is    *)
(* baseline (epoch baseline, or force_baseline of a publication run).      *)
Config == [discord : {"on", "off", "nohook"}, baseline : BOOLEAN]

ASSUME LeadsAssumption ==
    /\ Makers \in [Standing -> SUBSET Maker]
    /\ MakerOf \in [Url -> Maker]
    /\ RefsOf \in [Url -> SUBSET Ref]
    /\ Exact \in [Url -> SUBSET Watch] /\ Family \in [Url -> SUBSET Watch]
    /\ Stale \subseteq Url /\ Weak \subseteq Url
    /\ Feeds \in [Lane -> SUBSET SUBSET Url]
    /\ \A l \in Manual : \A items \in Feeds[l] : Cardinality(items) = 1
    /\ Configs \in [Lane -> SUBSET Config]
    /\ MaxFaults \in Nat
    /\ NoUrl \notin Url /\ Nobody \notin Lane

VARIABLES leads,      \* what is committed about each url
          draft,      \* what the writer sees
          writer,     \* the lane that holds SQLite's write lock
          watches,    \* the official catalogue
          pc, config, \* where each run is, and its settings
          todo,       \* feed items not yet looked at
          seen,       \* the item a run is about to insert
          created,    \* leads a run inserted
          makers,     \* makers a run has still to correlate
          matched,    \* correlations a run found
          due,        \* follow-ups it has still to consider
          sent,       \* a follow-up that is posted but not yet recorded
          warned,     \* early warnings Discord shows for each reference
          followUps,  \* follow-ups Discord shows for each lead
          faults

vars == <<leads, draft, writer, watches, pc, config, todo, seen, created, makers,
          matched, due, sent, warned, followUps, faults>>

(* provider_accepted and provider_identified are one state here.           *)
Terminal == {"gated", "failed", "accepted"}
Kind == {"none", "family", "exact"}

Lead == [exists : BOOLEAN,
         outcome : Terminal \union {"unresolved"},
         notified : BOOLEAN,     \* notified_at
         baseline : BOOLEAN,     \* is_baseline
         match : Kind,           \* correlation_type
         followed : {"never", "failed", "done"}]  \* its correlation receipt

NoLead == [exists |-> FALSE, outcome |-> "unresolved", notified |-> FALSE,
           baseline |-> FALSE, match |-> "none", followed |-> "never"]

NoMatch == [u \in Url |-> "none"]
NotSent == [url |-> NoUrl, answer |-> "failed"]

TypeOK ==
    /\ leads \in [Url -> Lead] /\ draft \in [Url -> Lead]
    /\ writer \in Lane \union {Nobody}
    /\ watches \subseteq Watch
    /\ pc \in [Lane -> {"idle", "running", "closing"}]
    /\ config \in [Lane -> Config]
    /\ todo \in [Lane -> SUBSET Url] /\ due \in [Lane -> SUBSET Url]
    /\ created \in [Lane -> SUBSET Url]
    /\ seen \in [Lane -> Url \union {NoUrl}]
    /\ makers \in [Lane -> SUBSET Maker]
    /\ matched \in [Lane -> [Url -> Kind]]
    /\ sent \in [Lane -> [url : Url \union {NoUrl}, answer : Terminal]]
    /\ warned \in [Ref -> Nat] /\ followUps \in [Url -> Nat]
    /\ faults \in 0..MaxFaults

Init ==
    /\ leads = [u \in Url |-> NoLead] /\ draft = leads
    /\ writer = Nobody
    /\ watches = {}
    /\ pc = [l \in Lane |-> "idle"]
    /\ config = [l \in Lane |-> [discord |-> "off", baseline |-> FALSE]]
    /\ todo = [l \in Lane |-> {}] /\ due = todo /\ created = todo
    /\ seen = [l \in Lane |-> NoUrl]
    /\ makers = [l \in Lane |-> {}]
    /\ matched = [l \in Lane |-> NoMatch]
    /\ sent = [l \in Lane |-> NotSent]
    /\ warned = [r \in Ref |-> 0] /\ followUps = [u \in Url |-> 0]
    /\ faults = 0

-----------------------------------------------------------------------------
(* The database as a lane sees it *)

View(l) == IF writer = l THEN draft ELSE leads

MayWrite(l) == writer \in {l, Nobody}

-----------------------------------------------------------------------------
(* Delivery outcomes *)

(* An answer: accepted, not posted, or posted while the provider's answer  *)
(* is lost, which the notifier reports as a failure.                       *)
Answer == {"accepted", "failed", "lost"}

Posted(answer) == answer # "failed"
Reported(answer) == IF answer = "lost" THEN "failed" ELSE answer

Counted(answer) ==
    /\ answer = "lost" => faults < MaxFaults
    /\ faults' = IF answer = "lost" THEN faults + 1 ELSE faults

(* record_lead_delivery_outcome: the first terminal state wins.            *)
Recorded_LastWins(old, new) == new
Recorded_FirstWins(old, new) == old
Recorded(old, new) ==
    IF old = "unresolved" THEN new ELSE old

(* _notify_new_lead_inner.  Keys another notified lead was announced with. *)
Alerted(leadsNow, u) ==
    UNION {RefsOf[v] : v \in {v \in Url \ {u} : leadsNow[v].notified /\ v \notin Stale}}

Eligible_All(leadsNow, u) == RefsOf[u]
Eligible(leadsNow, u) == RefsOf[u] \ Alerted(leadsNow, u)

Gated(l, u, leadsNow) ==
    \/ config[l].discord = "off"
    \/ config[l].baseline
    \/ u \in Stale \/ u \in Weak
    \/ RefsOf[u] # {} /\ Eligible(leadsNow, u) = {}

(* notify_new_lead: what the new lead u becomes, and what is posted.       *)
NotifyNewLead(l, u, leadsNow, answer) ==
    LET gate == Gated(l, u, leadsNow)
        sends == ~gate /\ config[l].discord = "on"
        outcome == IF gate THEN "gated" ELSE IF sends THEN Reported(answer) ELSE "failed"
    IN  /\ ~sends => answer = "failed"
        /\ Counted(answer)
        /\ warned' = [r \in Ref |-> IF sends /\ Posted(answer) /\ r \in Eligible(leadsNow, u)
                                    THEN warned[r] + 1 ELSE warned[r]]
        /\ draft' = [leadsNow EXCEPT ![u] =
               [exists |-> TRUE, outcome |-> Recorded("unresolved", outcome),
                notified |-> outcome = "accepted",
                baseline |-> config[l].baseline, match |-> "none", followed |-> "never"]]

-----------------------------------------------------------------------------
(* A run *)

(* The lock is held, the RUNNING row committed and the feed parsed.  An    *)
(* operator's lead is one item; only a publication run can be forced to be *)
(* a baseline, all are one while the epoch's baseline lasts.               *)
Begin(l) ==
    /\ pc[l] = "idle"
    /\ \E items \in Feeds[l], c \in Configs[l] :
           /\ todo' = [todo EXCEPT ![l] = items]
           /\ config' = [config EXCEPT ![l] = c]
    /\ makers' = [makers EXCEPT ![l] = IF l \in Standing THEN Makers[l] ELSE {}]
    /\ pc' = [pc EXCEPT ![l] = "running"]
    /\ UNCHANGED <<leads, draft, writer, watches, seen, created, matched, due, sent,
                   warned, followUps, faults>>

(* The first half of ingest_candidate: is the url already a lead?          *)
LookUp(l, u) ==
    /\ pc[l] = "running" /\ seen[l] = NoUrl /\ u \in todo[l]
    /\ todo' = [todo EXCEPT ![l] = @ \ {u}]
    /\ seen' = [seen EXCEPT ![l] = IF View(l)[u].exists THEN NoUrl ELSE u]
    /\ UNCHANGED <<leads, draft, writer, watches, pc, config, created, makers, matched,
                   due, sent, warned, followUps, faults>>

(* The second half: the INSERT, which makes the lane the writer, and the   *)
(* early warning.  The url may have been committed by another lane since.  *)
Ingest(l, answer) ==
    /\ seen[l] # NoUrl /\ MayWrite(l)
    /\ ~View(l)[seen[l]].exists
    /\ writer' = l
    /\ NotifyNewLead(l, seen[l], View(l), answer)
    /\ created' = [created EXCEPT ![l] = @ \union {seen[l]}]
    /\ makers' = [makers EXCEPT ![l] = IF l \in Publication THEN @ \union {MakerOf[seen[l]]}
                                       ELSE @]
    /\ seen' = [seen EXCEPT ![l] = NoUrl]
    /\ UNCHANGED <<leads, watches, pc, config, todo, matched, due, sent, followUps>>

Ingested(l) == pc[l] = "running" /\ todo[l] = {} /\ seen[l] = NoUrl

-----------------------------------------------------------------------------
(* Correlation *)

(* An exact match is preferred to one of the family.                       *)
MatchOf(u) ==
    IF RefsOf[u] = {} THEN "none"
    ELSE IF Exact[u] \cap watches # {} THEN "exact"
    ELSE IF Family[u] \cap watches # {} THEN "family"
    ELSE "none"

Unconfirmed(l) == {u \in Url : View(l)[u].exists /\ View(l)[u].match = "none"}

(* correlate_pending_leads for one maker: whoever collected the lead.      *)
Correlated_OwnLeads(l, m) ==
    {u \in Unconfirmed(l) \cap created[l] : MakerOf[u] = m /\ MatchOf(u) # "none"}
Correlated(l, m) == {u \in Unconfirmed(l) : MakerOf[u] = m /\ MatchOf(u) # "none"}

Correlate(l, m) ==
    /\ Ingested(l) /\ due[l] = {} /\ sent[l] = NotSent
    /\ m \in makers[l]
    /\ makers' = [makers EXCEPT ![l] = @ \ {m}]
    /\ due' = [due EXCEPT ![l] = Correlated(l, m)]
    /\ matched' = [matched EXCEPT ![l] =
           [u \in Url |-> IF u \in Correlated(l, m) THEN MatchOf(u) ELSE @[u]]]
    /\ UNCHANGED <<leads, draft, writer, watches, pc, config, todo, seen, created, sent,
                   warned, followUps, faults>>

(* What notify_correlation decides before it would send.                   *)
FollowUpGate(l, u) ==
    IF config[l].discord = "off" \/ View(l)[u].baseline \/ u \in Stale THEN "gated"
    ELSE IF config[l].discord = "nohook" THEN "failed"
    ELSE "open"

AlreadyFollowed(l, u) == View(l)[u].followed = "done"

(* notify_correlation: gates, the receipt that would refuse a second post, *)
(* the post.                                                               *)
FollowUp(l, u, answer) ==
    LET sends == FollowUpGate(l, u) = "open" /\ ~AlreadyFollowed(l, u)
    IN  /\ u \in due[l] /\ sent[l] = NotSent
        /\ ~sends => answer = "failed"
        /\ Counted(answer)
        /\ due' = [due EXCEPT ![l] = @ \ {u}]
        /\ sent' = [sent EXCEPT ![l] = IF sends THEN [url |-> u, answer |-> Reported(answer)]
                                       ELSE NotSent]
        /\ followUps' = IF sends /\ Posted(answer)
                        THEN [followUps EXCEPT ![u] = @ + 1] ELSE followUps
        /\ UNCHANGED <<leads, draft, writer, watches, pc, config, todo, seen, created,
                       makers, matched, warned>>

(* The matches and the gates' outcomes, written with the run's next flush. *)
Flushed(l) ==
    [u \in Url |->
        IF matched[l][u] = "none" THEN View(l)[u]
        ELSE [View(l)[u] EXCEPT
                !.match = matched[l][u],
                !.outcome = IF u \in due[l] \/ FollowUpGate(l, u) = "open" THEN @
                            ELSE Recorded(@, FollowUpGate(l, u))]]

(* DeliveryReceiptService.record: inserts the receipt or overwrites it.    *)
RecordFollowUp(l) ==
    LET u == sent[l].url
        state == IF sent[l].answer = "failed" THEN "failed" ELSE "done"
    IN  /\ sent[l] # NotSent /\ MayWrite(l)
        /\ writer' = l
        /\ draft' = [Flushed(l) EXCEPT
               ![u].followed = state,
               ![u].outcome = IF @ = "unresolved" THEN sent[l].answer ELSE @]
        /\ sent' = [sent EXCEPT ![l] = NotSent]
        /\ UNCHANGED <<leads, watches, pc, config, todo, seen, created, makers, matched,
                       due, warned, followUps, faults>>

-----------------------------------------------------------------------------
(* The end of a run *)

Forget(l) ==
    /\ todo' = [todo EXCEPT ![l] = {}] /\ due' = [due EXCEPT ![l] = {}]
    /\ seen' = [seen EXCEPT ![l] = NoUrl] /\ makers' = [makers EXCEPT ![l] = {}]
    /\ matched' = [matched EXCEPT ![l] = NoMatch] /\ sent' = [sent EXCEPT ![l] = NotSent]
    /\ config' = [config EXCEPT ![l] = [discord |-> "off", baseline |-> FALSE]]

(* The run's session.commit(); one with nothing to write needs no lock.    *)
Commit(l) ==
    /\ Ingested(l) /\ makers[l] = {} /\ due[l] = {} /\ sent[l] = NotSent
    /\ Flushed(l) # leads => MayWrite(l)
    /\ leads' = Flushed(l)
    /\ draft' = IF MayWrite(l) THEN Flushed(l) ELSE draft
    /\ writer' = IF writer = l THEN Nobody ELSE writer
    /\ Forget(l)
    /\ created' = IF l \in Manual THEN [created EXCEPT ![l] = {}] ELSE created
    /\ pc' = [pc EXCEPT ![l] = IF l \in Manual THEN "idle" ELSE "closing"]
    /\ UNCHANGED <<watches, warned, followUps, faults>>

(* ensure_run_leads_have_outcomes with the run's terminal row.             *)
Close(l) ==
    /\ pc[l] = "closing" /\ writer = Nobody
    /\ leads' = [u \in Url |-> IF u \in created[l] /\ leads[u].outcome = "unresolved"
                               THEN [leads[u] EXCEPT !.outcome = "failed"] ELSE leads[u]]
    /\ draft' = leads'
    /\ created' = [created EXCEPT ![l] = {}]
    /\ pc' = [pc EXCEPT ![l] = "idle"]
    /\ UNCHANGED <<writer, watches, config, todo, seen, makers, matched, due, sent, warned,
                   followUps, faults>>

(* Everything the transaction wrote is undone, everything it posted stays. *)
Undone(l) ==
    /\ draft' = IF writer = l THEN leads ELSE draft
    /\ writer' = IF writer = l THEN Nobody ELSE writer
    /\ Forget(l)
    /\ created' = [created EXCEPT ![l] = {}]
    /\ pc' = [pc EXCEPT ![l] = "idle"]
    /\ UNCHANGED <<leads, watches, warned, followUps>>

(* The INSERT meets a url that was committed after it was looked up.       *)
Collide(l) ==
    /\ seen[l] # NoUrl /\ MayWrite(l) /\ View(l)[seen[l]].exists
    /\ Undone(l)
    /\ UNCHANGED faults

(* A run raises (a locked database, a receipt inserted twice), or dies.    *)
Lose(l) ==
    /\ pc[l] # "idle" /\ faults < MaxFaults
    /\ faults' = faults + 1
    /\ Undone(l)

(* A catalogue lane adds an official watch.                                *)
AddWatch(w) ==
    /\ w \notin watches
    /\ watches' = watches \union {w}
    /\ UNCHANGED <<leads, draft, writer, pc, config, todo, seen, created, makers, matched,
                   due, sent, warned, followUps, faults>>

IngestStep(l) ==
    \/ \E u \in Url : LookUp(l, u)
    \/ \E answer \in Answer : Ingest(l, answer)
    \/ Collide(l)

(* The follow-ups of every maker a run correlates.                         *)
CorrelateStep(l) ==
    \/ \E m \in Maker : Correlate(l, m)
    \/ \E u \in Url, answer \in Answer : FollowUp(l, u, answer)
    \/ RecordFollowUp(l)

RunStep(l) == IngestStep(l) \/ CorrelateStep(l) \/ Commit(l) \/ Close(l)

StandingRun(l) == l \in Standing /\ (Begin(l) \/ RunStep(l))
PublicationRun(l) == l \in Publication /\ (Begin(l) \/ RunStep(l))
ManualLead(l) == l \in Manual /\ (Begin(l) \/ IngestStep(l) \/ Commit(l))

Next ==
    \/ \E l \in Lane : StandingRun(l) \/ PublicationRun(l) \/ ManualLead(l) \/ Lose(l)
    \/ \E w \in Watch : AddWatch(w)

Spec == Init /\ [][Next]_vars

(* Standing lanes are started by their timers for ever, and a run that was *)
(* started goes on: nothing in it waits except for the write lock, which   *)
(* its holder releases by going on as well.                                *)
FairSpec ==
    /\ Spec
    /\ \A l \in Standing : WF_vars(StandingRun(l))
    /\ \A l \in Publication \union Manual : WF_vars(RunStep(l))

-----------------------------------------------------------------------------
(* Properties *)

(* A committed lead says what became of its early warning                  *)
(* (models/specialist_lead.py: no lead may stay in the provisional state). *)
EveryLeadHasAnOutcome ==
    \A u \in Url : leads[u].exists => leads[u].outcome \in Terminal

(* No reference is announced twice as an early warning, in whatever lanes  *)
(* and leads it appears, except once for each run whose transaction was    *)
(* lost after it had posted and each answer that was lost; and a lead that *)
(* counts as announced leaves none of its references unannounced (the      *)
(* duplicate gate of _notify_new_lead_inner and the remainder it posts).   *)
OneWarningPerReference ==
    /\ \A r \in Ref : warned[r] <= 1 + faults
    /\ \A u \in Url : leads[u].notified => \A r \in RefsOf[u] : warned[r] > 0

(* What is committed about a lead is final: later runs of other lanes,     *)
(* with other settings, neither lose the lead nor reopen its correlation   *)
(* nor rewrite the outcome of its early warning (notify_correlation:       *)
(* "Early-warning delivery_state is not overwritten").                     *)
LeadsAreFinal ==
    [][\A u \in Url : leads[u].exists =>
           /\ leads'[u].exists
           /\ leads'[u].outcome = leads[u].outcome
           /\ leads[u].notified => leads'[u].notified
           /\ leads[u].match # "none" => leads'[u].match # "none"]_vars

(* A lead of a maker with a standing lane is correlated once its watch is  *)
(* in the catalogue, whoever collected it and whichever runs are lost.     *)
MatchesAreFound ==
    \A u \in Url :
        (leads[u].exists /\ MatchOf(u) # "none"
         /\ MakerOf[u] \in UNION {Makers[l] : l \in Standing})
        ~> leads[u].match # "none"

(* models/delivery.py: a second delivery of the same alert can be          *)
(* recognised and refused instead of double-posting.                       *)
FollowedUpOnce ==
    \A u \in Url : followUps[u] <= 1 + faults
=============================================================================

---------------------------- MODULE Leads_proofs ----------------------------
(***************************************************************************)
(* Proofs about Leads for any lanes, urls, references, makers, feeds and   *)
(* settings, and any number of lost runs and lost answers.                 *)
(***************************************************************************)
EXTENDS Leads, TLAPS

(* A run that has follow-ups to consider, or one to record, is past its    *)
(* feed.                                                                   *)
FeedFirst ==
    \A l \in Lane : due[l] # {} \/ sent[l] # NotSent => Ingested(l)

(* Only the writer sees anything but what is committed, and the lead it is *)
(* about to insert is new to it: it can only collide with the lead of      *)
(* another lane while it has written, and so announced, nothing itself.    *)
WriterAhead ==
    /\ writer = Nobody => draft = leads
    /\ \A l \in Lane : writer = l /\ seen[l] # NoUrl => ~draft[seen[l]].exists

(* What any database the code sees says about a lead.                      *)
Decided(db) ==
    \A u \in Url :
        /\ db[u].exists => db[u].outcome \in Terminal
        /\ db[u].notified => db[u].exists /\ u \notin Stale

(* What one lead keeps of another version of it.                           *)
Keeps(old, new) ==
    old.exists =>
        /\ new.exists
        /\ new.outcome = old.outcome
        /\ old.notified => new.notified
        /\ old.match # "none" => new.match # "none"

(* The writer adds to what is committed and takes nothing back.            *)
DraftExtends == \A u \in Url : Keeps(leads[u], draft[u])

(* A reference counts as announced in a database by the lead it was        *)
(* announced with.  Every warning Discord shows is the one that lead       *)
(* stands for, or a lost run or a lost answer accounts for it.             *)
Announced(db, r) == \E u \in Url : db[u].notified /\ r \in RefsOf[u]

WarningsAccounted ==
    \A r \in Ref : warned[r] <= faults + (IF Announced(draft, r) THEN 1 ELSE 0)

Warned(db) == \A u \in Url : db[u].notified => \A r \in RefsOf[u] : warned[r] > 0

IInv ==
    /\ TypeOK
    /\ FeedFirst
    /\ WriterAhead
    /\ Decided(leads) /\ Decided(draft)
    /\ DraftExtends
    /\ WarningsAccounted
    /\ Warned(leads) /\ Warned(draft)

-----------------------------------------------------------------------------
(* Records and types *)

(* A lead with one field replaced. *)
LEMMA LeadFields ==
    ASSUME NEW x \in Lead
    PROVE  /\ \A v \in Terminal \union {"unresolved"} :
                  /\ [x EXCEPT !.outcome = v] \in Lead
                  /\ [x EXCEPT !.outcome = v].exists = x.exists
                  /\ [x EXCEPT !.outcome = v].notified = x.notified
                  /\ [x EXCEPT !.outcome = v].outcome = v
                  /\ [x EXCEPT !.outcome = v].match = x.match
           /\ \A v \in {"never", "failed", "done"} :
                  /\ [x EXCEPT !.followed = v] \in Lead
                  /\ [x EXCEPT !.followed = v].exists = x.exists
                  /\ [x EXCEPT !.followed = v].notified = x.notified
                  /\ [x EXCEPT !.followed = v].outcome = x.outcome
                  /\ [x EXCEPT !.followed = v].match = x.match
           /\ \A k \in Kind :
                  /\ [x EXCEPT !.match = k] \in Lead
                  /\ [x EXCEPT !.match = k].exists = x.exists
                  /\ [x EXCEPT !.match = k].notified = x.notified
                  /\ [x EXCEPT !.match = k].outcome = x.outcome
                  /\ [x EXCEPT !.match = k].match = k
BY DEF Lead

LEMMA Defaults ==
    /\ NoLead \in Lead /\ ~NoLead.exists /\ ~NoLead.notified
    /\ NoMatch \in [Url -> Kind]
    /\ NotSent \in [url : Url \union {NoUrl}, answer : Terminal]
    /\ [discord |-> "off", baseline |-> FALSE] \in Config
BY DEF NoLead, Lead, NoMatch, Kind, NotSent, Terminal, Config

LEMMA ViewTyped ==
    ASSUME TypeOK, NEW l \in Lane
    PROVE  View(l) \in [Url -> Lead]
BY DEF TypeOK, View

(* Who may write sees the draft. *)
LEMMA WriterSees ==
    ASSUME WriterAhead, NEW l \in Lane, MayWrite(l)
    PROVE  View(l) = draft
BY DEF WriterAhead, MayWrite, View

(* A flush decides what was undecided, names matches, and leaves the rest. *)
Rewrites(old, new) ==
    \A u \in Url :
        /\ new[u].exists = old[u].exists
        /\ new[u].notified = old[u].notified
        /\ old[u].outcome \in Terminal => new[u].outcome = old[u].outcome
        /\ old[u].match # "none" => new[u].match # "none"

LEMMA FlushedTyped ==
    ASSUME TypeOK, NEW l \in Lane
    PROVE  Flushed(l) \in [Url -> Lead] /\ Rewrites(View(l), Flushed(l))
<1> SUFFICES ASSUME NEW u \in Url
             PROVE  /\ Flushed(l)[u] \in Lead
                    /\ Flushed(l)[u].exists = View(l)[u].exists
                    /\ Flushed(l)[u].notified = View(l)[u].notified
                    /\ View(l)[u].outcome \in Terminal =>
                           Flushed(l)[u].outcome = View(l)[u].outcome
                    /\ View(l)[u].match # "none" => Flushed(l)[u].match # "none"
  BY DEF Flushed, Rewrites
<1> DEFINE x == View(l)[u]
           outcome == IF u \in due[l] \/ FollowUpGate(l, u) = "open" THEN x.outcome
                      ELSE Recorded(x.outcome, FollowUpGate(l, u))
           y == [x EXCEPT !.match = matched[l][u]]
<1>1. x \in Lead /\ matched[l][u] \in Kind
  BY ViewTyped DEF TypeOK
<1>2. x.outcome \in Terminal \union {"unresolved"}
  BY <1>1 DEF Lead
<1>3. /\ outcome \in Terminal \union {"unresolved"}
      /\ x.outcome \in Terminal => outcome = x.outcome
  <2>1. FollowUpGate(l, u) \in {"gated", "failed", "open"}
    BY DEF FollowUpGate
  <2> QED
    BY <1>2, <2>1 DEF Recorded, Terminal
<1>4. Flushed(l)[u] = IF matched[l][u] = "none" THEN x
                      ELSE [x EXCEPT !.match = matched[l][u], !.outcome = outcome]
  BY DEF Flushed
<1>5. CASE matched[l][u] = "none"
  BY <1>1, <1>4, <1>5
<1>6. CASE matched[l][u] # "none"
  <2> HIDE DEF x, outcome
  <2>1. /\ y \in Lead /\ y.exists = x.exists /\ y.notified = x.notified
        /\ y.outcome = x.outcome /\ y.match = matched[l][u]
    BY <1>1, LeadFields
  <2>2. Flushed(l)[u] = [y EXCEPT !.outcome = outcome]
    BY <1>4, <1>6
  <2> HIDE DEF y
  <2> DEFINE z == [y EXCEPT !.outcome = outcome]
  <2>3. /\ z \in Lead /\ z.exists = y.exists /\ z.notified = y.notified
        /\ z.match = y.match /\ z.outcome = outcome
    BY <1>3, <2>1, LeadFields
  <2> QED
    BY <1>3, <1>6, <2>1, <2>2, <2>3 DEF x
<1> QED
  BY <1>5, <1>6

(* What a run that records a follow-up writes. *)
LEMMA RecordedTyped ==
    ASSUME TypeOK, NEW l \in Lane, RecordFollowUp(l)
    PROVE  draft' \in [Url -> Lead] /\ Rewrites(View(l), draft')
<1> DEFINE u == sent[l].url
           state == IF sent[l].answer = "failed" THEN "failed" ELSE "done"
           f == Flushed(l)
           g == [f EXCEPT ![u].followed = state]
           outcome == IF g[u].outcome = "unresolved" THEN sent[l].answer ELSE g[u].outcome
<1>1. draft' = [g EXCEPT ![u].outcome = outcome]
  BY DEF RecordFollowUp
<1>2. f \in [Url -> Lead] /\ Rewrites(View(l), f)
  BY FlushedTyped
<1>3. CASE u \in Url
  <2>1. /\ state \in {"never", "failed", "done"} /\ sent[l].answer \in Terminal
        /\ f[u] \in Lead
    BY <1>2, <1>3 DEF TypeOK
  <2>2. /\ \A v \in Url : v # u => draft'[v] = f[v]
        /\ draft'[u] = [[f[u] EXCEPT !.followed = state] EXCEPT !.outcome = outcome]
        /\ g[u] = [f[u] EXCEPT !.followed = state]
        /\ draft' = [f EXCEPT ![u] = draft'[u]]
    BY <1>1, <1>2, <1>3
  <2>3. g[u].outcome = f[u].outcome /\ f[u].outcome \in Terminal \union {"unresolved"}
    BY <2>1, <2>2, LeadFields DEF Lead
  <2>4. outcome \in Terminal \union {"unresolved"}
        /\ (f[u].outcome \in Terminal => outcome = f[u].outcome)
    BY <2>1, <2>3 DEF Terminal
  <2> HIDE DEF u, state, f, g, outcome
  <2>5. /\ draft'[u] \in Lead /\ draft'[u].exists = f[u].exists
        /\ draft'[u].notified = f[u].notified /\ draft'[u].match = f[u].match
        /\ draft'[u].outcome = outcome
    <3> DEFINE z == [f[u] EXCEPT !.followed = state]
    <3>1. /\ z \in Lead /\ z.exists = f[u].exists /\ z.notified = f[u].notified
          /\ z.match = f[u].match
      BY <2>1, LeadFields
    <3> HIDE DEF z
    <3> DEFINE w == [z EXCEPT !.outcome = outcome]
    <3>2. /\ w \in Lead /\ w.exists = z.exists /\ w.notified = z.notified
          /\ w.match = z.match /\ w.outcome = outcome
      BY <2>4, <3>1, LeadFields
    <3>3. draft'[u] = w
      BY <2>2 DEF z
    <3> QED
      BY <3>1, <3>2, <3>3
  <2>6. draft' \in [Url -> Lead]
    BY <1>2, <1>3, <2>2, <2>5
  <2>7. Rewrites(f, draft')
    BY <2>2, <2>4, <2>5 DEF Rewrites
  <2> QED
    BY <1>2, <2>6, <2>7 DEF Rewrites
<1>4. CASE u \notin Url
  BY <1>1, <1>2, <1>4
<1> QED
  BY <1>3, <1>4

(* What a new lead becomes, and what is posted about it: a warning leaves  *)
(* the lead counted as announced, or is an answer that was lost.           *)
LEMMA IngestDraft ==
    ASSUME TypeOK, NEW l \in Lane, NEW answer \in Answer, Ingest(l, answer)
    PROVE  /\ seen[l] \in Url
           /\ draft' \in [Url -> Lead]
           /\ \A v \in Url : v # seen[l] => draft'[v] = View(l)[v]
           /\ draft'[seen[l]].exists /\ draft'[seen[l]].outcome \in Terminal
           /\ draft'[seen[l]].notified =>
                  /\ seen[l] \notin Stale
                  /\ \A r \in Eligible(View(l), seen[l]) : warned'[r] = warned[r] + 1
           /\ faults' \in {faults, faults + 1} /\ faults' \in 0..MaxFaults
           /\ warned' \in [Ref -> Nat]
           /\ \A r \in Ref :
                  \/ warned'[r] = warned[r]
                  \/ /\ warned'[r] = warned[r] + 1
                     /\ r \in Eligible(View(l), seen[l])
                     /\ draft'[seen[l]].notified \/ faults' = faults + 1
<1> DEFINE u == seen[l]
           gate == Gated(l, u, View(l))
           sends == ~gate /\ config[l].discord = "on"
           outcome == IF gate THEN "gated" ELSE IF sends THEN Reported(answer) ELSE "failed"
           x == [exists |-> TRUE, outcome |-> outcome, notified |-> outcome = "accepted",
                 baseline |-> config[l].baseline, match |-> "none", followed |-> "never"]
<1>1. u \in Url /\ View(l) \in [Url -> Lead]
  BY ViewTyped DEF Ingest, TypeOK
<1>2. /\ (~sends => answer = "failed") /\ Counted(answer)
      /\ warned' = [r \in Ref |-> IF sends /\ Posted(answer) /\ r \in Eligible(View(l), u)
                                  THEN warned[r] + 1 ELSE warned[r]]
      /\ draft' = [View(l) EXCEPT ![u] = x]
  BY DEF Ingest, NotifyNewLead, Recorded
<1>3. faults' \in {faults, faults + 1} /\ faults' \in 0..MaxFaults
  BY <1>2, LeadsAssumption DEF Counted, TypeOK
<1>4. warned' \in [Ref -> Nat]
  BY <1>2 DEF TypeOK
<1>5. outcome \in Terminal /\ (outcome = "accepted" => sends /\ answer = "accepted")
  BY DEF Reported, Terminal, Answer
<1>6. gate \/ u \notin Stale
  BY DEF Gated
<1>7. x \in Lead
  BY <1>5 DEF Lead, Kind, TypeOK, Config
<1>8. draft' \in [Url -> Lead] /\ draft'[u] = x
      /\ \A v \in Url : v # u => draft'[v] = View(l)[v]
  BY <1>1, <1>2, <1>7
<1>9. ASSUME NEW r \in Ref, warned'[r] # warned[r]
      PROVE  /\ warned'[r] = warned[r] + 1 /\ r \in Eligible(View(l), u)
             /\ outcome = "accepted" \/ faults' = faults + 1
  <2>1. sends /\ Posted(answer) /\ r \in Eligible(View(l), u) /\ warned'[r] = warned[r] + 1
    BY <1>2, <1>9
  <2>2. answer = "accepted" => outcome = "accepted"
    BY <2>1 DEF Reported
  <2> QED
    BY <1>2, <2>1, <2>2 DEF Posted, Answer, Counted
<1>10. ASSUME x.notified, NEW r \in Eligible(View(l), u) PROVE warned'[r] = warned[r] + 1
  <2>1. r \in Ref
    BY <1>1, LeadsAssumption DEF Eligible
  <2> QED
    BY <1>2, <1>5, <1>10, <2>1 DEF Posted
<1> HIDE DEF x
<1>11. x.exists /\ x.outcome = outcome /\ x.notified = (outcome = "accepted")
  BY DEF x
<1> QED
  BY <1>1, <1>3, <1>4, <1>5, <1>6, <1>8, <1>9, <1>10, <1>11

LEMMA InitIInv == Init => IInv
<1> SUFFICES ASSUME Init PROVE IInv
  OBVIOUS
<1> USE LeadsAssumption, Defaults
<1>1. TypeOK
  BY DEF Init, TypeOK
<1>2. FeedFirst /\ WriterAhead
  BY DEF Init, FeedFirst, WriterAhead
<1>3. \A u \in Url : leads[u] = NoLead /\ draft[u] = NoLead
  BY DEF Init
<1>4. Decided(leads) /\ Decided(draft) /\ DraftExtends
  BY <1>3 DEF Decided, DraftExtends, Keeps
<1>5. WarningsAccounted
  BY <1>3 DEF Init, WarningsAccounted, Announced
<1>6. Warned(leads) /\ Warned(draft)
  BY <1>3 DEF Warned
<1> QED
  BY <1>1, <1>2, <1>4, <1>5, <1>6 DEF IInv

-----------------------------------------------------------------------------
(* Steps *)

LEMMA StepCases ==
    ASSUME Next
    PROVE  \/ \E l \in Lane :
                 \/ Begin(l) \/ Commit(l) \/ Close(l) \/ Collide(l) \/ Lose(l)
                 \/ RecordFollowUp(l)
                 \/ \E u \in Url : LookUp(l, u)
                 \/ \E answer \in Answer : Ingest(l, answer)
                 \/ \E m \in Maker : Correlate(l, m)
                 \/ \E u \in Url, answer \in Answer : FollowUp(l, u, answer)
           \/ \E w \in Watch : AddWatch(w)
<1>1. CASE \E w \in Watch : AddWatch(w)
  BY <1>1
<1>2. CASE \E l \in Lane : StandingRun(l) \/ PublicationRun(l) \/ ManualLead(l) \/ Lose(l)
  <2> PICK l \in Lane : StandingRun(l) \/ PublicationRun(l) \/ ManualLead(l) \/ Lose(l)
    BY <1>2
  <2>1. Begin(l) \/ IngestStep(l) \/ CorrelateStep(l) \/ Commit(l) \/ Close(l) \/ Lose(l)
    BY DEF StandingRun, PublicationRun, ManualLead, RunStep
  <2> QED
    BY <2>1 DEF IngestStep, CorrelateStep
<1> QED
  BY <1>1, <1>2 DEF Next

LEMMA NextTypeOK == TypeOK /\ [Next]_vars => TypeOK'
<1> SUFFICES ASSUME TypeOK, [Next]_vars PROVE TypeOK'
  OBVIOUS
<1> USE LeadsAssumption
<1>1. ASSUME NEW l \in Lane, Begin(l) PROVE TypeOK'
  BY <1>1 DEF Begin, TypeOK, Lane
<1>2. ASSUME NEW l \in Lane, NEW u \in Url, LookUp(l, u) PROVE TypeOK'
  BY <1>2 DEF LookUp, TypeOK
<1>3. ASSUME NEW l \in Lane, NEW answer \in Answer, Ingest(l, answer) PROVE TypeOK'
  <2>1. /\ seen[l] \in Url /\ draft' \in [Url -> Lead]
        /\ warned' \in [Ref -> Nat] /\ faults' \in 0..MaxFaults
    BY <1>3, IngestDraft
  <2> QED
    BY <1>3, <2>1 DEF Ingest, TypeOK
<1>4. ASSUME NEW l \in Lane, NEW m \in Maker, Correlate(l, m) PROVE TypeOK'
  <2>1. Correlated(l, m) \subseteq Url
    BY DEF Correlated, Unconfirmed
  <2>2. \A u \in Url : MatchOf(u) \in Kind
    BY DEF MatchOf, Kind
  <2>3. matched' \in [Lane -> [Url -> Kind]]
    <3>1. [u \in Url |-> IF u \in Correlated(l, m) THEN MatchOf(u) ELSE matched[l][u]]
             \in [Url -> Kind]
      BY <2>2 DEF TypeOK
    <3> QED
      BY <1>4, <3>1 DEF Correlate, TypeOK
  <2> QED
    BY <1>4, <2>1, <2>3 DEF Correlate, TypeOK
<1>5. ASSUME NEW l \in Lane, NEW u \in Url, NEW answer \in Answer, FollowUp(l, u, answer)
      PROVE  TypeOK'
  <2>1. faults' \in 0..MaxFaults
    BY <1>5 DEF FollowUp, Counted, TypeOK
  <2>2. followUps' \in [Url -> Nat]
    BY <1>5 DEF FollowUp, TypeOK
  <2>3. [url |-> u, answer |-> Reported(answer)] \in [url : Url \union {NoUrl}, answer : Terminal]
    BY DEF Reported, Answer, Terminal
  <2>4. sent' \in [Lane -> [url : Url \union {NoUrl}, answer : Terminal]]
    BY <1>5, <2>3, Defaults DEF FollowUp, TypeOK
  <2> QED
    BY <1>5, <2>1, <2>2, <2>4 DEF FollowUp, TypeOK
<1>6. ASSUME NEW l \in Lane, RecordFollowUp(l) PROVE TypeOK'
  <2>1. draft' \in [Url -> Lead]
    BY <1>6, RecordedTyped
  <2> QED
    BY <1>6, <2>1, Defaults DEF RecordFollowUp, TypeOK
<1>7. ASSUME NEW l \in Lane, Forget(l)
      PROVE  /\ todo' \in [Lane -> SUBSET Url] /\ due' \in [Lane -> SUBSET Url]
             /\ seen' \in [Lane -> Url \union {NoUrl}] /\ makers' \in [Lane -> SUBSET Maker]
             /\ matched' \in [Lane -> [Url -> Kind]] /\ config' \in [Lane -> Config]
             /\ sent' \in [Lane -> [url : Url \union {NoUrl}, answer : Terminal]]
  BY <1>7, Defaults DEF Forget, TypeOK
<1>8. ASSUME NEW l \in Lane, Commit(l) PROVE TypeOK'
  <2>1. Flushed(l) \in [Url -> Lead]
    BY FlushedTyped
  <2> QED
    BY <1>7, <1>8, <2>1 DEF Commit, TypeOK
<1>9. ASSUME NEW l \in Lane, Close(l) PROVE TypeOK'
  <2>1. \A u \in Url : [leads[u] EXCEPT !.outcome = "failed"] \in Lead
    BY LeadFields DEF TypeOK, Terminal
  <2>2. leads' \in [Url -> Lead]
    BY <1>9, <2>1 DEF Close, TypeOK
  <2> QED
    BY <1>9, <2>2 DEF Close, TypeOK
<1>10. ASSUME NEW l \in Lane, Undone(l), faults' \in 0..MaxFaults PROVE TypeOK'
  BY <1>7, <1>10 DEF Undone, TypeOK
<1>11. ASSUME NEW l \in Lane, Collide(l) PROVE TypeOK'
  BY <1>10, <1>11 DEF Collide, TypeOK
<1>12. ASSUME NEW l \in Lane, Lose(l) PROVE TypeOK'
  BY <1>10, <1>12 DEF Lose, TypeOK
<1>13. ASSUME NEW w \in Watch, AddWatch(w) PROVE TypeOK'
  BY <1>13 DEF AddWatch, TypeOK
<1>14. CASE UNCHANGED vars
  BY <1>14 DEF vars, TypeOK
<1> QED
  BY <1>1, <1>2, <1>3, <1>4, <1>5, <1>6, <1>8, <1>9, <1>11, <1>12, <1>13, <1>14, StepCases

LEMMA NextFeedFirst == TypeOK /\ FeedFirst /\ [Next]_vars => FeedFirst'
<1> SUFFICES ASSUME TypeOK, FeedFirst, [Next]_vars PROVE FeedFirst'
  OBVIOUS
<1> USE DEF FeedFirst, Ingested, TypeOK
<1>1. ASSUME NEW l \in Lane, Begin(l) PROVE FeedFirst'
  BY <1>1 DEF Begin
<1>2. ASSUME NEW l \in Lane, NEW u \in Url, LookUp(l, u) PROVE FeedFirst'
  BY <1>2 DEF LookUp
<1>3. ASSUME NEW l \in Lane, NEW answer \in Answer, Ingest(l, answer) PROVE FeedFirst'
  BY <1>3 DEF Ingest
<1>4. ASSUME NEW l \in Lane, NEW m \in Maker, Correlate(l, m) PROVE FeedFirst'
  BY <1>4 DEF Correlate
<1>5. ASSUME NEW l \in Lane, NEW u \in Url, NEW answer \in Answer, FollowUp(l, u, answer)
      PROVE  FeedFirst'
  BY <1>5 DEF FollowUp
<1>6. ASSUME NEW l \in Lane, RecordFollowUp(l) PROVE FeedFirst'
  BY <1>6 DEF RecordFollowUp
<1>7. ASSUME NEW l \in Lane, Forget(l), \A k \in Lane \ {l} : pc'[k] = pc[k]
      PROVE  FeedFirst'
  BY <1>7 DEF Forget
<1>8. ASSUME NEW l \in Lane, Commit(l) \/ Collide(l) \/ Lose(l) PROVE FeedFirst'
  BY <1>7, <1>8 DEF Commit, Collide, Lose, Undone
<1>9. ASSUME NEW l \in Lane, Close(l) PROVE FeedFirst'
  BY <1>9 DEF Close
<1>10. ASSUME NEW w \in Watch, AddWatch(w) PROVE FeedFirst'
  BY <1>10 DEF AddWatch
<1>11. CASE UNCHANGED vars
  BY <1>11 DEF vars
<1> QED
  BY <1>1, <1>2, <1>3, <1>4, <1>5, <1>6, <1>8, <1>9, <1>10, <1>11, StepCases

LEMMA NextWriterAhead ==
    TypeOK /\ FeedFirst /\ WriterAhead /\ [Next]_vars => WriterAhead'
<1> SUFFICES ASSUME TypeOK, FeedFirst, WriterAhead, [Next]_vars PROVE WriterAhead'
  OBVIOUS
<1> USE LeadsAssumption DEF WriterAhead, TypeOK
<1>1. ASSUME NEW l \in Lane, Begin(l) PROVE WriterAhead'
  BY <1>1 DEF Begin
<1>2. ASSUME NEW l \in Lane, NEW u \in Url, LookUp(l, u) PROVE WriterAhead'
  BY <1>2 DEF LookUp, View
<1>3. ASSUME NEW l \in Lane, NEW answer \in Answer, Ingest(l, answer) PROVE WriterAhead'
  BY <1>3 DEF Ingest
<1>4. ASSUME NEW l \in Lane, NEW m \in Maker, Correlate(l, m) PROVE WriterAhead'
  BY <1>4 DEF Correlate
<1>5. ASSUME NEW l \in Lane, NEW u \in Url, NEW answer \in Answer, FollowUp(l, u, answer)
      PROVE  WriterAhead'
  BY <1>5 DEF FollowUp
<1>6. ASSUME NEW l \in Lane, RecordFollowUp(l) PROVE WriterAhead'
  <2>1. seen[l] = NoUrl /\ writer' = l /\ seen' = seen
    BY <1>6 DEF RecordFollowUp, FeedFirst, Ingested
  <2> QED
    BY <2>1
<1>7. ASSUME NEW l \in Lane, Commit(l) PROVE WriterAhead'
  <2>1. CASE MayWrite(l)
    BY <1>7, <2>1 DEF Commit, MayWrite
  <2>2. CASE ~MayWrite(l)
    BY <1>7, <2>2 DEF Commit, MayWrite, Forget
  <2> QED
    BY <2>1, <2>2
<1>8. ASSUME NEW l \in Lane, Close(l) PROVE WriterAhead'
  BY <1>8 DEF Close
<1>9. ASSUME NEW l \in Lane, Collide(l) \/ Lose(l) PROVE WriterAhead'
  BY <1>9 DEF Collide, Lose, Undone, Forget
<1>10. ASSUME NEW w \in Watch, AddWatch(w) PROVE WriterAhead'
  BY <1>10 DEF AddWatch
<1>11. CASE UNCHANGED vars
  BY <1>11 DEF vars
<1> QED
  BY <1>1, <1>2, <1>3, <1>4, <1>5, <1>6, <1>7, <1>8, <1>9, <1>10, <1>11, StepCases

(* What any step but an INSERT does to the leads: nothing, a flush of the  *)
(* writer, a commit of what the writer sees, or its loss, which only a     *)
(* lost run causes.                                                        *)
Published ==
    /\ warned' = warned /\ faults' \in Nat /\ faults' >= faults
    /\ \/ leads' = leads /\ draft' = draft
       \/ leads' = leads /\ Rewrites(draft, draft')
       \/ draft' = leads' /\ Rewrites(draft, leads')
       \/ leads' = leads /\ draft' = leads /\ faults' = faults + 1

LEMMA LeadSteps ==
    ASSUME TypeOK, WriterAhead, [Next]_vars
    PROVE  Published \/ \E l \in Lane, answer \in Answer : Ingest(l, answer)
<1> USE LeadsAssumption DEF TypeOK
<1>1. ASSUME NEW l \in Lane, Begin(l) PROVE Published
  BY <1>1 DEF Begin, Published
<1>2. ASSUME NEW l \in Lane, NEW u \in Url, LookUp(l, u) PROVE Published
  BY <1>2 DEF LookUp, Published
<1>3. ASSUME NEW l \in Lane, NEW m \in Maker, Correlate(l, m) PROVE Published
  BY <1>3 DEF Correlate, Published
<1>4. ASSUME NEW l \in Lane, NEW u \in Url, NEW answer \in Answer, FollowUp(l, u, answer)
      PROVE  Published
  BY <1>4 DEF FollowUp, Counted, Published
<1>5. ASSUME NEW l \in Lane, RecordFollowUp(l) PROVE Published
  <2>1. View(l) = draft
    BY <1>5, WriterSees DEF RecordFollowUp
  <2>2. Rewrites(draft, draft')
    BY <1>5, <2>1, RecordedTyped
  <2> QED
    BY <1>5, <2>2 DEF RecordFollowUp, Published
<1>6. ASSUME NEW l \in Lane, Commit(l) PROVE Published
  <2>1. CASE MayWrite(l)
    <3>1. View(l) = draft
      BY <2>1, WriterSees
    <3>2. Rewrites(draft, Flushed(l))
      BY <3>1, FlushedTyped
    <3> QED
      BY <1>6, <2>1, <3>2 DEF Commit, Published
  <2>2. CASE ~MayWrite(l)
    BY <1>6, <2>2 DEF Commit, Published
  <2> QED
    BY <2>1, <2>2
<1>7. ASSUME NEW l \in Lane, Close(l) PROVE Published
  <2>1. draft = leads /\ draft' = leads'
    BY <1>7 DEF Close, WriterAhead
  <2>2. ASSUME NEW u \in Url
        PROVE  /\ leads'[u].exists = leads[u].exists
               /\ leads'[u].notified = leads[u].notified
               /\ leads[u].outcome \in Terminal => leads'[u].outcome = leads[u].outcome
               /\ leads'[u].match = leads[u].match
    <3>1. /\ leads[u] \in Lead
          /\ leads'[u] = IF u \in created[l] /\ leads[u].outcome = "unresolved"
                         THEN [leads[u] EXCEPT !.outcome = "failed"] ELSE leads[u]
      BY <1>7 DEF Close
    <3>2. CASE leads'[u] = leads[u]
      BY <3>2
    <3>3. CASE leads'[u] = [leads[u] EXCEPT !.outcome = "failed"]
               /\ leads[u].outcome = "unresolved"
      BY <3>1, <3>3, LeadFields DEF Terminal
    <3> QED
      BY <3>1, <3>2, <3>3
  <2> QED
    BY <1>7, <2>1, <2>2 DEF Close, Rewrites, Published
<1>8. ASSUME NEW l \in Lane, Collide(l) PROVE Published
  (* The writer does not collide. *)
  <2>1. writer # l
    BY <1>8 DEF Collide, View, WriterAhead
  <2> QED
    BY <1>8, <2>1 DEF Collide, Undone, Published
<1>9. ASSUME NEW l \in Lane, Lose(l) PROVE Published
  BY <1>9 DEF Lose, Undone, Published
<1>10. ASSUME NEW w \in Watch, AddWatch(w) PROVE Published
  BY <1>10 DEF AddWatch, Published
<1>11. CASE UNCHANGED vars
  BY <1>11 DEF vars, Published
<1> QED
  BY <1>1, <1>2, <1>3, <1>4, <1>5, <1>6, <1>7, <1>8, <1>9, <1>10, <1>11, StepCases

-----------------------------------------------------------------------------
(* The leads *)

(* What a flush changes loses nothing the properties are about. *)
LEMMA RewritesKeep ==
    ASSUME NEW old, NEW new, Decided(old), Rewrites(old, new)
    PROVE  /\ Decided(new)
           /\ \A u \in Url : Keeps(old[u], new[u])
           /\ \A r \in Ref : Announced(new, r) <=> Announced(old, r)
BY DEF Decided, Rewrites, Keeps, Announced

LEMMA KeepsTransitive ==
    ASSUME NEW x, NEW y, NEW z, Keeps(x, y), Keeps(y, z)
    PROVE  Keeps(x, z)
BY DEF Keeps

LEMMA NextDecided ==
    ASSUME TypeOK, WriterAhead, Decided(leads), Decided(draft), [Next]_vars
    PROVE  Decided(leads') /\ Decided(draft')
<1>1. CASE Published
  BY <1>1, RewritesKeep DEF Published
<1>2. ASSUME NEW l \in Lane, NEW answer \in Answer, Ingest(l, answer)
      PROVE  Decided(leads') /\ Decided(draft')
  <2>1. leads' = leads /\ View(l) = draft
    BY <1>2, WriterSees DEF Ingest
  <2> QED
    BY <1>2, <2>1, IngestDraft DEF Decided
<1> QED
  BY <1>1, <1>2, LeadSteps

LEMMA NextDraftExtends ==
    ASSUME TypeOK, WriterAhead, Decided(leads), Decided(draft), DraftExtends, [Next]_vars
    PROVE  DraftExtends'
<1>1. CASE Published
  <2>1. CASE leads' = leads /\ draft' = draft
    BY <2>1 DEF DraftExtends
  <2>2. CASE leads' = leads /\ Rewrites(draft, draft')
    BY <2>2, RewritesKeep, KeepsTransitive DEF DraftExtends
  <2>3. CASE draft' = leads'
    BY <2>3 DEF DraftExtends, Keeps
  <2> QED
    BY <1>1, <2>1, <2>2, <2>3 DEF Published
<1>2. ASSUME NEW l \in Lane, NEW answer \in Answer, Ingest(l, answer)
      PROVE  DraftExtends'
  <2>1. leads' = leads /\ View(l) = draft /\ ~draft[seen[l]].exists
    BY <1>2, WriterSees DEF Ingest
  <2>2. ~leads[seen[l]].exists
    BY <1>2, <2>1, IngestDraft DEF DraftExtends, Keeps
  <2> QED
    BY <1>2, <2>1, <2>2, IngestDraft DEF DraftExtends, Keeps
<1> QED
  BY <1>1, <1>2, LeadSteps

(* The duplicate gate: a reference an INSERT announces was not yet         *)
(* announced by any lead the writer sees.                                  *)
LEMMA EligibleIsNew ==
    ASSUME Decided(draft), NEW u \in Url, ~draft[u].exists,
           NEW r \in Eligible(draft, u)
    PROVE  ~Announced(draft, r) /\ r \in RefsOf[u]
BY DEF Eligible, Alerted, Announced, Decided

LEMMA NextWarnings ==
    ASSUME IInv, [Next]_vars
    PROVE  WarningsAccounted' /\ Warned(leads)' /\ Warned(draft)'
<1> USE DEF IInv
<1>1. CASE Published
  <2>1. Warned(leads)' /\ Warned(draft)'
    BY <1>1 DEF Published, Warned, Rewrites
  <2>2. WarningsAccounted'
    BY <1>1, RewritesKeep DEF Published, WarningsAccounted, TypeOK
  <2> QED
    BY <2>1, <2>2
<1>2. ASSUME NEW l \in Lane, NEW answer \in Answer, Ingest(l, answer)
      PROVE  WarningsAccounted' /\ Warned(leads)' /\ Warned(draft)'
  <2> DEFINE u == seen[l]
  <2>1. leads' = leads /\ View(l) = draft /\ ~draft[u].exists /\ u \in Url
    BY <1>2, WriterSees, IngestDraft DEF Ingest
  <2>2. ASSUME NEW r \in Ref
        PROVE  /\ warned'[r] >= warned[r]
               /\ warned'[r] <= faults' + (IF Announced(draft', r) THEN 1 ELSE 0)
    <3>1. Announced(draft, r) => Announced(draft', r)
      BY <1>2, <2>1, IngestDraft DEF Announced, Decided
    <3>2. CASE warned'[r] = warned[r]
      <4>1. warned[r] <= faults + (IF Announced(draft, r) THEN 1 ELSE 0)
        BY DEF WarningsAccounted
      <4>2. faults' \in {faults, faults + 1} /\ faults \in Nat /\ warned[r] \in Nat
        BY <1>2, IngestDraft, LeadsAssumption DEF TypeOK
      <4> QED
        BY <3>1, <3>2, <4>1, <4>2
    <3>3. CASE warned'[r] # warned[r]
      <4>1. /\ warned'[r] = warned[r] + 1 /\ r \in Eligible(draft, u)
            /\ draft'[u].notified \/ faults' = faults + 1
        BY <1>2, <2>1, <3>3, IngestDraft
      <4>2. warned[r] <= faults /\ r \in RefsOf[u]
        BY <2>1, <4>1, EligibleIsNew DEF WarningsAccounted, TypeOK
      <4>3. draft'[u].notified => Announced(draft', r)
        BY <2>1, <4>2 DEF Announced
      <4> QED
        BY <1>2, <4>1, <4>2, <4>3, IngestDraft DEF TypeOK
    <3> QED
      BY <3>2, <3>3
  <2>3. Warned(leads)'
    BY <2>1, <2>2, LeadsAssumption, IngestDraft, <1>2 DEF Warned, TypeOK
  <2>4. ASSUME NEW v \in Url, draft'[v].notified, NEW r \in RefsOf[v]
        PROVE  warned'[r] > 0
    <3>1. r \in Ref /\ warned[r] \in Nat /\ warned'[r] \in Nat
      BY <1>2, IngestDraft, LeadsAssumption DEF TypeOK
    <3>2. CASE v # u
      BY <1>2, <2>1, <2>2, <2>4, <3>1, <3>2, IngestDraft DEF Warned
    <3>3. CASE v = u /\ r \in Eligible(draft, u)
      BY <1>2, <2>1, <2>4, <3>1, <3>3, IngestDraft
    <3>4. CASE v = u /\ r \notin Eligible(draft, u)
      <4>1. PICK w \in Url : draft[w].notified /\ r \in RefsOf[w]
        BY <2>4, <3>4 DEF Eligible, Alerted
      <4> QED
        BY <2>2, <3>1, <4>1 DEF Warned
    <3> QED
      BY <3>2, <3>3, <3>4
  <2> QED
    BY <2>2, <2>3, <2>4 DEF WarningsAccounted, Warned
<1> QED
  BY <1>1, <1>2, LeadSteps

LEMMA NextIInv == IInv /\ [Next]_vars => IInv'
<1> SUFFICES ASSUME IInv, [Next]_vars PROVE IInv'
  OBVIOUS
<1>1. TypeOK' /\ FeedFirst' /\ WriterAhead'
  BY NextTypeOK, NextFeedFirst, NextWriterAhead DEF IInv
<1>2. Decided(leads)' /\ Decided(draft)' /\ DraftExtends'
  BY NextDecided, NextDraftExtends DEF IInv
<1> QED
  BY <1>1, <1>2, NextWarnings DEF IInv

LEMMA SpecIInv == Spec => []IInv
BY InitIInv, NextIInv, PTL DEF Spec

-----------------------------------------------------------------------------
(* Theorems *)

(* Every variable keeps its type, with as many lanes, leads and runs as    *)
(* there are.                                                              *)
THEOREM TypeCorrect == Spec => []TypeOK
<1>1. IInv => TypeOK
  BY DEF IInv
<1> QED
  BY <1>1, SpecIInv, PTL

(* No committed lead stays in the provisional state: it says what became   *)
(* of its early warning, whichever of its run's two commits is lost.       *)
THEOREM OutcomeKnown == Spec => []EveryLeadHasAnOutcome
<1>1. IInv => EveryLeadHasAnOutcome
  BY DEF IInv, Decided, EveryLeadHasAnOutcome
<1> QED
  BY <1>1, SpecIInv, PTL

(* A reference is announced once, plus at most once for every lost run and *)
(* lost answer, and no lead counts as announced with a reference           *)
(* unannounced: the duplicate gate of _notify_new_lead_inner is enough for *)
(* any number of lanes, because nobody announces before being the writer.  *)
THEOREM WarnedOnce == Spec => []OneWarningPerReference
<1>1. ASSUME IInv PROVE OneWarningPerReference
  <2>1. \A r \in Ref : warned[r] <= 1 + faults
    BY <1>1 DEF IInv, WarningsAccounted, TypeOK
  <2> QED
    BY <1>1, <2>1 DEF IInv, Warned, OneWarningPerReference
<1> QED
  BY <1>1, SpecIInv, PTL

(* No step of any lane loses a committed lead, rewrites the outcome of its *)
(* early warning or reopens its correlation.                               *)
THEOREM LeadsStayFinal == Spec => LeadsAreFinal
<1>1. ASSUME IInv, [Next]_vars, NEW u \in Url PROVE Keeps(leads[u], leads'[u])
  <2>1. CASE leads' = leads
    BY <2>1 DEF Keeps
  <2>2. CASE Rewrites(draft, leads')
    BY <1>1, <2>2, RewritesKeep, KeepsTransitive DEF IInv, DraftExtends
  <2>3. leads' = leads \/ Rewrites(draft, leads')
    BY <1>1, LeadSteps DEF IInv, Published, Ingest
  <2> QED
    BY <2>1, <2>2, <2>3
<1>2. IInv /\ [Next]_vars =>
        [\A u \in Url : leads[u].exists =>
            /\ leads'[u].exists
            /\ leads'[u].outcome = leads[u].outcome
            /\ leads[u].notified => leads'[u].notified
            /\ leads[u].match # "none" => leads'[u].match # "none"]_vars
  BY <1>1 DEF Keeps
<1> QED
  BY <1>2, SpecIInv, PTL DEF Spec, LeadsAreFinal
=============================================================================

# Watch Clank: a verification development

Watch Clank collects watch releases from manufacturers, shops and blogs, keeps
them in one SQLite database and posts what is new to Discord. Its promise is
easy to state and hard to test: **announce what is new, once, and stay silent
about everything else**, although collectors overlap, sources fail, processes
die between a post and its commit, and the first catalogue of a site is all
"new".

This directory holds TLA+ models of the parts that keep that promise, the TLC
configurations that check them on small instances, and proofs, checked by
TLAPS, that hold for every value of the constants. File references are relative
to the repository root; `PROJECT.json` maps every definition to its lines.

Contents: 1 the system, 2 the modules, 3 the runs, 4 fairness, 5 the proofs,
6 where code and documentation disagree, 7 what is not modelled, 8 the plan.


## 1. The system

| Component | State | Operations | Hard behaviour | What makes it correct |
|---|---|---|---|---|
| Run lock (`app/services/run_lock.py`) | an advisory file lock per lock file, `collector_runs` rows | `acquire`, `release`, `is_locked`, `recover_stale_runs` | processes, crashes, two collector ids on one file, a dashboard that takes the lock to look at it | one run per file; abandoned rows get closed; locks are let go |
| Horology Sentinel (`app/sentinel/`) | identities, sightings, source states, receipts | `run_sweep`, `admit`, `record_sighting`, `send_sighting`, `mark_poll` | one commit per sweep, savepoints, snapshots taken at the start, posts before the commit | a ledger written once per identity; pings only for armed sources; nothing silently lost |
| Product observation pipeline (`app/services/pipeline.py`) | watches, observations, events, run rows | `run_product_observation_pipeline`, `process_fetch_result`, `_record_product_transition` | gates read before the lock, one transaction per item open while it posts, lanes that share identities | a watch is announced as new once; a lane is silent until its catalogue is filled |
| Initial fill and epochs (`initial_fill.py`, `epoch.py`) | folds over run rows; baseline window | `initial_fill_active`, `begin_epoch_baseline`, `complete_epoch_baseline` | a long series of runs of different sizes | a window that closes once and not early |
| Qualification and delivery gate | append-only evidence rows | `record_execution`, `prepare_epoch_for_run`, `delivery_allowed`, `record_operator_promotion` | evidence appended by any run, compared at every event | fails closed, opens when it may |
| News pipeline (`pipeline.py`) | release leads, watches, events, component back-off | `process_news_announcement`, the brand runners, `run_multi_source_pipeline` | every alert commits a part of the announcement; a catalogue of another lane is read under this lane's lock | a watch is news once; a lead ends up with all its watches; a status hides no component |
| Specialist leads (`specialist_leads.py`) | leads, correlations, outcomes, receipts | `ingest`, `correlate_pending_leads`, `notify_correlation` | a run is one transaction and posts before it commits; lanes overlap | one early warning per reference; outcomes are final; matches are found |
| Delivery receipts, Discord (`delivery_receipts.py`, `discord_notify.py`) | receipts by idempotency key | `deliver`, `_post_detailed` | retries after time-outs | an accepted key is not posted again |
| Health, component state (`health.py`, `pipeline.py`) | block counters, back-off, run rows | `_update_component_state`, `_should_skip_backed_off`, `_source_health` | rows of killed runs, rows written for another lane | a dead or blocked source never looks healthy |
| QC review memory (`qc.py`) | reviews, their history | `submit_review`, `fetch_queue_page`, `fetch_history_page`, `qc_memory_context` | paging over a changing list; two verdicts race | nothing listed is skipped; no verdict is lost |
| Discovery layer (`discovery.py`) | generations, CURRENT, shared evidence | import, refresh, review, switch | copy-change-replace without a lock between commands | a reader sees whole operations; evidence is whole |
| Local operator, dashboard (`main.py`, `local_operator.py`, `collector_ui.py`) | one in-memory state and its lock | start, `_run`, `_run_all` | threads, subprocess time-outs | a second start is refused, a finished one is not |
| Snapshots (`snapshot_storage.py`) | content-addressed files | write, rename | crash while writing | a blob is whole or absent |
| Collectors, parsers | listings, page caches | fetch, slice, parse | a hard ceiling, then bounded slices of what is unseen | no candidate below the ceiling is starved |
| Transition judgement, scoring (`pipeline.py`, `editorial.py`) | observations, events | `_record_product_transition`, `score_event`, catch-up | batches, baselines and several markets; a check and a later insert | a change is reported once; a sync or inherited stock is no launch |
| Normalisation | none | pure functions | boundaries | agree with their definitions |
| Benchmarks, deployment, history, command line, launchers | none of their own | reporting, start-up | – | – |

**How they interact.** There is no server process that owns the data. Timers,
manual commands and dashboard buttons start *processes*; each opens a session
on the same SQLite file, takes the run lock of its collector, collects, writes
and releases. They meet in three places only: the advisory locks, SQLite's
single writer, and the committed rows. Discord is called from inside an open
write transaction, so every post is separated from the row that remembers it by
a commit that may not happen. Nearly every hazard in `PROJECT.json` is one of:

* something read before the lock or at the start of a run and used later (the
  fill gates, the Sentinel's known keys, stale rows);
* a post, then a crash, then a retry that cannot know about the post;
* a transaction boundary that is not where a docstring says it is;
* a rule over a lane's run history that a long series of odd runs could defeat.


## 2. The modules

```
OverlapGuard  <--implemented by-- RunLock   <-- Overlap_proofs,       MCRunLock
Tripwire      <--implemented by-- Sentinel  <-- Sentinel_proofs,      MCSentinel
                                  Catalogue <-- Catalogue_proofs,     MCCatalogue
                              Qualification <-- Qualification_proofs, MCQualification
                                      Leads <-- Leads_proofs,         MCLeads
                                       News <-- News_proofs,          MCNews
                                    Novelty <-- Pipeline_proofs,      MCNovelty
                                     Review <-- Review_proofs,        MCReview
ProposalInbox <--implemented by-- Discovery <-- Overlap_proofs,       MCDiscovery
Health        <----extended by-- Operations <-- Pipeline_proofs,      MCOperations
```

Two proof modules extend two components each, so the definitions of `Discovery` and
`Novelty` that would clash have names of their own there (`D1Init`, `D1Next`, `D1Spec`,
`D1TypeOK`; `NoveltyInit`, `NoveltyNext`, `NoveltySpec`, `NoveltyTypeOK`).

Operators named `X_Variant` (say `Arms_ZeroItemsToo`) stand before an operator
`X` and have its parameters. No specification uses them. Each is a bug someone
could plausibly write into that code; `PROJECT.json` "mutants" says which
property of which run notices it when it takes the place of `X`.

Every module has a type invariant `TypeOK`. It was checked with TLC and is proved for
all of them; the runs spend their properties on what could be wrong.

### RunLock

A *slot* is a place a collector is started from; `pc` says where its current
firing is. One action per step that others can see between: `Recover`
(`recover_stale_runs`, one commit), `Take`/`Refuse` (`flock`), `MetadataFails`
(the error path after the grant), `RecordOverlap`, `StartRun`, `Finish`,
`Release`, and a `Crash` at any point, after which the kernel has dropped the
lock and the row still says RUNNING. A *probe* slot is the dashboard's
`is_locked`, which runs recovery and really takes the lock (`EndProbe` lets it
go). `aged` stands for the only thing the code asks of the clock, whether a
RUNNING row is past the stale threshold. `FileOf` lets collectors share a file,
as casio_japan and casio_multi do. `Run` is a window of recent rows: `Forget`
and `WindowFull` belong to this bound and to no code.

### Sentinel

One process's sweep from lock to release, over `db` (committed rows) and `wal`
(rows as the writing connection sees them). The session does not autoflush, and
the sqlite3 driver opens a transaction before a write but not before a
SAVEPOINT; both matter and are modelled (`dirty`, `WriteInSavepoint`). Actions:
`LoadSources`, `LoadKnown` (the snapshot of known keys), `PollReturns` /
`PollFails`, per candidate `Suppress` or `LookUp` then `AdmitBaseline`,
`AdmitSighting` or `LoseRace` (IntegrityError), `RecordSighting`, one of `Cap`,
`Disable`, `SendAccepted`, `SendFailed`, then `FinishSource` (`mark_poll`, which
arms) and `FinishSweep` with the one commit. `Raise` and `CommitUnwound` are the
exception that the command line swallows inside `session_scope`, which then
commits the half-done sweep. `Crash` rolls back and frees the lock. Time is
abstracted: which armed sources are due is any choice.

`Tripwire` is what a reader expects of it: a write-once ledger per identity and
a bound on messages.

### Catalogue

The catalogue lanes: `Begin` reads both gates of the fill (`_auto_baseline_for_first_run`
and `initial_fill_active`), *before* `StartRun` or `Overlap` decide about the lock.
`Collect` picks a slice and what came
back of it; `CollectNothing` is the failed collection. A slice is made in two cuts, as the
collectors make it: the document is cut at a ceiling in its own order, before anything is
asked about what is known (`Visible`, `Position`, `Ceiling`: `MAX_CANDIDATES` of
`casio_jp_sitemap.py:82`, `sitemap_family.py:92` and `:144`, `MAX_PAGES` of
`timex_products.py:75`), and only the candidates left are ordered, unseen first, within the
budget (`Slices`). A watch behind the ceiling does not exist for any run; a `Publish` at the
head of the document pushes another one behind it. `Moved` are the watches whose page
redirects: they are stored under their final url (`http_util.py:77`), so their listed url is
never recognised (`Recognised`) and comes first again in every slice. Both are a collector's
`run`: the families differ in where their pages come from, and the model has the one
that fetches a page per item under a cap of its own (`DetailCap`, the Goldsmiths lane);
the others are the case in which no page fails. Every item is a transaction:
`OpenItem` looks the watch up and gives the verdict of
`_record_product_transition`, `Post` reaches Discord with the transaction open,
`CommitItem` commits, `FailItem` rolls back, and `GiveUpItem` is the busy
time-out. `FinishRun` closes the row. `RaiseRun` and `Crash` are the two bad
ends. Around them: `Publish` (a site lists a watch), `Announce` (a news lane
creates the watch first), and the operator's epoch baseline.

The run history of a lane is kept as the fold that the two gates compute from
it: whether any run ended, whether any was useful, whether a useful one met a
known watch, and how many catalogue passes there were up to the ceiling. This
is everything either gate reads, and it makes the history finite without
bounding the number of runs. Two lanes may list the same watch (`intro` records
per lane how the first observation went). The many gates of a post that are
independent of this state (maturity, freshness, qualification, settings) are a
free choice: an event may always be committed unposted.

### Qualification

The evidence log of each lane is represented by the two things the code ever
asks of it: its newest row, and the revision in the newest row that names one.
`Start` and `Prepare` are the two commits at the start of a run (`RUNNING`, then
`prepare_epoch_for_run`), `End` is the closing commit with `record_execution`,
`Abort` is every end that leaves no evidence (exception or death). `MayDeliver` is
`delivery_allowed` answering True and `Drift` is it appending a row; it is asked
inside an item's write transaction, so an answer cannot be overtaken by another
row. `Promote` is the operator's script. `Deploy` changes the revision that *new*
processes execute; runs under way keep theirs. The maturity set is a literal in
the source, so it is a function of the revision. `JudgesAs` says under which
collector id the events of a run are judged: for casio_multi it is another lane.
Two builds with the same revision label are the same code here; builds outside
Docker all carry the label "unknown" and are reset by collector version or
maturity set only.

### Leads

The specialist lanes: *standing* lanes read a fan site by timer, *publications*
read a magazine, *manual* operators paste one lead. A run is one database
transaction: `LookUp` asks whether a url is on record (before the run is
SQLite's writer), `Ingest` inserts the lead and runs its notification, a
posting included, `Correlate` compares pending leads with the catalogue, `FollowUp` and
`RecordFollowUp` are the announcement of a match (the receipt is looked up,
the message posted and the receipt inserted at different moments), and `Commit` ends it.
`Collide` is the unique url met at the INSERT, `Lose` the run whose transaction is
gone, `AddWatch` everybody else's catalogue. `View` is what a run reads: its own
uncommitted rows if it is the writer, the committed ones otherwise. Matching
rules are the constants `Exact` and `Family`, and the pure gates of an alert the
constants `Stale` and `Weak`.

### News

`process_news_announcement` and the runner that combines a news index with the
Japanese catalogue. Each alert commits whatever the announcement has written so
far (`CommitAs`), so `db`, what a crash leaves, trails `View`. `Announce`, `LookUp`, `Resolve`
and `Link` are the stations of one announcement; `Note` and `Merged` those that only
repeat another. The catalogue part is `NoPoll`, or `Ask`, which reads the back-off and what is known
before the sitemap is fetched, then `Poll`, which takes a slice of at most `MaxItems` of the
unseen `Candidates` (the first `MaxCandidates` of the `Sitemap`; `max_items=300` at
`pipeline.py:2834`), then `Observe` or `Fail` per item. `Component`, `BackedOff` and, for time,
`Tick` are the back-off, `Combined` the verdict of the run. `Finish` writes the whole row: the
status, the components, those it names in `component_failures` and `component_skipped`
(`Named`), and whether an item failed. The catalogue's own lane is two
actions here, since how it works inside is Catalogue's subject: `LaneObserves`, an item, and
`LaneReports`, what a fetch of its own writes into the component row that the runner's
back-off reads (`pipeline.py:3606`): a block renews the back-off, a good run clears it. An
`Announcement` is one that the runner takes of its index, which is itself bounded by
`max_items`. A brand's news runner is the same without the catalogue part.

### Novelty

What one observation of a product is worth. A run stages its source's pages
(`Stage`), then ingests one per step (`Ingest`): `Type` is `_record_product_transition`,
with `BulkTouch` for catalogue syncs, `ProvenFresh` and `Reactivated` for the evidence of a first
sighting, `Transition` between two observations of one market, and `EventOf` gives
the Event its score and whether it is current. `Burst` is the end-of-run summary of many changes.
`Check` and `CreateBelated` are the operators' catch-up of launches that a
baseline silenced, with every other writer between the two, `Announce` and `Remember` a news lane beside it. `obs` and `events`
are the tables in the order of their ids. A day is the unit of time: every
window the code asks about is in days, except for the 90 seconds of a sync batch,
which count as the same date.

### Review

The review desk with what the browser does: operators open, extend
and refill a page of the queue (`Open`, `More`, `Replace`) or of the history of reviews
(`OpenHistory`, `MoreHistory`,
`ReplaceHistory`), submit verdicts and corrections (`Submit`, then `File`, `Retry`
after the unique constraint, or `Correct`, and `Answer`), while the pipeline
creates items (`Create`, with `Deprioritize` deciding what is held back). A page is
fetched by one request and used for many, so what it shows goes stale; that is what
the model is about. `missing` is what an operator at the end of a page was not
shown.

### Discovery

The D1 inbox: `StartImport`, `StartRefresh` and `StartReview` validate and take
the published generation, `NewGeneration` copies it, `CopyBlob` and `WriteBlob` write
evidence (two steps, a short file in between), `Insert` and `Verdict` fill the draft,
`Replace` publishes it, `Fail` and `Interrupt` are the error handler, and the latter
its late form that removes the published generation. `ProposalInbox` is what the
documentation promises a reader: whole operations only.

### Operations and Health

`Health` computes what the health page says of a source from its run rows and its
component row (`State`, `Acquisition`). `Operations` produces these rows: timers
and the dashboard's background collection start the same children; a
child gets the lock or records an overlap, concludes or breaks off, is killed at the
time-out, and its component row is written by the lane that `Reports` names, as
casio_multi writes casio_jp_sitemap's. `Start`, `ReadResult`, `FinishBatch` are the
dashboard's thread, `ReadRaises` the exception nobody catches, `Restart` the
dashboard's. The synchronous mode of the dashboard is not modelled.


## 3. The runs

All pass with no state constraint; the bounds are the constants of the cfg.

| Run | Instance | Shows |
|---|---|---|
| `run_lock` | two processes of two collectors on one file, a probe, two rows | exclusion across crashes, recovery and probes; a closed row is restated by its own process only; refinement of `OverlapGuard`; RUNNING rows close and locks are let go |
| `sentinel` | two processes under the lock, one source, three identities, cap 1, one crash, one exception | pings only when armed; arming is durable together with the catalogue it was armed on; admitted sightings have their verdict when the sweeps are over |
| `sentinel_race` | two processes *without* a working lock, one source, two identities, both editorial settings, one crash | constraint and transactions alone keep the ledger consistent and refine `Tripwire` |
| `catalogue` | two processes, one able to run two lanes in two markets that list the same two watches, one fault | novelty once; posts accounted for |
| `catalogue_live` | one lane, default, smoke and forced runs, an epoch baseline in the middle, a news announcement, three watches and a ceiling of two, one fault | silence while filling; every candidate is observed |
| `qualification` | the catalogue lane and casio_multi, three revisions of which one holds the lane experimental, two deployments, one lost run | delivery only by qualified code; delivery comes back |
| `leads` | a standing lane with two settings (one without a webhook), a publication, an operator, two urls that share a reference, one lost run or answer | every committed lead has an outcome; one warning per reference; what is committed is final; matches are found |
| `news` | three announcements (a launch of two watches, a review of one of them, an accessory that shares the review's merge key), a catalogue of both watches, a slice of one, a third watch behind the ceiling, the catalogue's own lane beside it, a silenced first run and loud ones, two faults | a watch is news once; a lead has all its watches or none, and all in the end; a run's row hides no component, and a clean row means that nothing was missed; all candidates are read in the end, although the runner and the lane are blocked |
| `novelty` | two lanes in two markets, two watches, a sync batch in both orders, silent and loud runs, two days, an announcement, two operators' catch-up, one fault | changes reported once; syncs claim nothing; inherited stock is old; one launch, one claim |
| `review` | two operators, one of them paging with pages of one, three items of one reference, two verdicts per item | nothing listed is skipped; two racing verdicts are both on record; recall first |
| `discovery` | two commands, two proposals, two versions that share a blob, two observations, one verdict, one interrupt | evidence is whole; refinement of `ProposalInbox`; only overlap loses |
| `operations` | casio_multi and the lane bundled in it, timers and two dashboard threads, kills, time-outs and a restart, three rows, a window of two | a blocked source stays visible; HEALTHY is earned; one collection at a time, and each ends |

**Why the bounds are enough to be interesting.** Two processes are what it takes
for every race here: locks, the single writer and the unique constraints are all
pairwise. Two rows let a recovered row and a fresh one coexist; with a window of two,
`operations` has a success that is about to leave the page and one that just has.
`Catalogue`: a lane of budget 1 and a catalogue of
two give every kind of slice (pure unseen, known, empty after a baseline); two
lanes with two markets give NEW_REGION; `FillRuns = 2` has a first, a last and a
next pass; a ceiling of two and three watches, of which one is published at the head of the
document, give a watch that is a candidate and then is none, and a slice of one starves the other
candidate if it is cut wrong. Moved pages are left to `CatalogueMoved.cfg`. `Qualification`: two deployments allow a rollback and three revisions
a detour through a configuration that silences the lane; two provenances are
what `record_execution` tells apart. In the Sentinel three identities let one sweep sight two and cap one after a baseline of the third.
`Leads`: two urls that share one of two
references give a gate that is closed for a part of a lead only. `News`: the two
watches of one announcement give a commit between them; the review refers to a watch
that is there, half there or not yet; the catalogue has one candidate more than a slice
takes, and one watch more than it has candidates. `Novelty`: a batch of two pages in
two collections is exactly the least that counts as a sync. `Review`: pages of one
item make every step a page boundary. `MaxPost = 1` in the Sentinel's runs leaves
duplicate tries of one delivery to the proofs, which have any `MaxPost`;
`MaxCrashes`, `MaxRaises`, `MaxFaults` and `MaxInterrupts` bound the environment,
never the code, and the proofs have any number of them. `MaxRuns`, `MaxNews`,
`MaxLooks`, `MaxDay`, `Items`, `MaxVerdicts`, `MaxObservations` and `MaxRows` bound
tables that only grow.

Symmetry is used only in runs without liveness properties, on sets no cfg tells
apart.

Deadlock is checked where a timer may always fire. `Novelty`, `Review` and
`Discovery` may stop (`CHECK_DEADLOCK FALSE`): their tables are bounded, and
operators need not do anything.

**Further instances.** `SentinelSources.cfg` (one process, two sources with
overlapping listings, three identities; types, `PingsOnlyWhenArmed` and
`ArmedOnAKnownCatalogue` hold) enlarges `sentinel`: one source's baseline absorbs what
another would alert. The other thirteen show
statements that the code does *not* keep: TLC finds a
counterexample for each, and section 6 explains it. Run one with `tlc -config <cfg>
<module>`:

| Configuration | Module | Violated |
|---|---|---|
| `SentinelTwice.cfg` | MCSentinel | `NeverPingedTwice` |
| `SentinelRow.cfg` | MCSentinel | `SightingsHaveARow` |
| `CatalogueWindow.cfg` | MCCatalogue | `UnseenSlicesKeepTheWindowOpen` |
| `CatalogueSmallBudget.cfg` | MCCatalogue | `DefaultRunsArePasses` |
| `CatalogueCeiling.cfg` | MCCatalogue | `ListedIsObserved` |
| `CatalogueMoved.cfg` | MCCatalogue | `MovedLeaveRoom` |
| `QualificationForeign.cfg` | MCQualification | `EvidenceIsResetFirst` |
| `NewsFlood.cfg` | MCNews | `FirstCatalogueIsSilent` |
| `LeadsTwice.cfg` | MCLeads | `FollowedUpOnce` |
| `ReviewTiers.cfg` | MCReview | `PagesAreTraversable` |
| `ReviewAudit.cfg` | MCReview | `VerdictsStayAuditable` |
| `NoveltyOrder.cfg` | MCNovelty | `VerdictsAreOrderFree` |
| `NoveltyCatchUp.cfg` | MCNovelty | `CatchUpsNeverDoubleFire` |


## 4. Fairness

* `RunLock`: weak fairness of each slot's own steps (timers fire again, the
  operating system schedules), of `Age` (time passes) and `Forget`. A crash, or
  any particular status of a run, is never owed.
* `Catalogue`: weak fairness of a process starting runs (the timers), and strong
  fairness of the steps of a run, because a write waits for another process's
  transaction and meets a gap between two of them, not an ever-open door. That
  the environment stops failing after `MaxFaults` is the bound of the model.
* `Qualification`: strong fairness of scheduled starts per lane (a timer meets a free
  lock between other runs), weak fairness of a begun run's next step. Promotions,
  manual runs and deployments are never owed.
* `Leads`: weak fairness of each standing lane's runs (timers) and of the steps of
  a publication's or operator's run once begun. Nobody has to paste a lead.
* `News`: weak fairness of the runner (a timer) and of time passing (`Tick`), which
  is what ends a back-off. The lane beside it is owed nothing; that it stops being blocked
  after `MaxFaults` is the bound of the model.
* `Operations`: weak fairness of the time-out of a child and of the dashboard
  thread's own steps. A child that ends by itself, a timer and a button press are
  never owed.

`Novelty`, `Review` and `Discovery` state no liveness: whether anything happens there
is up to operators and sources. Nor does `Sentinel`, in which nothing waits for ever:
`SightingsAreDecided` says what holds whenever no sweep is under way.


## 5. The proofs

Every theorem holds for all constants that satisfy the module's named
assumption (`SlotsAssumption` in RunLock, elsewhere the module's name with `Assumption`,
and `HealthAssumption` beside `OperationsAssumption`): these
say that sentinels like `Nobody` are not members, that functions have their
domains, and that bounds are numbers; TLC evaluates them in the runs. One says more:
`NoveltyAssumption` has a collector of the maker's own shop list a reference once where
it reads publication dates, as `shopify_family.py:108-140` (`seen_refs`),
`timex_products.py:71` and `seiko_jp_products.py:77` do.

An invariant of a run is seldom inductive. The proofs of a component begin with the
strengthening `IInv` (`PInv` for Review's pages, `D1IInv` for Discovery, `NoveltyInv` for
Novelty) and the reason for each part; then come lemmas about the operators, one lemma per kind of step, and the
theorems. Each of these invariants also holds in TLC on the instance of its component's run
(`PInv` on `ReviewTiers.cfg` as well). No theorem has a hypothesis beyond these assumptions but `Traversable`, whose
one is explained below.

| Component | Invariants and refinements | Action properties |
|---|---|---|
| RunLock | `Exclusion`, `LiveRowsAlone`, `Refinement` | `ClosedRows` |
| Sentinel | `SightedOnce`, `PingsBounded`, `NothingUndecided`, `Refinement` | `NeverOnABaseline`, `ArmedWithItsCatalogue` |
| Catalogue | `AnnouncedOnce`, `PostsBounded` | `FillsSilently` |
| Qualification | `QualifiedFirst` | |
| Leads | `OutcomeKnown`, `WarnedOnce` | `LeadsStayFinal` |
| News | `NewOnce`, `RemembersAll`, `StatusHonest` | |
| Novelty | `EveryChangeOnce`, `OldStockStaysOld` | `OneLaunchOneClaim`, `SyncsAreNoLaunches` |
| Review | `RacersRecorded`, `NeverABlacklist`, `HistoryTraversable`, `Traversable` | `OriginalKept` |
| Discovery | `LinkedEvidence`, `InboxRefinement` | `HistoryKept` |
| Operations | `OneAtATime`, `Earned`, `StaysVisible` | |

To these comes `TypeCorrect` of each component (`InboxTypeCorrect` for Discovery,
`NoveltyTypeCorrect` for Novelty). With them every invariant, action property and
refinement that a run checks is proved.

* **RunLock.**
  `MutualExclusion` is not inductive: two slots could both *be* "granted" with the
  grant elsewhere. `IInv` adds `GrantOwned` (whoever acts on the lock is who the
  kernel granted it to) and `RowOwned` (a slot writes only to its own, existing row).
* **Sentinel.** With or without a working lock. `PingsBounded`: at most `MaxPost`
  messages per identity and lost sweep, plus one. `IInv` relates the two views of the rows: both are consistent in
  themselves (`Consistent`), what is uncommitted extends what is committed
  (`Extending`), and a process that has an identity in hand (`InHand`) is at the
  stage its rows say. The step is proved by kinds: actions that leave the rows
  alone, that admit, that record, that decide, and the crash.
  Three properties are about what a sweep *remembers* of rows it read earlier. `MInv`
  says that this memory stays true (`Remembered`): sources it saw armed are durably
  armed, what it takes for known is there, and what it is about to arm is either
  pending in its session or in the only rows its transaction arms. It is inductive
  because rows only grow, and because a step of one process looks to all others like
  growth (`Apart`, `OthersRemember`).
* **Catalogue.** `IInv` is
  `OneWriter` (a process inside an item owns the write transaction, so what it
  read stays true until its commit), `GatesHold` (a gate that a run read as open
  *is still open*: history moves one way, `HistoryMovesOneWay`, so a stale gate
  errs towards silence), `VerdictHolds` and `SilenceHolds` (the verdict in memory
  is still the right one at the commit), and `PostsCounted`. This is the argument
  why reading the gates before the lock is safe.
* **Qualification.** `IInv` needs `LockHeld` (one process runs a
  lane, so no terminal row of other code can come between a run's reset and its
  events), `RowsAreNamed` (which kinds of row name a revision, and that resets
  qualify nobody) and `Stamped` (while a run collects, its lane's evidence names its
  code or none). It covers any `JudgesAs`: rows that other lanes append here can only
  close the gate.
* **Leads.** One run at a time is the writer, and all it adds is in `draft`. `IInv`:
  the writer's view extends what is committed (`DraftExtends`, which is
  `LeadsAreFinal` between the two), a lead about to be inserted is new to the writer
  (`WriterAhead`: the read came before the lock, yet only an INSERT that loses can
  follow), and every message is accounted for by the lead that announced its
  reference or by a fault (`WarningsAccounted`, `Warned`). The duplicate gate is thus
  enough although it reads before it posts.
* **News.** The announcement commits in parts. `IInv` says of the committed and of the
  uncommitted rows alike that a watch's Event exists only where it can never be due again
  (`WatchSound`), that a lead has all or none (`LinkSound`), and of the announcement in
  hand that references still to do and watches remembered are together its references
  (`InHand`), whichever alert committed a part. `PostsBacked` counts messages against
  Events. `StatusHonest` says that a run's row hides nothing. A step behind it
  is pure (`Combined` of two components and the lists of those that failed or did not run);
  the rest is what a clean row means of the database. `NewsSoFar`: while no item
  of the run has failed, every announcement is still to do, in hand or on record.
  `CatalogueSoFar`: a candidate is still to do or observed, unless the slice was full. `RowSound`
  carries both past the end of the run, because leads, links and observations are never taken
  back, whatever crashes, merges or the lane do later (`Keeps`). Of a run without a catalogue part
  `NotAsked` says that this part has no say in the status.
* **Operations.** `OneAtATime` is part of its own induction (`OneThread`, with the mode
  of the flag). `Earned` needs `TopIsTrue`: a killed child's RUNNING row stays on top
  until recovery closes it as FAILED, so a success on top is the last word; for this a child
  must hold its source's lock (`ChildrenHold`). `StaysVisible` needs only that the
  component row remembers (`BarredIsNoted`): no number of failed, skipped or killed
  runs can push a block out of sight, as they would out of a window of rows.
* **Novelty.** `ReportedOnce` is `ChangesAreReportedOnce` with "exactly one" written as "the
  singleton of some Event": no cardinality has to be computed until the last step.
  `OnFile` ties the tables together: an Event of a change names an observation that is
  there, so appending an observation cannot make an old Event report it, and appending
  any other Event cannot report it a second time. `ChangedAt` looks at the last earlier
  observation of the same market, which later rows never change. `OneLaunchOneClaim` puts three
  things together. A lane or an announcement claims the launch of a watch nobody knows, so no
  Event about it can be there (`OnFile`). What an operator has checked stays free of claims
  (`CheckedWereFree`). And of what came since the check (`Overlapping`) nothing is the
  operator's own, and no claim of the launch is a lane's or an announcement's, because the watch has
  been on file at least since the check. What is left are two operators. `SyncsClaimNothing` is about what the code counts:
  other pages of the batch and other watches on record, a watch in both counted
  twice. That count is at least the number of distinct watches of the date
  (`DatedReferences`), and the collections counted are exactly theirs (`DatedCollections`), so
  counting twice can only hold a claim back. A batch that lists a reference twice with
  two collections would spoil the second fact, since the code skips pages of the page's own
  reference; hence the assumption on what is served and `RunsServe`, that the batch
  in hand is one of those. `InheritedStockIsOld` needs the parts of the score (`Base`,
  `Character`): 25 for SOLD_OUT and at most 40 for what the watch is called stay below the
  threshold of 70, and only a rapid sell-out after an observed stock passes it.
* **Review.** A submission works on a copy of the row it has read. `Informed` says what
  survives of this copy: the item is reviewed and its first verdict is the same.
  `Races` is why two verdicts never lose one: after the first, any copy is that row or
  none. After the second this stops being true (`ReviewAudit.cfg`), and `RecallFirst`
  therefore speaks of verdicts that were given, not of those still on the row.
  Paging has an invariant of its own, `PInv`: what was listed when the page was opened
  and is not shown yet still comes after the cursor (`HistoryPage`, `QueuePage`). For the history this needs nothing (`HistoryTraversable`), because
  its cursor and its order are the same. The queue is sorted by tier first and paged by id:
  `Traversable` assumes `Aligned`, that no older item has a tier that sorts it before
  a newer one. The queue of leads, with its single tier, satisfies it; for Events with several
  tiers the property is false, and `ReviewTiers.cfg` has the counterexample. The run
  `review` and the theorem state the same property; the theorem has any number
  of operators, items and pages of any size.
* **Discovery.** `D1IInv` says of each command what it has in hand. Its draft is the
  generation it took with a first part of its batch imported, or with its one verdict
  (`Importing`, `Judging`); everything the draft and the inbox refer to is whole on disk
  (`WholeIn`), since evidence is written before it is linked and a whole file is never
  written again; and unless another publication came between (`stale`) the draft keeps
  everything the inbox has (`Keeps`). `InboxRefinement` maps a draft to nothing
  and a command's base to what it has taken, so only `NewGeneration`, `Replace` and
  `Interrupt` are seen, and `Replace` is one whole import. `Discovery`
  imports line by line where `ProposalInbox` applies the recursive function `Imported`
  to a whole batch; that such a function over the lines exists is proved by a least
  counterexample (`LeastElement`), and each `Insert` then moves one place along it.

Model-checked only, and why:

* Liveness (`RowsEventuallyClose`, `LocksAreFreed`,
  `CandidatesAreObserved`, `DeliveryComesBack`, `MatchesAreFound`, `LeadsAreLinked`,
  `CandidatesAreRead`, `CollectionsEnd`): the prover does not
  handle fairness and ENABLED.


## 6. Where code and documentation disagree

*With a configuration that shows it (section 3):*

1. `SentinelTwice`: `sentinel/alerting.py:8` relies on the receipt to prevent a double
   ping, but it is committed with the whole sweep (`runner.py:301`), so a crash after
   the post forgets it.
2. `SentinelRow`: the savepoint of the first admission of a sweep (`store.py:87`) commits
   the identity by itself; a crash before the sighting leaves an identity that is
   known, never alerted, and without the row `models/sentinel.py:18` speaks of.
3. `CatalogueWindow`: the fill window is documented in terms of unseen URLs
   (`initial_fill.py:33`) and computed from new watches (`:103`); a watch another lane
   knows closes it early.
4. `CatalogueSmallBudget`: a lane whose default budget is below 300 never has
   its default runs counted as passes (`pipeline.py:3540`), so the ceiling of
   `initial_fill.py:28` does not apply to it.
5. `QualificationForeign`: a casio_multi run of a new revision delivers catalogue
   events on evidence of the old one, because it resets its own lane's evidence only
   (`pipeline.py:2748`; `qualification.py:62`).
6. `NewsFlood`: a first run whose catalogue part was blocked counts as the runner's
   first success, so the next one announces the whole catalogue, although
   `pipeline.py:255` promises a silent first catalogue.
7. `LeadsTwice`: two standing lanes of one maker may both find no receipt
   (`specialist_leads.py:73`) and post the same follow-up, which `models/delivery.py:53`
   says is recognised and refused.
8. `ReviewTiers`: the queue of Events is sorted by tier and paged by id (`qc.py:207`); with
   several tiers and more than a page of rows, some rows are on no page. The test that the
   whole queue is traversable (`tests/test_web.py:676`) has one tier.
9. `NoveltyOrder`: two pages of one batch may get different verdicts, because pages
   already ingested are counted twice in the shape of the batch
   (`pipeline.py:1246-1271`); the comment at `:3622-3625` says the order of ingestion does
   not matter. What holds is `SyncsClaimNothing`.
10. `ReviewAudit`: a correction is computed from the row as it was read (`qc.py:288`), so
   of three verdicts given by overlapping requests one may leave the row's history, although
   `qc.py:256-259` says that a correction stays auditable. Two are always both there
   (`RacersAreRecorded`), and so is the first (`OriginalVerdictKept`).
11. `NoveltyCatchUp`: the catch-up reads the existing claim
   (`pipeline.py:1539`) and commits its own at `:1599`; nothing refuses a second one. Two
   operators who both read before either commits both create a NEW_REFERENCE Event, although the
   docstring (`:1515-1517`) says that two operators at once are "skipped, not double-fired".
   What holds is `LaunchesAreClaimedOnce`.
12. `CatalogueCeiling`: a watch behind the ceiling of its document is in no slice of any run, however
   many runs there are. For the Japanese Casio sitemap the comment at
   `casio_jp_sitemap.py:127-132` says so itself: about 14,800 of about 17,800 urls are never
   considered. `CandidatesAreObserved` and `CandidatesAreRead` are about what is left.
13. `CatalogueMoved`: a page that redirects is stored under its final url, so its listed url stays
   unseen and is fetched first in every run; a slice full of such pages starves all other
   candidates. `CandidatesAreObserved` holds as long as the smallest slice is larger than their number.

*Seen while modelling, and part of the models:*

* **Run rows.** Stale recovery judges a row "abandoned" by its age alone: a live run's
  row is set to FAILED and overwritten by its own verdict later
  (`ClosedRowsAreTheirOwners` allows exactly this). `_auto_baseline_for_first_run` is
  read before the lock, so a lane whose first success ends in between is baselined once
  more; `FillsSilently` shows that this only ever costs silence.
* **Health.** A lane without a component row of its own (specialist lanes, casio_multi)
  shows its acquisition as HEALTHY while it is blocked, as long as a success is among
  its last ten rows, although `health.py:123-128` says a persistent 403 never renders
  healthy; `BlockedStaysVisible` is therefore about lanes with a component row. An item
  that raises rolls back an uncommitted component update (`pipeline.py:748`), so a
  source that has recovered may stay BLOCKED and backed off. A run in progress shows
  as WARNING, a first one as FAILED. A SKIPPED_OVERLAP row between empty runs resets the
  empty streak. A child that dies before it has a row is reported with the previous
  run's status (`main.py:1078`), and an exception in `_latest_run_detail` leaves the
  dashboard "running" until it restarts (`main.py:1063`); `CollectionsEnd` excepts it.
* **Novelty.** NEW_REGION is emitted by a product lane for the region an announcement
  has already named (`pipeline.py:1968`). An observation after the baseline or a restock
  counts as the first non-baseline availability (`:1138-1162`). First sightings that are fresh
  but weakly evidenced are recorded during a baseline, although the docstring at
  `:1791-1795` says it is silent. An unknown stock between two known ones swallows the
  transition. A lane that observes a watch between an announcement's commits never
  reports its market (`:2632`, `:1051`).
* **News.** The catalogue fill gate (`:3540`) is not consulted by casio_multi. A run with
  nothing new whose catalogue was blocked reports FAILED. A run whose catalogue part is backed
  off reports SUCCESS; only `component_skipped` tells, and `StatusHidesNothing` includes
  this list for that reason.
* **Leads.** An outcome that is recorded again with an equal state loses its reason.
* **Discovery.** Overlapping commands lose updates (`docs/D1_DISCOVERY.md` documents a single
  writer; `OnlyOverlapLoses` says that nothing else does). A blob left short by a crash
  makes every later import of it fail. An interrupt right after `os.replace` removes
  the published generation. A verdict may refer to a proposal the published generation does not have.


## 7. What is not modelled, and why

Network and HTML (what a fetch returns is a free choice), rendering, logging,
argument parsing, backups, native launchers and packaging are I/O without state of
their own; so are benchmarks, history and deployment reports, which read
committed rows.

Reference and URL normalisation (`sentinel/identity.py`, the normalisers of the
collectors) are pure string rules; the models take a reference as the watch it
resolves to, and merging rules as constants (`Exact`, `Family`, `Key`).

Snapshot storage writes content-addressed blobs inside an item of the pipeline and
is read by nobody in the running system (replay has no caller). Discovery's own
blob store, which is shared and read back, is modelled.

Price and availability do not affect what the properties of `Catalogue` tell apart and are free
choices there; `Novelty` is about them. Time is only as fine as the code's questions of it. A second
operational epoch is a new deployment of the same model. The yield column of the
health page (STAGNANT), its totals, the counters of the review page and the layout of messages are left out.
`PROJECT.json` "components" gives each part's status.


## 8. The plan

The order is by what a wrong answer costs: first what could post twice, post
wrongly or go silent, then the lanes that share it, then what operators see.

1. *(done)* `OverlapGuard`, `RunLock`, `Overlap_proofs`.
2. *(done)* `Tripwire`, `Sentinel`, `Sentinel_proofs`.
3. *(done)* `Catalogue`, `Catalogue_proofs`: product lanes, fill, epoch.
4. *(done)* `Qualification`, `Qualification_proofs`.
5. *(done)* `Leads`, `News`, `Novelty`: the lanes that post on other evidence.
6. *(done)* `Review`, `ProposalInbox`, `Discovery`, `Health`, `Operations`: what
   operators read and write.
7. *(done)* Proofs for the modules of 5 and 6: `Leads_proofs`, `News_proofs`,
   `Review_proofs`, `Overlap_proofs` (Discovery), `Pipeline_proofs` (Novelty, Operations),
   and the rest of the Sentinel's properties.
8. `Algorithms`: normalisation as operators against reference definitions, and the yield
   column of the health page.

----------------------------- MODULE Catalogue ------------------------------
(***************************************************************************)
(* The product observation pipeline (app/services/pipeline.py) of the      *)
(* catalogue lanes: collectors that list one site's watches and record an  *)
(* observation of each.  The first time a watch turns up it becomes an     *)
(* Event, unless the lane is still silent: its first successful run, the   *)
(* passes that fill in its first catalogue (app/services/initial_fill.py)  *)
(* or the baseline of the operational epoch (app/services/epoch.py).       *)
(*                                                                         *)
(* Lanes run concurrently, share the watch identities and the database's   *)
(* one writer, and have an advisory lock each (RunLock says what the lock  *)
(* does; here it is held or not).  Every item of a run is one transaction, *)
(* open while its alert is posted; the first of them begins as soon as the *)
(* collector has answered.                                                 *)
(*                                                                         *)
(* A faults counter bounds what the environment does to a run: a source    *)
(* that does not answer, a page that cannot be fetched, parsed or stored,  *)
(* a raised exception, a dead process.                                     *)
(***************************************************************************)
EXTENDS Integers, FiniteSets

CONSTANTS Proc,          \* processes that run lanes
          Lane,          \* catalogue collectors
          LanesOf,       \* the lanes each process may run
          Item,          \* watch identities
          Region,        \* markets
          RegionOf,      \* default_region of each lane
          Budget,        \* default_max_items of each lane
          PassBudget,    \* default_budget of initial_fill_active
          SmallBudget,   \* an explicit --max-items of a smoke run
          Invocations,   \* how runs are started: default, smoke, forced (baseline)
          DetailCap,     \* what the lane's collector serves at most
          FillRuns,      \* INITIAL_FILL_RUNS
          FirstSeenOptIn,   \* setting discord_first_seen_enabled
          Listing,       \* what the site of each lane lists at first
          Position,      \* where in the document of its lane a watch stands
          Ceiling,       \* how much of it is considered (MAX_CANDIDATES, MAX_PAGES)
          Moved,         \* watches whose listed page redirects to another URL
          Newsworthy,    \* watches a news lane may announce
          Baselining,    \* an operator runs the baseline of the epoch
          MaxFaults,     \* bound on environment failures
          NoItem, Nobody

ASSUME CatalogueAssumption ==
    /\ Lane # {}
    /\ LanesOf \in [Proc -> SUBSET Lane]
    /\ RegionOf \in [Lane -> Region]
    /\ Budget \in [Lane -> Nat] /\ PassBudget \in Nat /\ SmallBudget \in Nat
    /\ Invocations \subseteq {"default", "smoke", "forced"}
    /\ DetailCap \in [Lane -> Nat]
    /\ FillRuns \in Nat \ {0}
    /\ FirstSeenOptIn \in BOOLEAN
    /\ Listing \in [Lane -> SUBSET Item]
    /\ Position \in [Lane -> [Item -> Nat]]
    /\ Ceiling \in [Lane -> Nat]
    /\ Moved \in [Lane -> SUBSET Item]
    /\ Newsworthy \subseteq Item
    /\ Baselining \in BOOLEAN
    /\ MaxFaults \in Nat
    /\ NoItem \notin Item
    /\ Nobody \notin Proc

VARIABLES listed,      \* what the site of each lane lists
          announced,   \* watches the news lanes created
          epoch,       \* baseline of the active operational epoch
          rows,        \* committed rows
          writer,      \* process whose write transaction is open
          holder,      \* process that holds the lock of each lane
          pc, run,     \* where each process is, and what it remembers
          posts,       \* alerts posted for the introduction of a watch by a lane
          faults

vars == <<listed, announced, epoch, rows, writer, holder, pc, run, posts, faults>>

(* How a lane's first observation of a watch was recorded: with no Event,  *)
(* or with an Event of this type.                                          *)
Novelty == {"FIRST_SEEN", "NEW_REFERENCE"}
Event == Novelty \union {"NEW_REGION"}
Introduction == Event \union {"UNSEEN", "SILENT"}

(* What the rows say of a lane's runs: some run ended SUCCESS, PARTIAL or  *)
(* ZERO_ITEMS; some ended SUCCESS or PARTIAL; one of those met a watch     *)
(* that was not new; how many of them were catalogue passes.               *)
History == [done : BOOLEAN, useful : BOOLEAN, mixed : BOOLEAN, passes : 0..FillRuns]

Rows == [intro : [Lane -> [Item -> Introduction]],
         history : [Lane -> History]]

PC == {"idle", "gated", "started", "items", "judged", "sent", "ended"}

Status == {"SUCCESS", "PARTIAL", "ZERO_ITEMS", "FAILED"}

Memory == [lane : Lane,
           invocation : {"default", "smoke", "forced"},
           baseline : BOOLEAN,        \* effective_force_baseline
           fillGate : BOOLEAN,        \* fill_gate
           unseen : BOOLEAN,          \* slice_pure_unseen
           todo : SUBSET Item,        \* fetched items still to process
           allNew : BOOLEAN,          \* discovered_count = new_watch_count > 0 so far
           status : Status,
           item : Item \union {NoItem},
           fresh : BOOLEAN,           \* published_at proves the watch is recent
           intro : Introduction]      \* what the transaction of item records

TypeOK ==
    /\ listed \in [Lane -> SUBSET Item]
    /\ announced \in SUBSET Item
    /\ epoch \in {"none", "open", "done"}
    /\ rows \in Rows
    /\ writer \in Proc \union {Nobody}
    /\ holder \in [Lane -> Proc \union {Nobody}]
    /\ pc \in [Proc -> PC]
    /\ run \in [Proc -> Memory]
    /\ posts \in [Lane -> [Item -> Nat]]
    /\ faults \in 0..MaxFaults

Blank(l) == [lane |-> l, invocation |-> "default", baseline |-> FALSE,
             fillGate |-> FALSE, unseen |-> FALSE, todo |-> {}, allNew |-> FALSE,
             status |-> "FAILED", item |-> NoItem, fresh |-> FALSE,
             intro |-> "UNSEEN"]

NoHistory == [done |-> FALSE, useful |-> FALSE, mixed |-> FALSE, passes |-> 0]

Init ==
    /\ listed = Listing
    /\ announced = {}
    /\ epoch = "none"
    /\ rows = [intro |-> [l \in Lane |-> [i \in Item |-> "UNSEEN"]],
               history |-> [l \in Lane |-> NoHistory]]
    /\ writer = Nobody
    /\ holder = [l \in Lane |-> Nobody]
    /\ pc = [p \in Proc |-> "idle"]
    /\ run = [p \in Proc |-> Blank(CHOOSE l \in Lane : TRUE)]
    /\ posts = [l \in Lane |-> [i \in Item |-> 0]]
    /\ faults = 0

-----------------------------------------------------------------------------
(* What the rows tell *)

Lane_(p) == run[p].lane

Observed(l) == {i \in Item : rows.intro[l][i] # "UNSEEN"}

(* The candidates: the document is cut at a ceiling before anything else,  *)
(* so what stands behind it does not exist for any run.                    *)
Visible_All(l) == listed[l]
Visible(l) ==
    {i \in listed[l] :
        Cardinality({j \in listed[l] : Position[l][j] < Position[l][i]}) < Ceiling[l]}

(* Known to the collector by its listed URL.  An observation is stored     *)
(* under the URL its page was at last served from.                         *)
Recognised(l) == Observed(l) \ Moved[l]

(* A Watch row exists. *)
Known(i) == i \in announced \/ \E l \in Lane : i \in Observed(l)

(* Regions the watch has product observations from. *)
ProductRegions(i) == {RegionOf[l] : l \in {m \in Lane : i \in Observed(m)}}

(* _auto_baseline_for_first_run: no successful run yet. *)
AutoBaseline(l) == ~rows.history[l].done

(* initial_fill_active: the first catalogue is still being filled in. *)
FillActive(l) ==
    LET h == rows.history[l] IN ~h.useful \/ (~h.mixed /\ h.passes < FillRuns)

Fault == faults < MaxFaults /\ faults' = faults + 1

-----------------------------------------------------------------------------
(* Start of a run *)

(* Both gates are read before the lock is asked for. *)
Begin(p, l, invocation) ==
    /\ pc[p] = "idle"
    /\ l \in LanesOf[p]
    /\ run' = [run EXCEPT ![p] =
                 [Blank(l) EXCEPT !.invocation = invocation,
                                  !.baseline = invocation = "forced" \/ AutoBaseline(l),
                                  !.fillGate = FillActive(l)]]
    /\ pc' = [pc EXCEPT ![p] = "gated"]
    /\ UNCHANGED <<listed, announced, epoch, rows, writer, holder, posts, faults>>

(* The lock is refused: a SKIPPED_OVERLAP row, which nothing here reads.   *)
Overlap(p) ==
    /\ pc[p] = "gated"
    /\ holder[Lane_(p)] # Nobody
    /\ writer = Nobody
    /\ run' = [run EXCEPT ![p] = Blank(Lane_(p))]
    /\ pc' = [pc EXCEPT ![p] = "idle"]
    /\ UNCHANGED <<listed, announced, epoch, rows, writer, holder, posts, faults>>

(* The lock is taken and the RUNNING row committed. *)
StartRun(p) ==
    /\ pc[p] = "gated"
    /\ holder[Lane_(p)] = Nobody
    /\ writer = Nobody
    /\ holder' = [holder EXCEPT ![Lane_(p)] = p]
    /\ pc' = [pc EXCEPT ![p] = "started"]
    /\ UNCHANGED <<listed, announced, epoch, rows, writer, run, posts, faults>>

(* effective_max_items, with the collector's own cap on pages; a baseline  *)
(* has no budget.                                                          *)
Least(m, n) == IF m < n THEN m ELSE n
SliceSize(p) ==
    LET l == Lane_(p)
        n == Least(DetailCap[l], Cardinality(Visible(l)))
    IN  IF run[p].invocation = "smoke" THEN Least(SmallBudget, n)
        ELSE IF run[p].baseline THEN n
        ELSE Least(Budget[l], n)

(* The collector serves the candidates with an unknown URL first. *)
Slices_DocumentOrder(p) ==
    {S \in SUBSET Visible(Lane_(p)) : Cardinality(S) = SliceSize(p)}
Slices(p) ==
    LET news == Visible(Lane_(p)) \ Recognised(Lane_(p))
    IN  {S \in SUBSET Visible(Lane_(p)) : /\ Cardinality(S) = SliceSize(p)
                                          /\ news \subseteq S \/ S \subseteq news}

(* The collector ran: fetched of the slice's pages came back.  Its state   *)
(* row and the retained listing are flushed, not committed.                *)
Collect(p, slice, fetched) ==
    /\ pc[p] = "started"
    /\ writer = Nobody
    /\ writer' = p
    /\ slice \in Slices(p)
    /\ fetched \subseteq slice
    /\ fetched # {} \/ slice = {}
    /\ IF fetched = slice THEN UNCHANGED faults ELSE Fault
    /\ run' = [run EXCEPT
         ![p].todo = fetched,
         ![p].allNew = slice # {} /\ fetched = slice,
         ![p].unseen = slice # {} /\ slice \intersect Recognised(Lane_(p)) = {},
         ![p].status = IF slice = {} THEN "ZERO_ITEMS"
                       ELSE IF fetched = slice THEN "SUCCESS" ELSE "PARTIAL"]
    /\ pc' = [pc EXCEPT ![p] = "items"]
    /\ UNCHANGED <<listed, announced, epoch, rows, holder, posts>>

(* Nothing useful came back: FAILED or BLOCKED (one status here), or       *)
(* ZERO_ITEMS when only the listing itself could be read.                  *)
CollectNothing(p, st) ==
    /\ pc[p] = "started"
    /\ writer = Nobody
    /\ writer' = p
    /\ Fault
    /\ run' = [run EXCEPT ![p].status = st]
    /\ pc' = [pc EXCEPT ![p] = "items"]
    /\ UNCHANGED <<listed, announced, epoch, rows, holder, posts>>

-----------------------------------------------------------------------------
(* One item: process_fetch_result *)

(* Baseline, initial fill or operational epoch: no Event. *)
Silenced_RunOnly(p) == run[p].baseline \/ (run[p].fillGate /\ run[p].unseen)
Silenced(p) == \/ run[p].baseline
               \/ run[p].fillGate /\ run[p].unseen
               \/ epoch = "open"

(* _resolve_or_create_watch: the identity is shared by all lanes. *)
IsNew_InThisLane(p, i) == i \notin Observed(Lane_(p))
IsNew(p, i) == ~Known(i)

(* _record_product_transition, for a watch this lane has not observed yet. *)
(* fresh: the source proves a recent publication, which breaks silence.    *)
Verdicts(p, i, fresh) ==
    IF Silenced(p) /\ ~fresh THEN {"SILENT"}
    ELSE IF IsNew(p, i) THEN {"FIRST_SEEN"} \union (IF fresh THEN {"NEW_REFERENCE"} ELSE {})
    ELSE IF RegionOf[Lane_(p)] \notin ProductRegions(i) THEN {"NEW_REGION"}
    ELSE {"SILENT"}

(* The write transaction is open or opens here; what is read from here to  *)
(* the commit cannot change.  Snapshot, Watch, observation and Event       *)
(* are flushed.  An observation of a watch the lane already has may only   *)
(* be a price or availability Event, which nothing here tells apart.       *)
OpenItem(p, i, fresh) ==
    /\ pc[p] = "items"
    /\ i \in run[p].todo
    /\ writer \in {Nobody, p}
    /\ writer' = p
    /\ fresh => IsNew(p, i)
    /\ \E verdict \in IF i \in Observed(Lane_(p)) THEN {"UNSEEN"} ELSE Verdicts(p, i, fresh) :
          run' = [run EXCEPT ![p].item = i, ![p].todo = @ \ {i}, ![p].fresh = fresh,
                             ![p].intro = verdict, ![p].allNew = @ /\ IsNew(p, i)]
    /\ pc' = [pc EXCEPT ![p] = "judged"]
    /\ UNCHANGED <<listed, announced, epoch, rows, holder, posts, faults>>

(* first_seen_alertable; every other gate is open or shut as it pleases.   *)
Alertable_Any(p) == run[p].intro # "UNSEEN"
Alertable(p) == run[p].intro \in Event /\ (run[p].intro = "FIRST_SEEN" => FirstSeenOptIn)

(* The alert reaches Discord, the transaction still open.  It need not: an *)
(* event may be committed unposted, for every other gate's reason.         *)
Post(p) ==
    /\ pc[p] = "judged"
    /\ Alertable(p)
    /\ posts' = [posts EXCEPT ![Lane_(p)][run[p].item] = @ + 1]
    /\ pc' = [pc EXCEPT ![p] = "sent"]
    /\ UNCHANGED <<listed, announced, epoch, rows, writer, holder, run, faults>>

(* The one commit of everything the item wrote. *)
CommitItem(p) ==
    /\ pc[p] \in {"judged", "sent"}
    /\ rows' = IF run[p].intro = "UNSEEN" THEN rows
               ELSE [rows EXCEPT !.intro[Lane_(p)][run[p].item] = run[p].intro]
    /\ writer' = Nobody
    /\ run' = [run EXCEPT ![p].item = NoItem, ![p].fresh = FALSE,
                          ![p].intro = "UNSEEN"]
    /\ pc' = [pc EXCEPT ![p] = "items"]
    /\ UNCHANGED <<listed, announced, epoch, holder, posts, faults>>

(* The page does not parse, or anything raises: the item is rolled back    *)
(* (or holds no watch), and the run goes on with the next one.             *)
FailItem(p) ==
    /\ pc[p] \in {"judged", "sent"}
    /\ Fault
    /\ writer' = Nobody
    /\ run' = [run EXCEPT ![p].item = NoItem, ![p].fresh = FALSE,
                          ![p].intro = "UNSEEN", ![p].allNew = FALSE]
    /\ pc' = [pc EXCEPT ![p] = "items"]
    /\ UNCHANGED <<listed, announced, epoch, rows, holder, posts>>

(* Another process holds the writer for longer than the busy handler       *)
(* waits: the item is given up before anything of it was stored.           *)
GiveUpItem(p, i) ==
    /\ pc[p] = "items"
    /\ i \in run[p].todo
    /\ writer \notin {Nobody, p}
    /\ Fault
    /\ run' = [run EXCEPT ![p].todo = @ \ {i}, ![p].allNew = FALSE]
    /\ UNCHANGED <<listed, announced, epoch, rows, writer, holder, pc, posts>>

-----------------------------------------------------------------------------
(* End of a run *)

(* _is_catalogue_pass: max_items is None, or at least default_budget.      *)
CataloguePass(p) ==
    CASE run[p].invocation = "smoke" -> SmallBudget >= PassBudget
      [] run[p].invocation # "smoke" /\ run[p].baseline -> TRUE
      [] OTHER -> Budget[Lane_(p)] >= PassBudget

Good(p) == run[p].status \in {"SUCCESS", "PARTIAL"}

Counted(p) ==
    LET h == rows.history[Lane_(p)]
    IN  [done |-> h.done \/ run[p].status # "FAILED",
         useful |-> h.useful \/ Good(p),
         mixed |-> h.mixed \/ (Good(p) /\ ~run[p].allNew),
         passes |-> IF Good(p) /\ CataloguePass(p) THEN Least(h.passes + 1, FillRuns)
                    ELSE h.passes]

(* The closing commit of the run row. *)
FinishRun(p) ==
    /\ pc[p] = "items"
    /\ run[p].todo = {}
    /\ writer \in {Nobody, p}
    /\ writer' = Nobody
    /\ rows' = [rows EXCEPT !.history[Lane_(p)] = Counted(p)]
    /\ run' = [run EXCEPT ![p] = Blank(Lane_(p))]
    /\ pc' = [pc EXCEPT ![p] = "ended"]
    /\ UNCHANGED <<listed, announced, epoch, holder, posts, faults>>

Abandoned(p) == IF writer = p THEN Nobody ELSE writer

(* The collector, an annotation or a commit raises: what was flushed is    *)
(* rolled back and the row closed FAILED, if the writer can be had; what   *)
(* the items committed stays.                                              *)
RaiseRun(p) ==
    /\ pc[p] \in {"started", "items"}
    /\ Fault
    /\ writer' = Abandoned(p)
    /\ run' = [run EXCEPT ![p] = Blank(Lane_(p))]
    /\ pc' = [pc EXCEPT ![p] = "ended"]
    /\ UNCHANGED <<listed, announced, epoch, rows, holder, posts>>

Unlocked(p) == [l \in Lane |-> IF holder[l] = p THEN Nobody ELSE holder[l]]

Release(p) ==
    /\ pc[p] = "ended"
    /\ holder' = Unlocked(p)
    /\ pc' = [pc EXCEPT ![p] = "idle"]
    /\ UNCHANGED <<listed, announced, epoch, rows, writer, run, posts, faults>>

Crash(p) ==
    /\ pc[p] # "idle"
    /\ Fault
    /\ writer' = Abandoned(p)
    /\ holder' = Unlocked(p)
    /\ run' = [run EXCEPT ![p] = Blank(Lane_(p))]
    /\ pc' = [pc EXCEPT ![p] = "idle"]
    /\ UNCHANGED <<listed, announced, epoch, rows, posts>>

-----------------------------------------------------------------------------
(* Around the lanes *)

(* The site lists a watch it did not list before. *)
Publish(l, i) ==
    /\ i \notin listed[l]
    /\ listed' = [listed EXCEPT ![l] = @ \union {i}]
    /\ UNCHANGED <<announced, epoch, rows, writer, holder, pc, run, posts, faults>>

(* A news lane creates the Watch and a lead with its region. *)
Announce(i) ==
    /\ i \in Newsworthy
    /\ ~Known(i)
    /\ writer = Nobody
    /\ announced' = announced \union {i}
    /\ UNCHANGED <<listed, epoch, rows, writer, holder, pc, run, posts, faults>>

StartBaseline ==
    /\ Baselining
    /\ epoch = "none"
    /\ writer = Nobody
    /\ epoch' = "open"
    /\ UNCHANGED <<listed, announced, rows, writer, holder, pc, run, posts, faults>>

CompleteBaseline ==
    /\ epoch = "open"
    /\ writer = Nobody
    /\ epoch' = "done"
    /\ UNCHANGED <<listed, announced, rows, writer, holder, pc, run, posts, faults>>

Collected(p) ==
    /\ pc[p] = "started"
    /\ \/ \E slice \in Slices(p) : \E fetched \in SUBSET slice : Collect(p, slice, fetched)
       \/ \E st \in {"FAILED", "ZERO_ITEMS"} : CollectNothing(p, st)

ItemStep(p) ==
    \/ \E i \in Item, fresh \in BOOLEAN : OpenItem(p, i, fresh)
    \/ Post(p)
    \/ CommitItem(p)

RunStep(p) ==
    \/ Overlap(p) \/ StartRun(p) \/ Collected(p) \/ ItemStep(p)
    \/ FinishRun(p) \/ Release(p)

ItemLost(p) == FailItem(p) \/ \E i \in Item : GiveUpItem(p, i)

Start(p) == \E l \in Lane, invocation \in Invocations : Begin(p, l, invocation)

Environment ==
    \/ \E l \in Lane, i \in Item : Publish(l, i)
    \/ \E i \in Item : Announce(i)
    \/ StartBaseline \/ CompleteBaseline

Next ==
    \/ \E p \in Proc : Start(p) \/ RunStep(p) \/ ItemLost(p) \/ RaiseRun(p) \/ Crash(p)
    \/ Environment

Spec == Init /\ [][Next]_vars

(* Timers fire each process again and again, and a run that was started    *)
(* keeps executing: fetches and posts have timeouts, and the busy handler  *)
(* retries a write until it meets one of the gaps other writers leave      *)
(* while they fetch pages, hence the strong fairness.  That the            *)
(* environment fails only MaxFaults times is the bound of the model.       *)
FairSpec == Spec /\ \A p \in Proc : WF_vars(Start(p)) /\ SF_vars(RunStep(p))

-----------------------------------------------------------------------------
(* Properties *)

(* However many lanes list a watch and however their runs overlap, it is   *)
(* announced as new once, by one lane; a market is announced as new once,  *)
(* by one of its lanes, and only for a watch that was known elsewhere.     *)
OneNoveltyPerWatch ==
    \A i \in Item :
        /\ \A l, m \in Lane :
              rows.intro[l][i] \in Novelty /\ rows.intro[m][i] \in Novelty => l = m
        /\ \A l, m \in Lane :
              /\ rows.intro[l][i] = "NEW_REGION" /\ rows.intro[m][i] \in Event
              /\ RegionOf[l] = RegionOf[m]
              => l = m
        /\ \A l \in Lane : rows.intro[l][i] = "NEW_REGION" =>
              i \in announced \/ \E m \in Lane : RegionOf[m] # RegionOf[l] /\ i \in Observed(m)

(* The process whose transaction is committed introduces the watch.        *)
Introduces(p, l, i) ==
    /\ run[p].lane = l /\ run[p].item = i
    /\ rows.intro[l][i] = "UNSEEN" /\ rows'.intro[l][i] # "UNSEEN"

(* No Event is ever recorded for what a lane finds before the database     *)
(* holds a successful run of it, during its first catalogue passes, or     *)
(* while the epoch's baseline is open, unless the source proves the watch  *)
(* is recent: judged by the rows at the commit, although two of the three  *)
(* gates were read before the lock was taken (pipeline.py:239-256,         *)
(* initial_fill.py:3-16).                                                  *)
SilentWhileFilling ==
    [][\A p \in Proc, l \in Lane, i \in Item :
          Introduces(p, l, i) /\ rows'.intro[l][i] \in Event =>
             \/ run[p].fresh
             \/ /\ rows.history[l].done
                /\ epoch # "open"
                /\ run[p].invocation # "forced"
                /\ ~(FillActive(l) /\ run[p].unseen)]_vars

(* The introduction of a watch is posted at most once, and once more for   *)
(* every item or process lost after it was posted; nothing is posted for   *)
(* one that was recorded silently, unless such a loss came between.        *)
PostsAreAccountedFor ==
    \A l \in Lane, i \in Item :
        /\ posts[l][i] <= 1 + faults
        /\ rows.intro[l][i] \in {"UNSEEN", "SILENT"} =>
              posts[l][i] <= faults \/ \E p \in Proc : pc[p] = "sent" /\ run[p].item = i

(* In the end every candidate of a lane is observed by it, and stays so,   *)
(* although every run takes only a slice of them, any page may fail, and   *)
(* moved pages never become known: as long as the smallest slice holds     *)
(* more than those.  What stands behind the ceiling is never observed      *)
(* (ListedIsObserved), and a slice full of moved pages starves the rest    *)
(* (MovedLeaveRoom).                                                       *)
CandidatesAreObserved ==
    \A l \in Lane :
        Cardinality(Moved[l]) < Least(DetailCap[l], Least(Budget[l], SmallBudget)) =>
            <>[](Visible(l) \subseteq Observed(l))

(* The same of every listed watch, wherever its document lists it.  The    *)
(* code does not ensure it: casio_jp_sitemap.py:127-132, the ceiling is "a *)
(* HARD ceiling on what is even considered".                               *)
ListedIsObserved ==
    \A l \in Lane, i \in Item : i \in listed[l] ~> i \in Observed(l)

(* The same of the candidates, however many pages have moved.  The code    *)
(* does not ensure it: moved pages stay unknown and are served first in    *)
(* every run.                                                              *)
MovedLeaveRoom ==
    \A l \in Lane, i \in Item :
        i \in Visible(l) ~> i \in Observed(l) \/ i \notin Visible(l)

(* initial_fill.py:33, "runs 2..N at full budget, 100% unseen -> window    *)
(* open".  The code does not ensure it: it counts new watches, not unseen  *)
(* URLs, and a watch may be known from another lane.                       *)
UnseenSlicesKeepTheWindowOpen ==
    [][\A p \in Proc : LET l == Lane_(p) IN
          FinishRun(p) /\ FillActive(l) /\ run[p].unseen =>
             FillActive(l)' \/ Counted(p).passes = FillRuns]_vars

(* initial_fill.py:28-29, "max_items is None (unbounded) or == default     *)
(* budget => real catalogue pass; counts toward INITIAL_FILL_RUNS".  The   *)
(* code does not ensure it: every lane is measured against 300, and one    *)
(* has a smaller budget of its own.                                        *)
DefaultRunsArePasses ==
    [][\A p \in Proc : LET l == Lane_(p) IN
          FinishRun(p) /\ run[p].invocation = "default" /\ Good(p) =>
             rows.history[l].passes' = Least(rows.history[l].passes + 1, FillRuns)]_vars
=============================================================================

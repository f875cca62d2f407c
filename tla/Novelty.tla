------------------------------ MODULE Novelty -------------------------------
(***************************************************************************)
(* What one observation of a product is worth                              *)
(* (_record_product_transition and what it calls in                        *)
(* app/services/pipeline.py, score_event and editorial_eligibility of      *)
(* app/services/editorial.py), and the operators' catch-up of launches     *)
(* that a baseline silenced.                                               *)
(*                                                                         *)
(* A run stages the pages its source served, then ingests them one by one: *)
(* an item's watch, observation and Event are one transaction, which holds *)
(* SQLite's write lock from its first row on, so it is one step.           *)
(*                                                                         *)
(* One manufacturer, whose lanes read one market each and hold their own   *)
(* locks.  A reference is the watch it resolves to.  Time is counted in    *)
(* days, and two pages were published within 90 seconds of each other if   *)
(* they bear the same date.  A price is an amount in the currency of its   *)
(* market.  Catalogue says which runs are silent, and Qualification and    *)
(* Review what becomes of an Event.                                        *)
(***************************************************************************)
EXTENDS Naturals, Sequences, FiniteSets, SequencesExt

CONSTANTS Lane, Operator, Ref, Region,
          RegionOf,    \* the market of a lane
          FirstParty,  \* lanes that read the maker's own shop
          NewsRegion,  \* the market announcements are made for
          Served,      \* sequences of pages a lane's source may serve
          Collection,
          Family,      \* collections on the recognisable list
          MinSize, MinCollections, \* bulk_touch_cluster_min_...
          Fresh, CatchUp, Recent,  \* windows: freshness, catch-up, launch
          BurstCount,  \* catalogue_backfill_burst_min_count
          Announced,   \* watches the maker's news may name
          MaxDay, MaxRuns, MaxNews, MaxLooks, MaxFaults, \* bounds of the model
          None

Stock == {"AVAILABLE", "SOLD_OUT", "UNAVAILABLE", "PREORDER"}
Gone == {"SOLD_OUT", "UNAVAILABLE"}

(* back: tagged as reactivated; named: limited edition, collaboration.     *)
Facts == [coll : Collection \union {None}, pub : Nat \union {None},
          back : BOOLEAN, named : 0..2]
Page == [ref : Ref, facts : Facts, stock : Stock \union {None}, price : Nat \union {None}]

Sighting == {"NEW_REFERENCE", "FIRST_SEEN_BY_CLANK"}
Claim == {"NEW_REFERENCE", "NEW_REGION"}
Supply == {"SOLD_OUT", "RESTOCK"}  \* AVAILABILITY_EVENT_TYPES
Change == Supply \union {"AVAILABILITY_CHANGE", "PRICE_CHANGE"}
EventType == Claim \union Sighting \union Change

(* A collector of the maker's shop that reads dates lists a reference once. *)
ASSUME NoveltyAssumption ==
    /\ RegionOf \in [Lane -> Region] /\ NewsRegion \in Region /\ Announced \subseteq Ref
    /\ FirstParty \subseteq Lane /\ Family \subseteq Collection
    /\ Lane \cap Operator = {}
    /\ \A l \in Lane : \A s \in Served[l] :
          /\ s \in Seq(Page)
          /\ l \in FirstParty =>
                \A i, j \in DOMAIN s : s[i].ref = s[j].ref /\ s[i].facts.pub # None => i = j
    /\ {MinSize, MinCollections, Fresh, CatchUp, Recent, BurstCount} \subseteq Nat
    /\ {MaxDay, MaxRuns, MaxNews, MaxLooks, MaxFaults} \subseteq Nat
    /\ None \notin Ref \union Region \union Collection \union Stock \union Nat
                   \union Lane \union Operator \union Facts \union EventType

VARIABLES day,
          watches,  \* a watch as its first page described it, or None
          obs,      \* source_observations, in the order of their commits
          events,   \* the Events, likewise
          markets,  \* the regions a watch's release leads name
          lead,     \* a watch of the announcement in progress
          run,      \* a lane's run: pages, the next one, silent, its Events
          op,       \* a catch-up: the watch named, and once it has passed
                    \* the check, how many Events there were then
          spent     \* runs, announcements, looks and faults so far

noveltyVars == <<day, watches, obs, events, markets, lead, run, op, spent>>

NoRun == [pages |-> <<>>, next |-> 0, silent |-> FALSE, mine |-> {}]
NoCatchUp == [ref |-> None, seen |-> None]

Observation == [ref : Ref, region : Region, at : 0..MaxDay, baseline : BOOLEAN,
                stock : Stock \union {None}, price : Nat \union {None}]
Event == [type : EventType, ref : Ref, new : Nat, prior : Nat,
          by : Lane \union Operator \union {None},
          score : 0..100, current : BOOLEAN, burst : BOOLEAN]
Run == [pages : Seq(Page), next : Nat, silent : BOOLEAN, mine : SUBSET Nat]

NoveltyTypeOK ==
    /\ day \in 0..MaxDay
    /\ watches \in [Ref -> Facts \union {None}]
    /\ obs \in Seq(Observation)
    /\ events \in Seq(Event)
    /\ markets \in [Ref -> SUBSET Region]
    /\ lead \in Ref \union {None}
    /\ run \in [Lane -> Run]
    /\ \A l \in Lane : /\ run[l] = NoRun \/ run[l].next \in 1..(Len(run[l].pages) + 1)
                       /\ run[l].mine \subseteq DOMAIN events
    /\ op \in [Operator -> [ref : Ref \union {None}, seen : 0..Len(events) \union {None}]]
    /\ spent \in [runs : 0..MaxRuns, news : 0..MaxNews, looks : 0..MaxLooks,
                   faults : 0..MaxFaults]

NoveltyInit ==
    /\ day = 0
    /\ watches = [w \in Ref |-> None]
    /\ obs = <<>> /\ events = <<>>
    /\ markets = [w \in Ref |-> {}] /\ lead = None
    /\ run = [l \in Lane |-> NoRun]
    /\ op = [o \in Operator |-> NoCatchUp]
    /\ spent = [runs |-> 0, news |-> 0, looks |-> 0, faults |-> 0]

Known(w) == watches[w] # None
Seen(w) == {i \in DOMAIN obs : obs[i].ref = w}
Market(w, r) == {i \in Seen(w) : obs[i].region = r}
ProductRegions(w) == {obs[i].region : i \in Seen(w)}
Least(S) == CHOOSE i \in S : \A j \in S : i <= j
Greatest(S) == CHOOSE i \in S : \A j \in S : j <= i

-----------------------------------------------------------------------------
(* First sightings *)

(* Published no later than it was observed, and not long before.           *)
IsFresh(pub) == pub # None /\ pub <= day /\ day - pub <= Fresh

(* The source itself proves that a page is recent, which breaks a silence. *)
ProvenFresh(f, l) == l \in FirstParty /\ IsFresh(f.pub)

(* The page's tags tell of a return to the catalogue, not of a launch.     *)
Reactivated(f) == f.back

(* Other pages of the batch, and other watches that are on record: a page  *)
(* of the batch that was ingested already is both.                         *)
Staged_Ingested(w, pub, l) == {}

Staged(w, pub, l) ==
    {i \in DOMAIN run[l].pages : /\ run[l].pages[i].ref # w
                                 /\ run[l].pages[i].facts.pub = pub}
OnRecord(w, pub) == {x \in Ref \ {w} : Known(x) /\ watches[x].pub = pub}

Siblings(w, pub, l) == Cardinality(Staged(w, pub, l)) + Cardinality(OnRecord(w, pub))

Collections(w, f, l) ==
    ({f.coll} \union {run[l].pages[i].facts.coll : i \in Staged(w, f.pub, l)}
              \union {watches[x].coll : x \in OnRecord(w, f.pub)}) \ {None}

BulkTouch(w, f, l) ==
    /\ Siblings(w, f.pub, l) + 1 >= MinSize
    /\ Cardinality(Collections(w, f, l)) >= MinCollections

IsLaunch(w, f, l) ==
    /\ ProvenFresh(f, l)
    /\ ~Reactivated(f)
    /\ ~BulkTouch(w, f, l)

FirstSighting(w, f, l) ==
    IF IsLaunch(w, f, l) THEN "NEW_REFERENCE" ELSE "FIRST_SEEN_BY_CLANK"

-----------------------------------------------------------------------------
(* Later observations *)

Moved(a, b) == a # None /\ b # None /\ a # b

(* classify_price_availability_transition: availability wins.              *)
Transition(old, new) ==
    CASE Moved(old.stock, new.stock) ->
           (CASE old.stock = "AVAILABLE" /\ new.stock \in Gone -> "SOLD_OUT"
              [] old.stock \in Gone /\ new.stock = "AVAILABLE" -> "RESTOCK"
              [] OTHER -> "AVAILABILITY_CHANGE")
      [] ~Moved(old.stock, new.stock) /\ Moved(old.price, new.price) -> "PRICE_CHANGE"
      [] OTHER -> None

Prior_AnyMarket(w, r) == IF Seen(w) = {} THEN 0 ELSE Greatest(Seen(w))

(* The observation a new one of this market is compared with.              *)
Prior(w, r) == IF Market(w, r) = {} THEN 0 ELSE Greatest(Market(w, r))

(* A known watch: a market it was not listed in, or a change in its own.   *)
Later(page, r) ==
    IF Prior(page.ref, r) # 0 THEN Transition(obs[Prior(page.ref, r)], page)
    ELSE IF ProductRegions(page.ref) \union markets[page.ref] # {} THEN "NEW_REGION"
    ELSE None

LaunchEvidence_Any(w, r) == {i \in Market(w, r) : obs[i].stock = "AVAILABLE"}

(* First AVAILABLE observation of the market that was not a baseline's.    *)
LaunchEvidence(w, r) ==
    {i \in Market(w, r) : obs[i].stock = "AVAILABLE" /\ ~obs[i].baseline}

Rapid(page, r) ==
    \/ /\ LaunchEvidence(page.ref, r) # {}
       /\ day - obs[Least(LaunchEvidence(page.ref, r))].at <= Recent
    \/ LaunchEvidence(page.ref, r) = {} /\ page.stock = "AVAILABLE"  \* itself

-----------------------------------------------------------------------------
(* Scoring *)

If(condition, points) == IF condition THEN points ELSE 0
AtMost(n, max) == IF n > max THEN max ELSE n

Percent(old, new) ==
    IF old = 0 THEN 5  \* no percentage: +15
    ELSE (100 * (IF new > old THEN new - old ELSE old - new)) \div old

Base(type, page, old) ==
    CASE type = "NEW_REFERENCE" -> 30
      [] type = "FIRST_SEEN_BY_CLANK" -> 5
      [] type = "NEW_REGION" -> 30 + If(page.price # None, 15) + If(page.stock # None, 5)
      [] type = "PRICE_CHANGE" -> AtMost(10 + Percent(old.price, page.price), 35)
      [] type = "SOLD_OUT" -> 25
      [] OTHER -> 15

(* What a watch's name and its limited edition flag are worth.             *)
Named(f) == 10 * f.named

Character(type, f, firstParty) ==
    If(firstParty, 10) + If(f.coll \in Family, 20) + If(type # "NEW_REGION", Named(f))

Editorial(type, f, score) ==
    type \in Supply => (Named(f) > 0 \/ f.coll \in Family) /\ score >= 70

Scored(type, page, f, old, rapid, firstParty) ==
    AtMost(Base(type, page, old) + If(rapid, 35) + Character(type, f, firstParty), 100)

EventOf(type, page, f, new, prior, by, rapid, firstParty) ==
    LET score == Scored(type, page, f, IF prior = 0 THEN page ELSE obs[prior], rapid, firstParty)
    IN  [type |-> type, ref |-> page.ref, new |-> new, prior |-> prior, by |-> by,
         score |-> score, current |-> Editorial(type, f, score), burst |-> FALSE]

-----------------------------------------------------------------------------
(* A lane's run *)

(* The lock is held and the pages staged; an epoch baseline, a forced or a *)
(* first run, or an unfinished catalogue make the run silent.              *)
Stage(l, s, silent) ==
    /\ run[l] = NoRun /\ spent.runs < MaxRuns
    /\ run' = [run EXCEPT ![l] = [pages |-> s, next |-> 1, silent |-> silent, mine |-> {}]]
    /\ spent' = [spent EXCEPT !.runs = @ + 1]
    /\ UNCHANGED <<day, watches, obs, events, markets, lead, op>>

Working(l) == run[l].next \in DOMAIN run[l].pages

(* A watch keeps what its first page said, but for a missing collection.   *)
Resolved(page) ==
    IF ~Known(page.ref) THEN page.facts
    ELSE [watches[page.ref] EXCEPT !.coll = IF @ = None THEN page.facts.coll ELSE @]

Type_Unseen(page, l) ==
    LET silent == run[l].silent
        new == Seen(page.ref) = {}
    IN  IF silent /\ ~(new /\ ProvenFresh(page.facts, l)) THEN None
        ELSE IF new THEN FirstSighting(page.ref, page.facts, l)
        ELSE Later(page, RegionOf[l])

Type(page, l) ==
    LET silent == run[l].silent
        new == ~Known(page.ref)
    IN  IF silent /\ ~(new /\ ProvenFresh(page.facts, l)) THEN None
        ELSE IF new THEN FirstSighting(page.ref, page.facts, l)
        ELSE Later(page, RegionOf[l])

Observed(page, l) ==
    [ref |-> page.ref, region |-> RegionOf[l], at |-> day, baseline |-> run[l].silent,
     stock |-> page.stock, price |-> page.price]

(* The Event of this observation.  A change names the observation it is a  *)
(* change from, and a sell-out or restock soon after the launch is rapid.  *)
Reported(type, page, l) ==
    LET prior == IF type \in Claim \union Sighting THEN 0 ELSE Prior(page.ref, RegionOf[l])
        rapid == type \in Supply /\ Rapid(page, RegionOf[l])
    IN  EventOf(type, page, Resolved(page), Len(obs) + 1, prior, l, rapid, l \in FirstParty)

(* process_fetch_result *)
Ingest(l) ==
    LET page == run[l].pages[run[l].next]
        type == Type(page, l)
    IN  /\ Working(l)
        /\ watches' = [watches EXCEPT ![page.ref] = Resolved(page)]
        /\ obs' = Append(obs, Observed(page, l))
        /\ events' = IF type = None THEN events
                     ELSE Append(events, Reported(type, page, l))
        /\ run' = [run EXCEPT ![l].next = @ + 1,
                              ![l].mine = IF type = None THEN @ ELSE @ \union {Len(events) + 1}]
        /\ UNCHANGED <<day, markets, lead, op, spent>>

Fault ==
    /\ spent.faults < MaxFaults
    /\ spent' = [spent EXCEPT !.faults = @ + 1]

(* An item that raises is rolled back, and the run goes on.                *)
ItemFails(l) ==
    /\ Working(l) /\ Fault
    /\ run' = [run EXCEPT ![l].next = @ + 1]
    /\ UNCHANGED <<day, watches, obs, events, markets, lead, op>>

(* Sightings that are at least half of what the run discovered, and many.  *)
Burst(l) ==
    LET novel == {i \in run[l].mine : events[i].type \in Sighting}
    IN  IF Cardinality(novel) >= BurstCount /\ 2 * Cardinality(novel) >= Len(run[l].pages)
        THEN novel ELSE {}

Finish(l) ==
    /\ run[l] # NoRun /\ ~Working(l)
    /\ events' = [i \in DOMAIN events |->
                    IF i \in Burst(l) THEN [events[i] EXCEPT !.burst = TRUE] ELSE events[i]]
    /\ run' = [run EXCEPT ![l] = NoRun]
    /\ UNCHANGED <<day, watches, obs, markets, lead, op, spent>>

(* Killed: what was committed stays, and no Event is annotated.            *)
Crash(l) ==
    /\ run[l] # NoRun /\ Fault
    /\ run' = [run EXCEPT ![l] = NoRun]
    /\ UNCHANGED <<day, watches, obs, events, markets, lead, op>>

-----------------------------------------------------------------------------
(* Announcements *)

(* An alert, or an earlier reference's, commits the watch before the lead  *)
(* remembers it.  quiet: a baseline, or an old article.                    *)
Announce(w, quiet) ==
    LET region == markets[w] # {} /\ NewsRegion \notin markets[w]
        type == IF ~Known(w) THEN "NEW_REFERENCE" ELSE IF region THEN "NEW_REGION" ELSE None
        facts == IF Known(w) THEN watches[w]
                 ELSE [coll |-> None, pub |-> None, back |-> FALSE, named |-> 0]
        page == [ref |-> w, facts |-> facts, stock |-> None, price |-> None]
    IN  /\ lead = None /\ spent.news < MaxNews
        /\ lead' = w
        /\ watches' = [watches EXCEPT ![w] = facts]
        /\ events' = IF quiet \/ type = None THEN events
                     ELSE Append(events, EventOf(type, page, facts, 0, 0, None, FALSE, TRUE))
        /\ spent' = [spent EXCEPT !.news = @ + 1]
        /\ UNCHANGED <<day, obs, markets, run, op>>

Remember ==
    /\ lead # None
    /\ markets' = [markets EXCEPT ![lead] = @ \union {NewsRegion}]
    /\ lead' = None
    /\ UNCHANGED <<day, watches, obs, events, run, op, spent>>

Forget ==  \* the news run is lost
    /\ lead # None /\ Fault
    /\ lead' = None
    /\ UNCHANGED <<day, watches, obs, events, markets, run, op>>

-----------------------------------------------------------------------------
(* Catch-up *)

Claimed(w) == \E i \in DOMAIN events : events[i].ref = w /\ events[i].type \in Claim

Candidates ==
    {w \in Ref : /\ Known(w) /\ ~Claimed(w)
                 /\ Seen(w) # {} /\ obs[Least(Seen(w))].baseline
                 /\ watches[w].pub # None
                 /\ watches[w].pub <= day /\ day - watches[w].pub <= CatchUp}

(* An operator reads the list and names a watch of it: one at a time, each *)
(* is claimed and committed on its own.                                    *)
Look(o, w) ==
    /\ op[o] = NoCatchUp /\ spent.looks < MaxLooks
    /\ w \in Candidates
    /\ op' = [op EXCEPT ![o].ref = w]
    /\ spent' = [spent EXCEPT !.looks = @ + 1]
    /\ UNCHANGED <<day, watches, obs, events, markets, lead, run>>

(* A watch that has gained a claim is skipped.                             *)
Check(o) ==
    /\ op[o].ref # None /\ op[o].seen = None
    /\ op' = [op EXCEPT ![o] = IF Claimed(@.ref) THEN NoCatchUp
                               ELSE [@ EXCEPT !.seen = Len(events)]]
    /\ UNCHANGED <<day, watches, obs, events, markets, lead, run, spent>>

Belated(w, o) ==
    LET first == obs[Least(Seen(w))]
        page == [ref |-> w, facts |-> watches[w], stock |-> first.stock, price |-> first.price]
    IN  EventOf("NEW_REFERENCE", page, watches[w], Least(Seen(w)), 0, o, FALSE, TRUE)

(* No transaction is open at the check, so others may have written since.  *)
CreateBelated(o) ==
    /\ op[o].seen # None
    /\ events' = Append(events, Belated(op[o].ref, o))
    /\ op' = [op EXCEPT ![o] = NoCatchUp]
    /\ UNCHANGED <<day, watches, obs, markets, lead, run, spent>>

Tick ==
    /\ day < MaxDay /\ day' = day + 1
    /\ UNCHANGED <<watches, obs, events, markets, lead, run, op, spent>>

LaneStep(l) ==
    \/ \E s \in Served[l], silent \in BOOLEAN : Stage(l, s, silent)
    \/ Ingest(l) \/ ItemFails(l) \/ Finish(l) \/ Crash(l)

NewsStep ==
    \/ \E w \in Announced, quiet \in BOOLEAN : Announce(w, quiet)
    \/ Remember \/ Forget

OperatorStep(o) ==
    \/ \E w \in Ref : Look(o, w)
    \/ Check(o) \/ CreateBelated(o)

NoveltyNext ==
    \/ \E l \in Lane : LaneStep(l)
    \/ NewsStep
    \/ \E o \in Operator : OperatorStep(o)
    \/ Tick

NoveltySpec == NoveltyInit /\ [][NoveltyNext]_noveltyVars

-----------------------------------------------------------------------------
(* Properties *)

(* What the run was served or the database held with one date, each watch  *)
(* once, as pairs of a watch and its collection.                           *)
Dated(pub, l) ==
    {<<p.ref, p.facts.coll>> : p \in {q \in ToSet(run[l].pages) : q.facts.pub = pub}}
        \union {<<w, watches[w].coll>> : w \in {x \in Ref : Known(x) /\ watches[x].pub = pub}}

Added(by) == Len(events') > Len(events) /\ events'[Len(events')].by = by

(* A catalogue-sync batch claims no launch, whichever of its pages is      *)
(* ingested first.                                                         *)
SyncsClaimNothing ==
    [][\A l \in Lane : Added(l) /\ events'[Len(events')].type = "NEW_REFERENCE" =>
         LET dated == Dated(watches'[events'[Len(events')].ref].pub, l)
         IN  \/ Cardinality({d[1] : d \in dated}) < MinSize
             \/ Cardinality({d[2] : d \in dated} \ {None}) < MinCollections]_noveltyVars

(* Two sightings of one run that bear the same date get the same verdict,  *)
(* in whatever order their pages come.                                     *)
VerdictsAreOrderFree ==
    \A l \in Lane : \A i, j \in run[l].mine :
        LET e == events[i]
            f == events[j]
        IN  /\ e.type \in Sighting /\ f.type \in Sighting
            /\ watches[e.ref].pub = watches[f.ref].pub
            => e.type = f.type

(* A launch is claimed once, whichever of the lanes, the announcements and *)
(* the operators meets the watch first and in whatever order the others    *)
(* follow.  Only a catch-up may follow a claim, and only one that was      *)
(* committed by another after the check; a launch claimed twice is two     *)
(* operators' between check and insert (pipeline.py:1539).                 *)
LaunchesAreClaimedOnce ==
    [][\A i \in DOMAIN events :
         LET e == events[i]
             f == events'[Len(events')]
         IN  /\ Len(events') > Len(events) /\ f.type = "NEW_REFERENCE"
             /\ e.ref = f.ref /\ e.type \in Claim
             => /\ f.by \in Operator /\ i > op[f.by].seen /\ e.by # f.by
                /\ e.type = "NEW_REFERENCE" => e.by \in Operator]_noveltyVars

(* What the docstring of create_baseline_catchup_events says: a watch that *)
(* has gained an Event, "e.g. two operators running this concurrently", is *)
(* skipped, not double-fired (pipeline.py:1515).  The code does not ensure *)
(* it: two that both check before either inserts both claim.               *)
CatchUpsNeverDoubleFire ==
    \A i, j \in DOMAIN events :
        events[i].ref = events[j].ref /\ {events[i].by, events[j].by} \subseteq Operator => i = j

(* Two observations of a market with none between them.                    *)
Adjacent(i, j) ==
    /\ i < j /\ obs[i].ref = obs[j].ref /\ obs[i].region = obs[j].region
    /\ \A k \in (i + 1)..(j - 1) : ~(obs[k].ref = obs[j].ref /\ obs[k].region = obs[j].region)

Changes(j) ==
    {k \in DOMAIN events : events[k].new = j /\ events[k].type \in Change}

(* What changed in a market between two observations is reported once, and *)
(* nothing is reported that did not: an observation is compared with the   *)
(* one before it in its own market, whoever made that one.                 *)
ChangesAreReportedOnce ==
    \A j \in DOMAIN obs :
        LET changed == \E i \in 1..(j - 1) : /\ Adjacent(i, j)
                                             /\ \/ Moved(obs[i].stock, obs[j].stock)
                                                \/ Moved(obs[i].price, obs[j].price)
        IN  Cardinality(Changes(j)) = If(changed /\ ~obs[j].baseline, 1)

(* Stock that a baseline inherited is not a launch: a sell-out of an       *)
(* ordinary product is current only if the market was seen with stock by a *)
(* run that was not silent.                                                *)
InheritedStockIsOld ==
    \A k \in DOMAIN events : LET e == events[k] IN
        e.type = "SOLD_OUT" /\ e.current /\ watches[e.ref].named < 2 =>
            \E i \in 1..(e.new - 1) : /\ obs[i].ref = e.ref /\ obs[i].region = obs[e.new].region
                                      /\ obs[i].stock = "AVAILABLE" /\ ~obs[i].baseline
=============================================================================

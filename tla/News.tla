-------------------------------- MODULE News --------------------------------
(***************************************************************************)
(* The news lanes (process_news_announcement and _record_watch_event of    *)
(* app/services/pipeline.py) and the runner that combines one with the     *)
(* Japanese catalogue (run_multi_source_pipeline).                         *)
(*                                                                         *)
(* An announcement becomes a release lead, its references become watches   *)
(* with a NEW_REFERENCE Event each, and at the end the lead remembers its  *)
(* watches.  Every alert commits whatever the announcement has written so  *)
(* far, so a crash may leave any prefix of it behind.  The catalogue part  *)
(* writes as casio_jp_sitemap while that lane runs under a lock of its     *)
(* own.                                                                    *)
(*                                                                         *)
(* One manufacturer; its news has one region, its catalogue another.  A    *)
(* reference is the watch it resolves to, and only those the parser trusts *)
(* (0.7) are listed.  The lane is Catalogue's subject: here an item of it  *)
(* is one step.  No epoch baseline is open.                                *)
(***************************************************************************)
EXTENDS Naturals, FiniteSets, Sequences

CONSTANTS Announcement, Watch,
          Refs,        \* the watches an announcement refers to
          Key,         \* its merge key
          Accessory,   \* announcements whose title is an accessory's
          Stale,       \* announcements that are too old for an Event
          Sitemap,     \* the Japanese catalogue, in document order
          MaxCandidates, \* how much of it is considered (MAX_CANDIDATES)
          MaxItems,    \* what the runner takes of it (max_items)
          Modes,       \* how the runner may be called
          MaxFaults,   \* bound of the model: what goes wrong in it
          None

Status == {"SUCCESS", "PARTIAL", "ZERO_ITEMS", "BLOCKED", "FAILED", "BACKED_OFF",
           "SKIPPED"}
Read == {"SUCCESS", "PARTIAL"}
Succeeded == {"SUCCESS", "PARTIAL", "ZERO_ITEMS"}

(* include_catalog, force_baseline and editorial_enabled.                  *)
Mode == [catalogue : BOOLEAN, forced : BOOLEAN, discord : BOOLEAN]

ASSUME NewsAssumption ==
    /\ Refs \in [Announcement -> SUBSET Watch]
    /\ Accessory \subseteq Announcement /\ Stale \subseteq Announcement
    /\ Sitemap \in Seq(Watch)
    /\ MaxCandidates \in Nat /\ MaxItems \in Nat
    /\ Modes \subseteq Mode /\ Modes # {}
    /\ MaxFaults \in Nat
    /\ None \notin Watch \union Announcement

VARIABLES db,       \* what is committed
          draft,    \* what the runner's open transaction sees
          writing,  \* the runner holds SQLite's write lock
          phase, mode, quiet,
          todo,     \* announcements or catalogue items left
          current, refs, ids, \* the announcement in progress, references
                    \* left, and the watches its lead will remember
          looked,   \* a reference that was looked up: its watch, and new?
          sent,     \* an alert is posted and not recorded
          news, catalogue, \* component states of the run
          last,     \* of the run that finished last
          filling,  \* the lane's own first catalogue is not complete
          posts,    \* alerts Discord shows about each watch
          faults

vars == <<db, draft, writing, phase, mode, quiet, todo, current, refs, ids, looked, sent,
          news, catalogue, last, filling, posts, faults>>
item == <<current, refs, ids, looked>>

Db == [leads : SUBSET Announcement,
       link : [Announcement -> SUBSET Watch],  \* watch_ids of each lead
       watches : SUBSET Watch,
       listed : SUBSET Watch,       \* observed in the catalogue
       novelty : [Watch -> 0..2],   \* NEW_REFERENCE and FIRST_SEEN Events
       region : [Watch -> 0..2],    \* NEW_REGION Events
       blocks : 0..MaxFaults,       \* consecutive_blocks of the catalogue, in
                                    \* a row its lane writes as well
       wait : 0..8,                 \* what is left of its back-off, in units of
                                    \* three hours
       established : BOOLEAN]       \* a run of the runner has succeeded

NotLooked == [watch |-> None, new |-> FALSE]

(* The components of a run: bad is an item failure that failure_count has  *)
(* counted, ok an item that was parsed, and full a catalogue part that     *)
(* took MaxItems (new_for_processing).                                     *)
NewsPart == [status : Status, bad : BOOLEAN]
CataloguePart == [status : Status, ok : BOOLEAN, bad : BOOLEAN, full : BOOLEAN]
NoNews == [status |-> "SKIPPED", bad |-> FALSE]
NoCatalogue == [status |-> "SKIPPED", ok |-> FALSE, bad |-> FALSE, full |-> FALSE]

(* What the row of a finished run tells: its status, its components, those *)
(* named in component_failures and component_skipped, failure_count > 0.   *)
Part == {"news", "catalogue"}
Row == [run : Status, news : Status, catalogue : Status, asked : BOOLEAN,
        failed : SUBSET Part, skipped : SUBSET Part, failures : BOOLEAN, full : BOOLEAN]
NoRow == [run |-> "SKIPPED", news |-> "SKIPPED", catalogue |-> "SKIPPED", asked |-> FALSE,
          failed |-> {}, skipped |-> {}, failures |-> FALSE, full |-> FALSE]

TypeOK ==
    /\ db \in Db /\ draft \in Db
    /\ writing \in BOOLEAN
    /\ phase \in {"idle", "news", "asked", "catalogue"}
    /\ mode \in Mode /\ quiet \in BOOLEAN
    /\ todo \subseteq Announcement \union Watch
    /\ current \in Announcement \union {None}
    /\ refs \subseteq Watch /\ ids \subseteq Watch
    /\ looked \in [watch : Watch \union {None}, new : BOOLEAN]
    /\ sent \in BOOLEAN
    /\ news \in NewsPart /\ catalogue \in CataloguePart
    /\ last \in Row
    /\ filling \in BOOLEAN
    /\ posts \in [Watch -> Nat]
    /\ faults \in 0..MaxFaults

Init ==
    /\ db = [leads |-> {}, link |-> [a \in Announcement |-> {}], watches |-> {}, listed |-> {},
             novelty |-> [w \in Watch |-> 0], region |-> [w \in Watch |-> 0],
             blocks |-> 0, wait |-> 0, established |-> FALSE]
    /\ draft = db /\ writing = FALSE
    /\ phase = "idle" /\ quiet = FALSE /\ todo = {}
    /\ mode = [catalogue |-> FALSE, forced |-> FALSE, discord |-> FALSE]
    /\ current = None /\ refs = {} /\ ids = {} /\ looked = NotLooked /\ sent = FALSE
    /\ news = NoNews /\ catalogue = NoCatalogue
    /\ last = NoRow
    /\ filling = TRUE
    /\ posts = [w \in Watch |-> 0]
    /\ faults = 0

-----------------------------------------------------------------------------
(* Transactions *)

IsNew_Unlisted(state, w) == w \notin state.listed
IsNew(state, w) == w \notin state.watches

View == IF writing THEN draft ELSE db

Write(new) == draft' = new /\ writing' = TRUE /\ UNCHANGED db
CommitAs(new) == db' = new /\ draft' = new /\ writing' = FALSE

Fault(n) == faults + n <= MaxFaults /\ faults' = faults + n

(* Discord's answer: the alert is shown, and the receipt committed either  *)
(* way; "lost" is an alert that is not shown.                              *)
Send(w, answer) ==
    /\ sent' = TRUE
    /\ Fault(IF answer = "lost" THEN 1 ELSE 0)
    /\ posts' = IF answer = "lost" THEN posts ELSE [posts EXCEPT ![w] = @ + 1]

DontSend == UNCHANGED <<sent, posts, faults>>

(* _deliver_editorial_alert after the post: receipt, Event and all that    *)
(* was written before are committed.                                       *)
Deliver ==
    /\ sent
    /\ sent' = FALSE
    /\ CommitAs(draft)
    /\ UNCHANGED <<phase, mode, quiet, todo, item, news, catalogue, last, filling, posts,
                   faults>>

-----------------------------------------------------------------------------
(* News *)

(* The lock is held and the index read.  Whether the runner has ever       *)
(* succeeded decides if the run is silent.                                 *)
Start(m, status) ==
    /\ phase = "idle" /\ m \in Modes
    /\ status \in {"SUCCESS", "PARTIAL", "ZERO_ITEMS", "BLOCKED", "FAILED"}
    /\ Fault(IF status = "SUCCESS" THEN 0 ELSE 1)
    /\ mode' = m
    /\ quiet' = (~db.established \/ m.forced)
    /\ todo' = IF status \in Read THEN Announcement ELSE {}
    /\ phase' = "news" /\ news' = [NoNews EXCEPT !.status = status] /\ catalogue' = NoCatalogue
    /\ Write(db)  \* _update_component_state
    /\ UNCHANGED <<item, sent, last, filling, posts>>

Between == phase = "news" /\ current = None /\ ~sent

(* The page cannot be fetched; or it cannot be parsed, and is committed.   *)
Skip(a, fetched) ==
    /\ Between /\ a \in todo
    /\ Fault(1)
    /\ todo' = todo \ {a}
    /\ news' = [news EXCEPT !.bad = TRUE]
    /\ IF fetched THEN CommitAs(View) ELSE UNCHANGED <<db, draft, writing>>
    /\ UNCHANGED <<phase, mode, quiet, item, sent, catalogue, last, filling, posts>>

Merged_Known(a) == \E b \in View.leads : Key[b] = Key[a]
Merged(a) == a \notin View.leads /\ \E b \in View.leads : Key[b] = Key[a]

(* Another lead has the merge key, or the title is an accessory's: the     *)
(* announcement is committed without watches.                              *)
Note(a) ==
    /\ Between /\ a \in todo
    /\ Merged(a) \/ a \in Accessory
    /\ todo' = todo \ {a}
    /\ CommitAs([View EXCEPT !.leads = IF Merged(a) THEN @ ELSE @ \union {a}])
    /\ UNCHANGED <<phase, mode, quiet, item, sent, news, catalogue, last, filling, posts,
                   faults>>

Announce(a) ==
    /\ Between /\ a \in todo /\ ~Merged(a) /\ a \notin Accessory
    /\ todo' = todo \ {a}
    /\ Write([View EXCEPT !.leads = @ \union {a}])
    /\ current' = a /\ refs' = Refs[a] /\ ids' = View.link[a]
    /\ UNCHANGED <<phase, mode, quiet, looked, sent, news, catalogue, last, filling, posts,
                   faults>>

(* _resolve_or_create_watch looks the reference up ...                     *)
LookUp(w) ==
    /\ current # None /\ ~sent /\ looked = NotLooked /\ w \in refs
    /\ looked' = [watch |-> w, new |-> IsNew(View, w)]
    /\ UNCHANGED <<db, draft, writing, phase, mode, quiet, todo, current, refs, ids, sent, news,
                   catalogue, last, filling, posts, faults>>

Remembered_New(known, w, new) == IF new THEN known \union {w} ELSE known
Remembered(known, w, new) == known \union {w}

(* _record_watch_event                                                     *)
Newsworthy(a) == ~quiet /\ a \notin Stale

(* ... and the watch is created, with its Event; a known one is only       *)
(* remembered.                                                             *)
Resolve(answer) ==
    LET w == looked.watch
        event == looked.new /\ Newsworthy(current)
    IN  /\ w # None
        /\ looked.new => w \notin View.watches
        /\ IF looked.new
           THEN Write([View EXCEPT !.watches = @ \union {w},
                                   !.novelty[w] = IF event THEN @ + 1 ELSE @])
           ELSE UNCHANGED <<db, draft, writing>>
        /\ IF event /\ mode.discord THEN Send(w, answer) ELSE answer = "shown" /\ DontSend
        /\ ids' = Remembered(ids, w, looked.new)
        /\ refs' = refs \ {w} /\ looked' = NotLooked
        /\ UNCHANGED <<phase, mode, quiet, todo, current, news, catalogue, last, filling>>

(* lead.watch_ids and the announcement's last commit.                      *)
Link ==
    /\ current # None /\ refs = {} /\ looked = NotLooked /\ ~sent
    /\ CommitAs([View EXCEPT !.link[current] = ids])
    /\ current' = None /\ ids' = {}
    /\ UNCHANGED <<phase, mode, quiet, todo, refs, looked, sent, news, catalogue, last, filling,
                   posts, faults>>

-----------------------------------------------------------------------------
(* The catalogue part *)

(* discover_from_sitemap_xml stops at a ceiling, before anything is known  *)
(* about what it found: what stands behind it does not exist for any run.  *)
Candidates == {Sitemap[i] : i \in {j \in DOMAIN Sitemap : j <= MaxCandidates}}

(* Unseen candidates first, and no more than MaxItems of them.             *)
Slices(unseen) ==
    {slice \in SUBSET unseen :
        \/ Cardinality(slice) = MaxItems
        \/ slice = unseen /\ Cardinality(slice) < MaxItems}

BackedOff_AnyBlock(state) == state.blocks > 0
BackedOff(state) == state.wait > 0

(* _update_component_state: 3, 6, 12, 24 hours.                            *)
Component(state, status) ==
    CASE status = "BLOCKED" -> [state EXCEPT !.blocks = @ + 1,
                                !.wait = IF state.blocks >= 3 THEN 8 ELSE 2 ^ state.blocks]
      [] status \in Succeeded -> [state EXCEPT !.blocks = 0, !.wait = 0]
      [] OTHER -> state

NewsDone == phase = "news" /\ todo = {} /\ current = None /\ ~sent

EnterCatalogue(status, items) ==
    /\ phase' = "catalogue"
    /\ catalogue' = [NoCatalogue EXCEPT !.status = status,
                                        !.full = Cardinality(items) = MaxItems]
    /\ todo' = items
    /\ UNCHANGED <<mode, quiet, item, sent, news, last, filling, posts>>

(* Not asked for, or still backed off.                                     *)
NoPoll ==
    /\ NewsDone
    /\ ~mode.catalogue \/ BackedOff(View)
    /\ EnterCatalogue(IF mode.catalogue THEN "BACKED_OFF" ELSE "SKIPPED", {})
    /\ UNCHANGED <<db, draft, writing, faults>>

(* The back-off and what is already known are read before the sitemap is   *)
(* fetched; meanwhile the lane goes on, unless the runner still holds the  *)
(* write lock of its news part.                                            *)
Ask ==
    /\ NewsDone
    /\ mode.catalogue /\ ~BackedOff(View)
    /\ phase' = "asked"
    /\ todo' = Candidates \ View.listed
    /\ UNCHANGED <<db, draft, writing, mode, quiet, item, sent, news, catalogue, last, filling,
                   posts, faults>>

(* The sitemap is read; of the unseen candidates a slice is taken.         *)
Poll(status, slice) ==
    /\ phase = "asked"
    /\ status \in {"SUCCESS", "PARTIAL", "BLOCKED", "FAILED"}
    /\ slice \in IF status \in Read THEN Slices(todo) ELSE {{}}
    /\ Fault(IF status = "SUCCESS" THEN 0 ELSE 1)
    /\ EnterCatalogue(IF status = "SUCCESS" /\ slice = {} THEN "ZERO_ITEMS" ELSE status, slice)
    /\ Write(Component(View, status))

(* _record_product_transition for an item of the catalogue.                *)
Announced(state, w) == \E a \in state.leads : w \in state.link[a]

Listed(state, w, silent) ==
    LET new == IsNew(state, w)
        region == ~new /\ w \notin state.listed /\ Announced(state, w)
    IN  [state EXCEPT !.watches = @ \union {w},
                      !.listed = @ \union {w},
                      !.novelty[w] = IF new /\ ~silent THEN @ + 1 ELSE @,
                      !.region[w] = IF region /\ ~silent THEN @ + 1 ELSE @]

HasEvent(state, w, silent) ==
    ~silent /\ (IsNew(state, w) \/ (w \notin state.listed /\ Announced(state, w)))

(* process_fetch_result: one item, one transaction.                        *)
Observe(w, answer) ==
    /\ phase = "catalogue" /\ ~sent /\ w \in todo
    /\ todo' = todo \ {w}
    /\ catalogue' = [catalogue EXCEPT !.ok = TRUE]
    /\ IF HasEvent(View, w, quiet) /\ mode.discord
       THEN Write(Listed(View, w, quiet)) /\ Send(w, answer)
       ELSE CommitAs(Listed(View, w, quiet)) /\ answer = "shown" /\ DontSend
    /\ UNCHANGED <<phase, mode, quiet, item, news, last, filling>>

(* An item that cannot be fetched; or it raises, and the uncommitted state *)
(* of the component is undone with it.                                     *)
Fail(w, fetched) ==
    /\ phase = "catalogue" /\ ~sent /\ w \in todo
    /\ Fault(1)
    /\ todo' = todo \ {w}
    /\ catalogue' = [catalogue EXCEPT !.bad = TRUE]
    /\ IF fetched THEN CommitAs(db) ELSE UNCHANGED <<db, draft, writing>>
    /\ UNCHANGED <<phase, mode, quiet, item, sent, news, last, filling, posts>>

-----------------------------------------------------------------------------
(* The end of a run *)

CatalogueStatus ==
    IF catalogue.bad THEN IF catalogue.ok THEN "PARTIAL" ELSE "FAILED"
    ELSE catalogue.status

Combined_AnySuccess(s) == IF s \cap Succeeded # {} THEN "SUCCESS" ELSE "FAILED"

(* The combined status of the components' states s.                        *)
Combined(s) ==
    CASE s \cap {"SUCCESS", "PARTIAL"} # {} /\ "BLOCKED" \in s -> "PARTIAL"
      [] "SUCCESS" \in s /\ s \subseteq {"SUCCESS", "ZERO_ITEMS", "BACKED_OFF", "SKIPPED"} -> "SUCCESS"
      [] "PARTIAL" \in s -> "PARTIAL"
      [] s \ {"SKIPPED", "BACKED_OFF"} \subseteq {"BLOCKED"} -> "BLOCKED"
      [] s \subseteq {"ZERO_ITEMS", "SKIPPED", "BACKED_OFF"} -> "ZERO_ITEMS"
      [] "SUCCESS" \in s -> "PARTIAL"
      [] OTHER -> "FAILED"

(* The components of the run, and those its row names for their status.    *)
Parts == {"news"} \union (IF mode.catalogue THEN {"catalogue"} ELSE {})
StatusOf(part) == IF part = "news" THEN news.status ELSE CatalogueStatus
Named(statuses) == {part \in Parts : StatusOf(part) \in statuses}

Failing == {"BLOCKED", "FAILED", "PARTIAL"}
Skipping_Unnamed == {"SKIPPED"}
Skipping == {"BACKED_OFF", "SKIPPED"}

Finish ==
    LET combined == Combined({StatusOf(part) : part \in Parts})
    IN  /\ phase = "catalogue" /\ todo = {} /\ ~sent
        /\ CommitAs([View EXCEPT !.established = @ \/ combined \in Succeeded])
        /\ last' = [run |-> combined, news |-> news.status, catalogue |-> CatalogueStatus,
                    asked |-> mode.catalogue, failed |-> Named(Failing),
                    skipped |-> Named(Skipping), failures |-> news.bad \/ catalogue.bad,
                    full |-> catalogue.full]
        /\ phase' = "idle"
        /\ UNCHANGED <<mode, quiet, todo, item, sent, news, catalogue, filling, posts, faults>>

(* The run raises or dies: its transaction is undone.                      *)
Undone ==
    /\ CommitAs(db)
    /\ phase' = "idle" /\ todo' = {} /\ sent' = FALSE
    /\ current' = None /\ refs' = {} /\ ids' = {} /\ looked' = NotLooked
    /\ UNCHANGED <<mode, quiet, news, catalogue, last, filling, posts>>

Lose == phase # "idle" /\ Fault(1) /\ Undone

(* The INSERT meets a watch that was committed since it was looked up.     *)
Collide == looked.new /\ looked.watch \in View.watches /\ Undone /\ UNCHANGED faults

-----------------------------------------------------------------------------
(* The others *)

(* The lane casio_jp_sitemap writes the state of the component after each  *)
(* of its own fetches: it renews the runner's back-off, or ends it.  The   *)
(* lane itself does not ask for one.                                       *)
LaneReports(status) ==
    /\ ~writing
    /\ status \in {"SUCCESS", "PARTIAL", "ZERO_ITEMS", "BLOCKED", "FAILED"}
    /\ Fault(IF status = "SUCCESS" THEN 0 ELSE 1)
    /\ db' = Component(db, status) /\ draft' = db'
    /\ UNCHANGED <<writing, phase, mode, quiet, todo, item, sent, news, catalogue, last, filling,
                   posts>>

(* The lane observes an item.                                              *)
LaneObserves(w) ==
    /\ w \in Candidates \ db.listed /\ ~writing
    /\ db' = Listed(db, w, filling) /\ draft' = db'
    /\ posts' = IF HasEvent(db, w, filling) THEN [posts EXCEPT ![w] = @ + 1] ELSE posts
    /\ UNCHANGED <<writing, phase, mode, quiet, todo, item, sent, news, catalogue, last, filling,
                   faults>>

LaneFilled ==
    /\ filling
    /\ filling' = FALSE
    /\ UNCHANGED <<db, draft, writing, phase, mode, quiet, todo, item, sent, news, catalogue,
                   last, posts, faults>>

(* Three hours pass.                                                       *)
Tick ==
    /\ db.wait > 0 \/ draft.wait > 0
    /\ db' = [db EXCEPT !.wait = IF @ > 0 THEN @ - 1 ELSE 0]
    /\ draft' = [draft EXCEPT !.wait = IF @ > 0 THEN @ - 1 ELSE 0]
    /\ UNCHANGED <<writing, phase, mode, quiet, todo, item, sent, news, catalogue, last, filling,
                   posts, faults>>

Answer == {"shown", "lost"}

AnnouncementStep ==
    \/ \E a \in Announcement : Note(a) \/ Announce(a) \/ \E f \in BOOLEAN : Skip(a, f)
    \/ \E w \in Watch : LookUp(w)
    \/ \E answer \in Answer : Resolve(answer)
    \/ Link

CatalogueStep ==
    \/ NoPoll \/ Ask
    \/ \E status \in Status : \E slice \in SUBSET todo : Poll(status, slice)
    \/ \E w \in Watch, answer \in Answer : Observe(w, answer)
    \/ \E w \in Watch, f \in BOOLEAN : Fail(w, f)

Run ==
    \/ \E m \in Modes, status \in Status : Start(m, status)
    \/ AnnouncementStep \/ CatalogueStep
    \/ Deliver \/ Finish \/ Collide

Next ==
    \/ Run \/ Lose \/ Tick \/ LaneFilled
    \/ \E w \in Watch : LaneObserves(w)
    \/ \E status \in Status : LaneReports(status)

Spec == Init /\ [][Next]_vars

(* The timer starts the runner for ever, a started run goes on, and time   *)
(* passes.  The lane promises nothing.                                     *)
FairSpec == Spec /\ WF_vars(Run) /\ WF_vars(Tick)

-----------------------------------------------------------------------------
(* Properties *)

(* A watch is a novelty once and new in the catalogue's region once,       *)
(* whoever saw it first, and what Discord shows about it is those Events   *)
(* and at most one alert for each that was undone after it was posted.     *)
WatchIsNewOnce ==
    \A w \in Watch :
        /\ db.novelty[w] <= 1 /\ db.region[w] <= 1
        /\ posts[w] <= db.novelty[w] + db.region[w] + faults + (IF sent THEN 1 ELSE 0)

(* A release lead remembers nothing yet or every reference of its          *)
(* announcement, whichever of its watches were created by an earlier,      *)
(* interrupted attempt or by the catalogue (process_news_announcement).    *)
LeadRemembersAll ==
    \A a \in Announcement :
        db.link[a] # {} => a \in db.leads /\ db.link[a] = Refs[a] /\ Refs[a] \subseteq db.watches

(* An announcement that stays in the index has all its watches linked in   *)
(* the end, although every alert commits a part of it and a crash may      *)
(* leave it there (process_news_announcement takes an existing lead up     *)
(* again).                                                                 *)
LeadsAreLinked ==
    \A a \in Announcement \ Accessory : a \in db.leads ~> db.link[a] = Refs[a]

(* A runner that is always started with its catalogue reads every          *)
(* candidate in the end, a slice at a time, although it was blocked and    *)
(* although the lane's own blocks renew its back-off: every back-off is    *)
(* over some day.                                                          *)
CandidatesAreRead ==
    (\A m \in Modes : m.catalogue) /\ MaxItems > 0 =>
        <>(Candidates \subseteq db.listed)

(* An announcement is on record: a lead has its merge key, and if it is    *)
(* its own it has all its watches.                                         *)
OnRecord(state, a) ==
    /\ \E b \in state.leads : Key[b] = Key[a]
    /\ a \in state.leads \ Accessory => state.link[a] = Refs[a]

(* A row that gives a reader no reason to look further.                    *)
Clean(row) ==
    /\ row.asked /\ row.news = "SUCCESS"
    /\ row.failed = {} /\ row.skipped = {} /\ ~row.failures

NothingMissed(state) ==
    /\ \A a \in Announcement : OnRecord(state, a)
    /\ last.full \/ Candidates \subseteq state.listed

(* The row of a finished run hides nothing.  SUCCESS and ZERO_ITEMS        *)
(* exclude a component that failed, was blocked or was read in part, and   *)
(* BLOCKED and FAILED one that found something (an empty answer beside a   *)
(* block is FAILED).  A component that did not run at all may stand beside *)
(* a SUCCESS, as it did for days in the incident the lists were added for  *)
(* (pipeline.py:1024-1027), but then the row names it: after a clean row   *)
(* every announcement of the index is on record with its watches and,      *)
(* unless the row shows a full slice, every candidate of the catalogue is  *)
(* observed.                                                               *)
StatusHidesNothing ==
    /\ last.run \in {"SUCCESS", "ZERO_ITEMS"} =>
           {last.news, last.catalogue} \cap {"BLOCKED", "FAILED", "PARTIAL"} = {}
    /\ last.run \in {"BLOCKED", "FAILED"} =>
           {last.news, last.catalogue} \cap {"SUCCESS", "PARTIAL"} = {}
    /\ Clean(last) => NothingMissed(db)

(* pipeline.py: any collector with no successful run on this database is   *)
(* auto-baselined on its first run.  No Event about a listing before its   *)
(* collector has completed a first catalogue.                              *)
FirstCatalogueIsSilent ==
    [][\A w \in Candidates : filling /\ w \notin db.watches /\ w \in db'.listed
           => db'.novelty[w] = 0]_vars
=============================================================================

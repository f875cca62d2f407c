---------------------------- MODULE News_proofs -----------------------------
(***************************************************************************)
(* Proofs about News for any announcements, references, merge keys,        *)
(* listings and modes, and any number of crashes, blocks and lost alerts.  *)
(***************************************************************************)
EXTENDS News, TLAPS

(* What every database says, committed or not: a watch has at most one     *)
(* Event of each kind, and only where the Event can never be due again; a  *)
(* lead that has watches has all of them; and the back-off doubles with    *)
(* every block of the catalogue, each of which is a fault.                 *)
WatchSound(state) ==
    \A w \in Watch :
        /\ state.novelty[w] <= 1 /\ (w \notin state.watches => state.novelty[w] = 0)
        /\ state.region[w] <= 1 /\ (w \notin state.listed => state.region[w] = 0)

LinkSound(state) ==
    \A a \in Announcement : state.link[a] # {} =>
        a \in state.leads /\ state.link[a] = Refs[a] /\ Refs[a] \subseteq state.watches

BackOffSound(state, n) ==
    /\ state.blocks <= n
    /\ state.wait <= CASE state.blocks = 0 -> 0
                       [] state.blocks = 1 -> 1
                       [] state.blocks = 2 -> 2
                       [] state.blocks = 3 -> 4
                       [] OTHER -> 8

Sound(state, n) == WatchSound(state) /\ LinkSound(state) /\ BackOffSound(state, n)

Events(state, w) == state.novelty[w] + state.region[w]

(* Where an announcement is in progress, and where nothing is.             *)
Paused ==
    /\ phase # "news" => current = None
    /\ phase = "idle" => ~writing
    /\ current = None => looked = NotLooked
    /\ looked.watch = None => looked = NotLooked
    /\ sent => writing /\ looked = NotLooked
    /\ ~writing => draft = db

(* The references still to do and the watches remembered are together the  *)
(* announcement's, and what is remembered exists, for the transaction in   *)
(* progress: whichever alert has committed a part of it.                   *)
InHand ==
    /\ current # None =>
           /\ current \in View.leads
           /\ refs \union ids = Refs[current] /\ ids \subseteq View.watches
    /\ looked.watch # None =>
           /\ looked.watch \in refs
           /\ ~looked.new => looked.watch \in View.watches

(* Every alert about a watch has its Event in what the runner sees, or a   *)
(* crash took it; and all but the one just sent in what is committed.      *)
PostsBacked ==
    \A w \in Watch :
        /\ posts[w] <= Events(View, w) + faults
        /\ posts[w] <= Events(db, w) + faults + (IF sent THEN 1 ELSE 0)

(* A run that is not asked for the catalogue has nothing to say about it;  *)
(* one that is has candidates to read.                                     *)
NotAsked ==
    /\ phase = "asked" => mode.catalogue /\ todo \subseteq Candidates
    /\ phase = "catalogue" /\ ~mode.catalogue =>
           todo = {} /\ catalogue.status = "SKIPPED" /\ ~catalogue.bad

(* What a run that has lost nothing yet has put on record: the             *)
(* announcements it is through with, and the candidates of the catalogue   *)
(* that it does not still have to do.                                      *)
NewsSoFar ==
    (/\ phase # "idle" /\ news.status = "SUCCESS" /\ ~news.bad
     /\ phase = "catalogue" => ~catalogue.bad)
    => \A a \in Announcement :
          \/ phase = "news" /\ (a \in todo \/ a = current)
          \/ OnRecord(View, a)

CatalogueSoFar ==
    (\/ phase = "asked"
     \/ /\ phase = "catalogue" /\ catalogue.status \in {"SUCCESS", "ZERO_ITEMS"}
        /\ ~catalogue.bad /\ ~catalogue.full)
    => Candidates \ todo \subseteq View.listed

(* A clean row goes on telling the truth while later runs write.           *)
RowSound ==
    /\ StatusHidesNothing
    /\ Clean(last) => NothingMissed(View)

DataSound ==
    /\ Sound(db, faults) /\ Sound(draft, faults)
    /\ PostsBacked

IInv ==
    /\ TypeOK
    /\ DataSound
    /\ Paused
    /\ InHand
    /\ NotAsked
    /\ NewsSoFar
    /\ CatalogueSoFar
    /\ RowSound

LEMMA CandidatesTyped == Candidates \subseteq Watch
BY NewsAssumption DEF Candidates

-----------------------------------------------------------------------------
(* What the operations make of a database *)

(* Nothing that is known is forgotten. *)
Grows(old, new) ==
    /\ old.leads \subseteq new.leads /\ old.watches \subseteq new.watches
    /\ \A w \in Watch : Events(old, w) <= Events(new, w)

SameBackOff(old, new) == new.wait = old.wait /\ new.blocks = old.blocks

LEMMA CountersTyped ==
    ASSUME NEW s \in Db, NEW w \in Watch
    PROVE  s.novelty[w] \in Nat /\ s.region[w] \in Nat /\ Events(s, w) \in Nat
BY DEF Db, Events

(* An item of the catalogue is listed. *)
LEMMA ListedState ==
    ASSUME NEW s \in Db, NEW w \in Watch, NEW silent \in BOOLEAN,
           WatchSound(s), LinkSound(s)
    PROVE  LET t == Listed(s, w, silent)
           IN  /\ t \in Db /\ WatchSound(t) /\ LinkSound(t)
               /\ Grows(s, t) /\ SameBackOff(s, t)
               /\ HasEvent(s, w, silent) => Events(t, w) = Events(s, w) + 1
<1> DEFINE t == Listed(s, w, silent)
           new == IsNew(s, w)
           region == ~new /\ w \notin s.listed /\ Announced(s, w)
           n == IF new /\ ~silent THEN s.novelty[w] + 1 ELSE s.novelty[w]
           r == IF region /\ ~silent THEN s.region[w] + 1 ELSE s.region[w]
<1>1. /\ s.novelty[w] \in 0..1 /\ s.region[w] \in 0..1
      /\ new => s.novelty[w] = 0
      /\ region => s.region[w] = 0
  BY DEF WatchSound, Db, IsNew
<1>2. n \in 0..1 /\ r \in 0..1
  BY <1>1
<1>3. t = [s EXCEPT !.watches = s.watches \union {w}, !.listed = s.listed \union {w},
                    !.novelty = [s.novelty EXCEPT ![w] = n],
                    !.region = [s.region EXCEPT ![w] = r]]
  BY DEF Listed, Db
<1>4. HasEvent(s, w, silent) => n + r = s.novelty[w] + s.region[w] + 1
  BY <1>1 DEF HasEvent
<1> HIDE DEF n, r, t, new, region
<1>5. /\ [s.novelty EXCEPT ![w] = n] \in [Watch -> 0..2]
      /\ [s.region EXCEPT ![w] = r] \in [Watch -> 0..2]
  BY <1>2 DEF Db
<1>6. t \in Db
  BY <1>3, <1>5 DEF Db
<1>7. /\ t.leads = s.leads /\ t.link = s.link /\ SameBackOff(s, t)
      /\ t.watches = s.watches \union {w} /\ t.listed = s.listed \union {w}
      /\ t.novelty = [s.novelty EXCEPT ![w] = n] /\ t.region = [s.region EXCEPT ![w] = r]
  BY <1>3 DEF Db, SameBackOff
<1>8. /\ t.novelty[w] = n /\ t.region[w] = r
      /\ \A v \in Watch : v # w => t.novelty[v] = s.novelty[v] /\ t.region[v] = s.region[v]
  BY <1>7 DEF Db
<1>9. WatchSound(t)
  BY <1>2, <1>7, <1>8 DEF WatchSound
<1>10. LinkSound(t)
  BY <1>7 DEF LinkSound
<1>11. n >= s.novelty[w] /\ r >= s.region[w]
  BY <1>1 DEF n, r
<1>12. Grows(s, t)
  <2>1. ASSUME NEW v \in Watch PROVE Events(s, v) <= Events(t, v)
    BY <1>1, <1>2, <1>8, <1>11, CountersTyped DEF Events
  <2> QED
    BY <1>7, <2>1 DEF Grows
<1> QED
  BY <1>4, <1>6, <1>7, <1>8, <1>9, <1>10, <1>12 DEF Events, t

(* The watch of a reference is created. *)
LEMMA CreatedState ==
    ASSUME NEW s \in Db, NEW w \in Watch, NEW event \in BOOLEAN,
           WatchSound(s), LinkSound(s), w \notin s.watches
    PROVE  LET t == [s EXCEPT !.watches = @ \union {w},
                              !.novelty[w] = IF event THEN @ + 1 ELSE @]
           IN  /\ t \in Db /\ WatchSound(t) /\ LinkSound(t)
               /\ Grows(s, t) /\ SameBackOff(s, t) /\ w \in t.watches
               /\ event => Events(t, w) = Events(s, w) + 1
<1> DEFINE n == IF event THEN s.novelty[w] + 1 ELSE s.novelty[w]
           t == [s EXCEPT !.watches = @ \union {w},
                          !.novelty[w] = IF event THEN @ + 1 ELSE @]
<1>1. s.novelty[w] = 0 /\ n \in 0..1
  BY DEF WatchSound, Db
<1>2. t = [s EXCEPT !.watches = s.watches \union {w},
                    !.novelty = [s.novelty EXCEPT ![w] = n]]
  BY DEF Db
<1>3. event => n = s.novelty[w] + 1
  OBVIOUS
<1> HIDE DEF n, t
<1>4. [s.novelty EXCEPT ![w] = n] \in [Watch -> 0..2]
  BY <1>1 DEF Db
<1>5. t \in Db
  BY <1>2, <1>4 DEF Db
<1>6. /\ t.leads = s.leads /\ t.link = s.link /\ t.listed = s.listed
      /\ t.region = s.region /\ SameBackOff(s, t)
      /\ t.watches = s.watches \union {w}
      /\ t.novelty = [s.novelty EXCEPT ![w] = n]
  BY <1>2 DEF Db, SameBackOff
<1>7. t.novelty[w] = n /\ \A v \in Watch : v # w => t.novelty[v] = s.novelty[v]
  BY <1>6 DEF Db
<1>8. WatchSound(t)
  BY <1>1, <1>6, <1>7 DEF WatchSound
<1>9. LinkSound(t)
  BY <1>6 DEF LinkSound
<1>10. Grows(s, t)
  <2>1. ASSUME NEW v \in Watch PROVE Events(s, v) <= Events(t, v)
    BY <1>1, <1>6, <1>7, CountersTyped DEF Events
  <2> QED
    BY <1>6, <2>1 DEF Grows
<1> QED
  BY <1>3, <1>5, <1>6, <1>7, <1>8, <1>9, <1>10, CountersTyped DEF Events, t

(* A lead is inserted. *)
LEMMA NotedState ==
    ASSUME NEW s \in Db, NEW leads \in SUBSET Announcement, s.leads \subseteq leads,
           WatchSound(s), LinkSound(s)
    PROVE  LET t == [s EXCEPT !.leads = leads]
           IN  /\ t \in Db /\ WatchSound(t) /\ LinkSound(t)
               /\ Grows(s, t) /\ SameBackOff(s, t) /\ t.leads = leads
<1> DEFINE t == [s EXCEPT !.leads = leads]
<1>1. t \in Db
  BY DEF Db
<1>2. /\ t.leads = leads /\ t.link = s.link /\ t.listed = s.listed
      /\ t.region = s.region /\ SameBackOff(s, t)
      /\ t.watches = s.watches /\ t.novelty = s.novelty
  BY DEF Db, SameBackOff
<1> HIDE DEF t
<1>3. WatchSound(t) /\ LinkSound(t)
  BY <1>2 DEF WatchSound, LinkSound
<1>4. Grows(s, t)
  BY <1>2, CountersTyped DEF Grows, Events
<1> QED
  BY <1>1, <1>2, <1>3, <1>4 DEF t

(* A lead remembers its watches. *)
LEMMA LinkedState ==
    ASSUME NEW s \in Db, NEW a \in s.leads, Refs[a] \subseteq s.watches,
           WatchSound(s), LinkSound(s)
    PROVE  LET t == [s EXCEPT !.link[a] = Refs[a]]
           IN  /\ t \in Db /\ WatchSound(t) /\ LinkSound(t)
               /\ Grows(s, t) /\ SameBackOff(s, t)
<1> DEFINE t == [s EXCEPT !.link[a] = Refs[a]]
<1>1. a \in Announcement /\ Refs[a] \subseteq Watch
  BY NewsAssumption DEF Db
<1>2. t \in Db
  BY <1>1 DEF Db
<1>3. /\ t.leads = s.leads /\ t.listed = s.listed
      /\ t.region = s.region /\ SameBackOff(s, t)
      /\ t.watches = s.watches /\ t.novelty = s.novelty
      /\ t.link[a] = Refs[a] /\ \A b \in Announcement : b # a => t.link[b] = s.link[b]
  BY <1>1 DEF Db, SameBackOff
<1> HIDE DEF t
<1>4. WatchSound(t) /\ LinkSound(t)
  BY <1>3 DEF WatchSound, LinkSound
<1>5. Grows(s, t)
  BY <1>3, CountersTyped DEF Grows, Events
<1> QED
  BY <1>2, <1>3, <1>4, <1>5 DEF t

(* The catalogue's component state, or the time left, changes.             *)
LEMMA KeptState ==
    ASSUME NEW s \in Db, NEW t, WatchSound(s), LinkSound(s),
           t.leads = s.leads, t.link = s.link, t.watches = s.watches,
           t.listed = s.listed, t.novelty = s.novelty, t.region = s.region
    PROVE  WatchSound(t) /\ LinkSound(t) /\ Grows(s, t)
BY CountersTyped DEF WatchSound, LinkSound, Grows, Events

LEMMA ComponentState ==
    ASSUME NEW s \in Db, NEW status, NEW n \in Nat, NEW m \in 0..MaxFaults, Sound(s, n),
           n <= m, status = "BLOCKED" => n + 1 <= m
    PROVE  LET t == Component(s, status)
           IN  t \in Db /\ Sound(t, m) /\ Grows(s, t)
<1> DEFINE t == Component(s, status)
<1>1. s.blocks \in Nat /\ s.wait \in Nat /\ s.wait <= 8 /\ s.blocks <= n /\ n <= MaxFaults
  BY NewsAssumption DEF Db, Sound, BackOffSound
<1>2. CASE status = "BLOCKED"
  <2> DEFINE wait == IF s.blocks >= 3 THEN 8 ELSE 2 ^ s.blocks
  <2>1. t = [s EXCEPT !.blocks = s.blocks + 1, !.wait = wait]
    BY <1>2, Zenon DEF Component, Succeeded
  <2>2. wait = IF s.blocks = 0 THEN 1 ELSE IF s.blocks = 1 THEN 2
               ELSE IF s.blocks = 2 THEN 4 ELSE 8
    <3>1. 2 ^ 0 = 1 /\ 2 ^ 1 = 2 /\ 2 ^ 2 = 4
      OBVIOUS
    <3>2. s.blocks = 0 \/ s.blocks = 1 \/ s.blocks = 2 \/ s.blocks >= 3
      BY <1>1
    <3>3. s.blocks = 0 => 2 ^ s.blocks = 2 ^ 0
      BY Zenon
    <3>4. s.blocks = 1 => 2 ^ s.blocks = 2 ^ 1
      BY Zenon
    <3>5. s.blocks = 2 => 2 ^ s.blocks = 2 ^ 2
      BY Zenon
    <3> QED
      BY <1>1, <3>1, <3>2, <3>3, <3>4, <3>5
  <2> HIDE DEF wait
  <2>3. s.blocks + 1 \in 0..MaxFaults /\ wait \in 0..8 /\ s.blocks + 1 <= m
    BY <1>1, <1>2, <2>2, NewsAssumption
  <2>4. t \in Db
    BY <2>1, <2>3 DEF Db
  <2>5. t.blocks = s.blocks + 1 /\ t.wait = wait
    BY <2>1 DEF Db
  <2>6. BackOffSound(t, m)
    BY <1>1, <2>2, <2>3, <2>5 DEF BackOffSound
  <2>7. /\ t.leads = s.leads /\ t.link = s.link /\ t.watches = s.watches
        /\ t.listed = s.listed /\ t.novelty = s.novelty /\ t.region = s.region
    BY <2>1 DEF Db
  <2> HIDE DEF t
  <2>8. WatchSound(t) /\ LinkSound(t) /\ Grows(s, t)
    BY <2>7, KeptState DEF Sound
  <2> QED
    BY <2>4, <2>6, <2>8 DEF Sound, t
<1>3. CASE status \in Succeeded
  <2>1. t = [s EXCEPT !.blocks = 0, !.wait = 0]
    BY <1>3 DEF Component, Succeeded
  <2> DEFINE u == [s EXCEPT !.blocks = 0, !.wait = 0]
  <2>2. t \in Db /\ t.blocks = 0 /\ t.wait = 0
    <3> 0 \in 0..MaxFaults /\ 0 \in 0..8
      BY NewsAssumption
    <3>1. u \in Db
      BY DEF Db
    <3>2. u.blocks = 0 /\ u.wait = 0
      BY DEF Db
    <3> QED
      BY <2>1, <3>1, <3>2
  <2>3. /\ t.leads = s.leads /\ t.link = s.link /\ t.watches = s.watches
        /\ t.listed = s.listed /\ t.novelty = s.novelty /\ t.region = s.region
    BY <2>1 DEF Db
  <2>4. BackOffSound(t, m)
    BY <2>2 DEF BackOffSound
  <2> HIDE DEF t
  <2> QED
    BY <2>2, <2>3, <2>4, KeptState DEF Sound, t
<1>4. CASE status # "BLOCKED" /\ status \notin Succeeded
  <2>1. t = s
    BY <1>4 DEF Component
  <2> QED
    BY <1>1, <2>1, KeptState DEF Sound, BackOffSound
<1> QED
  BY <1>2, <1>3, <1>4

-----------------------------------------------------------------------------
(* Transactions *)

DataTyped ==
    /\ db \in Db /\ draft \in Db
    /\ posts \in [Watch -> Nat]
    /\ faults \in 0..MaxFaults

LEMMA ViewSound ==
    ASSUME DataTyped, DataSound
    PROVE  View \in Db /\ Sound(View, faults)
BY DEF View, DataTyped, DataSound

LEMMA MoreFaults ==
    ASSUME NEW s \in Db, NEW n \in Nat, NEW m \in Nat, Sound(s, n), n <= m
    PROVE  Sound(s, m)
BY NewsAssumption DEF Sound, BackOffSound, Db

(* A state the runner may go to. *)
Reached(new) == new \in Db /\ Sound(new, faults') /\ Grows(View, new)

FaultsGrow == faults' \in 0..MaxFaults /\ faults' >= faults

LEMMA FaultGrows ==
    ASSUME DataTyped, NEW n \in Nat, Fault(n)
    PROVE  FaultsGrow /\ faults' = faults + n
BY NewsAssumption DEF DataTyped, Fault, FaultsGrow

(* The transaction goes on, and no alert is sent. *)
LEMMA Written ==
    ASSUME DataTyped, DataSound, FaultsGrow, NEW new, Reached(new), Write(new),
           posts' = posts, sent' = sent
    PROVE  DataTyped' /\ DataSound' /\ Grows(View, View')
<1>1. db' = db /\ draft' = new /\ View' = new
  BY DEF Write, View
<1>2. DataTyped'
  BY <1>1 DEF DataTyped, FaultsGrow, Reached
<1>3. Sound(db, faults') /\ Sound(draft', faults')
  BY <1>1, MoreFaults DEF DataTyped, DataSound, FaultsGrow, Reached
<1>4. PostsBacked'
  <2> SUFFICES ASSUME NEW w \in Watch
               PROVE  /\ posts[w] <= Events(new, w) + faults'
                      /\ posts[w] <= Events(db, w) + faults' + (IF sent THEN 1 ELSE 0)
    BY <1>1 DEF PostsBacked
  <2>1. /\ posts[w] <= Events(View, w) + faults
        /\ posts[w] <= Events(db, w) + faults + (IF sent THEN 1 ELSE 0)
        /\ Events(View, w) <= Events(new, w)
    BY DEF DataSound, PostsBacked, Reached, Grows
  <2>2. Events(View, w) \in Nat /\ Events(db, w) \in Nat /\ Events(new, w) \in Nat
    BY ViewSound, CountersTyped DEF DataTyped, Reached
  <2> QED
    BY <2>1, <2>2 DEF DataTyped, FaultsGrow
<1> QED
  BY <1>1, <1>2, <1>3, <1>4 DEF DataSound, Reached

(* The transaction goes on, and the alert of an Event it adds is sent. *)
LEMMA WrittenAndSent ==
    ASSUME DataTyped, DataSound, FaultsGrow, NEW new, Reached(new), Write(new),
           NEW w \in Watch, NEW answer, Send(w, answer), ~sent,
           Events(new, w) = Events(View, w) + 1
    PROVE  DataTyped' /\ DataSound' /\ Grows(View, View')
<1>1. db' = db /\ draft' = new /\ View' = new /\ sent'
  BY DEF Write, View, Send
<1>2. /\ posts' \in [Watch -> Nat] /\ posts'[w] <= posts[w] + 1
      /\ \A v \in Watch : v # w => posts'[v] = posts[v]
  BY DEF Send, DataTyped
<1>3. DataTyped'
  BY <1>1, <1>2 DEF DataTyped, FaultsGrow, Reached
<1>4. Sound(db, faults') /\ Sound(draft', faults')
  BY <1>1, MoreFaults DEF DataTyped, DataSound, FaultsGrow, Reached
<1>5. PostsBacked'
  <2> SUFFICES ASSUME NEW v \in Watch
               PROVE  /\ posts'[v] <= Events(new, v) + faults'
                      /\ posts'[v] <= Events(db, v) + faults' + 1
    BY <1>1 DEF PostsBacked
  <2>1. /\ posts[v] <= Events(View, v) + faults
        /\ posts[v] <= Events(db, v) + faults + (IF sent THEN 1 ELSE 0)
        /\ Events(View, v) <= Events(new, v)
    BY DEF DataSound, PostsBacked, Reached, Grows
  <2>2. Events(View, v) \in Nat /\ Events(db, v) \in Nat /\ Events(new, v) \in Nat
    BY ViewSound, CountersTyped DEF DataTyped, Reached
  <2>3. posts[v] \in Nat /\ posts'[v] \in Nat /\ faults \in Nat /\ faults' \in Nat
        /\ faults' >= faults
    BY <1>2 DEF DataTyped, FaultsGrow
  <2>4. CASE v = w
    BY <1>2, <2>1, <2>2, <2>3, <2>4
  <2>5. CASE v # w
    BY <1>2, <2>1, <2>2, <2>3, <2>5
  <2> QED
    BY <2>4, <2>5
<1> QED
  BY <1>1, <1>3, <1>4, <1>5 DEF DataSound, Reached

LEMMA Committed ==
    ASSUME DataTyped, DataSound, FaultsGrow, NEW new, Reached(new), CommitAs(new),
           posts' = posts
    PROVE  DataTyped' /\ DataSound' /\ Grows(View, View')
<1>1. db' = new /\ draft' = new /\ View' = new
  BY DEF CommitAs, View
<1>2. DataTyped'
  BY <1>1 DEF DataTyped, FaultsGrow, Reached
<1>3. Sound(db', faults') /\ Sound(draft', faults')
  BY <1>1 DEF Reached
<1>4. PostsBacked'
  <2> SUFFICES ASSUME NEW w \in Watch PROVE posts[w] <= Events(new, w) + faults'
    <3> \A w \in Watch : posts[w] \in Nat /\ Events(new, w) \in Nat /\ faults' \in Nat
      BY CountersTyped DEF DataTyped, FaultsGrow, Reached
    <3> QED
      BY <1>1 DEF PostsBacked
  <2>1. posts[w] <= Events(View, w) + faults /\ Events(View, w) <= Events(new, w)
    BY DEF DataSound, PostsBacked, Reached, Grows
  <2>2. Events(View, w) \in Nat /\ Events(new, w) \in Nat
    BY ViewSound, CountersTyped DEF Reached
  <2> QED
    BY <2>1, <2>2 DEF DataTyped, FaultsGrow
<1> QED
  BY <1>1, <1>2, <1>3, <1>4 DEF DataSound, Reached

(* What was written is undone: an alert that was sent with it is the fault *)
(* of that.                                                                *)
LEMMA Dropped ==
    ASSUME DataTyped, DataSound, FaultsGrow, CommitAs(db), posts' = posts,
           sent => faults' = faults + 1
    PROVE  DataTyped' /\ DataSound'
<1>1. db' = db /\ draft' = db /\ View' = db
  BY DEF CommitAs, View
<1>2. DataTyped'
  BY <1>1 DEF DataTyped, FaultsGrow
<1>3. Sound(db', faults') /\ Sound(draft', faults')
  BY <1>1, MoreFaults DEF DataTyped, DataSound, FaultsGrow
<1>4. PostsBacked'
  <2> SUFFICES ASSUME NEW w \in Watch PROVE posts[w] <= Events(db, w) + faults'
    <3> \A w \in Watch : posts[w] \in Nat /\ Events(db, w) \in Nat /\ faults' \in Nat
      BY CountersTyped DEF DataTyped, FaultsGrow
    <3> QED
      BY <1>1 DEF PostsBacked
  <2>1. posts[w] <= Events(db, w) + faults + (IF sent THEN 1 ELSE 0)
    BY DEF DataSound, PostsBacked
  <2>2. Events(db, w) \in Nat
    BY CountersTyped DEF DataTyped
  <2> QED
    BY <2>1, <2>2 DEF DataTyped, FaultsGrow
<1> QED
  BY <1>1, <1>2, <1>3, <1>4 DEF DataSound

(* Nothing is written. *)
LEMMA Untouched ==
    ASSUME DataTyped, DataSound, FaultsGrow, UNCHANGED <<db, draft, writing, posts, sent>>
    PROVE  DataTyped' /\ DataSound' /\ Grows(View, View')
<1>1. db' = db /\ draft' = draft /\ View' = View /\ posts' = posts /\ sent' = sent
  BY DEF View
<1>2. DataTyped'
  BY <1>1 DEF DataTyped, FaultsGrow
<1>3. Sound(db', faults') /\ Sound(draft', faults')
  BY <1>1, MoreFaults DEF DataTyped, DataSound, FaultsGrow
<1>4. PostsBacked'
  <2> \A w \in Watch : Events(View, w) \in Nat /\ Events(db, w) \in Nat
    BY ViewSound, CountersTyped DEF DataTyped
  <2> QED
    BY <1>1 DEF PostsBacked, DataSound, DataTyped, FaultsGrow
<1>5. Grows(View, View)
  BY ViewSound, CountersTyped DEF Grows
<1> QED
  BY <1>1, <1>2, <1>3, <1>4, <1>5 DEF DataSound

-----------------------------------------------------------------------------
(* Steps *)

LEMMA InitIInv == Init => IInv
<1> SUFFICES ASSUME Init PROVE IInv
  OBVIOUS
<1> USE NewsAssumption DEF Init
<1>1. db \in Db /\ draft = db
  BY DEF Db
<1>2. TypeOK
  <2>1. mode \in Mode /\ looked \in [watch : Watch \union {None}, new : BOOLEAN]
    BY DEF Mode, NotLooked
  <2>2. catalogue \in CataloguePart /\ news \in NewsPart /\ last \in Row
    BY DEF NoCatalogue, CataloguePart, NoNews, NewsPart, NoRow, Row, Status
  <2>3. posts \in [Watch -> Nat] /\ faults \in 0..MaxFaults
    OBVIOUS
  <2> QED
    BY <1>1, <2>1, <2>2, <2>3 DEF TypeOK
<1>3. Sound(db, faults)
  BY DEF Sound, WatchSound, LinkSound, BackOffSound
<1>4. PostsBacked
  BY DEF PostsBacked, View, Events
<1>5. Paused /\ InHand /\ NotAsked /\ NewsSoFar /\ CatalogueSoFar /\ RowSound
  BY DEF Paused, InHand, NotAsked, NewsSoFar, CatalogueSoFar, RowSound, StatusHidesNothing,
         Clean, NoRow, NotLooked
<1> QED
  BY <1>1, <1>2, <1>3, <1>4, <1>5 DEF IInv, DataSound

LEMMA StepCases ==
    ASSUME Next
    PROVE  \/ \E m \in Modes, status \in Status : Start(m, status)
           \/ \E a \in Announcement : Note(a) \/ Announce(a) \/ \E f \in BOOLEAN : Skip(a, f)
           \/ \E w \in Watch : LookUp(w) \/ LaneObserves(w)
           \/ \E w \in Watch, f \in BOOLEAN : Fail(w, f)
           \/ \E status \in Status : LaneReports(status)
           \/ \E answer \in Answer : Resolve(answer)
           \/ \E status \in Status : \E slice \in SUBSET todo : Poll(status, slice)
           \/ \E w \in Watch, answer \in Answer : Observe(w, answer)
           \/ Link \/ NoPoll \/ Ask \/ Deliver \/ Finish \/ Collide \/ Lose \/ Tick \/ LaneFilled
BY DEF Next, Run, AnnouncementStep, CatalogueStep

(* What an announcement in progress knows about the reference it resolves. *)
LEMMA Resolving ==
    ASSUME TypeOK, Paused, InHand, NEW answer \in Answer, Resolve(answer)
    PROVE  /\ looked.watch \in Watch /\ looked.watch \in refs /\ current # None /\ ~sent
           /\ refs \union ids = Refs[current] /\ ids \subseteq View.watches
           /\ current \in View.leads
           /\ ~looked.new => looked.watch \in View.watches
<1>1. looked.watch # None /\ looked.watch \in Watch
  BY DEF Resolve, TypeOK
<1>2. current # None /\ ~sent
  BY <1>1 DEF Paused, NotLooked
<1> QED
  BY <1>1, <1>2 DEF InHand

LEMMA NextData ==
    ASSUME IInv, [Next]_vars
    PROVE  /\ DataTyped' /\ DataSound' /\ FaultsGrow
           /\ Grows(View, View') \/ current' = None
<1> USE DEF IInv
<1>1. DataTyped /\ View \in Db /\ Sound(View, faults)
  BY ViewSound DEF TypeOK, DataTyped
<1>2. faults' = faults => FaultsGrow
  BY <1>1 DEF DataTyped, FaultsGrow
<1>3. ASSUME FaultsGrow, NEW new \in Db, WatchSound(new), LinkSound(new), Grows(View, new),
             SameBackOff(View, new)
      PROVE  Reached(new)
  <2>1. Sound(View, faults')
    BY <1>1, <1>3, MoreFaults DEF FaultsGrow, DataTyped
  <2> QED
    BY <1>3, <2>1 DEF Reached, Sound, BackOffSound, SameBackOff
<1>4. FaultsGrow => Reached(View)
  BY <1>1, <1>3, CountersTyped DEF Sound, Grows, SameBackOff
<1>5. ASSUME NEW m \in Modes, NEW status \in Status, Start(m, status)
      PROVE  DataTyped' /\ DataSound' /\ FaultsGrow /\ Grows(View, View')
  <2>1. FaultsGrow
    BY <1>1, <1>5, FaultGrows DEF Start
  <2>2. View = db /\ Write(db) /\ posts' = posts /\ sent' = sent
    BY <1>5 DEF Start, Paused, View
  <2> QED
    BY <1>1, <1>4, <2>1, <2>2, Written
<1>6. ASSUME NEW a \in Announcement, NEW f \in BOOLEAN, Skip(a, f)
      PROVE  DataTyped' /\ DataSound' /\ FaultsGrow /\ Grows(View, View')
  <2>1. FaultsGrow /\ posts' = posts /\ sent' = sent
    BY <1>1, <1>6, FaultGrows DEF Skip
  <2>2. CommitAs(View) \/ UNCHANGED <<db, draft, writing>>
    BY <1>6 DEF Skip
  <2> QED
    BY <1>1, <1>4, <2>1, <2>2, Committed, Untouched
<1>7. ASSUME NEW a \in Announcement, Note(a)
      PROVE  DataTyped' /\ DataSound' /\ FaultsGrow /\ Grows(View, View')
  <2> DEFINE leads == IF Merged(a) THEN View.leads ELSE View.leads \union {a}
             new == [View EXCEPT !.leads = leads]
  <2>1. CommitAs(new) /\ posts' = posts /\ FaultsGrow
    BY <1>2, <1>7 DEF Note
  <2>2. leads \in SUBSET Announcement /\ View.leads \subseteq leads
    BY <1>1 DEF Db
  <2>3. Reached(new)
    BY <1>1, <1>3, <2>1, <2>2, NotedState DEF Sound
  <2> QED
    BY <1>1, <2>1, <2>3, Committed
<1>8. ASSUME NEW a \in Announcement, Announce(a)
      PROVE  DataTyped' /\ DataSound' /\ FaultsGrow /\ Grows(View, View')
  <2> DEFINE new == [View EXCEPT !.leads = View.leads \union {a}]
  <2>1. Write(new) /\ posts' = posts /\ sent' = sent /\ FaultsGrow
    BY <1>2, <1>8 DEF Announce
  <2>2. View.leads \union {a} \in SUBSET Announcement
    BY <1>1 DEF Db
  <2>3. Reached(new)
    BY <1>1, <1>3, <2>1, <2>2, NotedState DEF Sound
  <2> QED
    BY <1>1, <2>1, <2>3, Written
<1>9. ASSUME \/ \E w \in Watch : LookUp(w)
             \/ NoPoll \/ Ask \/ LaneFilled \/ UNCHANGED vars
      PROVE  DataTyped' /\ DataSound' /\ FaultsGrow /\ Grows(View, View')
  <2>1. UNCHANGED <<db, draft, writing, posts, sent>> /\ faults' = faults
    BY <1>9 DEF LookUp, NoPoll, Ask, EnterCatalogue, LaneFilled, vars
  <2> QED
    BY <1>1, <1>2, <2>1, Untouched
<1>10. ASSUME NEW answer \in Answer, Resolve(answer)
       PROVE  DataTyped' /\ DataSound' /\ FaultsGrow /\ Grows(View, View')
  <2> DEFINE w == looked.watch
             event == looked.new /\ Newsworthy(current)
             new == [View EXCEPT !.watches = @ \union {w},
                                 !.novelty[w] = IF event THEN @ + 1 ELSE @]
  <2>1. w \in Watch /\ ~sent
    BY <1>10, Resolving
  <2>2. FaultsGrow
    BY <1>1, <1>2, <1>10, FaultGrows DEF Resolve, Send, DontSend
  <2>3. CASE ~looked.new
    <3>1. UNCHANGED <<db, draft, writing, posts, sent>>
      BY <1>10, <2>3 DEF Resolve, DontSend
    <3> QED
      BY <1>1, <2>2, <3>1, Untouched
  <2>4. CASE looked.new
    <3>1. w \notin View.watches /\ Write(new) /\ event \in BOOLEAN
      BY <1>10, <2>4 DEF Resolve, Newsworthy, TypeOK
    <3>2. Reached(new) /\ (event => Events(new, w) = Events(View, w) + 1)
      <4> HIDE DEF event
      <4>1. /\ new \in Db /\ WatchSound(new) /\ LinkSound(new)
            /\ Grows(View, new) /\ SameBackOff(View, new)
            /\ event => Events(new, w) = Events(View, w) + 1
        BY <1>1, <2>1, <3>1, CreatedState DEF Sound
      <4> QED
        BY <1>3, <2>2, <4>1
    <3>3. (event /\ Send(w, answer)) \/ (posts' = posts /\ sent' = sent)
      BY <1>10 DEF Resolve, DontSend
    <3> HIDE DEF new, event
    <3> QED
      BY <1>1, <2>1, <2>2, <3>1, <3>2, <3>3, Written, WrittenAndSent
  <2> QED
    BY <2>3, <2>4
<1>11. ASSUME Link
       PROVE  DataTyped' /\ DataSound' /\ FaultsGrow /\ Grows(View, View')
  <2> DEFINE new == [View EXCEPT !.link[current] = Refs[current]]
  <2>1. /\ current \in View.leads /\ ids = Refs[current]
        /\ Refs[current] \subseteq View.watches
    BY <1>11 DEF Link, InHand
  <2>2. CommitAs(new) /\ posts' = posts /\ FaultsGrow
    BY <1>2, <1>11, <2>1 DEF Link
  <2>3. Reached(new)
    BY <1>1, <1>3, <2>1, <2>2, LinkedState DEF Sound
  <2> QED
    BY <1>1, <2>2, <2>3, Committed
<1>12. ASSUME NEW status \in Status, NEW slice \in SUBSET todo, Poll(status, slice)
       PROVE  DataTyped' /\ DataSound' /\ FaultsGrow /\ Grows(View, View')
  <2>1. FaultsGrow /\ (status = "BLOCKED" => faults' = faults + 1)
    BY <1>1, <1>12, FaultGrows DEF Poll
  <2>2. Write(Component(View, status)) /\ posts' = posts /\ sent' = sent
    BY <1>12 DEF Poll, EnterCatalogue
  <2>3. Reached(Component(View, status))
    <3>1. faults \in Nat /\ faults' \in 0..MaxFaults /\ faults <= faults'
          /\ (status = "BLOCKED" => faults + 1 <= faults')
      BY <1>1, <2>1, NewsAssumption DEF DataTyped, FaultsGrow
    <3> QED
      BY <1>1, <3>1, ComponentState DEF Reached
  <2> QED
    BY <1>1, <2>1, <2>2, <2>3, Written
<1>13. ASSUME NEW w \in Watch, NEW answer \in Answer, Observe(w, answer)
       PROVE  DataTyped' /\ DataSound' /\ FaultsGrow /\ Grows(View, View')
  <2> DEFINE new == Listed(View, w, quiet)
  <2>1. FaultsGrow
    BY <1>1, <1>2, <1>13, FaultGrows DEF Observe, Send, DontSend
  <2>2. /\ new \in Db /\ WatchSound(new) /\ LinkSound(new)
        /\ Grows(View, new) /\ SameBackOff(View, new)
        /\ HasEvent(View, w, quiet) => Events(new, w) = Events(View, w) + 1
    BY <1>1, ListedState DEF TypeOK, Sound
  <2>3. Reached(new)
    BY <1>3, <2>1, <2>2
  <2>4. \/ HasEvent(View, w, quiet) /\ Write(new) /\ Send(w, answer) /\ ~sent
        \/ CommitAs(new) /\ posts' = posts
    BY <1>13 DEF Observe, DontSend
  <2> HIDE DEF new
  <2> QED
    BY <1>1, <2>1, <2>2, <2>3, <2>4, WrittenAndSent, Committed
<1>14. ASSUME NEW w \in Watch, NEW f \in BOOLEAN, Fail(w, f)
       PROVE  DataTyped' /\ DataSound' /\ FaultsGrow /\ current' = None
  <2>1. FaultsGrow /\ posts' = posts /\ sent' = sent /\ ~sent
    BY <1>1, <1>14, FaultGrows DEF Fail
  <2>2. CommitAs(db) \/ UNCHANGED <<db, draft, writing>>
    BY <1>14 DEF Fail
  <2>3. current' = None
    BY <1>14 DEF Fail, Paused, item
  <2> QED
    BY <1>1, <2>1, <2>2, <2>3, Dropped, Untouched
<1>15. ASSUME Deliver
       PROVE  DataTyped' /\ DataSound' /\ FaultsGrow /\ Grows(View, View')
  <2>1. CommitAs(View) /\ posts' = posts /\ FaultsGrow
    BY <1>2, <1>15 DEF Deliver, View, Paused
  <2> QED
    BY <1>1, <1>4, <2>1, Committed
<1>16. ASSUME Finish
       PROVE  DataTyped' /\ DataSound' /\ FaultsGrow /\ Grows(View, View')
  <2>1. PICK e \in BOOLEAN : CommitAs([View EXCEPT !.established = e])
    BY <1>1, <1>16 DEF Finish, Db
  <2> DEFINE new == [View EXCEPT !.established = e]
  <2>2. /\ new \in Db /\ SameBackOff(View, new)
        /\ new.leads = View.leads /\ new.link = View.link /\ new.watches = View.watches
        /\ new.listed = View.listed /\ new.novelty = View.novelty /\ new.region = View.region
    BY <1>1 DEF Db, SameBackOff
  <2>3. posts' = posts /\ FaultsGrow
    BY <1>2, <1>16 DEF Finish
  <2>4. CommitAs(new)
    BY <2>1
  <2> HIDE DEF new
  <2>5. Reached(new)
    BY <1>1, <1>3, <2>2, <2>3, KeptState DEF Sound
  <2> QED
    BY <1>1, <2>3, <2>4, <2>5, Committed
<1>17. ASSUME Collide \/ Lose
       PROVE  DataTyped' /\ DataSound' /\ FaultsGrow /\ current' = None
  <2>1. CommitAs(db) /\ posts' = posts /\ current' = None
    BY <1>17 DEF Collide, Lose, Undone
  <2>2. FaultsGrow /\ (sent => faults' = faults + 1)
    BY <1>1, <1>2, <1>17, FaultGrows DEF Collide, Lose, Paused, NotLooked
  <2> QED
    BY <1>1, <2>1, <2>2, Dropped
<1>18. ASSUME Tick
       PROVE  DataTyped' /\ DataSound' /\ FaultsGrow /\ Grows(View, View')
  <2> DEFINE Later(s) == [s EXCEPT !.wait = IF @ > 0 THEN @ - 1 ELSE 0]
  <2>1. /\ db' = Later(db) /\ draft' = Later(draft) /\ writing' = writing
        /\ posts' = posts /\ sent' = sent /\ FaultsGrow /\ faults' = faults
    BY <1>2, <1>18 DEF Tick
  <2>2. ASSUME NEW s \in Db, Sound(s, faults)
        PROVE  /\ Later(s) \in Db /\ Sound(Later(s), faults) /\ Grows(s, Later(s))
               /\ \A w \in Watch : Events(Later(s), w) = Events(s, w)
    <3> DEFINE wait == IF s.wait > 0 THEN s.wait - 1 ELSE 0
               t == [s EXCEPT !.wait = wait]
    <3>1. Later(s) = t
      OBVIOUS
    <3>2. s.wait \in 0..8 /\ s.blocks \in Nat
      BY <2>2, NewsAssumption DEF Db
    <3>3. wait \in 0..8 /\ (wait <= s.wait)
      BY <3>2
    <3> HIDE DEF wait
    <3>4. /\ t \in Db /\ t.wait = wait /\ t.blocks = s.blocks
          /\ t.leads = s.leads /\ t.link = s.link /\ t.watches = s.watches
          /\ t.listed = s.listed /\ t.novelty = s.novelty /\ t.region = s.region
      BY <2>2, <3>3 DEF Db
    <3> HIDE DEF t
    <3>5. WatchSound(t) /\ LinkSound(t) /\ Grows(s, t)
      BY <2>2, <3>4, KeptState DEF Sound
    <3>6. BackOffSound(t, faults)
      BY <2>2, <3>2, <3>3, <3>4 DEF Sound, BackOffSound
    <3>7. \A w \in Watch : Events(t, w) = Events(s, w)
      BY <3>4 DEF Events
    <3> HIDE DEF Later
    <3> QED
      BY <3>1, <3>4, <3>5, <3>6, <3>7 DEF Sound
  <2> HIDE DEF Later
  <2>3. View' = Later(View)
    BY <2>1 DEF View
  <2>4. DataTyped' /\ Sound(db', faults') /\ Sound(draft', faults') /\ Grows(View, View')
    BY <1>1, <2>1, <2>2, <2>3 DEF DataTyped, DataSound
  <2>5. PostsBacked'
    <3>1. \A w \in Watch : Events(View', w) = Events(View, w) /\ Events(db', w) = Events(db, w)
      BY <1>1, <2>1, <2>2, <2>3 DEF DataTyped, DataSound
    <3> QED
      BY <2>1, <3>1 DEF PostsBacked, DataSound
  <2> QED
    BY <2>1, <2>4, <2>5 DEF DataSound
<1>19. ASSUME NEW w \in Watch, LaneObserves(w)
       PROVE  DataTyped' /\ DataSound' /\ FaultsGrow /\ Grows(View, View')
  <2> DEFINE new == Listed(db, w, filling)
  <2>1. /\ db' = new /\ draft' = new /\ ~writing /\ writing' = writing /\ sent' = sent
        /\ faults' = faults /\ FaultsGrow /\ View = db
        /\ posts' = IF HasEvent(db, w, filling) THEN [posts EXCEPT ![w] = @ + 1] ELSE posts
    BY <1>2, <1>19 DEF LaneObserves, View
  <2>2. /\ new \in Db /\ WatchSound(new) /\ LinkSound(new)
        /\ Grows(db, new) /\ SameBackOff(db, new)
        /\ HasEvent(db, w, filling) => Events(new, w) = Events(db, w) + 1
    BY <1>1, <2>1, ListedState DEF TypeOK, Sound
  <2>3. Reached(new)
    BY <1>3, <2>1, <2>2
  <2> HIDE DEF new
  <2>4. View' = new
    BY <2>1 DEF View
  <2>5. posts' \in [Watch -> Nat]
    BY <1>1, <2>1 DEF DataTyped
  <2>6. ASSUME NEW v \in Watch PROVE posts'[v] <= Events(new, v) + faults
    <3>1. ~sent
      BY <2>1 DEF Paused
    <3>2. posts[v] <= Events(db, v) + faults + (IF sent THEN 1 ELSE 0)
          /\ Events(db, v) <= Events(new, v)
      BY <2>2 DEF PostsBacked, DataSound, Grows
    <3>3. /\ posts[v] \in Nat /\ Events(db, v) \in Nat /\ Events(new, v) \in Nat
          /\ faults \in Nat
      BY <1>1, <2>2, CountersTyped DEF DataTyped
    <3>4. \/ posts'[v] = posts[v]
          \/ posts'[v] = posts[v] + 1 /\ v = w /\ HasEvent(db, w, filling)
      BY <1>1, <2>1 DEF DataTyped
    <3> QED
      BY <2>2, <3>1, <3>2, <3>3, <3>4
  <2>7. PostsBacked'
    <3> \A v \in Watch : posts'[v] \in Nat /\ Events(new, v) \in Nat /\ faults \in Nat
      BY <1>1, <2>2, <2>5, CountersTyped DEF DataTyped
    <3> QED
      BY <2>1, <2>4, <2>6 DEF PostsBacked
  <2>8. DataTyped' /\ Sound(db', faults') /\ Sound(draft', faults')
    BY <1>1, <2>1, <2>2, <2>3, <2>5 DEF DataTyped, Reached
  <2> QED
    BY <2>1, <2>2, <2>4, <2>7, <2>8 DEF DataSound
<1>20. ASSUME NEW status \in Status, LaneReports(status)
       PROVE  DataTyped' /\ DataSound' /\ FaultsGrow /\ Grows(View, View')
  <2> DEFINE new == Component(db, status)
  <2>1. /\ db' = new /\ draft' = new /\ ~writing /\ writing' = writing /\ sent' = sent
        /\ posts' = posts /\ View = db
    BY <1>20 DEF LaneReports, View
  <2>2. FaultsGrow /\ (status = "BLOCKED" => faults' = faults + 1)
    BY <1>1, <1>20, FaultGrows DEF LaneReports
  <2>3. Reached(new)
    <3>1. faults \in Nat /\ faults' \in 0..MaxFaults /\ faults <= faults'
          /\ (status = "BLOCKED" => faults + 1 <= faults')
      BY <1>1, <2>2, NewsAssumption DEF DataTyped, FaultsGrow
    <3> QED
      BY <1>1, <2>1, <3>1, ComponentState DEF Reached
  <2> HIDE DEF new
  <2>4. CommitAs(new)
    BY <2>1 DEF CommitAs
  <2> QED
    BY <1>1, <2>1, <2>2, <2>3, <2>4, Committed
<1> QED
  BY <1>5, <1>6, <1>7, <1>8, <1>9, <1>10, <1>11, <1>12, <1>13, <1>14, <1>15, <1>16, <1>17,
     <1>18, <1>19, <1>20, StepCases

LEMMA CombinedTyped == \A s : Combined(s) \in Status
BY DEF Combined, Status

LEMMA NextTypeOK == IInv /\ [Next]_vars => TypeOK'
<1> SUFFICES ASSUME IInv, [Next]_vars PROVE TypeOK'
  OBVIOUS
<1>1. DataTyped'
  BY NextData
<1> USE DEF IInv, TypeOK, DataTyped
<1>2. ASSUME NEW m \in Modes, NEW status \in Status, Start(m, status) PROVE TypeOK'
  <2>1. m \in Mode /\ (~db.established \/ m.forced) \in BOOLEAN
    BY NewsAssumption
  <2>2. NoCatalogue \in CataloguePart /\ [NoNews EXCEPT !.status = status] \in NewsPart
    BY DEF NoCatalogue, CataloguePart, NoNews, NewsPart, Status
  <2> QED
    BY <1>1, <1>2, <2>1, <2>2 DEF Start, Write, item
<1>3. ASSUME NEW a \in Announcement, NEW f \in BOOLEAN, Skip(a, f) PROVE TypeOK'
  <2>1. [news EXCEPT !.bad = TRUE] \in NewsPart
    BY DEF NewsPart
  <2> QED
    BY <1>1, <1>3, <2>1 DEF Skip, CommitAs, item
<1>4. ASSUME NEW a \in Announcement, Note(a) PROVE TypeOK'
  BY <1>1, <1>4 DEF Note, CommitAs, item
<1>5. ASSUME NEW a \in Announcement, Announce(a) PROVE TypeOK'
  <2>1. View.link[a] \subseteq Watch /\ Refs[a] \subseteq Watch
    BY NewsAssumption DEF View, Db
  <2> QED
    BY <1>1, <1>5, <2>1 DEF Announce, Write
<1>6. ASSUME NEW w \in Watch, LookUp(w) PROVE TypeOK'
  BY <1>1, <1>6 DEF LookUp, IsNew
<1>7. ASSUME NEW answer \in Answer, Resolve(answer) PROVE TypeOK'
  <2>1. looked.watch \in Watch
    BY <1>7, Resolving
  <2>2. writing' \in BOOLEAN /\ sent' \in BOOLEAN
    BY <1>7 DEF Resolve, Write, Send, DontSend
  <2> QED
    BY <1>1, <1>7, <2>1, <2>2 DEF Resolve, Remembered, NotLooked
<1>8. ASSUME Link PROVE TypeOK'
  BY <1>1, <1>8 DEF Link, CommitAs
<1>9. ASSUME NEW status \in Status, NEW items \in SUBSET Watch, EnterCatalogue(status, items),
             writing' \in BOOLEAN
      PROVE  TypeOK'
  <2>1. [NoCatalogue EXCEPT !.status = status, !.full = Cardinality(items) = MaxItems]
            \in CataloguePart
    BY DEF NoCatalogue, CataloguePart
  <2> QED
    BY <1>1, <1>9, <2>1 DEF EnterCatalogue, item
<1>10. ASSUME NoPoll PROVE TypeOK'
  <2>1. (IF mode.catalogue THEN "BACKED_OFF" ELSE "SKIPPED") \in Status
    BY DEF Status
  <2> QED
    BY <1>9, <1>10, <2>1 DEF NoPoll
<1>11. ASSUME NEW status \in Status, NEW slice \in SUBSET todo, Poll(status, slice) PROVE TypeOK'
  <2>1. phase = "asked"
    BY <1>11 DEF Poll
  <2>2. slice \in SUBSET Watch
    BY <2>1, CandidatesTyped DEF NotAsked
  <2>3. "ZERO_ITEMS" \in Status
    BY DEF Status
  <2> QED
    BY <1>9, <1>11, <2>2, <2>3 DEF Poll, Write
<1>12. ASSUME NEW w \in Watch, NEW answer \in Answer, Observe(w, answer) PROVE TypeOK'
  <2>1. writing' \in BOOLEAN /\ sent' \in BOOLEAN
    BY <1>12 DEF Observe, Write, CommitAs, Send, DontSend
  <2>2. [catalogue EXCEPT !.ok = TRUE] \in CataloguePart
    BY DEF CataloguePart
  <2> QED
    BY <1>1, <1>12, <2>1, <2>2 DEF Observe, item
<1>13. ASSUME NEW w \in Watch, NEW f \in BOOLEAN, Fail(w, f) PROVE TypeOK'
  <2>1. [catalogue EXCEPT !.bad = TRUE] \in CataloguePart
    BY DEF CataloguePart
  <2> QED
    BY <1>1, <1>13, <2>1 DEF Fail, CommitAs, item
<1>14. ASSUME Deliver PROVE TypeOK'
  BY <1>1, <1>14 DEF Deliver, CommitAs, item
<1>15. ASSUME Finish PROVE TypeOK'
  <2>1. CatalogueStatus \in Status
    BY DEF CatalogueStatus, CataloguePart, Status
  <2>2. \A statuses : Named(statuses) \in SUBSET Part
    BY DEF Named, Parts, Part
  <2>3. news.status \in Status /\ news.bad \in BOOLEAN
        /\ catalogue.bad \in BOOLEAN /\ catalogue.full \in BOOLEAN
    BY DEF NewsPart, CataloguePart
  <2>4. last' \in Row
    BY <1>15, <2>1, <2>2, <2>3, CombinedTyped DEF Finish, Row, Mode
  <2> QED
    BY <1>1, <1>15, <2>4 DEF Finish, CommitAs, item
<1>16. ASSUME Collide \/ Lose PROVE TypeOK'
  <2>1. NotLooked \in [watch : Watch \union {None}, new : BOOLEAN]
    BY DEF NotLooked
  <2>2. Undone
    BY <1>16 DEF Collide, Lose
  <2> QED
    BY <1>1, <2>1, <2>2 DEF Undone, CommitAs
<1>17. ASSUME NEW w \in Watch, LaneObserves(w) PROVE TypeOK'
  BY <1>1, <1>17 DEF LaneObserves, item
<1>18. ASSUME Tick \/ LaneFilled \/ UNCHANGED vars PROVE TypeOK'
  BY <1>1, <1>18 DEF Tick, LaneFilled, vars, item
<1>19. ASSUME Ask PROVE TypeOK'
  BY <1>1, <1>19, CandidatesTyped DEF Ask, item
<1>20. ASSUME NEW status \in Status, LaneReports(status) PROVE TypeOK'
  BY <1>1, <1>20 DEF LaneReports, item
<1> QED
  BY <1>2, <1>3, <1>4, <1>5, <1>6, <1>7, <1>8, <1>10, <1>11, <1>12, <1>13, <1>14, <1>15,
     <1>16, <1>17, <1>18, <1>19, <1>20, StepCases

LEMMA NextPaused == IInv /\ [Next]_vars => Paused'
<1> SUFFICES ASSUME IInv, [Next]_vars PROVE Paused'
  OBVIOUS
<1> USE NewsAssumption DEF IInv, Paused
<1>1. ASSUME NEW m \in Modes, NEW status \in Status, Start(m, status) PROVE Paused'
  BY <1>1 DEF Start, Write, item
<1>2. ASSUME NEW a \in Announcement, NEW f \in BOOLEAN, Skip(a, f) PROVE Paused'
  BY <1>2 DEF Skip, Between, CommitAs, item
<1>3. ASSUME NEW a \in Announcement, Note(a) PROVE Paused'
  BY <1>3 DEF Note, Between, CommitAs, item
<1>4. ASSUME NEW a \in Announcement, Announce(a) PROVE Paused'
  BY <1>4 DEF Announce, Between, Write
<1>5. ASSUME NEW w \in Watch, LookUp(w) PROVE Paused'
  BY <1>5 DEF LookUp, NotLooked
<1>6. ASSUME NEW answer \in Answer, Resolve(answer) PROVE Paused'
  <2>1. current # None /\ ~sent
    BY <1>6, Resolving
  <2>2. Write(draft') \/ (UNCHANGED <<db, draft, writing>> /\ ~looked.new)
    BY <1>6 DEF Resolve, Write
  <2>3. ~looked.new => sent' = sent
    BY <1>6 DEF Resolve, DontSend
  <2> QED
    BY <1>6, <2>1, <2>2, <2>3 DEF Resolve, Write, NotLooked
<1>7. ASSUME Link PROVE Paused'
  BY <1>7 DEF Link, CommitAs
<1>8. ASSUME NoPoll \/ Ask PROVE Paused'
  BY <1>8 DEF NoPoll, Ask, NewsDone, EnterCatalogue, item
<1>9. ASSUME NEW status \in Status, NEW slice \in SUBSET todo, Poll(status, slice)
      PROVE  Paused'
  BY <1>9 DEF Poll, EnterCatalogue, Write, item
<1>10. ASSUME NEW w \in Watch, NEW answer \in Answer, Observe(w, answer) PROVE Paused'
  <2>1. /\ phase = "catalogue" /\ phase' = phase /\ current' = None /\ looked' = NotLooked
        /\ current = None /\ looked = NotLooked
    BY <1>10 DEF Observe, item
  <2>2. \/ writing' = TRUE
        \/ writing' = FALSE /\ draft' = db' /\ ~sent'
    BY <1>10 DEF Observe, Write, CommitAs, DontSend
  <2> QED
    BY <2>1, <2>2
<1>11. ASSUME NEW w \in Watch, NEW f \in BOOLEAN, Fail(w, f) PROVE Paused'
  BY <1>11 DEF Fail, CommitAs, item
<1>12. ASSUME Deliver PROVE Paused'
  BY <1>12 DEF Deliver, CommitAs, item
<1>13. ASSUME Finish PROVE Paused'
  BY <1>13 DEF Finish, CommitAs, item
<1>14. ASSUME Collide \/ Lose PROVE Paused'
  BY <1>14 DEF Collide, Lose, Undone, CommitAs
<1>15. ASSUME NEW w \in Watch, LaneObserves(w) PROVE Paused'
  BY <1>15 DEF LaneObserves, item
<1>16. ASSUME Tick PROVE Paused'
  BY <1>16 DEF Tick, item
<1>17. ASSUME LaneFilled \/ UNCHANGED vars PROVE Paused'
  BY <1>17 DEF LaneFilled, vars, item
<1>18. ASSUME NEW status \in Status, LaneReports(status) PROVE Paused'
  BY <1>18 DEF LaneReports, item
<1> QED
  BY <1>1, <1>2, <1>3, <1>4, <1>5, <1>6, <1>7, <1>8, <1>9, <1>10, <1>11, <1>12, <1>13,
     <1>14, <1>15, <1>16, <1>17, <1>18, StepCases

LEMMA NextNotAsked == IInv /\ [Next]_vars => NotAsked'
<1> SUFFICES ASSUME IInv, [Next]_vars PROVE NotAsked'
  OBVIOUS
<1> USE DEF IInv, NotAsked
<1>1. CASE phase' \notin {"asked", "catalogue"}
  BY <1>1
<1>2. CASE UNCHANGED <<phase, mode, todo, catalogue>>
  BY <1>2, Zenon DEF Candidates
<1>3. CASE NoPoll
  BY <1>3 DEF NoPoll, EnterCatalogue, NoCatalogue
<1>4. CASE Ask
  BY <1>4 DEF Ask, Candidates
<1>5. ASSUME NEW status \in Status, NEW slice \in SUBSET todo, Poll(status, slice)
      PROVE  NotAsked'
  BY <1>5 DEF Poll, EnterCatalogue
<1>6. ASSUME NEW w \in Watch,
             \/ \E f \in BOOLEAN : Fail(w, f)
             \/ \E answer \in Answer : Observe(w, answer)
      PROVE  NotAsked'
  BY <1>6 DEF Fail, Observe
<1>7. ASSUME NEW m \in Modes, NEW status \in Status, Start(m, status)
      PROVE  phase' \notin {"asked", "catalogue"}
  BY <1>7 DEF Start
<1>8. ASSUME NEW a \in Announcement, Note(a) \/ Announce(a) \/ \E f \in BOOLEAN : Skip(a, f)
      PROVE  phase' \notin {"asked", "catalogue"}
  BY <1>8 DEF Note, Announce, Skip, Between
<1>9. ASSUME Finish \/ Collide \/ Lose PROVE phase' \notin {"asked", "catalogue"}
  BY <1>9 DEF Finish, Collide, Lose, Undone
<1>10. ASSUME \/ \E w \in Watch : LookUp(w) \/ LaneObserves(w)
              \/ \E status \in Status : LaneReports(status)
              \/ \E answer \in Answer : Resolve(answer)
              \/ Link \/ Deliver \/ Tick \/ LaneFilled \/ UNCHANGED vars
       PROVE  UNCHANGED <<phase, mode, todo, catalogue>>
  BY <1>10 DEF LookUp, LaneObserves, LaneReports, Resolve, Link, Deliver, Tick, LaneFilled, vars
<1> QED
  BY <1>1, <1>2, <1>3, <1>4, <1>5, <1>6, <1>7, <1>8, <1>9, <1>10, StepCases

(* The reference in hand stays in hand while others write, and a lead is   *)
(* linked when none is left.                                               *)
LEMMA NextInHand ==
    ASSUME IInv, [Next]_vars, Paused'
    PROVE  InHand'
<1> USE NewsAssumption DEF IInv
<1>1. CASE current' = None
  BY <1>1 DEF InHand, Paused, NotLooked
<1>2. CASE Grows(View, View') /\ UNCHANGED item
  BY <1>2 DEF InHand, Grows, item
<1>3. ASSUME NEW a \in Announcement, Announce(a) PROVE InHand'
  <2>1. View' = [View EXCEPT !.leads = @ \union {a}] /\ View \in Db /\ LinkSound(View)
    BY <1>3, ViewSound DEF Announce, Write, View, TypeOK, DataTyped, Sound
  <2>2. a \in View'.leads /\ View'.watches = View.watches
    BY <2>1 DEF Db
  <2>3. View.link[a] \subseteq View.watches /\ Refs[a] \union View.link[a] = Refs[a]
    BY <2>1 DEF LinkSound
  <2>4. current = None /\ looked = NotLooked /\ looked' = looked
    BY <1>3 DEF Announce, Between, Paused
  <2> QED
    BY <1>3, <2>2, <2>3, <2>4 DEF Announce, InHand, NotLooked
<1>4. ASSUME NEW w \in Watch, LookUp(w) PROVE InHand'
  <2>1. View' = View
    BY <1>4 DEF LookUp, View
  <2> QED
    BY <1>4, <2>1 DEF LookUp, InHand, IsNew
<1>5. ASSUME NEW answer \in Answer, Resolve(answer) PROVE InHand'
  <2> DEFINE w == looked.watch
  <2>1. /\ w \in Watch /\ w \in refs /\ current # None
        /\ refs \union ids = Refs[current] /\ ids \subseteq View.watches
        /\ current \in View.leads
        /\ ~looked.new => w \in View.watches
    BY <1>5, Resolving
  <2>2. Grows(View, View')
    BY <1>5, <2>1, NextData DEF Resolve
  <2>3. w \in View'.watches
    <3>1. CASE looked.new
      <4>1. View' = [View EXCEPT !.watches = @ \union {w},
                         !.novelty[w] = IF looked.new /\ Newsworthy(current) THEN @ + 1 ELSE @]
        BY <1>5, <3>1 DEF Resolve, Write, View
      <4>2. View \in Db
        BY ViewSound DEF TypeOK, DataTyped
      <4> QED
        BY <4>1, <4>2 DEF Db
    <3>2. CASE ~looked.new
      BY <2>1, <2>2, <3>2 DEF Grows
    <3> QED
      BY <3>1, <3>2
  <2>4. /\ ids' = ids \union {w} /\ refs' = refs \ {w} /\ looked' = NotLooked
        /\ current' = current
    BY <1>5 DEF Resolve, Remembered
  <2> QED
    BY <2>1, <2>2, <2>3, <2>4 DEF InHand, Grows, NotLooked
<1>6. ASSUME Link \/ Collide \/ Lose PROVE current' = None
  BY <1>6 DEF Link, Collide, Lose, Undone
<1>7. ASSUME \/ \E m \in Modes, status \in Status : Start(m, status)
             \/ \E a \in Announcement : Note(a) \/ \E f \in BOOLEAN : Skip(a, f)
             \/ \E w \in Watch, f \in BOOLEAN : Fail(w, f)
             \/ \E w \in Watch : LaneObserves(w)
             \/ \E status \in Status : LaneReports(status)
             \/ \E status \in Status : \E slice \in SUBSET todo : Poll(status, slice)
             \/ \E w \in Watch, answer \in Answer : Observe(w, answer)
             \/ NoPoll \/ Ask \/ Deliver \/ Finish \/ Tick \/ LaneFilled \/ UNCHANGED vars
      PROVE  UNCHANGED item
  BY <1>7 DEF Start, Note, Skip, Fail, LaneObserves, LaneReports, Poll, EnterCatalogue, Observe,
              NoPoll, Ask, Deliver, Finish, Tick, LaneFilled, vars, item
<1> QED
  BY <1>1, <1>2, <1>3, <1>4, <1>5, <1>6, <1>7, NextData, StepCases

-----------------------------------------------------------------------------
(* The row of a finished run *)

(* The combined status against the components it combines.                 *)
LEMMA CombinedHonest ==
    ASSUME NEW s
    PROVE  /\ Combined(s) \in {"SUCCESS", "ZERO_ITEMS"} =>
                 s \cap {"BLOCKED", "FAILED", "PARTIAL"} = {}
           /\ Combined(s) \in {"BLOCKED", "FAILED"} => s \cap {"SUCCESS", "PARTIAL"} = {}
BY DEF Combined

(* What is on record stays on record.                                      *)
Keeps(old, new) ==
    /\ old.listed \subseteq new.listed
    /\ \A a \in Announcement : OnRecord(old, a) => OnRecord(new, a)

LEMMA SameRecord ==
    ASSUME NEW s, NEW t, t.leads = s.leads, t.link = s.link, s.listed \subseteq t.listed
    PROVE  Keeps(s, t)
BY DEF Keeps, OnRecord

LEMMA ComponentRecord ==
    ASSUME NEW s \in Db, NEW status
    PROVE  LET t == Component(s, status)
           IN  t.leads = s.leads /\ t.link = s.link /\ t.listed = s.listed
<1> DEFINE wait == IF s.blocks >= 3 THEN 8 ELSE 2 ^ s.blocks
<1>1. CASE status = "BLOCKED"
  <2>1. Component(s, status) = [s EXCEPT !.blocks = s.blocks + 1, !.wait = wait]
    BY <1>1, Zenon DEF Component, Succeeded
  <2> HIDE DEF wait
  <2> QED
    BY <2>1 DEF Db
<1>2. CASE status \in Succeeded
  <2>1. Component(s, status) = [s EXCEPT !.blocks = 0, !.wait = 0]
    BY <1>2 DEF Component, Succeeded
  <2> QED
    BY <2>1 DEF Db
<1>3. CASE status # "BLOCKED" /\ status \notin Succeeded
  BY <1>3 DEF Component
<1> QED
  BY <1>1, <1>2, <1>3

LEMMA ListedRecord ==
    ASSUME NEW s \in Db, NEW w \in Watch, NEW silent
    PROVE  LET t == Listed(s, w, silent)
           IN  t.leads = s.leads /\ t.link = s.link /\ t.listed = s.listed \union {w}
BY DEF Listed, Db

(* An announcement with another's merge key is on record; so is an         *)
(* accessory whose lead is inserted.                                       *)
LEMMA NotedRecord ==
    ASSUME NEW s \in Db, NEW a \in Announcement, NEW leads \in SUBSET Announcement,
           leads = s.leads \union {a} \/ (leads = s.leads /\ \E b \in s.leads : Key[b] = Key[a]),
           a \in Accessory \/ a \notin leads
    PROVE  LET t == [s EXCEPT !.leads = leads] IN Keeps(s, t) /\ OnRecord(t, a)
<1> DEFINE t == [s EXCEPT !.leads = leads]
<1>1. t.leads = leads /\ t.link = s.link /\ t.listed = s.listed
  BY DEF Db
<1> HIDE DEF t
<1>2. OnRecord(t, a)
  BY <1>1 DEF OnRecord
<1>3. ASSUME NEW b \in Announcement, OnRecord(s, b), b # a PROVE OnRecord(t, b)
  BY <1>1, <1>3 DEF OnRecord
<1> QED
  BY <1>1, <1>2, <1>3 DEF Keeps, t

(* A lead is inserted only when the announcement is not on record.         *)
LEMMA AnnouncedRecord ==
    ASSUME NEW s \in Db, NEW a \in Announcement,
           a \in s.leads \/ ~ \E b \in s.leads : Key[b] = Key[a]
    PROVE  Keeps(s, [s EXCEPT !.leads = s.leads \union {a}])
<1> DEFINE t == [s EXCEPT !.leads = s.leads \union {a}]
<1>1. t.leads = s.leads \union {a} /\ t.link = s.link /\ t.listed = s.listed
  BY DEF Db
<1> HIDE DEF t
<1>2. ASSUME NEW b \in Announcement, OnRecord(s, b) PROVE OnRecord(t, b)
  BY <1>1, <1>2 DEF OnRecord
<1> QED
  BY <1>1, <1>2 DEF Keeps, t

LEMMA LinkedRecord ==
    ASSUME NEW s \in Db, NEW a \in s.leads
    PROVE  LET t == [s EXCEPT !.link[a] = Refs[a]] IN Keeps(s, t) /\ OnRecord(t, a)
<1> DEFINE t == [s EXCEPT !.link[a] = Refs[a]]
<1>1. a \in Announcement
  BY DEF Db
<1>2. /\ t.leads = s.leads /\ t.listed = s.listed /\ t.link[a] = Refs[a]
      /\ \A b \in Announcement : b # a => t.link[b] = s.link[b]
  BY <1>1 DEF Db
<1> HIDE DEF t
<1>3. OnRecord(t, a)
  BY <1>1, <1>2 DEF OnRecord
<1>4. ASSUME NEW b \in Announcement, OnRecord(s, b), b # a PROVE OnRecord(t, b)
  BY <1>2, <1>4 DEF OnRecord
<1> QED
  BY <1>2, <1>3, <1>4 DEF Keeps, t

(* A step puts more on record in the state that the runner sees, or undoes *)
(* what is not committed.                                                  *)
Drops == phase' = "idle" \/ (phase' = "catalogue" /\ catalogue'.bad)
KeepsView == Keeps(View, View') \/ (View' = db /\ Drops)
KeepsDb == db' = db \/ db' = View' \/ Keeps(db, db')

LEMMA NextKeeps ==
    ASSUME IInv, [Next]_vars
    PROVE  KeepsView /\ KeepsDb
<1> USE DEF IInv
<1>1. View \in Db /\ db \in Db /\ draft \in Db /\ Keeps(View, View)
  BY SameRecord DEF TypeOK, View
<1>2. ASSUME NEW new, Write(new) \/ CommitAs(new), Keeps(View, new)
      PROVE  KeepsView /\ KeepsDb
  BY <1>2 DEF Write, CommitAs, View, KeepsView, KeepsDb
<1>3. ASSUME NEW m \in Modes, NEW status \in Status, Start(m, status)
      PROVE  KeepsView /\ KeepsDb
  <2>1. View = db /\ Write(db)
    BY <1>3 DEF Start, Paused, View
  <2> QED
    BY <1>1, <1>2, <2>1
<1>4. ASSUME NEW a \in Announcement, NEW f \in BOOLEAN, Skip(a, f) PROVE KeepsView /\ KeepsDb
  <2>1. CommitAs(View) \/ UNCHANGED <<db, draft, writing>>
    BY <1>4 DEF Skip
  <2> QED
    BY <1>1, <1>2, <2>1 DEF View, KeepsView, KeepsDb
<1>5. ASSUME NEW a \in Announcement, Note(a) PROVE KeepsView /\ KeepsDb
  <2> DEFINE leads == IF Merged(a) THEN View.leads ELSE View.leads \union {a}
  <2>1. CommitAs([View EXCEPT !.leads = leads]) /\ leads \in SUBSET Announcement
    BY <1>1, <1>5 DEF Note, Db
  <2>2. Keeps(View, [View EXCEPT !.leads = leads])
    BY <1>1, <1>5, <2>1, NotedRecord DEF Note, Merged
  <2> QED
    BY <1>2, <2>1, <2>2
<1>6. ASSUME NEW a \in Announcement, Announce(a) PROVE KeepsView /\ KeepsDb
  <2>1. Write([View EXCEPT !.leads = View.leads \union {a}]) /\ ~Merged(a)
    BY <1>6 DEF Announce
  <2>2. Keeps(View, [View EXCEPT !.leads = View.leads \union {a}])
    BY <1>1, <2>1, AnnouncedRecord DEF Merged
  <2> QED
    BY <1>2, <2>1, <2>2
<1>7. ASSUME \/ \E w \in Watch : LookUp(w)
             \/ NoPoll \/ Ask \/ LaneFilled \/ UNCHANGED vars
      PROVE  KeepsView /\ KeepsDb
  <2>1. UNCHANGED <<db, draft, writing>>
    BY <1>7 DEF LookUp, NoPoll, Ask, LaneFilled, vars
  <2> QED
    BY <1>1, <2>1 DEF View, KeepsView, KeepsDb
<1>8. ASSUME NEW answer \in Answer, Resolve(answer) PROVE KeepsView /\ KeepsDb
  <2> DEFINE w == looked.watch
             event == looked.new /\ Newsworthy(current)
             new == [View EXCEPT !.watches = @ \union {w},
                                 !.novelty[w] = IF event THEN @ + 1 ELSE @]
  <2>1. Write(new) \/ UNCHANGED <<db, draft, writing>>
    BY <1>8 DEF Resolve
  <2>2. new.leads = View.leads /\ new.link = View.link /\ new.listed = View.listed
    BY <1>1 DEF Db
  <2> HIDE DEF new
  <2>3. Keeps(View, new)
    BY <2>2, SameRecord
  <2> QED
    BY <1>1, <1>2, <2>1, <2>3 DEF View, KeepsView, KeepsDb
<1>9. ASSUME Link PROVE KeepsView /\ KeepsDb
  <2>1. current \in View.leads /\ CommitAs([View EXCEPT !.link[current] = Refs[current]])
    BY <1>9 DEF Link, InHand
  <2>2. Keeps(View, [View EXCEPT !.link[current] = Refs[current]])
    BY <1>1, <2>1, LinkedRecord
  <2> QED
    BY <1>2, <2>1, <2>2
<1>10. ASSUME NEW status \in Status, NEW slice \in SUBSET todo, Poll(status, slice)
       PROVE  KeepsView /\ KeepsDb
  <2>1. Write(Component(View, status))
    BY <1>10 DEF Poll
  <2>2. Keeps(View, Component(View, status))
    BY <1>1, ComponentRecord, SameRecord
  <2> QED
    BY <1>2, <2>1, <2>2
<1>11. ASSUME NEW w \in Watch, NEW answer \in Answer, Observe(w, answer)
       PROVE  KeepsView /\ KeepsDb
  <2>1. Write(Listed(View, w, quiet)) \/ CommitAs(Listed(View, w, quiet))
    BY <1>11 DEF Observe
  <2>2. Keeps(View, Listed(View, w, quiet))
    BY <1>1, ListedRecord, SameRecord
  <2> QED
    BY <1>2, <2>1, <2>2
<1>12. ASSUME Collide \/ Lose \/ \E w \in Watch, f \in BOOLEAN : Fail(w, f)
       PROVE  KeepsView /\ KeepsDb
  <2>1. CommitAs(db) \/ UNCHANGED <<db, draft, writing>>
    BY <1>12 DEF Collide, Lose, Undone, Fail
  <2>2. Drops
    BY <1>12 DEF Collide, Lose, Undone, Fail, TypeOK, CataloguePart, Drops
  <2> QED
    BY <1>1, <2>1, <2>2 DEF CommitAs, View, KeepsView, KeepsDb
<1>13. ASSUME Deliver PROVE KeepsView /\ KeepsDb
  <2>1. CommitAs(View)
    BY <1>13 DEF Deliver, View, Paused
  <2> QED
    BY <1>1, <1>2, <2>1
<1>14. ASSUME Finish PROVE KeepsView /\ KeepsDb
  <2>1. PICK e : CommitAs([View EXCEPT !.established = e])
    BY <1>14 DEF Finish
  <2> DEFINE new == [View EXCEPT !.established = e]
  <2>2. new.leads = View.leads /\ new.link = View.link /\ new.listed = View.listed
    BY <1>1 DEF Db
  <2>3. CommitAs(new)
    BY <2>1
  <2> HIDE DEF new
  <2>4. Keeps(View, new)
    BY <2>2, SameRecord
  <2> QED
    BY <1>2, <2>3, <2>4
<1>15. ASSUME Tick PROVE KeepsView /\ KeepsDb
  <2> DEFINE Later(s) == [s EXCEPT !.wait = IF @ > 0 THEN @ - 1 ELSE 0]
  <2>1. ASSUME NEW s \in Db PROVE Keeps(s, Later(s))
    <3>1. /\ Later(s).leads = s.leads /\ Later(s).link = s.link
          /\ Later(s).listed = s.listed
      BY DEF Db
    <3> HIDE DEF Later
    <3> QED
      BY <3>1, SameRecord
  <2>2. db' = Later(db) /\ draft' = Later(draft) /\ writing' = writing
    BY <1>15 DEF Tick
  <2> HIDE DEF Later
  <2> QED
    BY <1>1, <2>1, <2>2 DEF View, KeepsView, KeepsDb
<1>16. ASSUME NEW w \in Watch, LaneObserves(w) PROVE KeepsView /\ KeepsDb
  <2>1. ~writing /\ CommitAs(Listed(db, w, filling)) /\ View = db
    BY <1>16 DEF LaneObserves, CommitAs, View
  <2>2. Keeps(View, Listed(db, w, filling))
    BY <1>1, <2>1, ListedRecord, SameRecord
  <2> QED
    BY <1>2, <2>1, <2>2
<1>17. ASSUME NEW status \in Status, LaneReports(status) PROVE KeepsView /\ KeepsDb
  <2>1. ~writing /\ CommitAs(Component(db, status)) /\ View = db
    BY <1>17 DEF LaneReports, CommitAs, View
  <2>2. Keeps(View, Component(db, status))
    BY <1>1, <2>1, ComponentRecord, SameRecord
  <2> QED
    BY <1>2, <2>1, <2>2
<1> QED
  BY <1>3, <1>4, <1>5, <1>6, <1>7, <1>8, <1>9, <1>10, <1>11, <1>12, <1>13, <1>14, <1>15,
     <1>16, <1>17, StepCases

(* The steps that leave what the run has still to do as it is.             *)
Elsewhere == UNCHANGED <<phase, todo, current, news, catalogue>>

LEMMA ElsewhereSteps ==
    ASSUME \/ \E w \in Watch : LookUp(w) \/ LaneObserves(w)
           \/ \E status \in Status : LaneReports(status)
           \/ \E answer \in Answer : Resolve(answer)
           \/ Deliver \/ Tick \/ LaneFilled \/ UNCHANGED vars
    PROVE  Elsewhere
BY DEF LookUp, LaneObserves, LaneReports, Resolve, Deliver, Tick, LaneFilled, vars, item,
       Elsewhere

(* An announcement that the run is through with is on record.              *)
LEMMA NextNewsSoFar ==
    ASSUME IInv, [Next]_vars
    PROVE  NewsSoFar'
<1> USE DEF IInv
<1>1. View \in Db
  BY DEF TypeOK, View
<1>2. CASE Drops
  BY <1>2 DEF Drops, NewsSoFar
<1>3. ASSUME ~Drops PROVE Keeps(View, View')
  BY <1>3, NextKeeps DEF KeepsView
<1>4. CASE ~Drops /\ Elsewhere
  BY <1>3, <1>4 DEF NewsSoFar, Keeps, Elsewhere
<1>5. ASSUME NEW m \in Modes, NEW status \in Status, Start(m, status) PROVE NewsSoFar'
  <2>1. news'.status = status
    BY <1>5 DEF Start, NoNews
  <2> QED
    BY <1>5, <2>1 DEF Start, NewsSoFar, Read
<1>6. ASSUME NEW a \in Announcement, NEW f \in BOOLEAN, Skip(a, f) PROVE NewsSoFar'
  <2>1. news'.bad
    BY <1>6 DEF Skip, TypeOK, NewsPart
  <2> QED
    BY <2>1 DEF NewsSoFar
<1>7. ASSUME NEW a \in Announcement, Note(a) PROVE NewsSoFar'
  <2> DEFINE leads == IF Merged(a) THEN View.leads ELSE View.leads \union {a}
  <2>1. View' = [View EXCEPT !.leads = leads] /\ leads \in SUBSET Announcement
    BY <1>1, <1>7 DEF Note, CommitAs, View, Db
  <2>2. Keeps(View, View') /\ OnRecord(View', a)
    <3>1. leads = View.leads \union {a}
          \/ (leads = View.leads /\ \E b \in View.leads : Key[b] = Key[a])
      BY DEF Merged
    <3>2. a \in Accessory \/ a \notin leads
      BY <1>7 DEF Note, Merged
    <3> HIDE DEF leads
    <3> QED
      BY <1>1, <2>1, <3>1, <3>2, NotedRecord
  <2>3. phase = "news" /\ phase' = phase /\ todo' = todo \ {a} /\ news' = news /\ current = None
    BY <1>7 DEF Note, Between
  <2>4. ASSUME NEW b \in Announcement, b # a, b \in todo \/ b = current \/ OnRecord(View, b)
        PROVE  b \in todo' \/ OnRecord(View', b)
    BY <2>2, <2>3, <2>4, NewsAssumption DEF Keeps
  <2> QED
    BY <2>2, <2>3, <2>4 DEF NewsSoFar
<1>8. ASSUME NEW a \in Announcement, Announce(a), ~Drops PROVE NewsSoFar'
  <2>1. /\ phase = "news" /\ phase' = phase /\ todo' = todo \ {a} /\ news' = news
        /\ current = None /\ current' = a
    BY <1>8 DEF Announce, Between
  <2>2. ASSUME NEW b \in Announcement, b # a, b \in todo \/ b = current \/ OnRecord(View, b)
        PROVE  b \in todo' \/ OnRecord(View', b)
    BY <1>3, <1>8, <2>1, <2>2, NewsAssumption DEF Keeps
  <2> QED
    BY <2>1, <2>2 DEF NewsSoFar
<1>9. ASSUME Link PROVE NewsSoFar'
  <2>1. /\ current \in View.leads
        /\ View' = [View EXCEPT !.link[current] = Refs[current]]
    BY <1>9 DEF Link, CommitAs, View, InHand
  <2>2. Keeps(View, View') /\ OnRecord(View', current)
    BY <1>1, <2>1, LinkedRecord
  <2>3. phase' = phase /\ todo' = todo /\ news' = news /\ catalogue' = catalogue
    BY <1>9 DEF Link
  <2> QED
    BY <2>2, <2>3 DEF NewsSoFar, Keeps
<1>10. ASSUME NoPoll \/ Ask, ~Drops PROVE NewsSoFar'
  <2>1. NewsDone /\ news' = news
    BY <1>10 DEF NoPoll, Ask, EnterCatalogue
  <2>2. ASSUME news.status = "SUCCESS", ~news.bad, NEW a \in Announcement PROVE OnRecord(View, a)
    BY <2>1, <2>2, NewsAssumption DEF NewsDone, NewsSoFar
  <2> QED
    BY <1>3, <1>10, <2>1, <2>2 DEF NewsSoFar, Keeps
<1>11. ASSUME NEW status \in Status, NEW slice \in SUBSET todo, Poll(status, slice), ~Drops
       PROVE  NewsSoFar'
  <2>1. phase = "asked" /\ news' = news
    BY <1>11 DEF Poll, EnterCatalogue
  <2> QED
    BY <1>3, <1>11, <2>1 DEF NewsSoFar, Keeps
<1>12. ASSUME NEW w \in Watch, NEW answer \in Answer, Observe(w, answer), ~Drops
       PROVE  NewsSoFar'
  <2>1. phase = "catalogue" /\ phase' = phase /\ news' = news /\ catalogue'.bad = catalogue.bad
    BY <1>12 DEF Observe, TypeOK, CataloguePart
  <2> QED
    BY <1>3, <1>12, <2>1 DEF NewsSoFar, Keeps
<1>13. ASSUME Finish \/ Collide \/ Lose \/ \E w \in Watch, f \in BOOLEAN : Fail(w, f) PROVE Drops
  BY <1>13 DEF Finish, Collide, Lose, Undone, Fail, TypeOK, CataloguePart, Drops
<1> QED
  BY <1>2, <1>4, <1>5, <1>6, <1>7, <1>8, <1>9, <1>10, <1>11, <1>12, <1>13, ElsewhereSteps,
     StepCases

(* A candidate that the run has not still to do is observed.               *)
LEMMA NextCatalogueSoFar ==
    ASSUME IInv, [Next]_vars
    PROVE  CatalogueSoFar'
<1> USE DEF IInv
<1>1. View \in Db /\ Candidates' = Candidates
  BY DEF TypeOK, View, Candidates
<1>2. CASE Drops \/ phase' = "news"
  BY <1>2 DEF Drops, CatalogueSoFar
<1>3. ASSUME ~Drops PROVE View.listed \subseteq View'.listed
  BY <1>3, NextKeeps DEF KeepsView, Keeps
<1>4. CASE ~Drops /\ Elsewhere
  BY <1>1, <1>3, <1>4 DEF CatalogueSoFar, Elsewhere
<1>5. ASSUME \/ \E m \in Modes, status \in Status : Start(m, status)
             \/ \E a \in Announcement : Note(a) \/ Announce(a) \/ \E f \in BOOLEAN : Skip(a, f)
      PROVE  phase' = "news"
  BY <1>5 DEF Start, Note, Announce, Skip, Between
<1>6. ASSUME Link PROVE phase' = "news"
  BY <1>6 DEF Link, Paused
<1>7. CASE NoPoll
  <2>1. phase' = "catalogue" /\ catalogue'.status \in {"BACKED_OFF", "SKIPPED"}
    BY <1>7 DEF NoPoll, EnterCatalogue, NoCatalogue
  <2> QED
    BY <2>1 DEF CatalogueSoFar
<1>8. CASE Ask
  <2>1. todo' = Candidates \ View.listed /\ View' = View
    BY <1>8 DEF Ask, View
  <2> QED
    BY <1>1, <2>1 DEF CatalogueSoFar
<1>9. ASSUME NEW status \in Status, NEW slice \in SUBSET todo, Poll(status, slice), ~Drops
      PROVE  CatalogueSoFar'
  <2>1. phase = "asked" /\ phase' = "catalogue" /\ todo' = slice
    BY <1>9 DEF Poll, EnterCatalogue
  <2>2. /\ catalogue'.full = (Cardinality(slice) = MaxItems)
        /\ catalogue'.status \in {"SUCCESS", "ZERO_ITEMS"} => status = "SUCCESS"
    BY <1>9 DEF Poll, EnterCatalogue, NoCatalogue
  <2>3. status = "SUCCESS" /\ Cardinality(slice) # MaxItems => slice = todo
    BY <1>9 DEF Poll, Slices, Read
  <2> QED
    BY <1>1, <1>3, <1>9, <2>1, <2>2, <2>3 DEF CatalogueSoFar
<1>10. ASSUME NEW w \in Watch, NEW answer \in Answer, Observe(w, answer)
       PROVE  CatalogueSoFar'
  <2>1. View' = Listed(View, w, quiet)
    BY <1>10 DEF Observe, Write, CommitAs, View
  <2>2. View'.listed = View.listed \union {w}
    BY <1>1, <2>1, ListedRecord
  <2>3. /\ phase = "catalogue" /\ phase' = phase /\ todo' = todo \ {w}
        /\ catalogue'.status = catalogue.status /\ catalogue'.bad = catalogue.bad
        /\ catalogue'.full = catalogue.full
    BY <1>10 DEF Observe, TypeOK, CataloguePart
  <2> QED
    BY <1>1, <2>2, <2>3 DEF CatalogueSoFar
<1>11. ASSUME Finish \/ Collide \/ Lose \/ \E w \in Watch, f \in BOOLEAN : Fail(w, f) PROVE Drops
  BY <1>11 DEF Finish, Collide, Lose, Undone, Fail, TypeOK, CataloguePart, Drops
<1> QED
  BY <1>2, <1>4, <1>5, <1>6, <1>7, <1>8, <1>9, <1>10, <1>11, ElsewhereSteps, StepCases

(* The row of a run that has finished is true, and what it says of the     *)
(* database remains so.                                                    *)
LEMMA NextRowSound ==
    ASSUME IInv, [Next]_vars
    PROVE  RowSound'
<1> USE DEF IInv
<1>1. CASE Finish
  <2> DEFINE s == {StatusOf(part) : part \in Parts}
  <2>1. /\ last'.run = Combined(s) /\ last'.news = news.status
        /\ last'.catalogue = CatalogueStatus
    BY <1>1 DEF Finish
  <2>2. news.status \in s /\ (CatalogueStatus \in s \/ CatalogueStatus = "SKIPPED")
    <3>1. "news" \in Parts /\ StatusOf("news") = news.status
      BY DEF Parts, StatusOf
    <3>2. CASE mode.catalogue
      <4>1. "catalogue" \in Parts /\ StatusOf("catalogue") = CatalogueStatus
        BY <3>2 DEF Parts, StatusOf
      <4> QED
        BY <3>1, <4>1
    <3>3. CASE ~mode.catalogue
      BY <1>1, <3>1, <3>3 DEF Finish, NotAsked, CatalogueStatus
    <3> QED
      BY <3>2, <3>3
  <2> HIDE DEF s
  <2>3. /\ last'.run \in {"SUCCESS", "ZERO_ITEMS"} =>
               {last'.news, last'.catalogue} \cap {"BLOCKED", "FAILED", "PARTIAL"} = {}
        /\ last'.run \in {"BLOCKED", "FAILED"} =>
               {last'.news, last'.catalogue} \cap {"SUCCESS", "PARTIAL"} = {}
    BY <2>1, <2>2, CombinedHonest
  <2>4. ASSUME Clean(last') PROVE NothingMissed(View)'
    <3>1. /\ mode.catalogue /\ news.status = "SUCCESS" /\ ~news.bad /\ ~catalogue.bad
          /\ Named(Failing) = {} /\ Named(Skipping) = {} /\ last'.full = catalogue.full
      BY <1>1, <2>4 DEF Clean, Finish
    <3>2. CatalogueStatus \notin Failing \union Skipping
      <4>1. "catalogue" \in Parts /\ StatusOf("catalogue") = CatalogueStatus
        BY <3>1 DEF Parts, StatusOf
      <4> QED
        BY <3>1, <4>1 DEF Named
    <3>3. catalogue.status \in {"SUCCESS", "ZERO_ITEMS"}
      BY <3>1, <3>2 DEF CatalogueStatus, Failing, Skipping, TypeOK, CataloguePart, Status
    <3>4. phase = "catalogue" /\ todo = {}
      BY <1>1 DEF Finish
    <3>5. catalogue.full \/ Candidates \subseteq View.listed
      BY <3>1, <3>3, <3>4 DEF CatalogueSoFar
    <3>6. \A a \in Announcement : OnRecord(View, a)
      BY <3>1, <3>4 DEF NewsSoFar
    <3>7. Keeps(View, View')
      <4>1. PICK e : CommitAs([View EXCEPT !.established = e])
        BY <1>1 DEF Finish
      <4>2. View' = [View EXCEPT !.established = e] /\ View \in Db
        BY <4>1 DEF CommitAs, View, TypeOK
      <4>3. View'.leads = View.leads /\ View'.link = View.link /\ View'.listed = View.listed
        BY <4>2 DEF Db
      <4> QED
        BY <4>3, SameRecord
    <3> QED
      BY <3>1, <3>5, <3>6, <3>7 DEF NothingMissed, Keeps, Candidates
  <2>5. View' = db'
    BY <1>1 DEF Finish, CommitAs, View
  <2> QED
    BY <2>3, <2>4, <2>5 DEF RowSound, StatusHidesNothing, NothingMissed, Clean
<1>2. ASSUME ~Finish PROVE last' = last
  BY <1>2, StepCases DEF Start, Note, Announce, Skip, LookUp, Fail, LaneObserves, LaneReports,
     Resolve, Poll, EnterCatalogue, Observe, Link, NoPoll, Ask, Deliver, Collide, Lose, Undone,
     Tick, LaneFilled, vars
<1>3. CASE ~Finish
  <2>1. last' = last /\ KeepsView /\ KeepsDb /\ Candidates' = Candidates
    BY <1>2, <1>3, NextKeeps DEF Candidates
  <2>2. ASSUME NEW old, NEW new, Keeps(old, new), NothingMissed(old)
        PROVE  /\ \A a \in Announcement : OnRecord(new, a)
               /\ last.full \/ Candidates \subseteq new.listed
    BY <2>2 DEF Keeps, NothingMissed
  <2>3. ASSUME Clean(last)
        PROVE  \A state \in {db', View'} :
                   /\ \A a \in Announcement : OnRecord(state, a)
                   /\ last.full \/ Candidates \subseteq state.listed
    <3>1. NothingMissed(db) /\ NothingMissed(View)
      BY <2>3 DEF RowSound, StatusHidesNothing
    <3>2. /\ \A a \in Announcement : OnRecord(db, a)
          /\ last.full \/ Candidates \subseteq db.listed
      BY <3>1 DEF NothingMissed
    <3>3. /\ \A a \in Announcement : OnRecord(View', a)
          /\ last.full \/ Candidates \subseteq View'.listed
      <4>1. CASE View' = db
        BY <3>2, <4>1
      <4>2. CASE Keeps(View, View')
        BY <2>2, <3>1, <4>2
      <4> QED
        BY <2>1, <4>1, <4>2 DEF KeepsView
    <3>4. /\ \A a \in Announcement : OnRecord(db', a)
          /\ last.full \/ Candidates \subseteq db'.listed
      <4>1. CASE db' = db
        BY <3>2, <4>1
      <4>2. CASE db' = View'
        BY <3>3, <4>2
      <4>3. CASE Keeps(db, db')
        BY <2>2, <3>1, <4>3
      <4> QED
        BY <2>1, <4>1, <4>2, <4>3 DEF KeepsDb
    <3> QED
      BY <3>3, <3>4
  <2>4. Clean(last') => NothingMissed(db)' /\ NothingMissed(View)'
    <3>1. Clean(last') => Clean(last)
      BY <2>1
    <3> QED
      BY <2>1, <2>3, <3>1 DEF NothingMissed, OnRecord
  <2> QED
    BY <2>1, <2>4 DEF RowSound, StatusHidesNothing, NothingMissed, OnRecord, Clean
<1> QED
  BY <1>1, <1>3

LEMMA NextIInv == IInv /\ [Next]_vars => IInv'
BY NextData, NextTypeOK, NextPaused, NextInHand, NextNotAsked, NextNewsSoFar,
   NextCatalogueSoFar, NextRowSound DEF IInv

LEMMA SpecIInv == Spec => []IInv
BY InitIInv, NextIInv, PTL DEF Spec

-----------------------------------------------------------------------------
(* Theorems *)

(* Every variable keeps its type, with as many announcements and items as  *)
(* there are.                                                              *)
THEOREM TypeCorrect == Spec => []TypeOK
<1>1. IInv => TypeOK
  BY DEF IInv
<1> QED
  BY <1>1, SpecIInv, PTL

(* A watch is a novelty once and new in the catalogue's region once, in    *)
(* whatever order the runner and the lane see it, and Discord shows no     *)
(* alert that no Event, crash or send in progress accounts for.            *)
THEOREM NewOnce == Spec => []WatchIsNewOnce
<1>1. IInv => WatchIsNewOnce
  BY DEF IInv, DataSound, Sound, WatchSound, PostsBacked, Events, WatchIsNewOnce
<1> QED
  BY <1>1, SpecIInv, PTL

(* A lead that remembers any watch remembers every reference of its        *)
(* announcement, wherever earlier attempts were interrupted.               *)
THEOREM RemembersAll == Spec => []LeadRemembersAll
<1>1. IInv => LeadRemembersAll
  BY DEF IInv, DataSound, Sound, LinkSound, LeadRemembersAll
<1> QED
  BY <1>1, SpecIInv, PTL

(* A run that is SUCCESS or ZERO_ITEMS has no component that failed, was   *)
(* blocked or was partly read, a run that is BLOCKED or FAILED none that   *)
(* worked; and as long as the row of the run that finished last is clean,  *)
(* every announcement has its watches on record and, unless the row tells  *)
(* of a full slice, every candidate is observed: whatever a back-off, a    *)
(* failing item or a report of the lane kept from the run is on its row.   *)
THEOREM StatusHonest == Spec => []StatusHidesNothing
<1>1. IInv => StatusHidesNothing
  BY DEF IInv, RowSound
<1> QED
  BY <1>1, SpecIInv, PTL
=============================================================================

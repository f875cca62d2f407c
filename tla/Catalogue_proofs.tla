-------------------------- MODULE Catalogue_proofs --------------------------
(***************************************************************************)
(* Proofs about Catalogue for any number of processes, lanes, watches and  *)
(* markets, any budgets and caps, and any number of failures.              *)
(***************************************************************************)
EXTENDS Catalogue, TLAPS

-----------------------------------------------------------------------------
(* Types *)

RunsTyped == run \in [Proc -> Memory]
RowsTyped == rows \in Rows
PostsTyped == posts \in [Lane -> [Item -> Nat]]
ControlTyped ==
    /\ listed \in [Lane -> SUBSET Item]
    /\ announced \in SUBSET Item
    /\ epoch \in {"none", "open", "done"}
    /\ writer \in Proc \union {Nobody}
    /\ holder \in [Lane -> Proc \union {Nobody}]
    /\ pc \in [Proc -> PC]
    /\ faults \in 0..MaxFaults

LEMMA BlankTyped == \A l \in Lane : Blank(l) \in Memory
BY DEF Blank, Memory, Introduction, Status

LEMMA InitTypeOK == Init => TypeOK
<1> SUFFICES ASSUME Init PROVE TypeOK
  OBVIOUS
<1> USE CatalogueAssumption DEF Init
<1>1. run \in [Proc -> Memory]
  BY BlankTyped
<1>2. NoHistory \in History
  BY DEF NoHistory, History
<1>3. rows \in Rows
  BY <1>2 DEF Rows, Introduction
<1> QED
  BY <1>1, <1>3 DEF TypeOK, PC

LEMMA LeastNat == \A m, n \in Nat : Least(m, n) \in Nat /\ Least(m, n) \in 0..n
BY DEF Least

(* The history a run leaves behind. *)
LEMMA CountedTyped == TypeOK => \A p \in Proc : Counted(p) \in History
<1> SUFFICES ASSUME TypeOK, NEW p \in Proc PROVE Counted(p) \in History
  OBVIOUS
<1> DEFINE h == rows.history[Lane_(p)]
<1>1. h \in History
  BY DEF TypeOK, Rows, Memory, Lane_
<1>2. /\ h.done \in BOOLEAN /\ h.useful \in BOOLEAN /\ h.mixed \in BOOLEAN
      /\ h.passes \in 0..FillRuns
  BY <1>1 DEF History
<1>3. FillRuns \in Nat
  BY CatalogueAssumption
<1>4. Least(h.passes + 1, FillRuns) \in 0..FillRuns
  BY <1>2, <1>3 DEF Least
<1>5. run[p].allNew \in BOOLEAN
  BY DEF TypeOK, Memory
<1> HIDE DEF h
<1>6. Counted(p) = [done |-> h.done \/ run[p].status # "FAILED",
                    useful |-> h.useful \/ Good(p),
                    mixed |-> h.mixed \/ (Good(p) /\ ~run[p].allNew),
                    passes |-> IF Good(p) /\ CataloguePass(p) THEN Least(h.passes + 1, FillRuns)
                               ELSE h.passes]
  BY DEF Counted, h
<1>7. /\ (h.done \/ run[p].status # "FAILED") \in BOOLEAN
      /\ (h.useful \/ Good(p)) \in BOOLEAN
      /\ (h.mixed \/ (Good(p) /\ ~run[p].allNew)) \in BOOLEAN
  BY <1>2, <1>5
<1>8. (IF Good(p) /\ CataloguePass(p) THEN Least(h.passes + 1, FillRuns) ELSE h.passes)
        \in 0..FillRuns
  BY <1>2, <1>4
<1>9. \A a, b, c \in BOOLEAN, n \in 0..FillRuns :
         [done |-> a, useful |-> b, mixed |-> c, passes |-> n] \in History
  BY DEF History
<1> QED
  BY <1>6, <1>7, <1>8, <1>9, Zenon

(* What a collector serves are watches. *)
LEMMA SlicesTyped ==
    ASSUME TypeOK, NEW p \in Proc, NEW slice \in Slices(p)
    PROVE  slice \in SUBSET Item
<1>1. Lane_(p) \in Lane
  BY DEF TypeOK, Memory, Lane_
<1>2. Visible(Lane_(p)) \subseteq Item
  BY <1>1 DEF TypeOK, Visible
<1> QED
  BY <1>2 DEF Slices

(* What a process remembers keeps its type. *)
LEMMA NextRunsTyped == TypeOK /\ [Next]_vars => RunsTyped'
<1> SUFFICES ASSUME TypeOK, [Next]_vars PROVE RunsTyped'
  OBVIOUS
<1> USE CatalogueAssumption DEF RunsTyped
<1>1. run \in [Proc -> Memory]
  BY DEF TypeOK
<1>2. ASSUME NEW p \in Proc, NEW l \in Lane, NEW invocation \in Invocations,
             Begin(p, l, invocation)
      PROVE  RunsTyped'
  <2>1. \A w \in Memory, f, g \in BOOLEAN : \A n \in {"default", "smoke", "forced"} :
           [w EXCEPT !.invocation = n, !.baseline = f, !.fillGate = g] \in Memory
    BY ZenonT(40) DEF Memory
  <2>2. /\ (invocation = "forced" \/ AutoBaseline(l)) \in BOOLEAN
        /\ FillActive(l) \in BOOLEAN
    BY DEF FillActive
  <2>3. [Blank(l) EXCEPT !.invocation = invocation,
                         !.baseline = invocation = "forced" \/ AutoBaseline(l),
                         !.fillGate = FillActive(l)] \in Memory
    BY <2>1, <2>2, BlankTyped, Zenon
  <2> QED
    BY <1>1, <1>2, <2>3 DEF Begin
<1>3. ASSUME NEW p \in Proc, run' = [run EXCEPT ![p] = Blank(Lane_(p))] PROVE RunsTyped'
  <2>1. Lane_(p) \in Lane
    BY <1>1 DEF Memory, Lane_
  <2> QED
    BY <1>1, <1>3, <2>1, BlankTyped
<1>4. ASSUME NEW p \in Proc, NEW slice \in SUBSET Item, NEW fetched \in SUBSET slice,
             Collect(p, slice, fetched)
      PROVE  RunsTyped'
  <2>1. \A w \in Memory, t \in SUBSET Item, f, g \in BOOLEAN, s \in Status :
           [w EXCEPT !.todo = t, !.allNew = f, !.unseen = g, !.status = s] \in Memory
    BY ZenonT(40) DEF Memory
  <2>2. (IF slice = {} THEN "ZERO_ITEMS"
         ELSE IF fetched = slice THEN "SUCCESS" ELSE "PARTIAL") \in Status
    BY DEF Status
  <2>3. fetched \in SUBSET Item
    OBVIOUS
  <2>4. /\ (slice # {} /\ fetched = slice) \in BOOLEAN
        /\ (slice # {} /\ slice \intersect Recognised(Lane_(p)) = {}) \in BOOLEAN
    OBVIOUS
  <2>5. run' = [run EXCEPT ![p] =
           [run[p] EXCEPT !.todo = fetched,
              !.allNew = slice # {} /\ fetched = slice,
              !.unseen = slice # {} /\ slice \intersect Recognised(Lane_(p)) = {},
              !.status = IF slice = {} THEN "ZERO_ITEMS"
                         ELSE IF fetched = slice THEN "SUCCESS" ELSE "PARTIAL"]]
    BY <1>1, <1>4 DEF Collect
  <2>6. run'[p] \in Memory
    BY <1>1, <2>1, <2>2, <2>3, <2>4, <2>5, Zenon
  <2> QED
    BY <1>1, <2>5, <2>6
<1>5. ASSUME NEW p \in Proc, NEW st \in {"FAILED", "ZERO_ITEMS"}, CollectNothing(p, st)
      PROVE  RunsTyped'
  <2>1. \A w \in Memory, s \in Status : [w EXCEPT !.status = s] \in Memory
    BY DEF Memory
  <2> QED
    BY <1>1, <1>5, <2>1 DEF CollectNothing, Status
<1>6. ASSUME NEW p \in Proc, NEW i \in Item, NEW fresh \in BOOLEAN, OpenItem(p, i, fresh)
      PROVE  RunsTyped'
  <2>1. \A w \in Memory, t \in SUBSET Item, f, g \in BOOLEAN, v \in Introduction :
           [w EXCEPT !.item = i, !.todo = t, !.fresh = f, !.intro = v, !.allNew = g] \in Memory
    BY ZenonT(40) DEF Memory
  <2>5. (IF i \in Observed(Lane_(p)) THEN {"UNSEEN"} ELSE Verdicts(p, i, fresh))
           \subseteq Introduction
    BY DEF Verdicts, Introduction, Event, Novelty
  <2>6. PICK v \in Introduction :
           run' = [run EXCEPT ![p].item = i, ![p].todo = @ \ {i}, ![p].fresh = fresh,
                              ![p].intro = v, ![p].allNew = @ /\ IsNew(p, i)]
    BY <1>6, <2>5, Zenon DEF OpenItem
  <2>2. run' = [run EXCEPT ![p] =
           [run[p] EXCEPT !.item = i, !.todo = @ \ {i}, !.fresh = fresh,
                          !.intro = v, !.allNew = @ /\ IsNew(p, i)]]
    BY <1>1, <2>6
  <2>3. /\ run[p].todo \ {i} \in SUBSET Item
        /\ (run[p].allNew /\ IsNew(p, i)) \in BOOLEAN
    BY <1>1 DEF Memory
  <2>4. [run[p] EXCEPT !.item = i, !.todo = @ \ {i}, !.fresh = fresh,
                       !.intro = v, !.allNew = @ /\ IsNew(p, i)] \in Memory
    BY <1>1, <2>1, <2>3, Zenon
  <2> QED
    BY <1>1, <2>2, <2>4
<1>7. ASSUME NEW p \in Proc, CommitItem(p) PROVE RunsTyped'
  <2>1. \A w \in Memory : [w EXCEPT !.item = NoItem, !.fresh = FALSE, !.intro = "UNSEEN"] \in Memory
    BY DEF Memory, Introduction
  <2> QED
    BY <1>1, <1>7, <2>1 DEF CommitItem
<1>8. ASSUME NEW p \in Proc, FailItem(p) PROVE RunsTyped'
  <2>1. \A w \in Memory : [w EXCEPT !.item = NoItem, !.fresh = FALSE,
                                    !.intro = "UNSEEN", !.allNew = FALSE] \in Memory
    BY DEF Memory, Introduction
  <2> QED
    BY <1>1, <1>8, <2>1 DEF FailItem
<1>9. ASSUME NEW p \in Proc, NEW i \in Item, GiveUpItem(p, i) PROVE RunsTyped'
  <2>1. \A w \in Memory : [w EXCEPT !.todo = @ \ {i}, !.allNew = FALSE] \in Memory
    BY DEF Memory
  <2> QED
    BY <1>1, <1>9, <2>1 DEF GiveUpItem
<1>10. CASE UNCHANGED run
  BY <1>1, <1>10
<1>11. ASSUME NEW p \in Proc, RunStep(p) PROVE RunsTyped'
  <2>1. CASE Overlap(p)
    BY <1>3, <2>1 DEF Overlap
  <2>2. CASE FinishRun(p)
    BY <1>3, <2>2 DEF FinishRun
  <2>3. CASE StartRun(p) \/ Post(p) \/ Release(p)
    BY <1>10, <2>3 DEF StartRun, Post, Release
  <2>4. CASE Collected(p)
    BY <1>4, <1>5, <2>4, SlicesTyped, Zenon DEF Collected
  <2> QED
    BY <1>6, <1>7, <1>11, <2>1, <2>2, <2>3, <2>4 DEF RunStep, ItemStep
<1>12. ASSUME NEW p \in Proc, RaiseRun(p) \/ Crash(p) PROVE RunsTyped'
  BY <1>3, <1>12 DEF RaiseRun, Crash
<1>13. CASE Environment
  BY <1>10, <1>13 DEF Environment, Publish, Announce, StartBaseline, CompleteBaseline
<1> QED
  BY <1>2, <1>8, <1>10, <1>11, <1>12, <1>13, <1>9 DEF Next, vars, Start, ItemLost

(* The committed rows keep their type. *)
LEMMA NextRowsTyped == TypeOK /\ [Next]_vars => RowsTyped'
<1> SUFFICES ASSUME TypeOK, [Next]_vars PROVE RowsTyped'
  OBVIOUS
<1> USE DEF RowsTyped
<1>1. rows \in Rows
  BY DEF TypeOK
<1>2. ASSUME NEW p \in Proc, CommitItem(p) PROVE RowsTyped'
  <2>1. run[p].intro \in Introduction
    BY DEF TypeOK, Memory
  <2>2. \A l, i : \A v \in Introduction : [rows EXCEPT !.intro[l][i] = v] \in Rows
    BY <1>1 DEF Rows
  <2> QED
    BY <1>1, <1>2, <2>1, <2>2, Zenon DEF CommitItem
<1>3. ASSUME NEW p \in Proc, FinishRun(p) PROVE RowsTyped'
  <2>1. \A l : \A h \in History : [rows EXCEPT !.history[l] = h] \in Rows
    BY <1>1 DEF Rows
  <2> QED
    BY <1>3, <2>1, CountedTyped, Zenon DEF FinishRun
<1>4. CASE UNCHANGED rows
  BY <1>1, <1>4
<1>5. ASSUME NEW p \in Proc, RunStep(p) PROVE RowsTyped'
  BY <1>2, <1>3, <1>4, <1>5
     DEF RunStep, Collected, ItemStep, Overlap, StartRun, Collect, CollectNothing, OpenItem,
         Post, Release
<1>6. ASSUME NEW p \in Proc, Start(p) \/ ItemLost(p) \/ RaiseRun(p) \/ Crash(p) PROVE RowsTyped'
  BY <1>4, <1>6 DEF Start, Begin, ItemLost, FailItem, GiveUpItem, RaiseRun, Crash
<1>7. CASE Environment
  BY <1>4, <1>7 DEF Environment, Publish, Announce, StartBaseline, CompleteBaseline
<1> QED
  BY <1>4, <1>5, <1>6, <1>7 DEF Next, vars

LEMMA NextPostsTyped == TypeOK /\ [Next]_vars => PostsTyped'
<1> SUFFICES ASSUME TypeOK, [Next]_vars PROVE PostsTyped'
  OBVIOUS
<1> USE DEF PostsTyped
<1>1. posts \in [Lane -> [Item -> Nat]]
  BY DEF TypeOK
<1>2. ASSUME NEW p \in Proc, Post(p) PROVE PostsTyped'
  <2>1. ASSUME NEW f \in [Item -> Nat], NEW i PROVE [f EXCEPT ![i] = @ + 1] \in [Item -> Nat]
    <3>1. CASE i \in Item
      <4>1. f[i] + 1 \in Nat
        BY <3>1
      <4> QED
        BY <4>1
    <3>2. CASE i \notin Item
      <4>1. [f EXCEPT ![i] = @ + 1] = f
        BY <3>2
      <4> QED
        BY <4>1
    <3> QED
      BY <3>1, <3>2
  <2>2. Lane_(p) \in Lane
    BY DEF TypeOK, Memory, Lane_
  <2>3. posts' = [posts EXCEPT ![Lane_(p)] = [posts[Lane_(p)] EXCEPT ![run[p].item] = @ + 1]]
    BY <1>1, <1>2, <2>2 DEF Post
  <2> QED
    BY <1>1, <2>1, <2>2, <2>3
<1>3. CASE UNCHANGED posts
  BY <1>1, <1>3
<1>4. ASSUME NEW p \in Proc, RunStep(p) PROVE PostsTyped'
  BY <1>2, <1>3, <1>4
     DEF RunStep, Collected, ItemStep, Overlap, StartRun, Collect, CollectNothing, OpenItem,
         CommitItem, FinishRun, Release
<1>5. ASSUME NEW p \in Proc, Start(p) \/ ItemLost(p) \/ RaiseRun(p) \/ Crash(p) PROVE PostsTyped'
  BY <1>3, <1>5 DEF Start, Begin, ItemLost, FailItem, GiveUpItem, RaiseRun, Crash
<1>6. CASE Environment
  BY <1>3, <1>6 DEF Environment, Publish, Announce, StartBaseline, CompleteBaseline
<1> QED
  BY <1>3, <1>4, <1>5, <1>6 DEF Next, vars

LEMMA NextControlTyped == TypeOK /\ [Next]_vars => ControlTyped'
<1> SUFFICES ASSUME TypeOK, [Next]_vars PROVE ControlTyped'
  OBVIOUS
<1>0. /\ LanesOf \in [Proc -> SUBSET Lane]
      /\ MaxFaults \in Nat
  BY CatalogueAssumption
<1> USE <1>0 DEF ControlTyped
<1>1. ControlTyped
  BY DEF TypeOK
<1>2. ASSUME Fault PROVE faults' \in 0..MaxFaults
  BY <1>1, <1>2 DEF Fault
<1>3. \A p \in Proc : Unlocked(p) \in [Lane -> Proc \union {Nobody}]
  BY <1>1 DEF Unlocked
<1>4. ASSUME NEW p \in Proc, RunStep(p) PROVE ControlTyped'
  <2>1. CASE Overlap(p) \/ StartRun(p) \/ FinishRun(p)
    BY <1>1, <2>1 DEF Overlap, StartRun, FinishRun, PC
  <2>2. CASE Release(p)
    BY <1>1, <1>3, <2>2 DEF Release, PC
  <2>3. CASE Collected(p)
    <3>1. /\ UNCHANGED faults \/ Fault
          /\ pc' = [pc EXCEPT ![p] = "items"]
          /\ UNCHANGED <<listed, announced, epoch, holder>>
          /\ writer' = p
      BY <2>3, ZenonT(40) DEF Collected, Collect, CollectNothing
    <3> QED
      BY <1>1, <1>2, <3>1 DEF PC
  <2>4. CASE ItemStep(p)
    BY <1>1, <2>4 DEF ItemStep, OpenItem, Post, CommitItem, PC
  <2> QED
    BY <1>4, <2>1, <2>2, <2>3, <2>4 DEF RunStep
<1>5. ASSUME NEW p \in Proc, Start(p) PROVE ControlTyped'
  BY <1>1, <1>5 DEF Start, Begin, PC
<1>6. ASSUME NEW p \in Proc, ItemLost(p) \/ RaiseRun(p) PROVE ControlTyped'
  BY <1>1, <1>2, <1>6 DEF ItemLost, FailItem, GiveUpItem, RaiseRun, Abandoned, PC
<1>7. ASSUME NEW p \in Proc, Crash(p) PROVE ControlTyped'
  BY <1>1, <1>2, <1>3, <1>7 DEF Crash, Abandoned, PC
<1>8. CASE Environment
  BY <1>1, <1>8 DEF Environment, Publish, Announce, StartBaseline, CompleteBaseline
<1>9. CASE UNCHANGED vars
  BY <1>1, <1>9 DEF vars
<1> QED
  BY <1>4, <1>5, <1>6, <1>7, <1>8, <1>9 DEF Next

LEMMA NextTypeOK == TypeOK /\ [Next]_vars => TypeOK'
BY NextRunsTyped, NextRowsTyped, NextPostsTyped, NextControlTyped
   DEF TypeOK, RunsTyped, RowsTyped, PostsTyped, ControlTyped

(* Every variable of the model keeps the values the code gives it, however *)
(* many lanes and processes there are.                                     *)
THEOREM TypeCorrect == Spec => []TypeOK
<1>1. Init => TypeOK
  BY InitTypeOK
<1>2. TypeOK /\ [Next]_vars => TypeOK'
  BY NextTypeOK
<1> QED
  BY <1>1, <1>2, PTL DEF Spec

-----------------------------------------------------------------------------
(* What is true between the steps *)

Running == {"gated", "started", "items", "judged", "sent"}
InItem == {"judged", "sent"}

(* A process inside an item holds the database's writer, which it can have *)
(* since the collector answered, and has a watch in hand only there.       *)
OneWriter ==
    \A p \in Proc :
        /\ pc[p] \in InItem => writer = p
        /\ writer = p => pc[p] \in InItem \union {"items"}
        /\ pc[p] \in InItem <=> run[p].item \in Item

(* The gates a run read before it asked for the lock may be stale, but the *)
(* rows only ever move towards speaking: a gate that was open still is.    *)
GatesHold ==
    \A p \in Proc : pc[p] \in Running =>
        /\ ~run[p].baseline => run[p].invocation # "forced" /\ rows.history[Lane_(p)].done
        /\ ~run[p].fillGate => ~FillActive(Lane_(p))

(* What an open transaction concluded still agrees with the rows.          *)
VerdictHolds ==
    \A p \in Proc : pc[p] \in InItem =>
        /\ run[p].intro = "UNSEEN" <=> run[p].item \in Observed(Lane_(p))
        /\ run[p].intro \in Novelty => ~Known(run[p].item)
        /\ run[p].intro = "NEW_REGION" =>
              /\ Known(run[p].item)
              /\ RegionOf[Lane_(p)] \notin ProductRegions(run[p].item)

SilenceHolds ==
    \A p \in Proc : pc[p] \in InItem /\ run[p].intro \in Event =>
        \/ run[p].fresh
        \/ ~run[p].baseline /\ ~(run[p].fillGate /\ run[p].unseen) /\ epoch # "open"

(* Every post beyond those the failures lost has its Event, committed or   *)
(* still in the transaction that posted it.                                *)
Accounted(l, i) ==
    \/ rows.intro[l][i] \in Event
    \/ \E p \in Proc : pc[p] = "sent" /\ Lane_(p) = l /\ run[p].item = i

PostsCounted ==
    /\ \A p \in Proc : pc[p] = "sent" => run[p].intro \in Event
    /\ \A l \in Lane, i \in Item :
          posts[l][i] <= faults + (IF Accounted(l, i) THEN 1 ELSE 0)

IInv == TypeOK /\ OneWriter /\ GatesHold /\ VerdictHolds /\ SilenceHolds /\ PostsCounted

LEMMA LaneOfRun == TypeOK => \A p \in Proc : Lane_(p) \in Lane
BY DEF TypeOK, Memory, Lane_

(* What the collector's answer leaves alone in the memory of the run. *)
LEMMA CollectKeeps ==
    TypeOK => \A p \in Proc : \A slice, fetched : Collect(p, slice, fetched) =>
        /\ run'[p].item = run[p].item
        /\ run'[p].lane = run[p].lane
        /\ run'[p].invocation = run[p].invocation
        /\ run'[p].baseline = run[p].baseline
        /\ run'[p].fillGate = run[p].fillGate
<1> SUFFICES ASSUME TypeOK, NEW p \in Proc, NEW slice, NEW fetched, Collect(p, slice, fetched)
             PROVE  /\ run'[p].item = run[p].item
                    /\ run'[p].lane = run[p].lane
                    /\ run'[p].invocation = run[p].invocation
                    /\ run'[p].baseline = run[p].baseline
                    /\ run'[p].fillGate = run[p].fillGate
  OBVIOUS
<1>1. run \in [Proc -> Memory]
  BY DEF TypeOK
<1>2. \E t, a, u, st : run' = [run EXCEPT ![p].todo = t, ![p].allNew = a,
                                          ![p].unseen = u, ![p].status = st]
  BY Zenon DEF Collect
<1>3. PICK t, a, u, st : run' = [run EXCEPT ![p].todo = t, ![p].allNew = a,
                                           ![p].unseen = u, ![p].status = st]
  BY <1>2
<1>4. run'[p] = [run[p] EXCEPT !.todo = t, !.allNew = a, !.unseen = u, !.status = st]
  BY <1>1, <1>3
<1>5. run[p] \in Memory
  BY <1>1
<1> QED
  BY <1>4, <1>5 DEF Memory

(* What a step of one process leaves alone in the others. *)
Steps(p) == Start(p) \/ RunStep(p) \/ ItemLost(p) \/ RaiseRun(p) \/ Crash(p)

LEMMA OthersUntouched ==
    TypeOK => \A p \in Proc : \A o \in Proc \ {p} :
        Steps(p) => pc'[o] = pc[o] /\ run'[o] = run[o]
<1> SUFFICES ASSUME TypeOK, NEW p \in Proc, NEW o \in Proc \ {p}, Steps(p)
             PROVE  pc'[o] = pc[o] /\ run'[o] = run[o]
  OBVIOUS
<1>1. pc \in [Proc -> PC] /\ run \in [Proc -> Memory]
  BY DEF TypeOK
<1>2. CASE Start(p)
  BY <1>1, <1>2 DEF Start, Begin
<1>3. CASE Collected(p) \/ Overlap(p) \/ StartRun(p)
  BY <1>1, <1>3 DEF Collected, Collect, CollectNothing, Overlap, StartRun
<1>4. CASE ItemStep(p)
  <2>1. ASSUME NEW i \in Item, NEW fresh \in BOOLEAN, OpenItem(p, i, fresh)
        PROVE  pc'[o] = pc[o] /\ run'[o] = run[o]
    BY <1>1, <2>1 DEF OpenItem
  <2>2. CASE Post(p) \/ CommitItem(p)
    BY <1>1, <2>2 DEF Post, CommitItem
  <2> QED
    BY <1>4, <2>1, <2>2 DEF ItemStep
<1>5. CASE FinishRun(p) \/ Release(p) \/ ItemLost(p) \/ RaiseRun(p) \/ Crash(p)
  BY <1>1, <1>5 DEF FinishRun, Release, ItemLost, FailItem, GiveUpItem, RaiseRun, Crash
<1> QED
  BY <1>2, <1>3, <1>4, <1>5 DEF Steps, RunStep

LEMMA EnvironmentUntouched ==
    Environment => UNCHANGED <<rows, pc, run, posts, faults, writer>>
BY DEF Environment, Publish, Announce, StartBaseline, CompleteBaseline

LEMMA NextOneWriter == TypeOK /\ OneWriter /\ [Next]_vars => OneWriter'
<1> SUFFICES ASSUME TypeOK, OneWriter, [Next]_vars PROVE OneWriter'
  OBVIOUS
<1>0. /\ NoItem \notin Item
      /\ Nobody \notin Proc
      /\ LanesOf \in [Proc -> SUBSET Lane]
  BY CatalogueAssumption
<1> USE <1>0
<1>1. pc \in [Proc -> PC] /\ run \in [Proc -> Memory]
  BY DEF TypeOK
<1>2. ASSUME NEW p \in Proc, Steps(p) PROVE OneWriter'
  <2>1. \A o \in Proc \ {p} : pc'[o] = pc[o] /\ run'[o] = run[o]
    BY <1>2, OthersUntouched
  <2> DEFINE Mine == /\ pc'[p] \in InItem => writer' = p
                     /\ writer' = p => pc'[p] \in InItem \union {"items"}
                     /\ pc'[p] \in InItem <=> run'[p].item \in Item
             Theirs == \A o \in Proc \ {p} : writer' = o <=> writer = o
  <2>2. ASSUME Mine, Theirs PROVE OneWriter'
    BY <2>1, <2>2 DEF OneWriter
  <2>3. \A l \in Lane : Blank(l).item \notin Item
    BY DEF Blank
  <2>4. CASE Start(p)
    <3>1. Mine /\ Theirs
      BY <1>1, <2>4 DEF Start, Begin, OneWriter, InItem, Blank
    <3> QED
      BY <2>2, <3>1
  <2>5. CASE Overlap(p) \/ StartRun(p) \/ Release(p)
    <3>1. Mine /\ Theirs
      BY <1>1, <2>3, <2>5, LaneOfRun DEF Overlap, StartRun, Release, OneWriter, InItem
    <3> QED
      BY <2>2, <3>1
  <2>6. CASE Collected(p)
    <3>1. /\ pc'[p] = "items" /\ pc[p] \notin InItem /\ writer = Nobody /\ writer' = p
          /\ run'[p].item = run[p].item
      <4>1. ASSUME NEW slice \in SUBSET Item, NEW fetched \in SUBSET slice,
                   Collect(p, slice, fetched)
            PROVE  pc[p] = "started" /\ pc'[p] = "items" /\ writer = Nobody /\ writer' = p
                   /\ run'[p].item = run[p].item
        <5>1. pc[p] = "started" /\ writer = Nobody /\ writer' = p /\ pc' = [pc EXCEPT ![p] = "items"]
          BY <4>1, Zenon DEF Collect
        <5> QED
          BY <1>1, <4>1, <5>1, CollectKeeps
      <4>2. ASSUME NEW st \in {"FAILED", "ZERO_ITEMS"}, CollectNothing(p, st)
            PROVE  pc[p] = "started" /\ pc'[p] = "items" /\ writer = Nobody /\ writer' = p
                   /\ run'[p].item = run[p].item
        BY <1>1, <4>2 DEF CollectNothing, Memory
      <4> QED
        BY <2>6, <4>1, <4>2, SlicesTyped, Zenon DEF Collected, InItem
    <3>2. Mine /\ Theirs
      BY <3>1 DEF OneWriter, InItem
    <3> QED
      BY <2>2, <3>2
  <2>7. ASSUME NEW i \in Item, NEW fresh \in BOOLEAN, OpenItem(p, i, fresh) PROVE OneWriter'
    <3>1. Mine /\ Theirs
      BY <1>1, <2>7 DEF OpenItem, OneWriter, InItem
    <3> QED
      BY <2>2, <3>1
  <2>8. CASE Post(p)
    <3>1. Mine /\ Theirs
      BY <1>1, <2>8 DEF Post, OneWriter, InItem
    <3> QED
      BY <2>2, <3>1
  <2>9. CASE CommitItem(p) \/ FailItem(p)
    <3>1. /\ pc'[p] \notin InItem /\ pc[p] \in InItem /\ writer' = Nobody
          /\ run'[p].item = NoItem
      BY <1>1, <2>9 DEF CommitItem, FailItem, InItem, Memory
    <3>2. Mine /\ Theirs
      BY <3>1 DEF OneWriter
    <3> QED
      BY <2>2, <3>2
  <2>10. CASE FinishRun(p)
    <3>1. Mine /\ Theirs
      BY <1>1, <2>3, <2>10, LaneOfRun DEF FinishRun, OneWriter, InItem
    <3> QED
      BY <2>2, <3>1
  <2>11. CASE RaiseRun(p) \/ Crash(p)
    <3>1. Mine /\ Theirs
      BY <1>1, <2>3, <2>11, LaneOfRun DEF RaiseRun, Crash, Abandoned, OneWriter, InItem
    <3> QED
      BY <2>2, <3>1
  <2>12. ASSUME NEW i \in Item, GiveUpItem(p, i) PROVE OneWriter'
    <3>1. /\ pc'[p] \notin InItem /\ pc[p] \notin InItem /\ writer' = writer /\ writer # p
          /\ run'[p].item = run[p].item
      BY <1>1, <2>12 DEF GiveUpItem, InItem, Memory
    <3>2. Mine /\ Theirs
      BY <3>1 DEF OneWriter
    <3> QED
      BY <2>2, <3>2
  <2> QED
    BY <1>2, <2>4, <2>5, <2>6, <2>7, <2>8, <2>9, <2>10, <2>11, <2>12
       DEF Steps, RunStep, ItemStep, ItemLost
<1>3. CASE Environment
  BY <1>3, EnvironmentUntouched DEF OneWriter
<1>4. CASE UNCHANGED vars
  BY <1>4 DEF vars, OneWriter
<1> QED
  BY <1>2, <1>3, <1>4 DEF Next, Steps


(* The rows of a lane's runs only move one way: once a run succeeded it    *)
(* did, and once the first catalogue is filled it stays so.                *)
LEMMA HistoryMovesOneWay ==
    TypeOK /\ [Next]_vars =>
        \A l \in Lane : /\ rows.history[l].done => rows'.history[l].done
                        /\ ~FillActive(l) => ~FillActive(l)'
<1> SUFFICES ASSUME TypeOK, [Next]_vars, NEW l \in Lane
             PROVE  /\ rows.history[l].done => rows'.history[l].done
                    /\ ~FillActive(l) => ~FillActive(l)'
  OBVIOUS
<1>1. rows \in Rows
  BY DEF TypeOK
<1> DEFINE h == rows.history[l]
           k == rows'.history[l]
<1>2. CASE k = h
  BY <1>2 DEF FillActive
<1>3. ASSUME NEW p \in Proc, FinishRun(p) PROVE k = h \/ (k = Counted(p) /\ Lane_(p) = l)
  <2>1. rows' = [rows EXCEPT !.history[Lane_(p)] = Counted(p)]
    BY <1>3 DEF FinishRun
  <2> QED
    BY <1>1, <2>1 DEF Rows
<1>4. ASSUME NEW p \in Proc, k = Counted(p), Lane_(p) = l
      PROVE  /\ h.done => k.done
             /\ ~FillActive(l) => ~FillActive(l)'
  <2>1. h \in History
    BY <1>1 DEF Rows
  <2>2. h.passes \in 0..FillRuns /\ FillRuns \in Nat
    BY <2>1, CatalogueAssumption DEF History
  <2>3. /\ k.done = (h.done \/ run[p].status # "FAILED")
        /\ k.useful = (h.useful \/ Good(p))
        /\ k.mixed = (h.mixed \/ (Good(p) /\ ~run[p].allNew))
        /\ k.passes = IF Good(p) /\ CataloguePass(p) THEN Least(h.passes + 1, FillRuns)
                      ELSE h.passes
    BY <1>4 DEF Counted
  <2>4. h.passes >= FillRuns => k.passes >= FillRuns
    BY <2>2, <2>3 DEF Least
  <2>5. k.passes \in Int
    BY <2>2, <2>3 DEF Least
  <2>6. /\ h.done => k.done
        /\ h.useful => k.useful
        /\ h.mixed => k.mixed
    BY <2>3, Zenon
  <2>7. /\ FillActive(l) <=> (~h.useful \/ (~h.mixed /\ h.passes < FillRuns))
        /\ FillActive(l)' <=> (~k.useful \/ (~k.mixed /\ k.passes < FillRuns))
    BY DEF FillActive
  <2>8. k.passes < FillRuns => h.passes < FillRuns
    BY <2>2, <2>4, <2>5
  <2> QED
    BY <2>6, <2>7, <2>8, Zenon
<1>5. ASSUME NEW p \in Proc, CommitItem(p) PROVE k = h
  BY <1>1, <1>5 DEF CommitItem, Rows
<1>6. ASSUME NEW p \in Proc, Steps(p), ~CommitItem(p), ~FinishRun(p) PROVE k = h
  BY <1>6 DEF Steps, Start, Begin, RunStep, Overlap, StartRun, Collected, Collect, CollectNothing,
              ItemStep, OpenItem, Post, Release, ItemLost, FailItem, GiveUpItem,
              RaiseRun, Crash
<1>7. CASE Environment \/ UNCHANGED vars
  BY <1>2, <1>7, EnvironmentUntouched DEF vars
<1>8. ASSUME NEW p \in Proc, Steps(p)
      PROVE  /\ h.done => k.done
             /\ ~FillActive(l) => ~FillActive(l)'
  BY <1>2, <1>3, <1>4, <1>5, <1>6, <1>8
<1> QED
  BY <1>7, <1>8 DEF Next, Steps

(* A run keeps what it read at its start. *)
LEMMA NextGatesHold == TypeOK /\ GatesHold /\ [Next]_vars => GatesHold'
<1> SUFFICES ASSUME TypeOK, GatesHold, [Next]_vars PROVE GatesHold'
  OBVIOUS
<1>1. pc \in [Proc -> PC] /\ run \in [Proc -> Memory]
  BY DEF TypeOK
<1> DEFINE Same(o) == /\ pc[o] \in Running
                      /\ run'[o].lane = run[o].lane
                      /\ run'[o].invocation = run[o].invocation
                      /\ run'[o].baseline = run[o].baseline
                      /\ run'[o].fillGate = run[o].fillGate
           Gate(o) == pc[o] \in Running =>
              /\ ~run[o].baseline => run[o].invocation # "forced" /\ rows.history[Lane_(o)].done
              /\ ~run[o].fillGate => ~FillActive(Lane_(o))
<1>2. ASSUME NEW o \in Proc, Same(o) PROVE Gate(o)'
  <2>1. Lane_(o) \in Lane /\ Lane_(o)' = Lane_(o)
    BY <1>2, LaneOfRun DEF Lane_
  <2>2. \A l \in Lane : /\ rows.history[l].done => rows'.history[l].done
                        /\ ~FillActive(l) => ~FillActive(l)'
    BY HistoryMovesOneWay
  <2>3. ~FillActive(Lane_(o)) => ~FillActive(Lane_(o))'
    BY <2>1, <2>2 DEF FillActive
  <2> QED
    BY <1>2, <2>1, <2>2, <2>3 DEF GatesHold
<1>3. ASSUME NEW o \in Proc, pc'[o] \notin Running PROVE Gate(o)'
  BY <1>3
<1>4. ASSUME NEW p \in Proc, Steps(p) PROVE Gate(p)'
  <2>1. CASE Start(p)
    <3>1. PICK l \in Lane, invocation \in Invocations : Begin(p, l, invocation)
      BY <2>1 DEF Start
    <3>2. run'[p] = [Blank(l) EXCEPT !.invocation = invocation,
                                     !.baseline = invocation = "forced" \/ AutoBaseline(l),
                                     !.fillGate = FillActive(l)]
      BY <1>1, <3>1 DEF Begin
    <3>3. /\ run'[p].lane = l /\ run'[p].invocation = invocation
          /\ run'[p].baseline = (invocation = "forced" \/ AutoBaseline(l))
          /\ run'[p].fillGate = FillActive(l)
      BY <3>2 DEF Blank
    <3>4. rows' = rows
      BY <3>1 DEF Begin
    <3> QED
      BY <3>3, <3>4 DEF Lane_, AutoBaseline, FillActive
  <2>2. CASE StartRun(p)
    BY <1>1, <1>2, <2>2 DEF StartRun, Running
  <2>3. CASE Collected(p)
    <3>1. ASSUME NEW slice \in SUBSET Item, NEW fetched \in SUBSET slice,
                 Collect(p, slice, fetched)
          PROVE  Same(p)
      <4>1. pc[p] = "started"
        BY <3>1, Zenon DEF Collect
      <4> QED
        BY <3>1, <4>1, CollectKeeps DEF Running
    <3>2. ASSUME NEW st \in {"FAILED", "ZERO_ITEMS"}, CollectNothing(p, st) PROVE Same(p)
      BY <1>1, <3>2 DEF CollectNothing, Running, Memory
    <3> QED
      BY <1>2, <2>3, <3>1, <3>2, SlicesTyped DEF Collected, IInv
  <2>4. ASSUME NEW i \in Item, NEW fresh \in BOOLEAN, OpenItem(p, i, fresh) PROVE Gate(p)'
    <3>1. Same(p)
      BY <1>1, <2>4 DEF OpenItem, Running, Memory
    <3> QED
      BY <1>2, <3>1
  <2>5. CASE Post(p)
    <3>1. Same(p)
      BY <2>5 DEF Post, Running
    <3> QED
      BY <1>2, <3>1
  <2>6. CASE CommitItem(p) \/ ItemLost(p)
    <3>1. ASSUME CommitItem(p) PROVE Same(p)
      BY <1>1, <3>1 DEF CommitItem, Running, Memory
    <3>2. ASSUME FailItem(p) PROVE Same(p)
      BY <1>1, <3>2 DEF FailItem, Running, Memory
    <3>3. ASSUME NEW i \in Item, GiveUpItem(p, i) PROVE Same(p)
      BY <1>1, <3>3 DEF GiveUpItem, Running, Memory
    <3> QED
      BY <1>2, <2>6, <3>1, <3>2, <3>3 DEF ItemLost
  <2>7. CASE Overlap(p) \/ FinishRun(p) \/ RaiseRun(p) \/ Release(p) \/ Crash(p)
    <3>1. pc'[p] \notin Running
      BY <1>1, <2>7 DEF Overlap, FinishRun, RaiseRun, Release, Crash, Running
    <3> QED
      BY <1>3, <3>1
  <2> HIDE DEF Gate
  <2> QED
    BY <1>4, <2>1, <2>2, <2>3, <2>4, <2>5, <2>6, <2>7 DEF Steps, RunStep, ItemStep
<1>5. ASSUME NEW p \in Proc, Steps(p), NEW o \in Proc \ {p} PROVE Gate(o)'
  BY <1>2, <1>3, <1>5, OthersUntouched
<1>6. ASSUME NEW p \in Proc, Environment \/ UNCHANGED vars PROVE Gate(p)'
  BY <1>2, <1>3, <1>6, EnvironmentUntouched DEF vars
<1> HIDE DEF Gate
<1>7. \A o \in Proc : Gate(o)'
  BY <1>4, <1>5, <1>6 DEF Next, Steps
<1> QED
  BY <1>7 DEF GatesHold, Gate

(* What a process remembers of the item it opens. *)
LEMMA OpenItemRemembers ==
    TypeOK => \A p \in Proc : \A i \in Item, fresh \in BOOLEAN : OpenItem(p, i, fresh) =>
        \E v \in IF i \in Observed(Lane_(p)) THEN {"UNSEEN"} ELSE Verdicts(p, i, fresh) :
           /\ run'[p].item = i /\ run'[p].fresh = fresh /\ run'[p].intro = v
           /\ run'[p].lane = run[p].lane /\ run'[p].baseline = run[p].baseline
           /\ run'[p].fillGate = run[p].fillGate /\ run'[p].unseen = run[p].unseen
           /\ UNCHANGED <<rows, announced, epoch, posts, faults>>
<1> SUFFICES ASSUME TypeOK, NEW p \in Proc, NEW i \in Item, NEW fresh \in BOOLEAN,
                    OpenItem(p, i, fresh)
             PROVE  \E v \in IF i \in Observed(Lane_(p)) THEN {"UNSEEN"} ELSE Verdicts(p, i, fresh) :
                       /\ run'[p].item = i /\ run'[p].fresh = fresh /\ run'[p].intro = v
                       /\ run'[p].lane = run[p].lane /\ run'[p].baseline = run[p].baseline
                       /\ run'[p].fillGate = run[p].fillGate /\ run'[p].unseen = run[p].unseen
                       /\ UNCHANGED <<rows, announced, epoch, posts, faults>>
  OBVIOUS
<1> DEFINE V == IF i \in Observed(Lane_(p)) THEN {"UNSEEN"} ELSE Verdicts(p, i, fresh)
<1>1. run \in [Proc -> Memory] /\ run[p] \in Memory
  BY DEF TypeOK
<1>2. PICK v \in V : run' = [run EXCEPT ![p].item = i, ![p].todo = @ \ {i}, ![p].fresh = fresh,
                                       ![p].intro = v, ![p].allNew = @ /\ IsNew(p, i)]
  BY Zenon DEF OpenItem
<1>3. run'[p] = [run[p] EXCEPT !.item = i, !.todo = @ \ {i}, !.fresh = fresh,
                               !.intro = v, !.allNew = @ /\ IsNew(p, i)]
  BY <1>1, <1>2
<1>4. UNCHANGED <<rows, announced, epoch, posts, faults>>
  BY Zenon DEF OpenItem
<1>5. /\ run'[p].item = i /\ run'[p].fresh = fresh /\ run'[p].intro = v
      /\ run'[p].lane = run[p].lane /\ run'[p].baseline = run[p].baseline
      /\ run'[p].fillGate = run[p].fillGate /\ run'[p].unseen = run[p].unseen
  BY <1>1, <1>3 DEF Memory
<1>6. v \in V
  BY <1>2
<1> QED
  BY <1>4, <1>5, <1>6, Zenon

(* A process inside an item was there before, or has just opened it; while *)
(* it is there, nobody changes what its verdict was taken from.            *)
LEMMA ItemLife ==
    TypeOK /\ OneWriter /\ [Next]_vars =>
        \A p \in Proc : pc'[p] \in InItem =>
            \/ /\ pc[p] \in InItem /\ run'[p] = run[p]
               /\ UNCHANGED <<rows, announced, epoch>>
               /\ pc'[p] = "sent" => pc[p] = "sent" \/ Alertable(p)
            \/ \E i \in Item, fresh \in BOOLEAN : pc'[p] = "judged" /\ OpenItem(p, i, fresh)
<1> SUFFICES ASSUME TypeOK, OneWriter, [Next]_vars, NEW p \in Proc, pc'[p] \in InItem
             PROVE  \/ /\ pc[p] \in InItem /\ run'[p] = run[p]
                       /\ UNCHANGED <<rows, announced, epoch>>
                       /\ pc'[p] = "sent" => pc[p] = "sent" \/ Alertable(p)
                    \/ \E i \in Item, fresh \in BOOLEAN : pc'[p] = "judged" /\ OpenItem(p, i, fresh)
  OBVIOUS
<1> USE CatalogueAssumption
<1>1. pc \in [Proc -> PC]
  BY DEF TypeOK
<1>2. CASE Steps(p)
  <2>1. ~(Start(p) \/ Collected(p) \/ Overlap(p) \/ StartRun(p) \/ FinishRun(p) \/ Release(p))
    BY <1>1 DEF Start, Begin, Collected, Collect, CollectNothing, Overlap, StartRun, FinishRun,
                Release, InItem
  <2>2. ~(CommitItem(p) \/ ItemLost(p) \/ RaiseRun(p) \/ Crash(p))
    BY <1>1 DEF CommitItem, ItemLost, FailItem, GiveUpItem, RaiseRun, Crash, InItem
  <2>3. ASSUME NEW i \in Item, NEW fresh \in BOOLEAN, OpenItem(p, i, fresh)
        PROVE  pc'[p] = "judged"
    BY <1>1, <2>3 DEF OpenItem
  <2>4. CASE Post(p)
    BY <1>1, <2>4 DEF Post, InItem
  <2> QED
    BY <1>2, <2>1, <2>2, <2>3, <2>4 DEF Steps, RunStep, ItemStep
<1>3. ASSUME NEW q \in Proc \ {p}, Steps(q)
      PROVE  /\ pc[p] \in InItem /\ run'[p] = run[p]
             /\ UNCHANGED <<rows, announced, epoch>>
             /\ pc'[p] = "sent" => pc[p] = "sent"
  <2>1. pc'[p] = pc[p] /\ run'[p] = run[p]
    BY <1>3, OthersUntouched
  <2>2. writer = p /\ p # Nobody /\ q # p
    BY <2>1 DEF OneWriter
  <2>3. ~(CommitItem(q) \/ FinishRun(q))
    BY <2>2 DEF OneWriter, InItem, CommitItem, FinishRun
  <2>4. UNCHANGED <<rows, announced, epoch>>
    BY <1>3, <2>3 DEF Steps, Start, Begin, RunStep, Overlap, StartRun, Collected, Collect,
                      CollectNothing, ItemStep, OpenItem, Post, Release, ItemLost, FailItem,
                      GiveUpItem, RaiseRun, Crash
  <2> QED
    BY <2>1, <2>4
<1>4. CASE Environment
  <2>1. pc' = pc /\ run' = run /\ rows' = rows
    BY <1>4, EnvironmentUntouched
  <2>2. writer = p /\ p # Nobody
    BY <2>1 DEF OneWriter
  <2>3. UNCHANGED <<announced, epoch>>
    BY <1>4, <2>2 DEF Environment, Publish, Announce, StartBaseline, CompleteBaseline
  <2> QED
    BY <2>1, <2>3
<1>5. CASE UNCHANGED vars
  BY <1>5 DEF vars
<1> QED
  BY <1>2, <1>3, <1>4, <1>5 DEF Next, Steps

LEMMA NextVerdictHolds ==
    TypeOK /\ OneWriter /\ VerdictHolds /\ [Next]_vars => VerdictHolds'
<1> SUFFICES ASSUME TypeOK, OneWriter, VerdictHolds, [Next]_vars, NEW p \in Proc, pc'[p] \in InItem
             PROVE  /\ run'[p].intro = "UNSEEN" <=> run'[p].item \in Observed(Lane_(p))'
                    /\ run'[p].intro \in Novelty => ~Known(run[p].item)'
                    /\ run'[p].intro = "NEW_REGION" =>
                          /\ Known(run[p].item)'
                          /\ RegionOf[Lane_(p)'] \notin ProductRegions(run[p].item)'
  BY DEF VerdictHolds
<1>1. CASE pc[p] \in InItem /\ run'[p] = run[p] /\ UNCHANGED <<rows, announced, epoch>>
  BY <1>1 DEF VerdictHolds, Observed, Known, ProductRegions, Lane_
<1>2. ASSUME NEW i \in Item, NEW fresh \in BOOLEAN, OpenItem(p, i, fresh)
      PROVE  /\ run'[p].intro = "UNSEEN" <=> run'[p].item \in Observed(Lane_(p))'
             /\ run'[p].intro \in Novelty => ~Known(run[p].item)'
             /\ run'[p].intro = "NEW_REGION" =>
                   /\ Known(run[p].item)'
                   /\ RegionOf[Lane_(p)'] \notin ProductRegions(run[p].item)'
  <2>1. PICK v \in IF i \in Observed(Lane_(p)) THEN {"UNSEEN"} ELSE Verdicts(p, i, fresh) :
           /\ run'[p].item = i /\ run'[p].intro = v /\ run'[p].lane = run[p].lane
           /\ UNCHANGED <<rows, announced, epoch>>
    BY <1>2, OpenItemRemembers
  <2>2. /\ v = "UNSEEN" <=> i \in Observed(Lane_(p))
        /\ v \in Novelty => ~Known(i)
        /\ v = "NEW_REGION" => Known(i) /\ RegionOf[Lane_(p)] \notin ProductRegions(i)
    BY DEF Verdicts, IsNew, Novelty
  <2> QED
    BY <2>1, <2>2 DEF Observed, Known, ProductRegions, Lane_
<1> QED
  BY <1>1, <1>2, ItemLife

LEMMA NextSilenceHolds ==
    TypeOK /\ OneWriter /\ SilenceHolds /\ [Next]_vars => SilenceHolds'
<1> SUFFICES ASSUME TypeOK, OneWriter, SilenceHolds, [Next]_vars, NEW p \in Proc,
                    pc'[p] \in InItem, run'[p].intro \in Event
             PROVE  \/ run'[p].fresh
                    \/ /\ ~run'[p].baseline /\ ~(run'[p].fillGate /\ run'[p].unseen)
                       /\ epoch' # "open"
  BY DEF SilenceHolds
<1>1. CASE pc[p] \in InItem /\ run'[p] = run[p] /\ UNCHANGED <<rows, announced, epoch>>
  BY <1>1 DEF SilenceHolds
<1>2. ASSUME NEW i \in Item, NEW fresh \in BOOLEAN, OpenItem(p, i, fresh)
      PROVE  \/ run'[p].fresh
             \/ /\ ~run'[p].baseline /\ ~(run'[p].fillGate /\ run'[p].unseen)
                /\ epoch' # "open"
  <2>1. PICK v \in IF i \in Observed(Lane_(p)) THEN {"UNSEEN"} ELSE Verdicts(p, i, fresh) :
           /\ run'[p].fresh = fresh /\ run'[p].intro = v /\ run'[p].baseline = run[p].baseline
           /\ run'[p].fillGate = run[p].fillGate /\ run'[p].unseen = run[p].unseen
           /\ UNCHANGED <<rows, announced, epoch>>
    BY <1>2, OpenItemRemembers
  <2>2. v \in Event => fresh \/ ~Silenced(p)
    BY DEF Verdicts, Event, Novelty
  <2> QED
    BY <2>1, <2>2 DEF Silenced
<1> QED
  BY <1>1, <1>2, ItemLife

(* The committed introduction of a watch: what a commit makes of it.       *)
LEMMA CommittedIntro ==
    TypeOK => \A p \in Proc : CommitItem(p) => \A l \in Lane, i \in Item :
        rows'.intro[l][i] = IF run[p].intro # "UNSEEN" /\ l = Lane_(p) /\ i = run[p].item
                            THEN run[p].intro ELSE rows.intro[l][i]
<1> SUFFICES ASSUME TypeOK, NEW p \in Proc, CommitItem(p), NEW l \in Lane, NEW i \in Item
             PROVE  rows'.intro[l][i] =
                      IF run[p].intro # "UNSEEN" /\ l = Lane_(p) /\ i = run[p].item
                      THEN run[p].intro ELSE rows.intro[l][i]
  OBVIOUS
<1>1. rows \in Rows /\ Lane_(p) \in Lane
  BY LaneOfRun DEF TypeOK
<1>2. CASE run[p].intro = "UNSEEN"
  BY <1>2 DEF CommitItem
<1>3. CASE run[p].intro # "UNSEEN"
  <2>1. rows' = [rows EXCEPT !.intro[Lane_(p)][run[p].item] = run[p].intro]
    BY <1>3 DEF CommitItem
  <2> QED
    BY <1>1, <1>3, <2>1 DEF Rows
<1> QED
  BY <1>2, <1>3

(* Nothing but a commit introduces a watch. *)
LEMMA OnlyCommitsIntroduce ==
    TypeOK /\ [Next]_vars => rows'.intro = rows.intro \/ \E p \in Proc : CommitItem(p)
<1> SUFFICES ASSUME TypeOK, [Next]_vars, \A p \in Proc : ~CommitItem(p)
             PROVE  rows'.intro = rows.intro
  OBVIOUS
<1>1. ASSUME NEW p \in Proc, FinishRun(p) PROVE rows'.intro = rows.intro
  BY <1>1 DEF FinishRun, TypeOK, Rows
<1>2. ASSUME NEW p \in Proc, Steps(p), ~CommitItem(p), ~FinishRun(p)
      PROVE  rows'.intro = rows.intro
  BY <1>2 DEF Steps, Start, Begin, RunStep, Overlap, StartRun, Collected, Collect, CollectNothing,
              ItemStep, OpenItem, Post, Release, ItemLost, FailItem, GiveUpItem,
              RaiseRun, Crash
<1>3. CASE Environment \/ UNCHANGED vars
  BY <1>3, EnvironmentUntouched DEF vars
<1> QED
  BY <1>1, <1>2, <1>3 DEF Next, Steps

LEMMA NextPostsCounted ==
    TypeOK /\ OneWriter /\ VerdictHolds /\ PostsCounted /\ [Next]_vars => PostsCounted'
<1> SUFFICES ASSUME TypeOK, OneWriter, VerdictHolds, PostsCounted, [Next]_vars
             PROVE  PostsCounted'
  OBVIOUS
<1> USE CatalogueAssumption
<1>1. ASSUME NEW p \in Proc, pc'[p] = "sent" PROVE run'[p].intro \in Event
  <2>1. pc'[p] \in InItem /\ pc'[p] # "judged"
    BY <1>1 DEF InItem
  <2>2. run'[p] = run[p] /\ (pc[p] = "sent" \/ Alertable(p))
    BY <1>1, <2>1, ItemLife
  <2> QED
    BY <2>2 DEF PostsCounted, Alertable
<1>2. /\ posts \in [Lane -> [Item -> Nat]] /\ faults \in Nat
      /\ pc \in [Proc -> PC] /\ run \in [Proc -> Memory] /\ rows \in Rows
  BY DEF TypeOK
<1> DEFINE Balanced(l, i) == posts[l][i] <= faults + (IF Accounted(l, i) THEN 1 ELSE 0)
<1>3. SUFFICES ASSUME NEW l \in Lane, NEW i \in Item PROVE Balanced(l, i)'
  BY <1>1 DEF PostsCounted
<1>4. posts[l][i] \in Nat /\ Balanced(l, i)
  BY <1>2 DEF PostsCounted
<1>5. ASSUME posts' = posts, faults' = faults, Accounted(l, i) => Accounted(l, i)'
      PROVE  Balanced(l, i)'
  BY <1>2, <1>4, <1>5
<1>6. ASSUME posts' = posts, faults' = faults + 1 PROVE Balanced(l, i)'
  BY <1>2, <1>4, <1>6
<1>7. ASSUME rows'.intro = rows.intro,
             \A q \in Proc : pc[q] = "sent" => pc'[q] = "sent" /\ run'[q] = run[q]
      PROVE  Accounted(l, i) => Accounted(l, i)'
  BY <1>7 DEF Accounted, Lane_
<1> HIDE DEF Balanced
<1>8. ASSUME NEW p \in Proc, Post(p) PROVE Balanced(l, i)'
  <2>1. /\ pc[p] = "judged" /\ pc'[p] = "sent" /\ run' = run /\ rows' = rows /\ faults' = faults
        /\ run[p].intro \in Event
        /\ posts' = [posts EXCEPT ![Lane_(p)][run[p].item] = @ + 1]
    BY <1>2, <1>8 DEF Post, Alertable
  <2>2. \A q \in Proc : pc[q] = "sent" => pc'[q] = "sent"
    BY <1>2, <1>8 DEF Post
  <2>3. CASE l = Lane_(p) /\ i = run[p].item
    <3>1. posts'[l][i] = posts[l][i] + 1
      BY <1>2, <2>1, <2>3
    <3>2. Accounted(l, i)'
      BY <2>1, <2>3 DEF Accounted, Lane_
    <3>3. rows.intro[l][i] = "UNSEEN"
      BY <2>1, <2>3 DEF VerdictHolds, InItem, Observed, Event, Novelty
    <3>4. \A q \in Proc : pc[q] # "sent"
      BY <2>1 DEF OneWriter, InItem
    <3>5. ~Accounted(l, i)
      BY <3>3, <3>4 DEF Accounted, Event, Novelty
    <3> QED
      BY <1>2, <1>4, <2>1, <3>1, <3>2, <3>5 DEF Balanced
  <2>4. CASE ~(l = Lane_(p) /\ i = run[p].item)
    <3>1. posts'[l][i] = posts[l][i]
      BY <1>2, <2>1, <2>4, LaneOfRun
    <3>2. Accounted(l, i) => Accounted(l, i)'
      BY <1>7, <2>1, <2>2
    <3> QED
      BY <1>2, <1>4, <2>1, <3>1, <3>2 DEF Balanced
  <2> QED
    BY <2>3, <2>4
<1>9. ASSUME NEW p \in Proc, CommitItem(p) PROVE Balanced(l, i)'
  <2>1. posts' = posts /\ faults' = faults /\ pc[p] \in InItem
    BY <1>9 DEF CommitItem, InItem
  <2>2. rows'.intro[l][i] = IF run[p].intro # "UNSEEN" /\ l = Lane_(p) /\ i = run[p].item
                            THEN run[p].intro ELSE rows.intro[l][i]
    BY <1>9, CommittedIntro
  <2>3. ASSUME rows.intro[l][i] \in Event PROVE rows'.intro[l][i] \in Event
    <3>1. rows.intro[l][i] # "UNSEEN"
      BY <2>3 DEF Event, Novelty
    <3>2. ~(run[p].intro # "UNSEEN" /\ l = Lane_(p) /\ i = run[p].item)
      BY <2>1, <3>1 DEF VerdictHolds, Observed
    <3> QED
      BY <2>2, <2>3, <3>2
  <2>4. ASSUME NEW q \in Proc, pc[q] = "sent", Lane_(q) = l, run[q].item = i
        PROVE  rows'.intro[l][i] \in Event
    <3>1. q = p
      BY <2>1, <2>4 DEF OneWriter, InItem
    <3>2. run[p].intro \in Event
      BY <2>4, <3>1 DEF PostsCounted
    <3> QED
      BY <2>2, <2>4, <3>1, <3>2 DEF Event, Novelty
  <2>5. Accounted(l, i) => Accounted(l, i)'
    BY <2>3, <2>4 DEF Accounted
  <2> QED
    BY <1>5, <2>1, <2>5
<1>10. ASSUME NEW p \in Proc, ItemLost(p) \/ RaiseRun(p) \/ Crash(p) PROVE Balanced(l, i)'
  BY <1>6, <1>10 DEF ItemLost, FailItem, GiveUpItem, RaiseRun, Crash, Fault
<1>11. ASSUME NEW p \in Proc, NEW st \in {"FAILED", "ZERO_ITEMS"}, CollectNothing(p, st)
       PROVE  Balanced(l, i)'
  BY <1>6, <1>11 DEF CollectNothing, Fault
<1>12. ASSUME NEW p \in Proc, NEW slice, NEW fetched, Collect(p, slice, fetched)
       PROVE  Balanced(l, i)'
  <2>1. /\ posts' = posts /\ rows' = rows /\ pc[p] = "started"
        /\ faults' = faults \/ faults' = faults + 1
    BY <1>12, Zenon DEF Collect, Fault
  <2>2. \A q \in Proc : pc[q] = "sent" => pc'[q] = "sent" /\ run'[q] = run[q]
    BY <1>2, <1>12, <2>1 DEF Collect
  <2> QED
    BY <1>5, <1>6, <1>7, <2>1, <2>2
<1>13. ASSUME NEW p \in Proc, Start(p) \/ Overlap(p) \/ StartRun(p) \/ FinishRun(p) \/ Release(p)
       PROVE  Balanced(l, i)'
  <2>1. /\ posts' = posts /\ faults' = faults /\ pc[p] # "sent"
        /\ rows'.intro = rows.intro
    BY <1>2, <1>13 DEF Start, Begin, Overlap, StartRun, FinishRun, Release, Rows
  <2>2. \A q \in Proc : pc[q] = "sent" => pc'[q] = "sent" /\ run'[q] = run[q]
    BY <1>13, <2>1, OthersUntouched DEF Steps, RunStep
  <2> QED
    BY <1>5, <1>7, <2>1, <2>2
<1>14. ASSUME NEW p \in Proc, NEW j \in Item, NEW fresh \in BOOLEAN, OpenItem(p, j, fresh)
       PROVE  Balanced(l, i)'
  <2>1. /\ posts' = posts /\ faults' = faults /\ pc[p] # "sent" /\ rows' = rows
    BY <1>14, Zenon DEF OpenItem
  <2>2. Steps(p)
    BY <1>14 DEF Steps, RunStep, ItemStep
  <2>3. \A q \in Proc : pc[q] = "sent" => pc'[q] = "sent" /\ run'[q] = run[q]
    BY <2>1, <2>2, OthersUntouched
  <2> QED
    BY <1>5, <1>7, <2>1, <2>3
<1>15. CASE Environment \/ UNCHANGED vars
  BY <1>5, <1>7, <1>15, EnvironmentUntouched DEF vars
<1> QED
  BY <1>8, <1>9, <1>10, <1>11, <1>12, <1>13, <1>14, <1>15 DEF Next, RunStep, ItemStep, Collected

-----------------------------------------------------------------------------
(* The theorems *)

LEMMA InitIInv == Init => IInv
<1> SUFFICES ASSUME Init PROVE IInv
  OBVIOUS
<1> USE CatalogueAssumption
<1>1. \A p \in Proc : pc[p] = "idle" /\ run[p].item = NoItem
  BY DEF Init, Blank
<1>2. OneWriter
  BY <1>1 DEF Init, OneWriter, InItem
<1>3. GatesHold /\ VerdictHolds /\ SilenceHolds
  BY <1>1 DEF GatesHold, VerdictHolds, SilenceHolds, Running, InItem
<1>4. PostsCounted
  BY <1>1 DEF Init, PostsCounted
<1> QED
  BY <1>2, <1>3, <1>4, InitTypeOK DEF IInv

LEMMA NextIInv == IInv /\ [Next]_vars => IInv'
BY NextTypeOK, NextOneWriter, NextGatesHold, NextVerdictHolds, NextSilenceHolds, NextPostsCounted
   DEF IInv

LEMMA Invariance == Spec => []IInv
<1>1. Init => IInv
  BY InitIInv
<1>2. IInv /\ [Next]_vars => IInv'
  BY NextIInv
<1> QED
  BY <1>1, <1>2, PTL DEF Spec

LEMMA NextOneNovelty == IInv /\ OneNoveltyPerWatch /\ [Next]_vars => OneNoveltyPerWatch'
<1> SUFFICES ASSUME IInv, OneNoveltyPerWatch, [Next]_vars PROVE OneNoveltyPerWatch'
  OBVIOUS
<1> USE DEF IInv
<1>1. \A i : i \in announced => i \in announced'
  <2>1. ASSUME NEW p \in Proc, Steps(p) PROVE announced' = announced
    BY <2>1 DEF Steps, Start, Begin, RunStep, Overlap, StartRun, Collected, Collect,
                CollectNothing, ItemStep, OpenItem, Post, CommitItem, FinishRun, Release, ItemLost,
                FailItem, GiveUpItem, RaiseRun, Crash
  <2>2. CASE Environment \/ UNCHANGED vars
    BY <2>2 DEF Environment, Publish, Announce, StartBaseline, CompleteBaseline, vars
  <2> QED
    BY <2>1, <2>2 DEF Next, Steps
<1>2. CASE rows'.intro = rows.intro
  <2>1. \A m : Observed(m)' = Observed(m)
    BY <1>2 DEF Observed
  <2> QED
    BY <1>1, <1>2, <2>1 DEF OneNoveltyPerWatch
<1>3. ASSUME NEW p \in Proc, CommitItem(p) PROVE OneNoveltyPerWatch'
  <2> DEFINE l0 == Lane_(p)
             i0 == run[p].item
             v == run[p].intro
  <2>1. l0 \in Lane /\ i0 \in Item /\ pc[p] \in InItem
    BY <1>3, LaneOfRun DEF CommitItem, InItem, OneWriter
  <2>2. /\ v = "UNSEEN" <=> i0 \in Observed(l0)
        /\ v \in Novelty => ~Known(i0)
        /\ v = "NEW_REGION" => Known(i0) /\ RegionOf[l0] \notin ProductRegions(i0)
    BY <2>1 DEF VerdictHolds
  <2>3. \A l \in Lane, i \in Item :
           rows'.intro[l][i] = IF v # "UNSEEN" /\ l = l0 /\ i = i0 THEN v ELSE rows.intro[l][i]
    BY <1>3, CommittedIntro
  <2> HIDE DEF l0, i0, v
  <2>4. ASSUME NEW i \in Item, NEW l \in Lane, i \in Observed(l) PROVE i \in Observed(l)'
    BY <2>3, <2>4 DEF Observed
  <2>5. SUFFICES ASSUME NEW i \in Item
                 PROVE  /\ \A l, m \in Lane :
                              rows'.intro[l][i] \in Novelty /\ rows'.intro[m][i] \in Novelty => l = m
                        /\ \A l, m \in Lane :
                              /\ rows'.intro[l][i] = "NEW_REGION" /\ rows'.intro[m][i] \in Event
                              /\ RegionOf[l] = RegionOf[m]
                              => l = m
                        /\ \A l \in Lane : rows'.intro[l][i] = "NEW_REGION" =>
                              \/ i \in announced'
                              \/ \E m \in Lane : RegionOf[m] # RegionOf[l] /\ i \in Observed(m)'
    BY DEF OneNoveltyPerWatch
  <2>6. /\ \A l, m \in Lane :
              rows.intro[l][i] \in Novelty /\ rows.intro[m][i] \in Novelty => l = m
        /\ \A l, m \in Lane :
              /\ rows.intro[l][i] = "NEW_REGION" /\ rows.intro[m][i] \in Event
              /\ RegionOf[l] = RegionOf[m]
              => l = m
        /\ \A l \in Lane : rows.intro[l][i] = "NEW_REGION" =>
              i \in announced \/ \E m \in Lane : RegionOf[m] # RegionOf[l] /\ i \in Observed(m)
    BY DEF OneNoveltyPerWatch
  <2>7. CASE v = "UNSEEN" \/ i # i0
    <3>1. \A l \in Lane : rows'.intro[l][i] = rows.intro[l][i]
      BY <2>3, <2>7
    <3> QED
      BY <1>1, <2>4, <2>6, <3>1
  <2>8. CASE v # "UNSEEN" /\ i = i0
    <3>1. /\ rows'.intro[l0][i] = v
          /\ \A l \in Lane \ {l0} : rows'.intro[l][i] = rows.intro[l][i]
      BY <2>1, <2>3, <2>8
    <3>2. v \in Novelty => \A l \in Lane : rows.intro[l][i] = "UNSEEN"
      BY <2>2, <2>8 DEF Known, Observed
    <3>3. v = "NEW_REGION" => \A m \in Lane : RegionOf[m] = RegionOf[l0] => rows.intro[m][i] = "UNSEEN"
      BY <2>1, <2>2, <2>8 DEF ProductRegions, Observed
    <3>4. "UNSEEN" \notin Event /\ Novelty \subseteq Event /\ "NEW_REGION" \notin Novelty
      BY DEF Event, Novelty
    <3>5. \A l, m \in Lane :
             rows'.intro[l][i] \in Novelty /\ rows'.intro[m][i] \in Novelty => l = m
      BY <2>6, <3>1, <3>2, <3>4
    <3>6. ASSUME NEW l \in Lane, NEW m \in Lane, rows'.intro[l][i] = "NEW_REGION",
                 rows'.intro[m][i] \in Event, RegionOf[l] = RegionOf[m]
          PROVE  l = m
      <4>1. CASE l = l0
        BY <3>1, <3>3, <3>4, <3>6, <4>1
      <4>2. CASE l # l0 /\ m = l0
        <5>1. rows.intro[l][i] = "NEW_REGION" /\ v \in Event
          BY <3>1, <3>6, <4>2
        <5>2. v \in Novelty \/ v = "NEW_REGION"
          BY <5>1 DEF Event
        <5> QED
          BY <3>2, <3>3, <3>6, <4>2, <5>1, <5>2
      <4>3. CASE l # l0 /\ m # l0
        BY <2>6, <3>1, <3>6, <4>3
      <4> QED
        BY <4>1, <4>2, <4>3
    <3>7. ASSUME NEW l \in Lane, rows'.intro[l][i] = "NEW_REGION"
          PROVE  i \in announced' \/ \E m \in Lane : RegionOf[m] # RegionOf[l] /\ i \in Observed(m)'
      <4>1. CASE l = l0
        <5>1. Known(i) /\ RegionOf[l0] \notin ProductRegions(i)
          BY <2>2, <2>8, <3>1, <3>7, <4>1
        <5>2. i \in announced \/ \E m \in Lane : RegionOf[m] # RegionOf[l0] /\ i \in Observed(m)
          BY <5>1 DEF Known, ProductRegions
        <5> QED
          BY <1>1, <2>4, <4>1, <5>2
      <4>2. CASE l # l0
        BY <1>1, <2>4, <2>6, <3>1, <3>7, <4>2
      <4> QED
        BY <4>1, <4>2
    <3> QED
      BY <3>5, <3>6, <3>7
  <2> QED
    BY <2>7, <2>8
<1> QED
  BY <1>2, <1>3, OnlyCommitsIntroduce

(* However many lanes list a watch and however their runs interleave, it   *)
(* is announced as new by one lane, and in a market by one of its lanes.   *)
THEOREM AnnouncedOnce == Spec => []OneNoveltyPerWatch
<1>1. Init => OneNoveltyPerWatch
  BY DEF Init, OneNoveltyPerWatch, Novelty
<1>2. IInv /\ OneNoveltyPerWatch /\ [Next]_vars => OneNoveltyPerWatch'
  BY NextOneNovelty
<1> QED
  BY <1>1, <1>2, Invariance, PTL DEF Spec

(* The posts about a watch's introduction are those of its Event, plus one *)
(* for every item or process that was lost.                                *)
THEOREM PostsBounded == Spec => []PostsAreAccountedFor
<1>1. IInv => PostsAreAccountedFor
  <2> SUFFICES ASSUME IInv, NEW l \in Lane, NEW i \in Item
               PROVE  /\ posts[l][i] <= 1 + faults
                      /\ rows.intro[l][i] \in {"UNSEEN", "SILENT"} =>
                            \/ posts[l][i] <= faults
                            \/ \E p \in Proc : pc[p] = "sent" /\ run[p].item = i
    BY DEF PostsAreAccountedFor
  <2>1. posts[l][i] \in Nat /\ faults \in Nat
    BY CatalogueAssumption DEF IInv, TypeOK
  <2>2. posts[l][i] <= faults + (IF Accounted(l, i) THEN 1 ELSE 0)
    BY DEF IInv, PostsCounted
  <2>3. rows.intro[l][i] \in {"UNSEEN", "SILENT"} => rows.intro[l][i] \notin Event
    BY DEF Event, Novelty
  <2>4. CASE ~Accounted(l, i)
    BY <2>1, <2>2, <2>4
  <2>5. CASE Accounted(l, i)
    BY <2>1, <2>2, <2>3, <2>5 DEF Accounted
  <2> QED
    BY <2>4, <2>5
<1> QED
  BY <1>1, Invariance, PTL

(* No Event is recorded while a lane is being filled in, whatever the      *)
(* gates read before the lock have become by the time of the commit.       *)
THEOREM FillsSilently == Spec => SilentWhileFilling
<1>1. IInv /\ [Next]_vars =>
        \A p \in Proc, l \in Lane, i \in Item :
          Introduces(p, l, i) /\ rows'.intro[l][i] \in Event =>
             \/ run[p].fresh
             \/ /\ rows.history[l].done
                /\ epoch # "open"
                /\ run[p].invocation # "forced"
                /\ ~(FillActive(l) /\ run[p].unseen)
  <2> SUFFICES ASSUME IInv, [Next]_vars, NEW p \in Proc, NEW l \in Lane, NEW i \in Item,
                      Introduces(p, l, i), rows'.intro[l][i] \in Event
               PROVE  \/ run[p].fresh
                      \/ /\ rows.history[l].done
                         /\ epoch # "open"
                         /\ run[p].invocation # "forced"
                         /\ ~(FillActive(l) /\ run[p].unseen)
    OBVIOUS
  <2> USE DEF IInv
  <2>1. Lane_(p) = l /\ run[p].item = i /\ rows.intro[l][i] = "UNSEEN"
    BY DEF Introduces, Lane_
  <2>2. pc[p] \in InItem
    BY <2>1 DEF OneWriter
  <2>3. rows'.intro[l][i] # rows.intro[l][i]
    BY <2>1 DEF Event, Novelty
  <2>4. PICK q \in Proc : CommitItem(q)
    BY <2>3, OnlyCommitsIntroduce
  <2>5. q = p
    BY <2>2, <2>4 DEF OneWriter, CommitItem, InItem
  <2>6. rows'.intro[l][i] = run[p].intro
    BY <2>1, <2>3, <2>4, <2>5, CommittedIntro
  <2>7. \/ run[p].fresh
        \/ ~run[p].baseline /\ ~(run[p].fillGate /\ run[p].unseen) /\ epoch # "open"
    BY <2>2, <2>6 DEF SilenceHolds
  <2>8. /\ ~run[p].baseline => run[p].invocation # "forced" /\ rows.history[l].done
        /\ ~run[p].fillGate => ~FillActive(l)
    BY <2>1, <2>2 DEF GatesHold, InItem, Running
  <2> QED
    BY <2>7, <2>8, Zenon
<1> QED
  BY <1>1, Invariance, PTL DEF Spec, SilentWhileFilling

=============================================================================

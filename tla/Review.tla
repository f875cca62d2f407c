------------------------------- MODULE Review -------------------------------
(***************************************************************************)
(* The review desk (app/services/qc.py, the /api/qc handlers of            *)
(* app/main.py and the script of templates/intelligence.html): the queue   *)
(* of unreviewed items an operator pages through, the verdicts, their      *)
(* corrections, the history of reviews it corrects them from, and what the *)
(* pipeline remembers of them.                                             *)
(*                                                                         *)
(* Items are official Events or specialist leads; a lead queue is the      *)
(* instance in which every item has the same tier and none is weak.  Items *)
(* are numbered in the order of their ids, and so are reviews: the id of a *)
(* review is its place in order.  Pages are unfiltered, and an operator    *)
(* has one page open.  Verdicts of one item are first given in different   *)
(* seconds, so that reviewed_at orders them.                               *)
(***************************************************************************)
EXTENDS Naturals, Sequences, SequencesExt, FiniteSets

CONSTANTS Operator,
          Reader,      \* operators who work from a page
          Items,       \* bound of the model: how many items there are
          Reference, ReferenceOf,
          Tier,        \* _QUEUE_PRIORITY_TIER of each item
          Weak,        \* items of a weak repeat class
          Faint,       \* first sightings hidden without any review
          Verdict, Negative,
          PageSize,
          MaxVerdicts  \* bound of the model: verdicts about one item

Item == 1..Items

ASSUME ReviewAssumption ==
    /\ Items \in Nat /\ PageSize \in Nat \ {0} /\ MaxVerdicts \in Nat
    /\ ReferenceOf \in [Item -> Reference] /\ Tier \in [Item -> 0..3]
    /\ Weak \subseteq Item /\ Faint \subseteq Item
    /\ Negative \subseteq Verdict /\ "none" \notin Verdict
    /\ Reader \subseteq Operator

VARIABLES known,    \* items created so far
          hidden,   \* those flagged human_qc_deprioritized
          review,   \* the review row of each item
          order,    \* reviewed items, in the order of reviewed_at
          given,    \* the verdicts the desk has acknowledged for each item
          request,  \* the submission an operator waits for
          view,     \* which page an operator has open
          rows, cursor, button, \* and what is on it
          missing   \* listed when the page was loaded, and not shown since

vars == <<known, hidden, review, order, given, request, view, rows, cursor, button, missing>>
page == <<view, rows, cursor, button, missing>>

NoReview == [verdict |-> "none", history |-> <<>>]
Reviewed(e) == review[e] # NoReview

NoRequest == [item |-> 0, verdict |-> "none", base |-> NoReview, row |-> FALSE]

(* The queue, the history, the history with include_corrected.             *)
View == {"queue", "history", "all"}

Row == [verdict : Verdict \union {"none"}, history : Seq(Verdict)]

Request == [item : 0..Items, verdict : Verdict \union {"none"}, base : Row, row : BOOLEAN]

DeskTyped ==
    /\ known \in 0..Items
    /\ hidden \subseteq 1..known
    /\ review \in [Item -> Row]
    /\ order \in Seq(Item) /\ ToSet(order) = {e \in Item : Reviewed(e)} /\ IsInjective(order)
    /\ given \in [Item -> Seq(Verdict)]
    /\ request \in [Operator -> Request]

TypeOK ==
    /\ DeskTyped
    /\ view \in [Operator -> View] /\ rows \in [Operator -> Seq(Item)]
    /\ cursor \in [Operator -> 0..Items] /\ button \in [Operator -> BOOLEAN]
    /\ missing \in [Operator -> SUBSET Item]

Init ==
    /\ known = 0 /\ hidden = {}
    /\ review = [e \in Item |-> NoReview] /\ order = <<>>
    /\ given = [e \in Item |-> <<>>]
    /\ request = [o \in Operator |-> NoRequest]
    /\ view = [o \in Operator |-> "queue"]
    /\ rows = [o \in Operator |-> <<>>] /\ cursor = [o \in Operator |-> 0]
    /\ button = [o \in Operator |-> FALSE]
    /\ missing = [o \in Operator |-> {}]

-----------------------------------------------------------------------------
(* What the pipeline remembers *)

(* prior_reviews_for_reference: ids of the reviews of a reference's items. *)
Prior(r) == {n \in DOMAIN order : ReferenceOf[order[n]] = r}

Deprioritize_AnyClass(e) ==
    \E n \in Prior(ReferenceOf[e]) :
        /\ \A m \in Prior(ReferenceOf[e]) : m <= n
        /\ review[order[n]].verdict \in Negative

(* qc_memory_context: the review that was opened last, with the verdict it *)
(* has now.                                                                *)
Deprioritize(e) ==
    /\ e \in Weak
    /\ \E n \in Prior(ReferenceOf[e]) :
          /\ \A m \in Prior(ReferenceOf[e]) : m <= n
          /\ review[order[n]].verdict \in Negative

(* _persist_product_event creates the next item, hidden or not.            *)
Create ==
    /\ known < Items
    /\ known' = known + 1
    /\ hidden' = IF Deprioritize(known + 1) \/ known + 1 \in Faint
                 THEN hidden \union {known + 1} ELSE hidden
    /\ UNCHANGED <<review, order, given, request, page>>

-----------------------------------------------------------------------------
(* The queue *)

Unreviewed == {e \in 1..known : ~Reviewed(e) /\ e \notin hidden}

Before(d, e) == Tier[d] < Tier[e] \/ (Tier[d] = Tier[e] /\ d > e)

AfterCursor_Skips(e, before) == before = 0 \/ e + 1 < before
AfterCursor(e, before) == before = 0 \/ e < before

(* The elements of S one after another: each is preceded by those before.  *)
Sorted(S, Precedes(_, _)) ==
    [n \in 1..Cardinality(S) |->
        CHOOSE e \in S : Cardinality({d \in S : Precedes(d, e)}) = n - 1]

First(s, limit) == SubSeq(s, 1, IF Len(s) < limit THEN Len(s) ELSE limit)

(* fetch_queue_page; a cursor of 0 is none.                                *)
Page(before, limit) ==
    First(Sorted({e \in Unreviewed : AfterCursor(e, before)}, Before), limit)

NextCursor(items, limit) == IF Len(items) = limit THEN Last(items) ELSE 0

Show(o, items, next) ==
    /\ rows' = [rows EXCEPT ![o] = items]
    /\ cursor' = [cursor EXCEPT ![o] = next]
    /\ button' = [button EXCEPT ![o] = next # 0]

(* The operator opens /intelligence.                                       *)
Open(o) ==
    LET items == Page(0, PageSize)
    IN  /\ o \in Reader /\ request[o] = NoRequest
        /\ Show(o, items, NextCursor(items, PageSize))
        /\ view' = [view EXCEPT ![o] = "queue"]
        /\ missing' = [missing EXCEPT ![o] = Unreviewed \ ToSet(items)]
        /\ UNCHANGED <<known, hidden, review, order, given, request>>

(* "Load more".                                                            *)
More(o) ==
    LET items == Page(cursor[o], PageSize)
    IN  /\ view[o] = "queue" /\ button[o] /\ request[o] = NoRequest
        /\ Show(o, rows[o] \o items, NextCursor(items, PageSize))
        /\ missing' = [missing EXCEPT ![o] = @ \ ToSet(items)]
        /\ UNCHANGED <<known, hidden, review, order, given, request, view>>

(* fetchOneMore: one row below the last one in place of a reviewed one; it *)
(* shows or hides the button and leaves its cursor.                        *)
Replace(o) ==
    LET items == Page(IF rows[o] = <<>> THEN 0 ELSE Last(rows[o]), 1)
    IN  /\ rows' = [rows EXCEPT ![o] = @ \o items]
        /\ button' = [button EXCEPT ![o] = items # <<>>]
        /\ missing' = [missing EXCEPT ![o] = @ \ ToSet(items)]
        /\ UNCHANGED <<view, cursor>>

-----------------------------------------------------------------------------
(* The history of reviews *)

(* A review that was corrected leaves the history that is shown by         *)
(* default: that is a queue of verdicts which may still need correction.   *)
Listed(v, n) == v = "all" \/ review[order[n]].history = <<>>

Newer(m, n) == m > n

(* fetch_history_page: ids of reviews, newest first.                       *)
History(v, before, limit) ==
    First(Sorted({n \in DOMAIN order : Listed(v, n) /\ AfterCursor(n, before)}, Newer),
          limit)

ShowHistory(o, shown, ids, limit) ==
    LET items == [n \in DOMAIN ids |-> order[ids[n]]]
    IN  /\ Show(o, shown \o items, NextCursor(ids, limit))
        /\ missing' = [missing EXCEPT ![o] = @ \ ToSet(items)]

(* The operator opens /qc/history.                                         *)
OpenHistory(o, v) ==
    LET ids == History(v, 0, PageSize)
        items == {order[n] : n \in ToSet(ids)}
    IN  /\ o \in Reader /\ request[o] = NoRequest /\ v # "queue"
        /\ Show(o, [n \in DOMAIN ids |-> order[ids[n]]], NextCursor(ids, PageSize))
        /\ view' = [view EXCEPT ![o] = v]
        /\ missing' = [missing EXCEPT ![o] =
               {order[n] : n \in {m \in DOMAIN order : Listed(v, m)}} \ items]
        /\ UNCHANGED <<known, hidden, review, order, given, request>>

(* "Load more".                                                            *)
MoreHistory(o) ==
    /\ view[o] # "queue" /\ button[o] /\ request[o] = NoRequest
    /\ ShowHistory(o, rows[o], History(view[o], cursor[o], PageSize), PageSize)
    /\ UNCHANGED <<known, hidden, review, order, given, request, view>>

(* fetchOneMore of this page goes on from the cursor and moves it.         *)
ReplaceHistory(o) ==
    /\ IF cursor[o] = 0 THEN UNCHANGED <<rows, cursor, button, missing>>
       ELSE ShowHistory(o, rows[o], History(view[o], cursor[o], 1), 1)
    /\ UNCHANGED view

-----------------------------------------------------------------------------
(* Verdicts *)

(* An operator gives a verdict about a row of the page, or elsewhere (a    *)
(* filtered page, include_deprioritized): any item that exists is taken.   *)
(* The request reads the review that is on file.                           *)
Submit(o, e, v, fromRow) ==
    /\ request[o] = NoRequest
    /\ e \in 1..known
    /\ fromRow => e \in ToSet(rows[o])
    /\ Len(given[e]) + Cardinality({p \in Operator : request[p].item = e}) < MaxVerdicts
    /\ request' = [request EXCEPT ![o] =
           [item |-> e, verdict |-> v, base |-> review[e], row |-> fromRow]]
    /\ UNCHANGED <<known, hidden, review, order, given, page>>

Corrected_Silently(base, v) == [verdict |-> v, history |-> base.history]

(* The row as a request that read base overwrites it.                      *)
Corrected(base, v) == [verdict |-> v, history |-> Append(base.history, base.verdict)]

(* A request is answered and its row taken off the page, unless the page   *)
(* shows corrected reviews too.                                            *)
Answer(o) ==
    LET e == request[o].item
        off == request[o].row /\ view[o] # "all"
    IN  /\ given' = [given EXCEPT ![e] = Append(@, request[o].verdict)]
        /\ request' = [request EXCEPT ![o] = [NoRequest EXCEPT !.row = off]]
        /\ rows' = [rows EXCEPT ![o] = IF off THEN RemoveFirst(@, e) ELSE @]
        /\ UNCHANGED <<known, hidden, view, cursor, button>>

Vacant_Always(e) == TRUE
Vacant(e) == ~Reviewed(e)  \* uq_event_review_event_id

(* The first verdict about an item.                                        *)
File(o) ==
    LET e == request[o].item IN
    /\ e # 0 /\ request[o].base = NoReview /\ Vacant(e)
    /\ review' = [review EXCEPT ![e] = [verdict |-> request[o].verdict, history |-> <<>>]]
    /\ order' = Append(order, e)
    /\ missing' = [p \in Operator |-> missing[p] \ {e}]
    /\ Answer(o)

(* Another submission was faster: the INSERT is rolled back and the        *)
(* verdict applied as a correction of what is on file now.                 *)
Retry(o) ==
    LET e == request[o].item IN
    /\ e # 0 /\ request[o].base = NoReview /\ Reviewed(e)
    /\ request' = [request EXCEPT ![o].base = review[e]]
    /\ UNCHANGED <<known, hidden, review, order, given, page>>

Correct(o) ==
    LET e == request[o].item
        base == request[o].base
    IN  /\ e # 0 /\ base # NoReview
        /\ review' = IF base.verdict = request[o].verdict THEN review
                     ELSE [review EXCEPT ![e] = Corrected(base, request[o].verdict)]
        /\ missing' = [p \in Operator |-> IF view[p] = "all" \/ review' = review
                                         THEN missing[p] ELSE missing[p] \ {e}]
        /\ Answer(o)
        /\ UNCHANGED order

(* The script asks for the replacement of the row it took off.             *)
Refill(o) ==
    /\ request[o].item = 0 /\ request[o].row
    /\ request' = [request EXCEPT ![o] = NoRequest]
    /\ IF view[o] = "queue" THEN Replace(o) ELSE ReplaceHistory(o)
    /\ UNCHANGED <<known, hidden, review, order, given>>

Next ==
    \/ Create
    \/ \E o \in Operator :
           \/ Open(o) \/ More(o) \/ MoreHistory(o) \/ (\E v \in View : OpenHistory(o, v))
           \/ File(o) \/ Retry(o) \/ Correct(o) \/ Refill(o)
           \/ \E e \in Item, v \in Verdict, fromRow \in BOOLEAN : Submit(o, e, v, fromRow)

Spec == Init /\ [][Next]_vars

-----------------------------------------------------------------------------
(* Properties *)

(* The verdict an item was first given, as the review row records it.      *)
Original(row) == Head(Append(row.history, row.verdict))

(* The first verdict about an item stays on record through every race of   *)
(* corrections, and the item never returns to the queue (qc.py: a second   *)
(* submission never creates a duplicate row, the prior verdict is appended *)
(* before being overwritten).                                              *)
OriginalVerdictKept ==
    [][\A e \in Item : Reviewed(e) =>
           /\ Reviewed(e)'
           /\ Original(review'[e]) = Original(review[e])]_vars

OnRecord(e) == {review[e].verdict} \union ToSet(review[e].history)

(* Two verdicts about one item are both on record, however their requests  *)
(* overlapped (submit_review's recovery from the duplicate INSERT).        *)
RacersAreRecorded ==
    \A e \in Item : Len(given[e]) <= 2 => ToSet(given[e]) \subseteq OnRecord(e)

(* An item is kept out of the default queue only if it is a faint first    *)
(* sighting or the weak repeat of a reference of which an operator has     *)
(* rejected an older item (HUMAN_QC_FEEDBACK_CONTRACT.md: never a          *)
(* blacklist of a reference).                                              *)
RecallFirst ==
    \A e \in hidden :
        \/ e \in Faint
        \/ e \in Weak /\ \E d \in 1..(e - 1) :
               ReferenceOf[d] = ReferenceOf[e] /\ ToSet(given[d]) \cap Negative # {}

(* An operator who has come to the end of a page has been shown every item *)
(* that was queued when it was opened and is not reviewed yet, or every    *)
(* review the history listed then that was not corrected since, whatever   *)
(* was reviewed and corrected between two pages                            *)
(* (test_entire_queue_traversable_beyond_page_limit).                      *)
PagesAreTraversable ==
    \A o \in Operator : ~button[o] => missing[o] = {}
=============================================================================

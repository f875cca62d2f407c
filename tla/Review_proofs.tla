---------------------------- MODULE Review_proofs ----------------------------
(***************************************************************************)
(* Proofs about the desk of Review for any operators, items, references,    *)
(* tiers, page size, verdicts and number of verdicts about one item.  IInv  *)
(* is the inductive invariant of the desk, PInv that of the pages.          *)
(***************************************************************************)
EXTENDS Review, SequenceTheorems, FiniteSetTheorems, WellFoundedInduction, TLAPS

\* An item is reviewed once a verdict about it was acknowledged, its verdict is
\* one of those that were, and nothing is reviewed before it exists.
Filed ==
    \A e \in Item :
        /\ Reviewed(e) <=> given[e] # <<>>
        /\ Reviewed(e) => review[e].verdict \in ToSet(given[e]) /\ e <= known

\* A submission is about an item that exists, and the review it read is one of
\* that item, with the same verdict first.
Informed ==
    \A o \in Operator : request[o].item # 0 =>
        /\ request[o].verdict \in Verdict
        /\ request[o].item <= known
        /\ request[o].base # NoReview =>
               /\ Reviewed(request[o].item)
               /\ request[o].base.verdict \in Verdict
               /\ Original(request[o].base) = Original(review[request[o].item])

\* After one verdict about an item every submission has read that review, if
\* any; after two, both are on record.
Races ==
    \A e \in Item :
        /\ Len(given[e]) = 1 =>
               /\ review[e] = [verdict |-> given[e][1], history |-> <<>>]
               /\ \A o \in Operator : request[o].item = e => request[o].base \in {NoReview, review[e]}
        /\ Len(given[e]) = 2 => ToSet(given[e]) \subseteq OnRecord(e)

IInv == DeskTyped /\ Filed /\ Informed /\ Races /\ RecallFirst

-----------------------------------------------------------------------------
(***************************************************************************)
(* Verdicts and rows                                                        *)
(***************************************************************************)
LEMMA ToSetAppend ==
    ASSUME NEW S, NEW s \in Seq(S), NEW x \in S
    PROVE  ToSet(Append(s, x)) = ToSet(s) \union {x}
<1>1. /\ DOMAIN Append(s, x) = 1..(Len(s) + 1) /\ DOMAIN s = 1..Len(s)
      /\ \A n \in 1..Len(s) : Append(s, x)[n] = s[n]
      /\ Append(s, x)[Len(s) + 1] = x /\ Len(s) \in Nat
  BY AppendProperties, LenProperties
<1>2. ASSUME NEW y PROVE y \in ToSet(Append(s, x)) <=> y \in ToSet(s) \union {x}
  <2>1. ASSUME y \in ToSet(Append(s, x)) PROVE y \in ToSet(s) \union {x}
    <3>1. PICK n \in 1..(Len(s) + 1) : y = Append(s, x)[n]
      BY <1>1, <2>1 DEF ToSet
    <3> QED
      BY <1>1, <3>1 DEF ToSet
  <2>2. ASSUME y \in ToSet(s) PROVE y \in ToSet(Append(s, x))
    <3>1. PICK n \in 1..Len(s) : y = s[n]
      BY <1>1, <2>2 DEF ToSet
    <3> QED
      BY <1>1, <3>1 DEF ToSet
  <2>3. x \in ToSet(Append(s, x))
    BY <1>1 DEF ToSet
  <2> QED
    BY <2>1, <2>2, <2>3
<1> QED
  BY <1>2

LEMMA UpToTwo ==
    \A n \in Nat : /\ n <= 2 => n \in {0, 1, 2}
                   /\ n + 1 = 2 => n = 1
OBVIOUS

LEMMA Constants ==
    /\ Items \in Nat /\ Weak \subseteq Item /\ Faint \subseteq Item
    /\ Negative \subseteq Verdict /\ "none" \notin Verdict
    /\ 0 \notin Item /\ Item \subseteq Nat /\ Item \subseteq 0..Items
BY ReviewAssumption DEF Item

LEMMA NoReviewTyped ==
    /\ NoReview \in Row /\ NoRequest \in Request
    /\ NoRequest.item = 0
    /\ \A off \in BOOLEAN : [NoRequest EXCEPT !.row = off] \in Request
                            /\ [NoRequest EXCEPT !.row = off].item = 0
<1>1. NoReview \in Row
  BY DEF NoReview, Row
<1>2. 0 \in 0..Items
  BY Constants
<1> QED
  BY <1>1, <1>2 DEF NoRequest, Request

\* The first verdict of a row is that of every row written over it.
LEMMA CorrectedFacts ==
    ASSUME NEW base \in Row, base.verdict \in Verdict, NEW v \in Verdict
    PROVE  /\ Corrected(base, v) \in Row
           /\ Corrected(base, v) # NoReview
           /\ Corrected(base, v).verdict = v
           /\ base.verdict \in ToSet(Corrected(base, v).history)
           /\ Original(Corrected(base, v)) = Original(base)
<1> DEFINE h == Append(base.history, base.verdict)
<1>1. base.history \in Seq(Verdict)
  BY DEF Row
<1>2. h \in Seq(Verdict) /\ Len(h) > 0 /\ base.verdict \in ToSet(h)
  BY <1>1, ToSetAppend
<1>3. Head(Append(h, v)) = Head(h)
  BY <1>2
<1>4. Corrected(base, v) = [verdict |-> v, history |-> h]
  BY DEF Corrected
<1> QED
  BY <1>2, <1>3, <1>4, Constants DEF Row, NoReview, Original

LEMMA FirstFacts ==
    ASSUME NEW v \in Verdict
    PROVE  /\ [verdict |-> v, history |-> <<>>] \in Row
           /\ [verdict |-> v, history |-> <<>>] # NoReview
BY Constants DEF Row, NoReview

-----------------------------------------------------------------------------
LEMMA InitIInv == Init => IInv
<1> SUFFICES ASSUME Init PROVE IInv
  OBVIOUS
<1>1. DeskTyped
  BY Constants, NoReviewTyped DEF Init, DeskTyped, Reviewed, ToSet, IsInjective
<1>2. Filed /\ Races
  BY DEF Init, Filed, Races, Reviewed
<1>3. Informed
  BY NoReviewTyped DEF Init, Informed
<1>4. RecallFirst
  BY DEF Init, RecallFirst
<1> QED
  BY <1>1, <1>2, <1>3, <1>4 DEF IInv

-----------------------------------------------------------------------------
(***************************************************************************)
(* The pipeline, and the pages                                              *)
(***************************************************************************)
LEMMA CreateIInv ==
    ASSUME IInv, Create
    PROVE  IInv'
<1>1. DeskTyped /\ Filed /\ RecallFirst /\ known < Items /\ known' = known + 1
      /\ UNCHANGED <<review, order, given, request>>
  BY DEF IInv, Create
<1>2. known \in Nat /\ known + 1 \in Item /\ known' \in 0..Items
  BY <1>1, Constants DEF DeskTyped, Item
<1>3. hidden' \subseteq 1..known' /\ hidden' \subseteq hidden \union {known + 1}
  BY <1>1, <1>2 DEF DeskTyped, Create
<1>4. DeskTyped' /\ Filed' /\ Races'
  <2>1. DeskTyped'
    BY <1>1, <1>2, <1>3 DEF DeskTyped, Reviewed
  <2>2. Filed'
    <3>1. \A e \in Item : e <= known => e <= known'
      BY <1>1, <1>2, Constants
    <3> QED
      BY <1>1, <3>1 DEF Filed, Reviewed
  <2>3. Races'
    BY <1>1 DEF IInv, Races, OnRecord
  <2> QED
    BY <2>1, <2>2, <2>3
<1>5. Informed'
  <2> SUFFICES ASSUME NEW o \in Operator, request[o].item # 0
               PROVE  Informed!(o)!2'
    BY <1>1 DEF Informed
  <2>1. request[o].item \in Nat
    BY <1>1, Constants DEF DeskTyped, Request
  <2> QED
    BY <1>1, <1>2, <2>1 DEF IInv, Informed, Reviewed
<1>6. ASSUME NEW e \in hidden'
      PROVE  \/ e \in Faint
             \/ e \in Weak /\ \E d \in 1..(e - 1) :
                    ReferenceOf[d] = ReferenceOf[e] /\ ToSet(given[d]) \cap Negative # {}
  <2>1. CASE e \in hidden
    BY <1>1, <2>1 DEF RecallFirst
  <2>2. CASE e = known + 1 /\ e \notin Faint /\ e \notin hidden
    <3>1. Deprioritize(e)
      BY <1>6, <2>2 DEF Create
    <3>2. PICK n \in DOMAIN order : ReferenceOf[order[n]] = ReferenceOf[e]
                                    /\ review[order[n]].verdict \in Negative
      BY <3>1 DEF Deprioritize, Prior
    <3>3. order[n] \in Item /\ Reviewed(order[n])
      BY <1>1, <3>2 DEF DeskTyped, ToSet
    <3>4. order[n] <= known /\ review[order[n]].verdict \in ToSet(given[order[n]])
      BY <1>1, <3>3 DEF Filed
    <3>5. order[n] \in 1..(e - 1)
      BY <1>2, <2>2, <3>3, <3>4 DEF Item
    <3> QED
      BY <3>1, <3>2, <3>4, <3>5 DEF Deprioritize
  <2> QED
    BY <1>3, <1>6, <2>1, <2>2
<1>7. RecallFirst'
  BY <1>1, <1>6 DEF RecallFirst
<1> QED
  BY <1>4, <1>5, <1>7 DEF IInv

LEMMA PagesIInv ==
    ASSUME IInv, UNCHANGED <<known, hidden, review, order, given, request>>
    PROVE  IInv'
BY DEF IInv, DeskTyped, Filed, Informed, Races, RecallFirst, Reviewed, OnRecord

\* A submission that reads a review of its item as it is on file changes
\* nothing that was said of the others.
LEMMA ReadIInv ==
    ASSUME IInv, NEW o \in Operator, NEW q \in Request,
           request' = [request EXCEPT ![o] = q],
           UNCHANGED <<known, hidden, review, order, given>>,
           q.item # 0 => /\ q.verdict \in Verdict /\ q.item <= known
                         /\ q.base = review[q.item]
    PROVE  IInv'
<1>1. DeskTyped /\ Filed /\ Informed /\ Races /\ RecallFirst
  BY DEF IInv
<1>2. request' \in [Operator -> Request] /\ \A p \in Operator : request'[p] = IF p = o THEN q ELSE request[p]
  BY <1>1 DEF DeskTyped
<1>3. DeskTyped' /\ Filed' /\ RecallFirst'
  BY <1>1, <1>2 DEF DeskTyped, Filed, RecallFirst, Reviewed
<1>4. ASSUME q.item # 0, q.base # NoReview
      PROVE  Reviewed(q.item) /\ q.base.verdict \in Verdict
  <2>1. q.item \in Item
    BY <1>4, Constants DEF Request, Item
  <2>2. Reviewed(q.item) /\ q.base.verdict \in ToSet(given[q.item])
    BY <1>1, <1>4, <2>1 DEF Filed, Reviewed
  <2>3. given[q.item] \in Seq(Verdict)
    BY <1>1, <2>1 DEF DeskTyped
  <2> QED
    BY <2>2, <2>3 DEF ToSet
<1>5. Informed'
  <2> SUFFICES ASSUME NEW p \in Operator, request'[p].item # 0
               PROVE  Informed!(p)!2'
    BY DEF Informed
  <2>1. CASE p = o
    BY <1>2, <1>4, <2>1 DEF Reviewed
  <2>2. CASE p # o
    BY <1>1, <1>2, <2>2 DEF Informed, Reviewed
  <2> QED
    BY <2>1, <2>2
<1>6. Races'
  BY <1>1, <1>2, Constants DEF Races, OnRecord
<1> QED
  BY <1>3, <1>5, <1>6 DEF IInv

LEMMA SubmitIInv ==
    ASSUME IInv, NEW o \in Operator, NEW e \in Item, NEW v \in Verdict, NEW fromRow \in BOOLEAN,
           Submit(o, e, v, fromRow)
    PROVE  IInv'
<1> DEFINE q == [item |-> e, verdict |-> v, base |-> review[e], row |-> fromRow]
<1>1. q \in Request
  BY Constants DEF IInv, DeskTyped, Request
<1>2. e <= known
  BY DEF Submit, IInv, DeskTyped
<1>3. request' = [request EXCEPT ![o] = q] /\ UNCHANGED <<known, hidden, review, order, given>>
  BY DEF Submit
<1> QED
  BY <1>1, <1>2, <1>3, ReadIInv

LEMMA RetryIInv ==
    ASSUME IInv, NEW o \in Operator, Retry(o)
    PROVE  IInv'
<1> DEFINE q == [request[o] EXCEPT !.base = review[request[o].item]]
<1>1. request[o] \in Request /\ request[o].item \in Item
  BY Constants DEF IInv, DeskTyped, Request, Retry, Item
<1>2. q \in Request /\ q.item = request[o].item /\ q.verdict = request[o].verdict
      /\ q.base = review[q.item]
  BY <1>1 DEF IInv, DeskTyped, Request
<1>3. q.verdict \in Verdict /\ q.item <= known
  BY <1>2 DEF IInv, Informed, Retry
<1>4. request' = [request EXCEPT ![o] = q] /\ UNCHANGED <<known, hidden, review, order, given>>
  BY DEF Retry
<1> QED
  BY <1>2, <1>3, <1>4, ReadIInv

LEMMA RefillIInv ==
    ASSUME IInv, NEW o \in Operator, Refill(o)
    PROVE  IInv'
<1>1. request' = [request EXCEPT ![o] = NoRequest] /\ UNCHANGED <<known, hidden, review, order, given>>
  BY DEF Refill
<1> QED
  BY <1>1, NoReviewTyped, ReadIInv

-----------------------------------------------------------------------------
(***************************************************************************)
(* A verdict is written                                                     *)
(***************************************************************************)

\* What the answer to a submission does, whatever was written of its review.
Answered(o, e, v) ==
    /\ e \in Item /\ e <= known /\ v \in Verdict
    /\ given' \in [Item -> Seq(Verdict)]
    /\ given'[e] = Append(given[e], v)
    /\ ToSet(given'[e]) = ToSet(given[e]) \union {v}
    /\ Len(given'[e]) = Len(given[e]) + 1
    /\ given'[e] # <<>>
    /\ \A d \in Item : d # e => given'[d] = given[d]
    /\ \A d \in Item : ToSet(given[d]) \subseteq ToSet(given'[d])
    /\ request' \in [Operator -> Request]
    /\ \A p \in Operator : request'[p].item # 0 => p # o /\ request'[p] = request[p]
    /\ UNCHANGED <<known, hidden>>

LEMMA AnswerFacts ==
    ASSUME IInv, NEW o \in Operator, request[o].item # 0, Answer(o)
    PROVE  Answered(o, request[o].item, request[o].verdict)
<1> DEFINE e == request[o].item
           v == request[o].verdict
<1>1. e \in Item /\ e <= known /\ v \in Verdict /\ DeskTyped
  BY Constants DEF IInv, DeskTyped, Request, Informed, Item
<1>2. given[e] \in Seq(Verdict) /\ given \in [Item -> Seq(Verdict)]
      /\ request \in [Operator -> Request]
  BY <1>1 DEF DeskTyped
<1>3. given' = [given EXCEPT ![e] = Append(@, v)] /\ UNCHANGED <<known, hidden>>
  BY DEF Answer
<1>4. given'[e] = Append(given[e], v) /\ \A d \in Item : d # e => given'[d] = given[d]
  BY <1>1, <1>2, <1>3
<1>5. ToSet(given'[e]) = ToSet(given[e]) \union {v} /\ Len(given'[e]) = Len(given[e]) + 1
      /\ given'[e] \in Seq(Verdict) /\ given'[e] # <<>>
  <2>1. ToSet(Append(given[e], v)) = ToSet(given[e]) \union {v}
    BY <1>1, <1>2, ToSetAppend
  <2>2. Len(Append(given[e], v)) = Len(given[e]) + 1 /\ Append(given[e], v) \in Seq(Verdict)
        /\ Append(given[e], v) # <<>>
    BY <1>1, <1>2, AppendProperties
  <2> QED
    BY <1>4, <2>1, <2>2
<1>6. given' \in [Item -> Seq(Verdict)]
  BY <1>1, <1>2, <1>3, <1>5
<1>7. \A d \in Item : ToSet(given[d]) \subseteq ToSet(given'[d])
  BY <1>4, <1>5
<1>8. PICK off \in BOOLEAN : request' = [request EXCEPT ![o] = [NoRequest EXCEPT !.row = off]]
  <2>1. (request[o].row /\ view[o] # "all") \in BOOLEAN
    OBVIOUS
  <2> QED
    BY <2>1 DEF Answer
<1>9. request' \in [Operator -> Request]
      /\ \A p \in Operator : request'[p].item # 0 => p # o /\ request'[p] = request[p]
  BY <1>2, <1>8, NoReviewTyped
<1> QED
  BY <1>1, <1>3, <1>4, <1>5, <1>6, <1>7, <1>9 DEF Answered

LEMMA AnsweredRecall ==
    ASSUME IInv, hidden' = hidden,
           \A d \in Item : ToSet(given[d]) \subseteq ToSet(given'[d])
    PROVE  RecallFirst'
<1> SUFFICES ASSUME NEW e \in hidden, e \notin Faint
             PROVE  e \in Weak /\ \E d \in 1..(e - 1) :
                        ReferenceOf[d] = ReferenceOf[e] /\ ToSet(given'[d]) \cap Negative # {}
  BY DEF RecallFirst
<1>1. e \in Item
  BY Constants DEF IInv, DeskTyped, Item
<1>2. e \in Weak
  BY DEF IInv, RecallFirst
<1>3. PICK d \in 1..(e - 1) :
          ReferenceOf[d] = ReferenceOf[e] /\ ToSet(given[d]) \cap Negative # {}
  BY DEF IInv, RecallFirst
<1>4. d \in Item
  BY <1>1, <1>3, Constants DEF Item
<1> QED
  BY <1>2, <1>3, <1>4

LEMMA FileIInv ==
    ASSUME IInv, NEW o \in Operator, File(o)
    PROVE  IInv'
<1> DEFINE e == request[o].item
           v == request[o].verdict
           first == [verdict |-> v, history |-> <<>>]
<1>1. e # 0 /\ request[o].base = NoReview /\ ~Reviewed(e) /\ Answer(o)
      /\ review' = [review EXCEPT ![e] = first] /\ order' = Append(order, e)
  BY DEF File, Vacant
<1>2. Answered(o, e, v)
  BY <1>1, AnswerFacts
<1>3. DeskTyped /\ Filed /\ Informed /\ Races
  BY DEF IInv
<1>4. e \in Item /\ v \in Verdict /\ first \in Row /\ first # NoReview
  BY <1>2, FirstFacts DEF Answered
<1>5. review' \in [Item -> Row] /\ review'[e] = first
      /\ \A d \in Item : d # e => review'[d] = review[d] /\ given'[d] = given[d]
  BY <1>1, <1>2, <1>3, <1>4 DEF DeskTyped, Answered
<1> HIDE DEF e, v, first
<1>6. given[e] = <<>> /\ given'[e] = <<v>> /\ Len(given'[e]) = 1
  <2>1. given[e] = <<>>
    BY <1>1, <1>3, <1>4 DEF Filed
  <2> QED
    BY <1>2, <1>4, <2>1 DEF Answered
<1>7. order' \in Seq(Item) /\ ToSet(order') = {d \in Item : Reviewed(d)'} /\ IsInjective(order')
  <2>1. order \in Seq(Item) /\ ToSet(order) = {d \in Item : Reviewed(d)} /\ IsInjective(order)
    BY <1>3 DEF DeskTyped
  <2>2. order' \in Seq(Item) /\ ToSet(order') = ToSet(order) \union {e} /\ e \notin ToSet(order)
    BY <1>1, <1>4, <2>1, ToSetAppend
  <2>3. \A d \in Item : Reviewed(d)' <=> d = e \/ Reviewed(d)
    BY <1>4, <1>5 DEF Reviewed
  <2>4. IsInjective(order')
    <3>1. /\ DOMAIN order' = 1..(Len(order) + 1) /\ DOMAIN order = 1..Len(order)
          /\ \A n \in 1..Len(order) : order'[n] = order[n]
          /\ order'[Len(order) + 1] = e /\ Len(order) \in Nat
      BY <1>1, <1>4, <2>1, AppendProperties, LenProperties
    <3>2. \A n \in 1..Len(order) : order[n] # e
      BY <2>2, <3>1 DEF ToSet
    <3>3. \A m, n \in 1..Len(order) : order[m] = order[n] => m = n
      BY <2>1, <3>1 DEF IsInjective
    <3> QED
      BY <3>1, <3>2, <3>3 DEF IsInjective
  <2> QED
    BY <1>4, <2>1, <2>2, <2>3, <2>4
<1>8. DeskTyped'
  BY <1>2, <1>3, <1>5, <1>7 DEF DeskTyped, Answered
<1>9. Filed'
  <2> SUFFICES ASSUME NEW d \in Item
               PROVE  Filed!(d)'
    BY DEF Filed
  <2>1. CASE d = e
    <3>1. v \in ToSet(given'[e]) /\ given'[e] # <<>> /\ e <= known'
      BY <1>2 DEF Answered
    <3> QED
      BY <1>4, <1>5, <2>1, <3>1 DEF Reviewed, first
  <2>2. CASE d # e
    BY <1>2, <1>3, <1>5, <2>2 DEF Filed, Reviewed, Answered
  <2> QED
    BY <2>1, <2>2
<1>10. Informed'
  <2> SUFFICES ASSUME NEW p \in Operator, request'[p].item # 0
               PROVE  Informed!(p)!2'
    BY DEF Informed
  <2>1. request'[p] = request[p] /\ request[p].item \in Item /\ known' = known
    BY <1>2, <1>3, Constants DEF DeskTyped, Request, Item, Answered
  <2>2. request[p].base # NoReview => request[p].item # e
    BY <1>1, <1>3, <2>1, Constants DEF Informed
  <2> QED
    BY <1>3, <1>5, <2>1, <2>2 DEF Informed, Reviewed
<1>11. Races'
  <2>1. \A p \in Operator : request'[p].item = e => request'[p].base = NoReview
    BY <1>1, <1>2, <1>3, <1>4, Constants DEF Informed, Answered
  <2>2. review'[e] = [verdict |-> given'[e][1], history |-> <<>>]
    BY <1>5, <1>6 DEF first
  <2> SUFFICES ASSUME NEW d \in Item
               PROVE  Races!(d)'
    BY DEF Races
  <2>3. CASE d = e
    BY <1>6, <2>1, <2>2, <2>3
  <2>4. CASE d # e
    <3>1. \A p \in Operator : request'[p].item = d => request[p].item = d /\ request'[p].base = request[p].base
      BY <1>2, <2>4, Constants DEF Answered
    <3> QED
      BY <1>3, <1>5, <2>4, <3>1 DEF Races, OnRecord
  <2> QED
    BY <2>3, <2>4
<1>12. RecallFirst'
  BY <1>2, AnsweredRecall DEF Answered
<1> QED
  BY <1>8, <1>9, <1>10, <1>11, <1>12 DEF IInv

\* What a correction of item e to v writes: the row it found or one that keeps
\* its first verdict.
Rewritten(e, v, base, row) ==
    /\ Reviewed(e) /\ base # NoReview /\ base \in Row /\ base.verdict \in Verdict
    /\ review' = [review EXCEPT ![e] = row]
    /\ row \in Row /\ row # NoReview
    /\ Original(row) = Original(review[e])
    /\ \/ base.verdict = v /\ row = review[e]
       \/ row = Corrected(base, v)

LEMMA CorrectFacts ==
    ASSUME IInv, NEW o \in Operator, Correct(o)
    PROVE  /\ Answered(o, request[o].item, request[o].verdict)
           /\ \E row : Rewritten(request[o].item, request[o].verdict, request[o].base, row)
<1> DEFINE e == request[o].item
           v == request[o].verdict
           base == request[o].base
           row == IF base.verdict = v THEN review[e] ELSE Corrected(base, v)
<1>1. e # 0 /\ base # NoReview /\ Answer(o)
      /\ review' = IF base.verdict = v THEN review ELSE [review EXCEPT ![e] = Corrected(base, v)]
  BY DEF Correct
<1>2. Answered(o, e, v) /\ e \in Item /\ v \in Verdict
  BY <1>1, AnswerFacts DEF Answered
<1>3. review \in [Item -> Row] /\ base \in Row
  BY DEF IInv, DeskTyped, Request
<1>4. Reviewed(e) /\ base.verdict \in Verdict /\ Original(base) = Original(review[e])
  BY <1>1 DEF IInv, Informed
<1>5. review' = [review EXCEPT ![e] = row]
  BY <1>1, <1>2, <1>3
<1>6. row \in Row /\ row # NoReview /\ Original(row) = Original(review[e])
  <2>1. CASE base.verdict = v
    BY <1>2, <1>3, <1>4, <2>1 DEF Reviewed
  <2>2. CASE base.verdict # v
    BY <1>2, <1>3, <1>4, <2>2, CorrectedFacts
  <2> QED
    BY <2>1, <2>2
<1>7. Rewritten(e, v, base, row)
  BY <1>1, <1>3, <1>4, <1>5, <1>6 DEF Rewritten
<1> QED
  BY <1>2, <1>7

LEMMA CorrectIInv ==
    ASSUME IInv, NEW o \in Operator, Correct(o)
    PROVE  IInv'
<1> DEFINE e == request[o].item
           v == request[o].verdict
           base == request[o].base
<1>1. order' = order
  BY DEF Correct
<1>2. PICK row : Rewritten(e, v, base, row)
  BY CorrectFacts
<1>3. Answered(o, e, v) /\ e \in Item /\ v \in Verdict
  BY CorrectFacts DEF Answered
<1>4. DeskTyped /\ Filed /\ Informed /\ Races
  BY DEF IInv
<1>5. review' \in [Item -> Row] /\ review'[e] = row
      /\ \A d \in Item : d # e => review'[d] = review[d] /\ given'[d] = given[d]
  BY <1>2, <1>3, <1>4 DEF DeskTyped, Answered, Rewritten
<1> HIDE DEF e, v, base
<1>6. \A d \in Item : Reviewed(d)' <=> Reviewed(d)
  BY <1>2, <1>5 DEF Rewritten, Reviewed
<1>7. row.verdict \in ToSet(given'[e])
  <2>1. CASE row = review[e]
    BY <1>2, <1>3, <1>4, <2>1 DEF Answered, Rewritten, Filed
  <2>2. CASE row = Corrected(base, v)
    BY <1>2, <1>3, <2>2, CorrectedFacts DEF Answered, Rewritten
  <2> QED
    BY <1>2, <2>1, <2>2 DEF Rewritten
<1>8. DeskTyped'
  <2>1. order' \in Seq(Item) /\ ToSet(order') = {d \in Item : Reviewed(d)'} /\ IsInjective(order')
    BY <1>1, <1>4, <1>6 DEF DeskTyped
  <2> QED
    BY <1>3, <1>4, <1>5, <2>1 DEF DeskTyped, Answered
<1>9. Filed'
  <2> SUFFICES ASSUME NEW d \in Item
               PROVE  Filed!(d)'
    BY DEF Filed
  <2>1. CASE d = e
    <3>1. given'[e] # <<>> /\ e <= known'
      BY <1>3 DEF Answered
    <3> QED
      BY <1>2, <1>5, <1>7, <2>1, <3>1 DEF Rewritten, Reviewed
  <2>2. CASE d # e
    BY <1>3, <1>4, <1>5, <2>2 DEF Filed, Reviewed, Answered
  <2> QED
    BY <2>1, <2>2
<1>10. Informed'
  <2> SUFFICES ASSUME NEW p \in Operator, request'[p].item # 0
               PROVE  Informed!(p)!2'
    BY DEF Informed
  <2>1. request'[p] = request[p] /\ request[p].item \in Item /\ known' = known
    BY <1>3, <1>4, Constants DEF DeskTyped, Request, Item, Answered
  <2>2. Original(review'[request[p].item]) = Original(review[request[p].item])
    BY <1>2, <1>5, <2>1 DEF Rewritten
  <2> QED
    BY <1>4, <1>6, <2>1, <2>2 DEF Informed
<1>11. Races'
  <2> SUFFICES ASSUME NEW d \in Item
               PROVE  Races!(d)'
    BY DEF Races
  <2>1. CASE d = e
    <3>1. given[e] \in Seq(Verdict) /\ given[e] # <<>> /\ Len(given'[e]) = Len(given[e]) + 1
      BY <1>2, <1>3, <1>4 DEF DeskTyped, Filed, Answered, Rewritten
    <3>2. Len(given'[e]) # 1
      BY <3>1
    <3>3. ASSUME Len(given'[e]) = 2
          PROVE  ToSet(given'[e]) \subseteq {row.verdict} \union ToSet(row.history)
      <4>1. Len(given[e]) = 1
        <5>1. Len(given[e]) \in Nat
          BY <3>1, LenProperties
        <5> QED
          BY <3>1, <3>3, <5>1, UpToTwo
      <4>2. base = review[e] /\ review[e] = [verdict |-> given[e][1], history |-> <<>>]
        <5>1. /\ review[e] = [verdict |-> given[e][1], history |-> <<>>]
              /\ \A p \in Operator : request[p].item = e => request[p].base \in {NoReview, review[e]}
          BY <1>3, <1>4, <4>1 DEF Races
        <5>2. base \in {NoReview, review[e]} /\ base # NoReview
          BY <1>2, <5>1 DEF Rewritten, base, e
        <5> QED
          BY <5>1, <5>2
      <4>3. ToSet(given'[e]) = {base.verdict, v}
        <5>1. ToSet(given[e]) = {given[e][1]}
          BY <3>1, <4>1 DEF ToSet
        <5> QED
          BY <1>3, <4>2, <5>1 DEF Answered
      <4>4. {base.verdict, v} \subseteq {row.verdict} \union ToSet(row.history)
        <5>1. CASE base.verdict = v /\ row = review[e]
          BY <4>2, <5>1
        <5>2. CASE row = Corrected(base, v)
          BY <1>2, <1>3, <5>2, CorrectedFacts DEF Rewritten
        <5> QED
          BY <1>2, <5>1, <5>2 DEF Rewritten
      <4> QED
        BY <4>3, <4>4
    <3> QED
      BY <1>5, <2>1, <3>2, <3>3 DEF OnRecord
  <2>2. CASE d # e
    <3>1. \A p \in Operator : request'[p].item = d => request[p].item = d /\ request'[p].base = request[p].base
      BY <1>3, <2>2, Constants DEF Answered
    <3> QED
      BY <1>4, <1>5, <2>2, <3>1 DEF Races, OnRecord
  <2> QED
    BY <2>1, <2>2
<1>12. RecallFirst'
  BY <1>3, AnsweredRecall DEF Answered
<1> QED
  BY <1>8, <1>9, <1>10, <1>11, <1>12 DEF IInv

-----------------------------------------------------------------------------
LEMMA NextIInv ==
    ASSUME IInv, [Next]_vars
    PROVE  IInv'
<1>1. CASE UNCHANGED vars
  BY <1>1, PagesIInv DEF vars, page
<1>2. CASE Create
  BY <1>2, CreateIInv
<1>3. ASSUME NEW o \in Operator,
             \/ Open(o) \/ More(o) \/ MoreHistory(o)
             \/ \E v \in View : OpenHistory(o, v)
      PROVE  IInv'
  BY <1>3, PagesIInv DEF Open, More, MoreHistory, OpenHistory
<1>4. ASSUME NEW o \in Operator,
             \/ File(o) \/ Retry(o) \/ Correct(o) \/ Refill(o)
             \/ \E e \in Item, v \in Verdict, fromRow \in BOOLEAN : Submit(o, e, v, fromRow)
      PROVE  IInv'
  BY <1>4, FileIInv, RetryIInv, CorrectIInv, RefillIInv, SubmitIInv
<1> QED
  BY <1>1, <1>2, <1>3, <1>4 DEF Next

LEMMA SpecIInv == Spec => []IInv
<1>1. IInv /\ [Next]_vars => IInv'
  BY NextIInv
<1> QED
  BY InitIInv, <1>1, PTL DEF Spec

-----------------------------------------------------------------------------
(*****************************************************************************)
(* Sequences in order                                                       *)
(*****************************************************************************)
LEMMA LeastElement ==
    ASSUME NEW T \in SUBSET Nat, T # {}
    PROVE  \E m \in T : \A n \in T : m <= n
<1>1. PICK m \in T : \A n \in T : ~(<<n, m>> \in OpToRel(<, Nat))
  BY NatLessThanWellFounded, WFMin
<1>2. \A n \in T : ~(n < m)
  BY <1>1 DEF OpToRel
<1> QED
  BY <1>2

\* R orders S from first to last, as a set of pairs.
Orders(R, S) ==
    /\ IsFiniteSet(S)
    /\ \A a \in S : <<a, a>> \notin R
    /\ \A a, b, c \in S : <<a, b>> \in R /\ <<b, c>> \in R => <<a, c>> \in R
    /\ \A a, b \in S : a = b \/ <<a, b>> \in R \/ <<b, a>> \in R

Prefix(R, S, e) == {d \in S : <<d, e>> \in R}

Ranked(R, S) ==
    [n \in 1..Cardinality(S) |-> CHOOSE e \in S : Cardinality(Prefix(R, S, e)) = n - 1]

\* Nothing of S but what precedes it has a lower rank, and every rank up to the
\* number of elements is taken.
LEMMA Ranks ==
    ASSUME NEW R, NEW S, Orders(R, S)
    PROVE  /\ Cardinality(S) \in Nat
           /\ \A e \in S : Cardinality(Prefix(R, S, e)) \in 0..(Cardinality(S) - 1)
           /\ \A a, b \in S : <<a, b>> \in R <=> Cardinality(Prefix(R, S, a)) < Cardinality(Prefix(R, S, b))
           /\ \A n \in 0..(Cardinality(S) - 1) : \E e \in S : Cardinality(Prefix(R, S, e)) = n
<1> DEFINE N == Cardinality(S)
           rank == [e \in S |-> Cardinality(Prefix(R, S, e))]
<1>1. IsFiniteSet(S) /\ N \in Nat
  BY FS_CardinalityType DEF Orders
<1>2. \A e \in S : Prefix(R, S, e) \in SUBSET S
  BY DEF Prefix
<1>3. \A e \in S : IsFiniteSet(Prefix(R, S, e)) /\ rank[e] \in Nat /\ rank[e] <= N
  BY <1>1, <1>2, FS_Subset, FS_CardinalityType
<1>4. \A e \in S : rank[e] # N
  <2> SUFFICES ASSUME NEW e \in S, rank[e] = N PROVE FALSE
    OBVIOUS
  <2>1. Prefix(R, S, e) = S
    BY <1>1, <1>2, FS_Subset
  <2> QED
    BY <2>1 DEF Prefix, Orders
<1>5. ASSUME NEW a \in S, NEW b \in S, <<a, b>> \in R PROVE rank[a] < rank[b]
  <2>1. Prefix(R, S, a) \in SUBSET Prefix(R, S, b)
    BY <1>5 DEF Prefix, Orders
  <2>2. a \in Prefix(R, S, b) /\ a \notin Prefix(R, S, a)
    BY <1>5 DEF Prefix, Orders
  <2>3. rank[a] <= rank[b] /\ rank[b] # rank[a]
    BY <1>3, <2>1, <2>2, FS_Subset
  <2> QED
    BY <1>3, <2>3
<1>6. \A a, b \in S : <<a, b>> \in R <=> rank[a] < rank[b]
  <2> TAKE a \in S, b \in S
  <2>1. a = b \/ <<a, b>> \in R \/ <<b, a>> \in R
    BY DEF Orders
  <2>2. rank[a] \in Nat /\ rank[b] \in Nat
    BY <1>3
  <2>3. <<b, a>> \in R => rank[b] < rank[a]
    BY <1>5
  <2>4. a = b => <<a, b>> \notin R
    BY DEF Orders
  <2> HIDE DEF rank
  <2> QED
    BY <1>5, <2>1, <2>2, <2>3, <2>4
<1>7. \A e \in S : rank[e] \in 0..(N - 1)
  BY <1>1, <1>3, <1>4
<1>8. \A a, b \in S : rank[a] = rank[b] => a = b
  <2> TAKE a \in S, b \in S
  <2>1. a = b \/ rank[a] < rank[b] \/ rank[b] < rank[a]
    BY <1>5 DEF Orders
  <2>2. rank[a] \in Nat /\ rank[b] \in Nat
    BY <1>3
  <2> HIDE DEF rank
  <2> QED
    BY <2>1, <2>2
<1>9. \A n \in 0..(N - 1) : \E e \in S : rank[e] = n
  <2>1. IsFiniteSet(0..(N - 1)) /\ Cardinality(0..(N - 1)) = N
    <3>1. /\ IsFiniteSet(0..(N - 1))
          /\ Cardinality(0..(N - 1)) = IF 0 > N - 1 THEN 0 ELSE (N - 1) - 0 + 1
      BY <1>1, FS_Interval
    <3> HIDE DEF N
    <3> QED
      BY <1>1, <3>1
  <2>2. rank \in Injection(S, 0..(N - 1))
    <3>1. rank \in [S -> 0..(N - 1)]
      BY <1>7
    <3>2. IsInjective(rank)
      BY <1>8 DEF IsInjective
    <3> QED
      BY <3>1, <3>2, <1>8 DEF Injection, IsInjective
  <2>3. rank \in Surjection(S, 0..(N - 1))
    BY <1>1, <2>1, <2>2, FS_Injection
  <2> QED
    BY <2>3 DEF Surjection
<1> QED
  BY <1>1, <1>6, <1>7, <1>9

\* The elements one after another, each once.
LEMMA RankedFacts ==
    ASSUME NEW R, NEW S, Orders(R, S)
    PROVE  /\ Ranked(R, S) \in Seq(S) /\ Len(Ranked(R, S)) = Cardinality(S)
           /\ \A m, n \in 1..Cardinality(S) : m < n => <<Ranked(R, S)[m], Ranked(R, S)[n]>> \in R
           /\ \A e \in S : \E n \in 1..Cardinality(S) : Ranked(R, S)[n] = e
<1> DEFINE N == Cardinality(S)
           rank(e) == Cardinality(Prefix(R, S, e))
           s == Ranked(R, S)
<1>1. /\ N \in Nat
      /\ \A e \in S : rank(e) \in 0..(N - 1)
      /\ \A a, b \in S : <<a, b>> \in R <=> rank(a) < rank(b)
      /\ \A n \in 0..(N - 1) : \E e \in S : rank(e) = n
  BY Ranks
<1>2. s = [n \in 1..N |-> CHOOSE e \in S : rank(e) = n - 1]
  BY DEF Ranked
<1>3. \A a, b \in S : rank(a) = rank(b) => a = b
  <2> TAKE a \in S, b \in S
  <2>1. rank(a) \in Nat /\ rank(b) \in Nat
    BY <1>1
  <2>2. a = b \/ rank(a) < rank(b) \/ rank(b) < rank(a)
    BY <1>1 DEF Orders
  <2> HIDE DEF rank
  <2> QED
    BY <2>1, <2>2
<1> HIDE DEF rank, N, s
<1>4. \A n \in 1..N : s[n] \in S /\ rank(s[n]) = n - 1
  <2> TAKE n \in 1..N
  <2>1. \E e \in S : rank(e) = n - 1
    BY <1>1
  <2>2. s[n] = CHOOSE e \in S : rank(e) = n - 1
    BY <1>2
  <2> QED
    BY <2>1, <2>2
<1>5. s \in [1..N -> S]
  BY <1>2, <1>4
<1>6. s \in Seq(S) /\ Len(s) = N
  BY <1>1, <1>5
<1>7. \A m, n \in 1..N : m < n => <<s[m], s[n]>> \in R
  BY <1>1, <1>4
<1>8. \A e \in S : \E n \in 1..N : s[n] = e
  <2> TAKE e \in S
  <2>1. rank(e) + 1 \in 1..N /\ (rank(e) + 1) - 1 = rank(e)
    BY <1>1
  <2> QED
    BY <1>3, <1>4, <2>1
<1> QED
  BY <1>6, <1>7, <1>8 DEF N, s

\* What a page of S holds: the first elements, at most limit of them.
IsPage(p, R, S, limit) ==
    /\ p \in Seq(S) /\ Len(p) \in 0..limit
    /\ Len(p) < limit => S = ToSet(p)
    /\ \A n \in DOMAIN p : \A e \in S \ ToSet(p) : <<p[n], e>> \in R

LEMMA FirstIsPage ==
    ASSUME NEW R, NEW S, Orders(R, S), NEW limit \in Nat
    PROVE  IsPage(First(Ranked(R, S), limit), R, S, limit)
<1> DEFINE N == Cardinality(S)
           s == Ranked(R, S)
           p == First(s, limit)
           k == IF N < limit THEN N ELSE limit
<1>1. /\ s \in Seq(S) /\ Len(s) = N
      /\ \A m, n \in 1..N : m < n => <<s[m], s[n]>> \in R
      /\ \A e \in S : \E n \in 1..N : s[n] = e
  BY RankedFacts
<1>2. N \in Nat /\ k \in Nat /\ k <= limit /\ k <= N
  BY Ranks
<1>3. p = SubSeq(s, 1, k)
  BY <1>1 DEF First
<1>4. DOMAIN s = 1..N /\ \A n \in 1..N : s[n] \in S
  BY <1>1
<1> HIDE DEF s, N
<1>5. /\ p \in Seq(S) /\ Len(p) = k
      /\ \A n \in 1..k : p[n] = s[n]
  <2>1. \A n \in 1..k : s[n] \in S
    BY <1>2, <1>4
  <2> HIDE DEF k
  <2>2. /\ SubSeq(s, 1, k) \in Seq(S)
        /\ Len(SubSeq(s, 1, k)) = IF 1 <= k THEN k - 1 + 1 ELSE 0
        /\ \A i \in 1..(k - 1 + 1) : SubSeq(s, 1, k)[i] = s[1 + i - 1]
    BY <1>2, <2>1, SubSeqProperties
  <2> QED
    BY <1>2, <1>3, <2>2
<1> HIDE DEF p
<1>6. DOMAIN p = 1..k
  BY <1>5
<1>7. k < limit => S = ToSet(p)
  <2> SUFFICES ASSUME k < limit PROVE S = ToSet(p)
    OBVIOUS
  <2>1. k = N
    BY <1>2
  <2>2. \A e \in S : \E n \in 1..k : p[n] = e
    BY <1>1, <1>5, <2>1
  <2> HIDE DEF k
  <2> QED
    BY <1>5, <1>6, <2>2 DEF ToSet
<1>8. ASSUME NEW n \in 1..k, NEW e \in S \ ToSet(p) PROVE <<p[n], e>> \in R
  <2>1. PICK m \in 1..N : s[m] = e
    BY <1>1
  <2>2. m \notin 1..k
    BY <1>5, <1>6, <2>1 DEF ToSet
  <2>3. n < m /\ n \in 1..N
    BY <1>2, <2>2
  <2> QED
    BY <1>1, <1>5, <2>1, <2>3
<1> QED
  BY <1>2, <1>5, <1>6, <1>7, <1>8 DEF IsPage, p, s

\* What is left of a sequence without one element was on it.
LEMMA RemoveFirstFacts ==
    ASSUME NEW S, NEW s \in Seq(S), NEW e
    PROVE  /\ RemoveFirst(s, e) \in Seq(S)
           /\ \A n \in DOMAIN RemoveFirst(s, e) :
                 \E m \in DOMAIN s : s[m] = RemoveFirst(s, e)[n]
<1> DEFINE I == {i \in 1..Len(s) : s[i] = e}
           T == {s[m] : m \in DOMAIN s}
<1>1. Len(s) \in Nat /\ DOMAIN s = 1..Len(s) /\ T \subseteq S /\ s \in Seq(T)
  BY LenProperties
<1>2. RemoveFirst(s, e) \in Seq(T)
  <2>1. CASE I = {}
    BY <1>1, <2>1 DEF RemoveFirst
  <2>2. CASE I # {}
    <3>1. I \in SUBSET Nat
      OBVIOUS
    <3>2. \E m \in I : \A n \in I : m <= n
      BY <2>2, <3>1, LeastElement
    <3>3. SelectInSeq(s, LAMBDA v : v = e) = CHOOSE m \in I : \A n \in I : m <= n
      BY <2>2 DEF SelectInSeq, Min
    <3> DEFINE k == SelectInSeq(s, LAMBDA v : v = e)
    <3>4. k \in 1..Len(s)
      BY <3>2, <3>3
    <3>5. RemoveFirst(s, e) = SubSeq(s, 1, k - 1) \o SubSeq(s, k + 1, Len(s))
      BY <2>2 DEF RemoveFirst, RemoveAt
    <3> HIDE DEF k
    <3>6. SubSeq(s, 1, k - 1) \in Seq(T)
      <4>1. \A n \in 1..(k - 1) : s[n] \in T
        BY <1>1, <3>4
      <4> HIDE DEF T
      <4> QED
        BY <3>4, <4>1, SubSeqProperties
    <3>7. SubSeq(s, k + 1, Len(s)) \in Seq(T)
      <4>1. \A n \in (k + 1)..Len(s) : s[n] \in T
        BY <1>1, <3>4
      <4> HIDE DEF T
      <4> QED
        BY <1>1, <3>4, <4>1, SubSeqProperties
    <3> HIDE DEF T
    <3> QED
      BY <3>5, <3>6, <3>7, ConcatProperties
  <2> QED
    BY <2>1, <2>2
<1>3. RemoveFirst(s, e) \in Seq(S)
  <2> HIDE DEF T
  <2> QED
    BY <1>1, <1>2, SeqMonotonic
<1>4. \A n \in DOMAIN RemoveFirst(s, e) : RemoveFirst(s, e)[n] \in T
  <2> HIDE DEF T
  <2> QED
    BY <1>2, LenProperties
<1> QED
  BY <1>3, <1>4

-----------------------------------------------------------------------------
(***************************************************************************)
(* Pages                                                                    *)
(***************************************************************************)

\* The tiers never put an older item before a newer one, as when all items have
\* the same: then the id of the last row of a page says where to go on.
Aligned == \A d, e \in Item : d > e => Tier[d] <= Tier[e]

\* What the queue had when it was opened and the page has not shown comes after
\* the rows on it and after its cursor.
QueuePage(o) ==
    view[o] = "queue" =>
        /\ missing[o] \subseteq Unreviewed
        /\ ~button[o] => missing[o] = {}
        /\ \A e \in missing[o] :
              /\ \A n \in DOMAIN rows[o] : e < rows[o][n]
              /\ AfterCursor(e, cursor[o])

\* What the history had and the page has not shown was reviewed before its cursor.
HistoryPage(o) ==
    view[o] # "queue" =>
        /\ button[o] <=> cursor[o] # 0
        /\ ~button[o] => missing[o] = {}
        /\ \A e \in missing[o] : \E n \in DOMAIN order :
              /\ order[n] = e /\ Listed(view[o], n)
              /\ AfterCursor(n, cursor[o])

PageTyped(o) ==
    /\ view[o] \in View /\ rows[o] \in Seq(Item) /\ cursor[o] \in 0..Items
    /\ button[o] \in BOOLEAN /\ missing[o] \in SUBSET Item

PagesAreFunctions ==
    /\ view = [o \in Operator |-> view[o]] /\ rows = [o \in Operator |-> rows[o]]
    /\ cursor = [o \in Operator |-> cursor[o]] /\ button = [o \in Operator |-> button[o]]
    /\ missing = [o \in Operator |-> missing[o]]

PageOK(o) == PageTyped(o) /\ HistoryPage(o) /\ (Aligned => QueuePage(o))

PInv == IInv /\ PagesAreFunctions /\ \A o \in Operator : PageOK(o)

LEMMA Sizes ==
    /\ IsFiniteSet(Item) /\ Cardinality(Item) = Items
    /\ PageSize \in Nat /\ PageSize > 0 /\ \A e \in Item : Tier[e] \in Nat
<1>1. Items \in Nat
  BY Constants
<1>2. IsFiniteSet(1..Items) /\ Cardinality(1..Items) = IF 1 > Items THEN 0 ELSE Items - 1 + 1
  BY <1>1, FS_Interval
<1>3. \A e \in Item : Tier[e] \in Nat
  <2>1. \A e \in Item : Tier[e] \in 0..3
    BY ReviewAssumption
  <2> QED
    BY <2>1
<1> QED
  BY <1>1, <1>2, <1>3, ReviewAssumption DEF Item

Queued(before) == {e \in Unreviewed : AfterCursor(e, before)}
QueueOrder(before) == {q \in Queued(before) \X Queued(before) : Before(q[1], q[2])}

Older(v, before) == {n \in DOMAIN order : Listed(v, n) /\ AfterCursor(n, before)}
HistoryOrder(v, before) == {q \in Older(v, before) \X Older(v, before) : Newer(q[1], q[2])}

LEMMA UnreviewedTyped ==
    ASSUME IInv
    PROVE  Unreviewed \subseteq Item
BY Constants DEF IInv, DeskTyped, Unreviewed, Item

LEMMA QueueIsPaged ==
    ASSUME IInv, NEW before, NEW limit \in Nat
    PROVE  IsPage(Page(before, limit), QueueOrder(before), Queued(before), limit)
<1> DEFINE S == Queued(before)
           R == QueueOrder(before)
<1>1. S \in SUBSET Item
  BY UnreviewedTyped DEF Queued
<1>2. IsFiniteSet(S)
  BY <1>1, Sizes, FS_Subset
<1>3. \A d, e \in S : /\ Tier[d] \in Nat /\ Tier[e] \in Nat /\ d \in Nat /\ e \in Nat
                      /\ <<d, e>> \in R <=> Tier[d] < Tier[e] \/ (Tier[d] = Tier[e] /\ d > e)
  <2>1. \A d \in S : Tier[d] \in Nat /\ d \in Nat
    BY <1>1, Sizes, Constants
  <2>2. \A d, e \in S : <<d, e>> \in R <=> Before(d, e)
    BY DEF QueueOrder
  <2> QED
    BY <2>1, <2>2 DEF Before
<1>4. Orders(R, S)
  <2> HIDE DEF R, S
  <2> QED
    BY <1>2, <1>3 DEF Orders
<1>5. \A e \in S : {d \in S : Before(d, e)} = Prefix(R, S, e)
  BY DEF Prefix, QueueOrder
<1>6. Sorted(S, Before) = Ranked(R, S)
  <2>1. Sorted(S, Before) =
          [n \in 1..Cardinality(S) |->
              CHOOSE e \in S : Cardinality({d \in S : Before(d, e)}) = n - 1]
    BY DEF Sorted
  <2>2. ASSUME NEW n PROVE  (CHOOSE e \in S : Cardinality({d \in S : Before(d, e)}) = n - 1)
               = (CHOOSE e \in S : Cardinality(Prefix(R, S, e)) = n - 1)
    <3> HIDE DEF S, R
    <3>1. \A e : (e \in S /\ Cardinality({d \in S : Before(d, e)}) = n - 1) <=> (e \in S /\ Cardinality(Prefix(R, S, e)) = n - 1)
      BY <1>5
    <3> QED
      BY <3>1
  <2> QED
    BY <2>1, <2>2 DEF Ranked
<1>7. Page(before, limit) = First(Ranked(R, S), limit)
  BY <1>6 DEF Page, Queued
<1> HIDE DEF R, S
<1> QED
  BY <1>4, <1>7, FirstIsPage DEF R, S

LEMMA OrderFacts ==
    ASSUME IInv
    PROVE  /\ Len(order) \in 0..Items /\ DOMAIN order = 1..Len(order) /\ order \in Seq(Item)
           /\ \A n \in DOMAIN order : order[n] \in Item /\ Reviewed(order[n])
<1>1. order \in Seq(Item) /\ ToSet(order) = {e \in Item : Reviewed(e)} /\ IsInjective(order)
  BY DEF IInv, DeskTyped
<1>2. Len(order) \in Nat /\ DOMAIN order = 1..Len(order) /\ order \in [1..Len(order) -> Item]
  BY <1>1, LenProperties
<1>3. order \in Injection(1..Len(order), Item)
  BY <1>1, <1>2 DEF Injection, IsInjective
<1>4. Cardinality(1..Len(order)) <= Items
  BY <1>3, Sizes, FS_Injection
<1>5. Cardinality(1..Len(order)) = Len(order)
  <2>1. Cardinality(1..Len(order)) = IF 1 > Len(order) THEN 0 ELSE Len(order) - 1 + 1
    BY <1>2, FS_Interval
  <2> QED
    BY <1>2, <2>1
<1>6. Len(order) \in 0..Items
  BY <1>2, <1>4, <1>5, Constants
<1>7. \A n \in DOMAIN order : order[n] \in ToSet(order)
  BY DEF ToSet
<1> QED
  BY <1>1, <1>2, <1>6, <1>7

LEMMA HistoryIsPaged ==
    ASSUME IInv, NEW v, NEW before, NEW limit \in Nat
    PROVE  IsPage(History(v, before, limit), HistoryOrder(v, before), Older(v, before), limit)
<1> DEFINE S == Older(v, before)
           R == HistoryOrder(v, before)
<1>1. S \in SUBSET (1..Len(order)) /\ Len(order) \in Nat
  BY OrderFacts DEF Older
<1>2. IsFiniteSet(S)
  <2>1. IsFiniteSet(1..Len(order))
    BY <1>1, FS_Interval
  <2> QED
    BY <1>1, <2>1, FS_Subset
<1>3. \A m, n \in S : m \in Nat /\ n \in Nat /\ (<<m, n>> \in R <=> m > n)
  BY <1>1 DEF HistoryOrder, Newer
<1>4. Orders(R, S)
  <2> HIDE DEF R, S
  <2> QED
    BY <1>2, <1>3 DEF Orders
<1>5. \A e \in S : {d \in S : Newer(d, e)} = Prefix(R, S, e)
  BY DEF Prefix, HistoryOrder
<1>6. Sorted(S, Newer) = Ranked(R, S)
  <2>1. Sorted(S, Newer) =
          [n \in 1..Cardinality(S) |->
              CHOOSE e \in S : Cardinality({d \in S : Newer(d, e)}) = n - 1]
    BY DEF Sorted
  <2>2. ASSUME NEW n
        PROVE  (CHOOSE e \in S : Cardinality({d \in S : Newer(d, e)}) = n - 1)
                   = CHOOSE e \in S : Cardinality(Prefix(R, S, e)) = n - 1
    <3> HIDE DEF S, R
    <3>1. \A e : e \in S /\ Cardinality({d \in S : Newer(d, e)}) = n - 1
                   <=> e \in S /\ Cardinality(Prefix(R, S, e)) = n - 1
      BY <1>5
    <3> QED
      BY <3>1
  <2>3. Ranked(R, S) =
          [n \in 1..Cardinality(S) |->
              CHOOSE e \in S : Cardinality(Prefix(R, S, e)) = n - 1]
    BY DEF Ranked
  <2> HIDE DEF S, R
  <2> QED
    BY <2>1, <2>2, <2>3
<1>7. History(v, before, limit) = First(Ranked(R, S), limit)
  BY <1>6 DEF History, Older
<1> HIDE DEF R, S
<1> QED
  BY <1>4, <1>7, FirstIsPage DEF R, S

\* A page that nobody turned, while the desk changed, stays right: rows were
\* taken off it, and what it has not shown is still listed.
LEMMA Untouched ==
    ASSUME PInv, NEW o \in Operator,
           UNCHANGED <<view[o], cursor[o], button[o]>>,
           PageTyped(o)', missing'[o] \subseteq missing[o],
           \A n \in DOMAIN rows'[o] : \E m \in DOMAIN rows[o] : rows[o][m] = rows'[o][n],
           \A e \in missing'[o] : e \in Unreviewed => e \in Unreviewed',
           \A n \in DOMAIN order : order[n] \in missing'[o] /\ Listed(view[o], n) =>
               n \in DOMAIN order' /\ order'[n] = order[n] /\ Listed(view[o], n)'
    PROVE  PageOK(o)'
<1>1. PageOK(o)
  BY DEF PInv
<1>2. HistoryPage(o)'
  <2> SUFFICES ASSUME view[o] # "queue"
               PROVE  /\ button[o] <=> cursor[o] # 0
                      /\ ~button[o] => missing'[o] = {}
                      /\ \A e \in missing'[o] : \E n \in DOMAIN order' :
                            /\ order'[n] = e /\ Listed(view[o], n)'
                            /\ AfterCursor(n, cursor[o])
    BY DEF HistoryPage, AfterCursor, Listed
  <2>1. /\ button[o] <=> cursor[o] # 0
        /\ ~button[o] => missing[o] = {}
        /\ \A e \in missing[o] : \E n \in DOMAIN order :
              order[n] = e /\ Listed(view[o], n) /\ AfterCursor(n, cursor[o])
    BY <1>1 DEF PageOK, HistoryPage
  <2> QED
    BY <2>1
<1>3. Aligned => QueuePage(o)'
  <2> SUFFICES ASSUME Aligned, view[o] = "queue"
               PROVE  /\ missing'[o] \subseteq Unreviewed'
                      /\ ~button[o] => missing'[o] = {}
                      /\ \A e \in missing'[o] :
                            /\ \A n \in DOMAIN rows'[o] : e < rows'[o][n]
                            /\ AfterCursor(e, cursor[o])
    BY DEF QueuePage, AfterCursor
  <2>1. /\ missing[o] \subseteq Unreviewed
        /\ ~button[o] => missing[o] = {}
        /\ \A e \in missing[o] :
              /\ \A n \in DOMAIN rows[o] : e < rows[o][n]
              /\ AfterCursor(e, cursor[o])
    BY <1>1 DEF PageOK, QueuePage
  <2> QED
    BY <2>1
<1> QED
  BY <1>2, <1>3 DEF PageOK, Aligned

\* The pages of the others when one operator turns theirs.
LEMMA OthersUntouched ==
    ASSUME PInv, NEW o \in Operator, NEW p \in Operator,
           UNCHANGED <<known, hidden, review, order>>,
           UNCHANGED <<view[p], rows[p], cursor[p], button[p], missing[p]>>
    PROVE  PageOK(p)'
<1>1. PageTyped(p)
  BY DEF PInv, PageOK
<1>2. PageTyped(p)'
  BY <1>1 DEF PageTyped
<1>3. Unreviewed' = Unreviewed
  BY DEF Unreviewed, Reviewed
<1>4. \A n \in DOMAIN order : Listed(view[p], n)' <=> Listed(view[p], n)
  BY DEF Listed
<1> QED
  BY <1>2, <1>3, <1>4, Untouched

-----------------------------------------------------------------------------
(*****************************************************************************)
(* Pages of the queue                                                       *)
(*****************************************************************************)
\* What a page leaves out comes after every row of it.
LEMMA QueueRest ==
    ASSUME IInv, Aligned, NEW before, NEW limit \in Nat,
           NEW e \in Queued(before) \ ToSet(Page(before, limit))
    PROVE  /\ Len(Page(before, limit)) = limit
           /\ \A n \in DOMAIN Page(before, limit) : e < Page(before, limit)[n]
<1> DEFINE p == Page(before, limit)
<1>1. IsPage(p, QueueOrder(before), Queued(before), limit)
  BY QueueIsPaged
<1>2. Len(p) = limit
  <2>1. Len(p) \in 0..limit /\ ~(Len(p) < limit)
    BY <1>1 DEF IsPage
  <2> HIDE DEF p
  <2> QED
    BY <2>1
<1>3. ASSUME NEW n \in DOMAIN p PROVE e < p[n]
  <2>1. <<p[n], e>> \in QueueOrder(before)
    BY <1>1, <1>3 DEF IsPage
  <2> HIDE DEF p
  <2>2. p[n] \in Item /\ e \in Item /\ Before(p[n], e)
    BY <2>1, UnreviewedTyped DEF QueueOrder, Queued
  <2>3. Tier[p[n]] \in Nat /\ Tier[e] \in Nat /\ p[n] \in Nat /\ e \in Nat
    BY <2>2, Sizes, Constants
  <2>4. e > p[n] => Tier[e] <= Tier[p[n]]
    BY <2>2 DEF Aligned
  <2> QED
    BY <2>2, <2>3, <2>4 DEF Before
<1> QED
  BY <1>2, <1>3

LEMMA QueueItems ==
    ASSUME IInv, NEW before, NEW limit \in Nat
    PROVE  /\ Page(before, limit) \in Seq(Item) /\ Len(Page(before, limit)) \in 0..limit
           /\ ToSet(Page(before, limit)) \subseteq Queued(before)
<1> DEFINE p == Page(before, limit)
<1>1. p \in Seq(Queued(before)) /\ Len(p) \in 0..limit
  BY QueueIsPaged DEF IsPage
<1>2. Queued(before) \subseteq Item
  BY UnreviewedTyped DEF Queued
<1> HIDE DEF p
<1>3. p \in Seq(Item)
  BY <1>1, <1>2, SeqMonotonic
<1>4. ToSet(p) \subseteq Queued(before)
  BY <1>1, LenProperties DEF ToSet
<1> QED
  BY <1>1, <1>3, <1>4 DEF p

LEMMA NextCursorFacts ==
    ASSUME NEW S, NEW items \in Seq(S), NEW limit \in Nat, limit > 0
    PROVE  /\ Len(items) # limit => NextCursor(items, limit) = 0
           /\ Len(items) = limit => /\ Len(items) \in DOMAIN items
                                    /\ NextCursor(items, limit) = items[Len(items)]
                                    /\ items[Len(items)] \in S
BY LenProperties DEF NextCursor, Last

LEMMA OpenPInv ==
    ASSUME PInv, NEW o \in Operator, Open(o)
    PROVE  PInv'
<1> DEFINE items == Page(0, PageSize)
           next == NextCursor(items, PageSize)
<1>1. /\ rows' = [rows EXCEPT ![o] = items]
      /\ cursor' = [cursor EXCEPT ![o] = next]
      /\ button' = [button EXCEPT ![o] = next # 0]
      /\ view' = [view EXCEPT ![o] = "queue"]
      /\ missing' = [missing EXCEPT ![o] = Unreviewed \ ToSet(items)]
      /\ UNCHANGED <<known, hidden, review, order, given, request>>
  BY DEF Open, Show
<1>2. IInv /\ IInv'
  BY <1>1, PagesIInv DEF PInv
<1>3. items \in Seq(Item)
  BY <1>2, Sizes, QueueItems
<1> HIDE DEF items
<1>4. /\ Len(items) # PageSize => next = 0
      /\ Len(items) = PageSize => Len(items) \in DOMAIN items /\ next = items[Len(items)]
                                  /\ items[Len(items)] \in Item
  BY <1>3, Sizes, NextCursorFacts
<1> HIDE DEF next
<1>5. /\ view'[o] = "queue" /\ rows'[o] = items /\ cursor'[o] = next
      /\ button'[o] = (next # 0) /\ missing'[o] = Unreviewed \ ToSet(items)
      /\ PagesAreFunctions'
      /\ \A p \in Operator \ {o} : UNCHANGED <<view[p], rows[p], cursor[p], button[p], missing[p]>>
  BY <1>1 DEF PInv, PagesAreFunctions
<1>6. PageTyped(o)'
  <2>1. next \in 0..Items
    <3>1. 0 \in 0..Items
      BY Constants
    <3> QED
      BY <1>4, <3>1, Constants
  <2>2. button'[o] \in BOOLEAN
    BY <1>5
  <2>3. missing'[o] \subseteq Item
    BY <1>2, <1>5, UnreviewedTyped
  <2> QED
    BY <1>3, <1>5, <2>1, <2>2, <2>3 DEF PageTyped, View
<1>7. ASSUME Aligned PROVE QueuePage(o)'
  <2>1. Queued(0) = Unreviewed /\ Unreviewed' = Unreviewed
    BY <1>1 DEF Queued, AfterCursor, Unreviewed, Reviewed
  <2>2. \A e \in missing'[o] : Len(items) = PageSize /\ \A n \in DOMAIN items : e < items[n]
    BY <1>2, <1>5, <1>7, <2>1, Sizes, QueueRest DEF items
  <2>3. \A e \in missing'[o] : e < next /\ next # 0
    BY <1>4, <2>2, Constants
  <2>4. ASSUME missing'[o] # {} PROVE button'[o]
    <3>1. next # 0
      BY <2>3, <2>4
    <3> QED
      BY <1>5, <3>1
  <2>5. missing'[o] \subseteq Unreviewed'
    BY <1>5, <2>1
  <2> QED
    BY <1>5, <2>2, <2>3, <2>4, <2>5 DEF QueuePage, AfterCursor
<1>8. PageOK(o)'
  BY <1>5, <1>6, <1>7 DEF PageOK, HistoryPage, Aligned
<1>9. \A p \in Operator \ {o} : PageOK(p)'
  BY <1>1, <1>5, OthersUntouched
<1> QED
  BY <1>2, <1>5, <1>8, <1>9 DEF PInv

\* An operator who turns a page leaves the desk and the other pages alone.
Turned(o) ==
    /\ UNCHANGED <<known, hidden, review, order, given>>
    /\ PagesAreFunctions'
    /\ \A p \in Operator \ {o} : UNCHANGED <<view[p], rows[p], cursor[p], button[p], missing[p]>>

LEMMA TurnedPInv ==
    ASSUME PInv, IInv', NEW o \in Operator, Turned(o), PageOK(o)'
    PROVE  PInv'
<1>1. \A p \in Operator \ {o} : PageOK(p)'
  BY OthersUntouched DEF Turned
<1> QED
  BY <1>1 DEF PInv, Turned

\* What an unfinished queue still has to show once items are added to a page.
LEMMA QueueTurn ==
    ASSUME IInv, Aligned, NEW before, NEW limit \in Nat, limit > 0, NEW shown \in Seq(Item),
           NEW e \in Queued(before) \ ToSet(Page(before, limit)),
           \A n \in DOMAIN shown : e < shown[n]
    PROVE  LET items == Page(before, limit)
           IN  /\ items # <<>> /\ NextCursor(items, limit) # 0
               /\ e < NextCursor(items, limit)
               /\ \A n \in DOMAIN (shown \o items) : e < (shown \o items)[n]
<1> DEFINE items == Page(before, limit)
<1>1. items \in Seq(Item) /\ ToSet(items) \subseteq Queued(before)
  BY QueueItems
<1>2. Len(items) = limit /\ \A n \in DOMAIN items : e < items[n]
  BY QueueRest
<1> HIDE DEF items
<1>3. Len(items) \in DOMAIN items /\ NextCursor(items, limit) = items[Len(items)]
      /\ items[Len(items)] \in Item
  BY <1>1, <1>2, NextCursorFacts
<1>4. items # <<>> /\ NextCursor(items, limit) # 0 /\ e < NextCursor(items, limit)
  BY <1>1, <1>2, <1>3, Constants
<1>5. ASSUME NEW n \in DOMAIN (shown \o items) PROVE e < (shown \o items)[n]
  <2>1. /\ DOMAIN (shown \o items) = 1..(Len(shown) + Len(items))
        /\ Len(shown) \in Nat /\ Len(items) \in Nat
        /\ DOMAIN shown = 1..Len(shown) /\ DOMAIN items = 1..Len(items)
        /\ (shown \o items)[n] = IF n <= Len(shown) THEN shown[n] ELSE items[n - Len(shown)]
    BY <1>1, <1>5, ConcatProperties, LenProperties
  <2>2. CASE n <= Len(shown)
    BY <1>5, <2>1, <2>2
  <2>3. CASE ~(n <= Len(shown))
    <3>1. n - Len(shown) \in DOMAIN items
      BY <1>5, <2>1, <2>3
    <3> QED
      BY <1>2, <2>1, <2>3, <3>1
  <2> QED
    BY <2>2, <2>3
<1> QED
  BY <1>4, <1>5 DEF items

LEMMA NextCursorTyped ==
    ASSUME NEW items \in Seq(Item), NEW limit \in Nat, limit > 0
    PROVE  NextCursor(items, limit) \in 0..Items
<1>1. 0 \in 0..Items
  BY Constants
<1>2. /\ Len(items) # limit => NextCursor(items, limit) = 0
      /\ Len(items) = limit => /\ NextCursor(items, limit) = items[Len(items)]
                               /\ items[Len(items)] \in Item
  BY NextCursorFacts
<1> QED
  BY <1>1, <1>2, Constants

LEMMA MorePInv ==
    ASSUME PInv, NEW o \in Operator, More(o)
    PROVE  PInv'
<1> DEFINE items == Page(cursor[o], PageSize)
           next == NextCursor(items, PageSize)
<1>1. /\ rows' = [rows EXCEPT ![o] = rows[o] \o items]
      /\ cursor' = [cursor EXCEPT ![o] = next]
      /\ button' = [button EXCEPT ![o] = next # 0]
      /\ missing' = [missing EXCEPT ![o] = missing[o] \ ToSet(items)]
      /\ UNCHANGED <<known, hidden, review, order, given, request, view>>
      /\ view[o] = "queue"
  BY DEF More, Show
<1>2. IInv /\ IInv' /\ PageTyped(o)
  BY <1>1, PagesIInv DEF PInv, PageOK
<1>3. items \in Seq(Item) /\ next \in 0..Items
  BY <1>2, Sizes, QueueItems, NextCursorTyped
<1>4. rows[o] \in Seq(Item) /\ rows[o] \o items \in Seq(Item)
  BY <1>2, <1>3, ConcatProperties DEF PageTyped
<1> HIDE DEF items, next
<1>5. /\ view'[o] = "queue" /\ rows'[o] = rows[o] \o items /\ cursor'[o] = next
      /\ button'[o] \in BOOLEAN /\ (button'[o] <=> next # 0)
      /\ missing'[o] = missing[o] \ ToSet(items)
      /\ Turned(o)
  BY <1>1 DEF PInv, PagesAreFunctions, Turned
<1>6. PageTyped(o)'
  BY <1>2, <1>3, <1>4, <1>5 DEF PageTyped, View
<1>7. ASSUME Aligned PROVE QueuePage(o)'
  <2>1. Unreviewed' = Unreviewed
    BY <1>1 DEF Unreviewed, Reviewed
  <2>2. /\ missing[o] \subseteq Unreviewed
        /\ \A e \in missing[o] : /\ \A n \in DOMAIN rows[o] : e < rows[o][n]
                                 /\ AfterCursor(e, cursor[o])
    BY <1>1, <1>7 DEF PInv, PageOK, QueuePage
  <2>3. ASSUME NEW e \in missing'[o]
        PROVE  /\ e \in Unreviewed /\ next # 0 /\ e < next
               /\ \A n \in DOMAIN rows'[o] : e < rows'[o][n]
    <3>1. e \in Queued(cursor[o]) /\ e \notin ToSet(items) /\ e \in Unreviewed
          /\ \A n \in DOMAIN rows[o] : e < rows[o][n]
      BY <1>5, <2>2, <2>3 DEF Queued
    <3> QED
      BY <1>2, <1>4, <1>5, <1>7, <3>1, Sizes, QueueTurn DEF items, next
  <2>4. ASSUME missing'[o] # {} PROVE button'[o]
    BY <1>5, <2>3, <2>4
  <2> QED
    BY <1>5, <2>1, <2>3, <2>4 DEF QueuePage, AfterCursor
<1>8. PageOK(o)'
  BY <1>5, <1>6, <1>7 DEF PageOK, HistoryPage, Aligned
<1> QED
  BY <1>2, <1>5, <1>8, TurnedPInv

LEMMA ReplacePInv ==
    ASSUME PInv, IInv', NEW o \in Operator, view[o] = "queue", Replace(o),
           UNCHANGED <<known, hidden, review, order, given>>
    PROVE  PInv'
<1> DEFINE before == IF rows[o] = <<>> THEN 0 ELSE Last(rows[o])
           items == Page(before, 1)
<1>1. /\ rows' = [rows EXCEPT ![o] = rows[o] \o items]
      /\ button' = [button EXCEPT ![o] = items # <<>>]
      /\ missing' = [missing EXCEPT ![o] = missing[o] \ ToSet(items)]
      /\ UNCHANGED <<view, cursor>>
  BY DEF Replace
<1>2. IInv /\ PageTyped(o)
  BY DEF PInv, PageOK
<1>3. items \in Seq(Item)
  BY <1>2, QueueItems
<1>4. rows[o] \in Seq(Item) /\ rows[o] \o items \in Seq(Item)
  BY <1>2, <1>3, ConcatProperties DEF PageTyped
<1> HIDE DEF items
<1>5. /\ view'[o] = "queue" /\ rows'[o] = rows[o] \o items /\ cursor'[o] = cursor[o]
      /\ button'[o] \in BOOLEAN /\ (button'[o] <=> items # <<>>)
      /\ missing'[o] = missing[o] \ ToSet(items)
      /\ Turned(o)
  BY <1>1 DEF PInv, PagesAreFunctions, Turned
<1>6. PageTyped(o)'
  BY <1>2, <1>4, <1>5 DEF PageTyped
<1>7. ASSUME Aligned PROVE QueuePage(o)'
  <2>1. Unreviewed' = Unreviewed
    BY DEF Unreviewed, Reviewed
  <2>2. /\ missing[o] \subseteq Unreviewed
        /\ \A e \in missing[o] : /\ \A n \in DOMAIN rows[o] : e < rows[o][n]
                                 /\ AfterCursor(e, cursor[o])
    BY <1>7 DEF PInv, PageOK, QueuePage
  <2>3. ASSUME NEW e \in missing'[o]
        PROVE  /\ e \in missing[o] /\ items # <<>>
               /\ \A n \in DOMAIN rows'[o] : e < rows'[o][n]
    <3>1. e \in missing[o] /\ e \notin ToSet(items) /\ e \in Unreviewed
          /\ \A n \in DOMAIN rows[o] : e < rows[o][n]
      BY <1>5, <2>2, <2>3
    <3>2. AfterCursor(e, before)
      <4>1. rows[o] # <<>> => Len(rows[o]) \in DOMAIN rows[o]
        BY <1>4
      <4> QED
        BY <3>1, <4>1 DEF AfterCursor, Last
    <3>3. e \in Queued(before)
      BY <3>1, <3>2 DEF Queued
    <3> HIDE DEF before
    <3> QED
      BY <1>2, <1>4, <1>5, <1>7, <3>1, <3>3, QueueTurn DEF items
  <2>4. ASSUME missing'[o] # {} PROVE button'[o]
    BY <1>5, <2>3, <2>4
  <2> QED
    BY <1>5, <2>1, <2>2, <2>3, <2>4 DEF QueuePage, AfterCursor
<1>8. PageOK(o)'
  BY <1>5, <1>6, <1>7 DEF PageOK, HistoryPage, Aligned
<1> QED
  BY <1>5, <1>8, TurnedPInv

-----------------------------------------------------------------------------
(*****************************************************************************)
(* Pages of the history                                                     *)
(*****************************************************************************)
\* What a page of the history leaves out was reviewed before every row of it.
LEMMA HistoryRest ==
    ASSUME IInv, NEW v, NEW before, NEW limit \in Nat, limit > 0,
           NEW n \in Older(v, before) \ ToSet(History(v, before, limit))
    PROVE  LET next == NextCursor(History(v, before, limit), limit) IN next # 0 /\ n < next
<1> DEFINE p == History(v, before, limit)
<1>1. IsPage(p, HistoryOrder(v, before), Older(v, before), limit)
  BY HistoryIsPaged
<1>2. Len(p) = limit /\ p \in Seq(Older(v, before))
  <2>1. Len(p) \in 0..limit /\ ~(Len(p) < limit)
    BY <1>1 DEF IsPage
  <2> HIDE DEF p
  <2> QED
    BY <1>1, <2>1 DEF IsPage
<1> HIDE DEF p
<1>3. Len(p) \in DOMAIN p /\ NextCursor(p, limit) = p[Len(p)] /\ p[Len(p)] \in Older(v, before)
  BY <1>2, NextCursorFacts
<1>4. <<p[Len(p)], n>> \in HistoryOrder(v, before)
  BY <1>1, <1>3 DEF IsPage, p
<1>5. n < p[Len(p)]
  BY <1>4 DEF HistoryOrder, Newer
<1>6. p[Len(p)] # 0
  BY <1>3, OrderFacts DEF Older
<1> QED
  BY <1>3, <1>5, <1>6 DEF p

\* The items that reviews are about.
About(ids) == [n \in DOMAIN ids |-> order[ids[n]]]
Reviewees(ids) == {order[n] : n \in ToSet(ids)}

LEMMA HistoryItems ==
    ASSUME IInv, NEW v, NEW before, NEW limit \in Nat, limit > 0
    PROVE  /\ About(History(v, before, limit)) \in Seq(Item)
           /\ ToSet(About(History(v, before, limit))) = Reviewees(History(v, before, limit))
           /\ NextCursor(History(v, before, limit), limit) \in 0..Items
<1> DEFINE ids == History(v, before, limit)
           items == About(ids)
<1>1. ids \in Seq(Older(v, before))
  BY HistoryIsPaged DEF IsPage
<1>2. /\ Older(v, before) \subseteq 1..Len(order) /\ Len(order) \in 0..Items
      /\ \A n \in 1..Len(order) : order[n] \in Item
  BY OrderFacts DEF Older
<1> HIDE DEF ids
<1>3. Len(ids) \in Nat /\ DOMAIN ids = 1..Len(ids) /\ \A n \in DOMAIN ids : ids[n] \in Older(v, before)
  BY <1>1, LenProperties
<1>4. items \in [1..Len(ids) -> Item]
  BY <1>2, <1>3 DEF About
<1>5. items \in Seq(Item)
  BY <1>3, <1>4
<1>6. ToSet(items) = Reviewees(ids)
  BY DEF ToSet, About, Reviewees
<1>7. NextCursor(ids, limit) \in 0..Items
  <2>1. /\ Len(ids) # limit => NextCursor(ids, limit) = 0
        /\ Len(ids) = limit => /\ NextCursor(ids, limit) = ids[Len(ids)]
                               /\ ids[Len(ids)] \in Older(v, before)
    BY <1>1, NextCursorFacts
  <2>2. 0 \in 0..Items /\ 1..Len(order) \subseteq 0..Items
    BY <1>2, Constants
  <2> QED
    BY <1>2, <2>1, <2>2
<1> QED
  BY <1>5, <1>6, <1>7 DEF ids

\* A page of view v that had M left to show gets the reviews before a cursor.
HistoryTurned(o, v, before, limit, M) ==
    /\ \A e \in M : \E n \in Older(v, before) : order[n] = e
    /\ UNCHANGED <<review, order>>
    /\ view'[o] = v /\ rows'[o] \in Seq(Item)
    /\ cursor'[o] = NextCursor(History(v, before, limit), limit)
    /\ button'[o] \in BOOLEAN /\ (button'[o] <=> cursor'[o] # 0)
    /\ missing'[o] = M \ Reviewees(History(v, before, limit))

LEMMA HistoryTurn ==
    ASSUME IInv, NEW o \in Operator, NEW v \in View, v # "queue", NEW before,
           NEW limit \in Nat, limit > 0, NEW M \in SUBSET Item,
           HistoryTurned(o, v, before, limit, M)
    PROVE  PageOK(o)'
<1> DEFINE ids == History(v, before, limit)
<1> USE DEF HistoryTurned
<1>1. PageTyped(o)'
  <2>1. cursor'[o] \in 0..Items
    BY HistoryItems
  <2>2. missing'[o] \in SUBSET Item
    OBVIOUS
  <2> QED
    BY <2>1, <2>2 DEF PageTyped
<1>2. ASSUME NEW e \in missing'[o]
      PROVE  /\ cursor'[o] # 0
             /\ \E n \in DOMAIN order' :
                   order'[n] = e /\ Listed(v, n)' /\ AfterCursor(n, cursor'[o])
  <2>1. PICK n \in Older(v, before) : order[n] = e
    BY <1>2
  <2>2. n \notin ToSet(ids)
    BY <1>2, <2>1 DEF Reviewees
  <2>3. cursor'[o] # 0 /\ n < cursor'[o]
    BY <2>1, <2>2, HistoryRest
  <2>4. n \in DOMAIN order' /\ order'[n] = e /\ Listed(v, n)'
    BY <2>1 DEF Older, Listed
  <2> QED
    BY <2>3, <2>4 DEF AfterCursor
<1>3. HistoryPage(o)'
  <2>1. ASSUME missing'[o] # {} PROVE button'[o]
    BY <1>2, <2>1
  <2> QED
    BY <1>2, <2>1 DEF HistoryPage, AfterCursor
<1> QED
  BY <1>1, <1>3 DEF PageOK, QueuePage

LEMMA OpenHistoryPInv ==
    ASSUME PInv, NEW o \in Operator, NEW v \in View, OpenHistory(o, v)
    PROVE  PInv'
<1> DEFINE ids == History(v, 0, PageSize)
           items == About(ids)
           M == {order[n] : n \in {m \in DOMAIN order : Listed(v, m)}}
<1>1. /\ v # "queue"
      /\ rows' = [rows EXCEPT ![o] = items]
      /\ cursor' = [cursor EXCEPT ![o] = NextCursor(ids, PageSize)]
      /\ button' = [button EXCEPT ![o] = NextCursor(ids, PageSize) # 0]
      /\ view' = [view EXCEPT ![o] = v]
      /\ missing' = [missing EXCEPT ![o] = M \ Reviewees(ids)]
      /\ UNCHANGED <<known, hidden, review, order, given, request>>
  BY DEF OpenHistory, Show, About, Reviewees
<1>2. IInv /\ IInv'
  BY <1>1, PagesIInv DEF PInv
<1>3. items \in Seq(Item)
  BY <1>2, Sizes, HistoryItems
<1>4. M \in SUBSET Item /\ \A e \in M : \E n \in Older(v, 0) : order[n] = e
  <2>1. M \in SUBSET Item
    BY <1>2, OrderFacts
  <2>2. \A n \in DOMAIN order : Listed(v, n) => n \in Older(v, 0)
    BY DEF Older, AfterCursor
  <2> QED
    BY <2>1, <2>2
<1> HIDE DEF items, ids, M
<1>5. /\ view'[o] = v /\ rows'[o] = items /\ cursor'[o] = NextCursor(ids, PageSize)
      /\ button'[o] \in BOOLEAN /\ (button'[o] <=> cursor'[o] # 0)
      /\ missing'[o] = M \ Reviewees(ids)
      /\ Turned(o)
  BY <1>1 DEF PInv, PagesAreFunctions, Turned
<1>6. HistoryTurned(o, v, 0, PageSize, M)
  BY <1>1, <1>3, <1>4, <1>5 DEF HistoryTurned, ids
<1>7. PageOK(o)'
  BY <1>1, <1>2, <1>4, <1>6, Sizes, HistoryTurn
<1> QED
  BY <1>2, <1>5, <1>7, TurnedPInv

LEMMA ShowHistoryPInv ==
    ASSUME PInv, IInv', NEW o \in Operator, view[o] # "queue",
           NEW limit \in Nat, limit > 0,
           ShowHistory(o, rows[o], History(view[o], cursor[o], limit), limit),
           UNCHANGED <<known, hidden, review, order, given, view>>
    PROVE  PInv'
<1> DEFINE ids == History(view[o], cursor[o], limit)
           items == About(ids)
<1>1. /\ rows' = [rows EXCEPT ![o] = rows[o] \o items]
      /\ cursor' = [cursor EXCEPT ![o] = NextCursor(ids, limit)]
      /\ button' = [button EXCEPT ![o] = NextCursor(ids, limit) # 0]
      /\ missing' = [missing EXCEPT ![o] = missing[o] \ ToSet(items)]
  BY DEF ShowHistory, Show, About
<1>2. IInv /\ PageTyped(o) /\ HistoryPage(o)
  BY DEF PInv, PageOK
<1>3. items \in Seq(Item) /\ ToSet(items) = Reviewees(ids)
  BY <1>2, HistoryItems
<1>4. rows[o] \o items \in Seq(Item)
  BY <1>2, <1>3, ConcatProperties DEF PageTyped
<1>5. missing[o] \in SUBSET Item
      /\ \A e \in missing[o] : \E n \in Older(view[o], cursor[o]) : order[n] = e
  BY <1>2 DEF PageTyped, HistoryPage, Older
<1> HIDE DEF items, ids
<1>6. /\ view'[o] = view[o] /\ rows'[o] = rows[o] \o items
      /\ cursor'[o] = NextCursor(ids, limit)
      /\ button'[o] \in BOOLEAN /\ (button'[o] <=> cursor'[o] # 0)
      /\ missing'[o] = missing[o] \ Reviewees(ids)
      /\ Turned(o)
  BY <1>1, <1>3 DEF PInv, PagesAreFunctions, Turned
<1>7. PageOK(o)'
  <2>1. view[o] \in View
    BY <1>2 DEF PageTyped
  <2>2. HistoryTurned(o, view[o], cursor[o], limit, missing[o])
    BY <1>4, <1>5, <1>6 DEF HistoryTurned, ids
  <2> QED
    BY <1>2, <1>5, <2>1, <2>2, HistoryTurn
<1> QED
  BY <1>6, <1>7, TurnedPInv

LEMMA RefillPInv ==
    ASSUME PInv, NEW o \in Operator, Refill(o)
    PROVE  PInv'
<1>1. UNCHANGED <<known, hidden, review, order, given>> /\ IInv'
  BY RefillIInv DEF Refill, PInv
<1>2. CASE view[o] = "queue"
  BY <1>1, <1>2, ReplacePInv DEF Refill
<1>3. CASE view[o] # "queue" /\ cursor[o] = 0
  <2>1. UNCHANGED page
    BY <1>3 DEF Refill, ReplaceHistory, page
  <2>2. PagesAreFunctions'
    BY <2>1 DEF page, PInv, PagesAreFunctions
  <2>3. \A p \in Operator : PageOK(p)'
    BY <1>1, <2>1, OthersUntouched DEF page
  <2> QED
    BY <1>1, <2>2, <2>3 DEF PInv
<1>4. CASE view[o] # "queue" /\ cursor[o] # 0
  BY <1>1, <1>4, ShowHistoryPInv DEF Refill, ReplaceHistory
<1> QED
  BY <1>2, <1>3, <1>4

LEMMA MoreHistoryPInv ==
    ASSUME PInv, NEW o \in Operator, MoreHistory(o)
    PROVE  PInv'
<1>1. UNCHANGED <<known, hidden, review, order, given, request, view>> /\ view[o] # "queue"
      /\ ShowHistory(o, rows[o], History(view[o], cursor[o], PageSize), PageSize)
  BY DEF MoreHistory
<1>2. IInv'
  BY <1>1, PagesIInv DEF PInv
<1> QED
  BY <1>1, <1>2, Sizes, ShowHistoryPInv

-----------------------------------------------------------------------------
(*****************************************************************************)
(* The desk behind the pages                                                *)
(*****************************************************************************)
LEMMA InitPInv == Init => PInv
<1> SUFFICES ASSUME Init PROVE PInv
  OBVIOUS
<1>1. PagesAreFunctions
  BY DEF Init, PagesAreFunctions
<1>2. 0 \in 0..Items
  BY Constants
<1>3. \A o \in Operator : PageTyped(o) /\ HistoryPage(o) /\ QueuePage(o)
  BY <1>2 DEF Init, PageTyped, HistoryPage, QueuePage, View
<1> QED
  BY <1>1, <1>3, InitIInv DEF PInv, PageOK

\* Nothing of a page changes when an item is created or a verdict asked for.
LEMMA PagesStayPInv ==
    ASSUME PInv, IInv', UNCHANGED <<review, order, page>>, Unreviewed \subseteq Unreviewed'
    PROVE  PInv'
<1>1. PagesAreFunctions'
  BY DEF PInv, PagesAreFunctions, page
<1>2. ASSUME NEW o \in Operator PROVE PageOK(o)'
  <2>1. PageTyped(o)' /\ UNCHANGED <<view[o], rows[o], cursor[o], button[o], missing[o]>>
    BY DEF PInv, PageOK, PageTyped, page
  <2>2. \A n \in DOMAIN order : Listed(view[o], n)' <=> Listed(view[o], n)
    BY <2>1 DEF Listed
  <2> QED
    BY <2>1, <2>2, Untouched
<1> QED
  BY <1>1, <1>2 DEF PInv

LEMMA CreatePInv ==
    ASSUME PInv, Create
    PROVE  PInv'
<1>1. IInv'
  BY CreateIInv DEF PInv
<1>2. known \in Nat /\ known' = known + 1 /\ hidden' \subseteq hidden \union {known + 1}
      /\ UNCHANGED <<review, order, page>>
  BY Constants DEF Create, PInv, IInv, DeskTyped
<1>3. Unreviewed \subseteq Unreviewed'
  BY <1>2 DEF Unreviewed, Reviewed
<1> QED
  BY <1>1, <1>2, <1>3, PagesStayPInv

LEMMA AskPInv ==
    ASSUME PInv, IInv', UNCHANGED <<known, hidden, review, order, page>>
    PROVE  PInv'
<1>1. Unreviewed \subseteq Unreviewed'
  BY DEF Unreviewed, Reviewed
<1> QED
  BY <1>1, PagesStayPInv

\* An answered submission takes rows off a page and puts none there.
LEMMA AnswerPages ==
    ASSUME PInv, NEW o \in Operator, Answer(o), NEW p \in Operator
    PROVE  /\ UNCHANGED <<view[p], cursor[p], button[p]>>
           /\ rows'[p] \in Seq(Item)
           /\ \A n \in DOMAIN rows'[p] : \E m \in DOMAIN rows[p] : rows[p][m] = rows'[p][n]
<1> DEFINE e == request[o].item
           off == request[o].row /\ view[o] # "all"
<1>1. /\ rows' = [rows EXCEPT ![o] = IF off THEN RemoveFirst(rows[o], e) ELSE rows[o]]
      /\ UNCHANGED <<view, cursor, button>>
  BY DEF Answer
<1>2. rows[p] \in Seq(Item) /\ rows = [q \in Operator |-> rows[q]]
  BY DEF PInv, PageOK, PageTyped, PagesAreFunctions
<1> HIDE DEF e, off
<1>3. rows'[p] = RemoveFirst(rows[p], e) \/ rows'[p] = rows[p]
  BY <1>1, <1>2
<1>4. CASE rows'[p] = RemoveFirst(rows[p], e)
  BY <1>1, <1>2, <1>4, RemoveFirstFacts
<1>5. CASE rows'[p] = rows[p]
  BY <1>1, <1>2, <1>5
<1> QED
  BY <1>3, <1>4, <1>5

LEMMA AnswerFunctions ==
    ASSUME PInv, NEW o \in Operator, Answer(o),
           missing' = [p \in Operator |-> missing'[p]]
    PROVE  PagesAreFunctions'
BY DEF PInv, PagesAreFunctions, Answer

LEMMA FilePInv ==
    ASSUME PInv, NEW o \in Operator, File(o)
    PROVE  PInv'
<1> DEFINE e == request[o].item
           first == [verdict |-> request[o].verdict, history |-> <<>>]
<1>1. IInv /\ IInv' /\ Answer(o) /\ e # 0
      /\ review' = [review EXCEPT ![e] = first] /\ order' = Append(order, e)
      /\ missing' = [p \in Operator |-> missing[p] \ {e}]
      /\ UNCHANGED <<known, hidden>>
  BY FileIInv DEF PInv, File, Answer
<1>2. e \in Item /\ review \in [Item -> Row]
  BY <1>1, Constants DEF IInv, DeskTyped, Request, Item
<1> HIDE DEF e, first
<1>3. \A d \in Item : d # e => review'[d] = review[d]
  BY <1>1, <1>2
<1>4. PagesAreFunctions'
  BY <1>1, AnswerFunctions
<1>5. \A n \in DOMAIN order : n \in DOMAIN order' /\ order'[n] = order[n] /\ order[n] \in Item
  BY <1>1, <1>2, OrderFacts, AppendProperties
<1>6. ASSUME NEW p \in Operator PROVE PageOK(p)'
  <2>1. missing'[p] = missing[p] \ {e} /\ missing[p] \in SUBSET Item
    BY <1>1 DEF PInv, PageOK, PageTyped
  <2>2. /\ UNCHANGED <<view[p], cursor[p], button[p]>> /\ PageTyped(p)'
        /\ \A n \in DOMAIN rows'[p] : \E m \in DOMAIN rows[p] : rows[p][m] = rows'[p][n]
    BY <1>1, <2>1, AnswerPages DEF PInv, PageOK, PageTyped
  <2>3. \A d \in missing'[p] : d \in Unreviewed => d \in Unreviewed'
    BY <1>1, <1>3, <2>1 DEF Unreviewed, Reviewed
  <2>4. ASSUME NEW n \in DOMAIN order, order[n] \in missing'[p], Listed(view[p], n)
        PROVE  n \in DOMAIN order' /\ order'[n] = order[n] /\ Listed(view[p], n)'
    <3>1. order[n] # e /\ order'[n] = order[n] /\ n \in DOMAIN order' /\ order[n] \in Item
      BY <1>5, <2>1, <2>4
    <3>2. review'[order'[n]] = review[order[n]]
      BY <1>3, <3>1
    <3> QED
      BY <2>2, <2>4, <3>1, <3>2 DEF Listed
  <2> QED
    BY <2>1, <2>2, <2>3, <2>4, Untouched
<1> QED
  BY <1>1, <1>4, <1>6 DEF PInv

LEMMA CorrectPInv ==
    ASSUME PInv, NEW o \in Operator, Correct(o)
    PROVE  PInv'
<1> DEFINE e == request[o].item
           v == request[o].verdict
           base == request[o].base
<1>1. IInv /\ IInv' /\ Answer(o) /\ order' = order
      /\ missing' = [p \in Operator |-> IF view[p] = "all" \/ review' = review
                                       THEN missing[p] ELSE missing[p] \ {e}]
      /\ UNCHANGED <<known, hidden>>
  BY CorrectIInv DEF PInv, Correct, Answer
<1>2. PICK row : Rewritten(e, v, base, row)
  BY <1>1, CorrectFacts
<1>3. Answered(o, e, v) /\ review \in [Item -> Row]
  BY <1>1, CorrectFacts DEF IInv, DeskTyped
<1> HIDE DEF e, v, base
<1>4. /\ e \in Item
      /\ \A d \in Item : Reviewed(d)' <=> Reviewed(d)
      /\ \A d \in Item : d # e => review'[d] = review[d]
  BY <1>2, <1>3 DEF Rewritten, Reviewed, Answered
<1>5. PagesAreFunctions'
  BY <1>1, AnswerFunctions
<1>6. Unreviewed' = Unreviewed
  <2>1. 1..known \subseteq Item
    BY <1>1, Constants DEF IInv, DeskTyped, Item
  <2> QED
    BY <1>1, <1>4, <2>1 DEF Unreviewed
<1>7. ASSUME NEW p \in Operator PROVE PageOK(p)'
  <2>1. missing'[p] = (IF view[p] = "all" \/ review' = review THEN missing[p] ELSE missing[p] \ {e})
        /\ missing[p] \in SUBSET Item
    BY <1>1 DEF PInv, PageOK, PageTyped
  <2>2. /\ UNCHANGED <<view[p], cursor[p], button[p]>> /\ PageTyped(p)'
        /\ \A n \in DOMAIN rows'[p] : \E m \in DOMAIN rows[p] : rows[p][m] = rows'[p][n]
    BY <1>1, <2>1, AnswerPages DEF PInv, PageOK, PageTyped
  <2>3. ASSUME NEW n \in DOMAIN order, order[n] \in missing'[p], Listed(view[p], n)
        PROVE  n \in DOMAIN order' /\ order'[n] = order[n] /\ Listed(view[p], n)'
    <3>1. order[n] \in Item
      BY <1>1, OrderFacts
    <3>2. view[p] # "all" => review'[order[n]] = review[order[n]]
      BY <1>4, <2>1, <2>3, <3>1
    <3> QED
      BY <1>1, <2>2, <2>3, <3>2 DEF Listed
  <2> QED
    BY <1>6, <2>1, <2>2, <2>3, Untouched
<1> QED
  BY <1>1, <1>5, <1>7 DEF PInv

LEMMA NextPInv ==
    ASSUME PInv, [Next]_vars
    PROVE  PInv'
<1>1. CASE UNCHANGED vars
  <2>1. UNCHANGED <<known, hidden, review, order, page>>
    BY <1>1 DEF vars, page
  <2> QED
    BY <1>1, <2>1, NextIInv, AskPInv DEF PInv
<1>2. CASE Create
  BY <1>2, CreatePInv
<1>3. ASSUME NEW o \in Operator,
             \/ Open(o) \/ More(o) \/ MoreHistory(o)
             \/ \E v \in View : OpenHistory(o, v)
      PROVE  PInv'
  BY <1>3, OpenPInv, MorePInv, MoreHistoryPInv, OpenHistoryPInv
<1>4. ASSUME NEW o \in Operator, File(o) \/ Correct(o) \/ Refill(o)
      PROVE  PInv'
  BY <1>4, FilePInv, CorrectPInv, RefillPInv
<1>5. ASSUME NEW o \in Operator, Retry(o)
      PROVE  PInv'
  <2>1. UNCHANGED <<known, hidden, review, order, page>> /\ IInv'
    BY <1>5, RetryIInv DEF Retry, PInv
  <2> QED
    BY <2>1, AskPInv
<1>6. ASSUME NEW o \in Operator, NEW e \in Item, NEW v \in Verdict, NEW fromRow \in BOOLEAN,
             Submit(o, e, v, fromRow)
      PROVE  PInv'
  <2>1. UNCHANGED <<known, hidden, review, order, page>> /\ IInv'
    BY <1>6, SubmitIInv DEF Submit, PInv
  <2> QED
    BY <2>1, AskPInv
<1> QED
  BY <1>1, <1>2, <1>3, <1>4, <1>5, <1>6 DEF Next

LEMMA SpecPInv == Spec => []PInv
<1>1. PInv /\ [Next]_vars => PInv'
  BY NextPInv
<1> QED
  BY InitPInv, <1>1, PTL DEF Spec

-----------------------------------------------------------------------------
(*****************************************************************************)
(* Theorems                                                                 *)
(*****************************************************************************)
\* What the database, the open requests and the pages hold stays what it is
\* declared to be, and the order of reviews lists the reviewed items, each once.
THEOREM TypeCorrect == Spec => []TypeOK
<1>1. ASSUME PInv PROVE TypeOK
  <2>1. DeskTyped
    BY <1>1 DEF PInv, IInv
  <2>2. \A o \in Operator : PageTyped(o)
    BY <1>1 DEF PInv, PageOK
  <2> QED
    BY <1>1, <2>1, <2>2 DEF TypeOK, PageTyped, PInv, PagesAreFunctions
<1> QED
  BY SpecPInv, <1>1, PTL

\* However two submissions about one item overlap, and whatever other items and
\* corrections come between, both verdicts are on record.
THEOREM RacersRecorded == Spec => []RacersAreRecorded
<1>1. ASSUME IInv PROVE RacersAreRecorded
  <2> SUFFICES ASSUME NEW e \in Item, Len(given[e]) <= 2
               PROVE  ToSet(given[e]) \subseteq OnRecord(e)
    BY DEF RacersAreRecorded
  <2>1. given[e] \in Seq(Verdict)
    BY <1>1 DEF IInv, DeskTyped
  <2>2. CASE Len(given[e]) = 0
    BY <2>1, <2>2 DEF ToSet
  <2>3. CASE Len(given[e]) = 1
    <3>1. ToSet(given[e]) = {given[e][1]}
      BY <2>1, <2>3 DEF ToSet
    <3>2. review[e] = [verdict |-> given[e][1], history |-> <<>>]
      BY <1>1, <2>3 DEF IInv, Races
    <3>3. review[e].verdict = given[e][1]
      BY <3>2
    <3> QED
      BY <3>1, <3>3 DEF OnRecord
  <2>4. CASE Len(given[e]) = 2
    BY <1>1, <2>4 DEF IInv, Races
  <2> QED
    <3>1. Len(given[e]) \in Nat
      BY <2>1, LenProperties
    <3>2. Len(given[e]) \in {0, 1, 2}
      BY <3>1, UpToTwo
    <3> QED
      BY <2>2, <2>3, <2>4, <3>2
<1> QED
  BY SpecIInv, <1>1, PTL

\* Nothing is held back from the queue but faint first sightings and weak
\* repeats of a reference of which an operator rejected an older item, whatever
\* the verdicts are corrected to meanwhile and however many there are.
THEOREM NeverABlacklist == Spec => []RecallFirst
<1>1. IInv => RecallFirst
  BY DEF IInv
<1> QED
  BY SpecIInv, <1>1, PTL

\* No step takes an item's review away or another first verdict into it, in any
\* race of corrections that read the row before one another's commit.
THEOREM OriginalKept == Spec => OriginalVerdictKept
<1> DEFINE Kept == \A e \in Item : Reviewed(e) =>
                       /\ Reviewed(e)'
                       /\ Original(review'[e]) = Original(review[e])
<1>1. ASSUME IInv, [Next]_vars PROVE Kept
  <2>1. CASE review' = review
    BY <2>1 DEF Reviewed
  <2>2. ASSUME NEW o \in Operator, File(o) PROVE Kept
    <3>1. review' = [review EXCEPT ![request[o].item] = [verdict |-> request[o].verdict, history |-> <<>>]]
          /\ ~Reviewed(request[o].item)
      BY <2>2 DEF File, Vacant
    <3>2. review \in [Item -> Row]
      BY <1>1 DEF IInv, DeskTyped
    <3> QED
      BY <3>1, <3>2 DEF Reviewed
  <2>3. ASSUME NEW o \in Operator, Correct(o) PROVE Kept
    <3>1. PICK row : Rewritten(request[o].item, request[o].verdict, request[o].base, row)
      BY <1>1, <2>3, CorrectFacts
    <3>2. review \in [Item -> Row]
      BY <1>1 DEF IInv, DeskTyped
    <3> QED
      BY <3>1, <3>2 DEF Rewritten, Reviewed
  <2>4. \/ review' = review
        \/ \E o \in Operator : File(o) \/ Correct(o)
    BY <1>1 DEF Next, vars, Create, Open, More, MoreHistory, OpenHistory, Retry, Refill, Submit
  <2> QED
    BY <2>1, <2>2, <2>3, <2>4
<1>2. IInv /\ [Next]_vars => [Kept]_vars
  BY <1>1
<1> QED
  BY SpecIInv, <1>2, PTL DEF Spec, OriginalVerdictKept

\* Whoever comes to the end of a page of the history has been shown every review
\* it listed when it was opened that was not corrected since, whatever the tiers.
THEOREM HistoryTraversable ==
    Spec => [](\A o \in Operator : view[o] # "queue" /\ ~button[o] => missing[o] = {})
<1>1. PInv => \A o \in Operator : view[o] # "queue" /\ ~button[o] => missing[o] = {}
  BY DEF PInv, PageOK, HistoryPage
<1> QED
  BY SpecPInv, <1>1, PTL

\* When the tiers never put an older item before a newer one, an operator who
\* has come to the end of a page has been shown all it had when it was opened.
THEOREM Traversable ==
    ASSUME Aligned
    PROVE  Spec => []PagesAreTraversable
<1>1. PInv => PagesAreTraversable
  BY DEF PInv, PageOK, HistoryPage, QueuePage, PagesAreTraversable
<1> QED
  BY SpecPInv, <1>1, PTL
=============================================================================

--------------------------- MODULE Pipeline_proofs ---------------------------
(***************************************************************************)
(* Proofs about the product pipeline.                                       *)
(*                                                                          *)
(* What its runs leave behind (Operations), for any sources and outcomes,   *)
(* any reports of one source on another, any window and streak of the       *)
(* health page, any threads of the dashboard and any jobs of RUN ALL.       *)
(*                                                                          *)
(* What they find out about products (Novelty), for any lanes, markets and  *)
(* batches, any operators, and any thresholds and windows.                  *)
(***************************************************************************)
EXTENDS Operations, Novelty, SequenceTheorems, FiniteSetTheorems, WellFoundedInduction, TLAPS

\* A child of the dashboard is the run that holds its source's lock file, and a
\* thread with a job knows its source.
ChildrenHold ==
    \A t \in Thread :
        /\ thread[t].pc = "child" => holder[thread[t].source] = t
        /\ thread[t].pc \in {"launch", "child", "exited"} => thread[t].source \in Source

\* The newest row of a source says success only while no run goes on, and only
\* if the last run that ended did; a kill that leaves a RUNNING row behind
\* leaves it on top.
TopRow(s) == rows[s][1].status

TopIsTrue ==
    \A s \in Source : rows[s] # <<>> /\ TopRow(s) \in Success =>
        ended[s] \in Success /\ holder[s] = Nobody

\* A source that barred its last visitor is noted as blocked, whatever failed
\* since; a blocked component's last status is no success.
BarredIsNoted ==
    \A s \in Source :
        /\ s \in barred => component[s].blocked
        /\ component[s].blocked => component[s].last \in {"BLOCKED", "FAILED"}

\* One thread at a time, under the flag, whose mode says which kind it is.
OneThread ==
    /\ OneCollectionAtATime
    /\ control.running => control.mode # "none"

IInv == TypeOK /\ ChildrenHold /\ TopIsTrue /\ BarredIsNoted /\ OneThread

-----------------------------------------------------------------------------
(***************************************************************************)
(* Histories                                                                *)
(***************************************************************************)
History == {h \in Seq(Row) : Len(h) <= Window}

LEMMA RowFields ==
    ASSUME NEW r \in Row, NEW status \in Status, NEW found \in BOOLEAN
    PROVE  /\ [r EXCEPT !.status = status] \in Row
           /\ [r EXCEPT !.status = status].status = status
           /\ [r EXCEPT !.found = found] \in Row
           /\ [r EXCEPT !.found = found].status = r.status
           /\ [r EXCEPT !.old = TRUE] \in Row
           /\ [r EXCEPT !.old = TRUE].status = r.status
BY DEF Row

LEMMA RecoveredTyped ==
    ASSUME NEW h \in Seq(Row), NEW from \in Nat
    PROVE  Recovered(h, from) \in Seq(Row) /\ Len(Recovered(h, from)) = Len(h)
<1>1. "FAILED" \in Status
  BY DEF Status, Concluded
<1>2. \A n \in 1..Len(h) : h[n] \in Row /\ [h[n] EXCEPT !.status = "FAILED"] \in Row
  BY <1>1, ElementOfSeq, RowFields
<1>3. DOMAIN h = 1..Len(h) /\ Len(h) \in Nat
  BY LenProperties
<1> QED
  BY <1>2, <1>3 DEF Recovered

\* A run's row is inserted on top of what the window still shows.
LEMMA InsertedRow ==
    ASSUME TypeOK, NEW s \in Source, NEW status \in Status, Insert(s, status)
    PROVE  /\ rows' \in [Source -> History] /\ inserted' \in 0..MaxRows
           /\ rows'[s] # <<>> /\ rows'[s][1].status = status
           /\ \A u \in Source : u # s => rows'[u] = rows[u]
<1> DEFINE row == [status |-> status, found |-> FALSE, old |-> FALSE]
<1>1. rows[s] \in Seq(Row) /\ Len(rows[s]) \in Nat
  BY LenProperties DEF TypeOK
<1>2. PICK from \in 1..(Len(rows[s]) + 1) :
          rows' = [rows EXCEPT ![s] = Newest(<<row>> \o Recovered(rows[s], from))]
  BY DEF Insert
<1> DEFINE h == <<row>> \o Recovered(rows[s], from)
           k == IF Len(h) < Window THEN Len(h) ELSE Window
<1>3. row \in Row
  BY DEF Row
<1>4. Recovered(rows[s], from) \in Seq(Row)
  BY <1>1, RecoveredTyped
<1>5. <<row>> \in Seq(Row) /\ Len(<<row>>) = 1 /\ <<row>>[1] = row
  BY <1>3
<1> HIDE DEF row
<1>6. h \in Seq(Row) /\ Len(h) >= 1 /\ Len(h) \in Nat /\ h[1] = row
  BY <1>4, <1>5, ConcatProperties, LenProperties
<1> HIDE DEF h
<1>7. k \in 1..Len(h) /\ k <= Window /\ k \in Int
  BY <1>6, HealthAssumption
<1> HIDE DEF k
<1>8. /\ SubSeq(h, 1, k) \in Seq(Row) /\ Len(SubSeq(h, 1, k)) = k
      /\ SubSeq(h, 1, k)[1] = h[1]
  <2>1. 1 \in 1..(Len(h) + 1) /\ k \in (1 - 1)..Len(h)
    BY <1>6, <1>7
  <2>2. \A i \in 1..(k - 1 + 1) : SubSeq(h, 1, k)[i] = h[1 + i - 1]
    BY <1>6, <1>7, <2>1, SubSeqProperties
  <2> QED
    BY <1>6, <1>7, <2>1, <2>2, SubSeqProperties
<1>9. Newest(h) = SubSeq(h, 1, k)
  BY DEF Newest, k
<1>10. Newest(h) \in History /\ Newest(h) # <<>> /\ Newest(h)[1] = row
  BY <1>6, <1>7, <1>8, <1>9 DEF History
<1>11. row.status = status
  BY DEF row
<1>12. rows' = [rows EXCEPT ![s] = Newest(h)]
  BY <1>2 DEF h
<1>13. rows \in [Source -> History]
  BY DEF TypeOK, History
<1>14. inserted' \in 0..MaxRows
  BY OperationsAssumption DEF Insert, TypeOK
<1> QED
  BY <1>10, <1>11, <1>12, <1>13, <1>14

\* The row of the run in hand is the top one, unless overlaps are on top.
LEMMA OwnRowOnTop ==
    ASSUME NEW s \in Source, rows[s] \in Seq(Row), rows[s] # <<>>,
           rows[s][1].status # "SKIPPED_OVERLAP"
    PROVE  OwnRow(s) = 1
<1> DEFINE I == {i \in 1..Len(rows[s]) : rows[s][i].status # "SKIPPED_OVERLAP"}
<1>1. 1 \in I /\ I \subseteq Nat /\ \A i \in I : 1 <= i
  <2>1. Len(rows[s]) \in Nat /\ Len(rows[s]) # 0
    BY LenProperties, EmptySeq
  <2> QED
    BY <2>1
<1>2. OwnRow(s) = IF I # {} THEN CHOOSE x \in I : \A y \in I : x =< y ELSE 0
  BY DEF OwnRow, SelectInSeq, Min
<1> HIDE DEF I
<1>3. ASSUME NEW x \in I, \A y \in I : x =< y PROVE x = 1
  <2>1. x \in Nat /\ x =< 1 /\ 1 =< x
    BY <1>1, <1>3
  <2> QED
    BY <2>1
<1>4. \E x \in I : \A y \in I : x =< y
  BY <1>1
<1> DEFINE least == CHOOSE x \in I : \A y \in I : x =< y
<1>5. least \in I /\ \A y \in I : least =< y
  BY <1>4, Zenon
<1>6. least = 1
  BY <1>3, <1>5
<1> QED
  BY <1>1, <1>2, <1>6

\* A run's end is written into its own row: whatever is on top then is that
\* end, or an overlap.
LEMMA ClosedRow ==
    ASSUME TypeOK, NEW s \in Source, NEW outcome \in [status : Concluded, found : BOOLEAN],
           Close(s, outcome)
    PROVE  /\ rows' \in [Source -> History]
           /\ \A u \in Source : u # s => rows'[u] = rows[u]
           /\ rows'[s] = <<>> <=> rows[s] = <<>>
           /\ rows[s] # <<>> => rows'[s][1].status \in {outcome.status, "SKIPPED_OVERLAP"}
<1> DEFINE n == OwnRow(s)
           h == rows[s]
           top == [h[n] EXCEPT !.status = outcome.status]
           row == [top EXCEPT !.found = outcome.found]
<1>1. h \in Seq(Row) /\ Len(h) <= Window /\ rows \in [Source -> History]
  BY DEF TypeOK, History
<1>2. Len(h) \in Nat /\ DOMAIN h = 1..Len(h)
  BY <1>1, LenProperties
<1>3. h # <<>> /\ h[1].status # "SKIPPED_OVERLAP" => n = 1
  BY <1>1, OwnRowOnTop
<1>4. CASE rows' = rows /\ n = 0
  BY <1>1, <1>3, <1>4
<1>5. CASE rows' # rows \/ n # 0
  <2>1. rows' = [rows EXCEPT ![s][n].status = outcome.status, ![s][n].found = outcome.found]
    BY <1>5 DEF Close
  <2>2. CASE n \in 1..Len(h)
    <3>1. rows' = [rows EXCEPT ![s] = [h EXCEPT ![n] = row]]
      BY <1>1, <1>2, <2>1, <2>2
    <3>2. h[n] \in Row /\ outcome.status \in Status /\ outcome.found \in BOOLEAN
      BY <1>1, <2>2, ElementOfSeq DEF Status
    <3>3. top \in Row /\ top.status = outcome.status
      BY <3>2, RowFields
    <3> HIDE DEF top
    <3>4. row \in Row /\ row.status = outcome.status
      BY <3>2, <3>3, RowFields
    <3> HIDE DEF row, n
    <3> DEFINE g == [h EXCEPT ![n] = row]
    <3>5. g \in Seq(Row) /\ Len(g) = Len(h) /\ (h # <<>> => g[1] = IF n = 1 THEN row ELSE h[1])
      BY <1>1, <1>2, <2>2, <3>4, ExceptSeq
    <3>6. g # <<>> /\ h # <<>>
      BY <1>1, <1>2, <2>2, <3>5
    <3> HIDE DEF g
    <3>7. g \in History
      BY <1>1, <3>5 DEF History
    <3>8. rows' = [rows EXCEPT ![s] = g]
      BY <3>1 DEF g
    <3> QED
      BY <1>1, <1>3, <3>4, <3>5, <3>6, <3>7, <3>8
  <2>3. CASE n \notin 1..Len(h)
    <3>1. rows' = rows
      BY <1>1, <1>2, <2>1, <2>3
    <3>2. h # <<>> => Len(h) >= 1
      BY <1>1, <1>2, EmptySeq
    <3> QED
      BY <1>1, <1>2, <1>3, <2>3, <3>1, <3>2
  <2> QED
    BY <2>2, <2>3
<1> QED
  BY <1>4, <1>5

-----------------------------------------------------------------------------
(***************************************************************************)
(* Collector runs                                                           *)
(***************************************************************************)
LEMMA InitIInv == Init => IInv
<1> SUFFICES ASSUME Init PROVE IInv
  OBVIOUS
<1> USE OperationsAssumption, HealthAssumption DEF Init
<1>1. TypeOK
  <2>1. <<>> \in {h \in Seq(Row) : Len(h) <= Window}
    BY EmptySeq
  <2>2. Idle \in [running : BOOLEAN, mode : {"none", "single", "batch"}, results : Seq(BOOLEAN)]
    BY EmptySeq DEF Idle
  <2>3. Off \in [pc : {"off", "launch", "child", "exited", "closing"},
                 source : Source \union {Nobody}, todo : Seq(Source), ok : BOOLEAN]
    BY EmptySeq DEF Off
  <2> QED
    BY <2>1, <2>2, <2>3 DEF TypeOK
<1>2. ChildrenHold /\ TopIsTrue /\ BarredIsNoted /\ OneThread
  BY DEF ChildrenHold, TopIsTrue, BarredIsNoted, OneThread, OneCollectionAtATime, Live, Off, Idle,
         NoComponent
<1> QED
  BY <1>1, <1>2 DEF IInv

\* Whoever starts or ends it, a step of a run is one of these.
LEMMA RunCases ==
    ASSUME TypeOK, ChildrenHold, [Next]_vars
    PROVE  \/ \E s \in Source, p \in Thread \union {Timer} : Begin(s, p)
           \/ \E s \in Source : Overlap(s) \/ TimePasses(s)
           \/ \E s \in Source : \E outcome \in Outcomes[s] : holder[s] # Nobody /\ Conclude(s, outcome)
           \/ \E s \in Source, marked \in BOOLEAN : holder[s] # Nobody /\ BreakOff(s, marked)
           \/ UNCHANGED <<rows, inserted, health>> /\ (UNCHANGED holder \/ Restart)
<1> USE OperationsAssumption
<1>1. ASSUME NEW s \in Source, TimerFires(s) \/ TimerEnds(s) \/ TimePasses(s)
      PROVE  \/ Begin(s, Timer) \/ Overlap(s) \/ TimePasses(s)
             \/ holder[s] # Nobody /\ (\E outcome \in Outcomes[s] : Conclude(s, outcome))
             \/ holder[s] # Nobody /\ (\E marked \in BOOLEAN : BreakOff(s, marked))
  BY <1>1 DEF TimerFires, TimerEnds
<1>2. ASSUME NEW t \in Thread, ChildBegins(t)
      PROVE  thread[t].source \in Source
             /\ (Begin(thread[t].source, t) \/ Overlap(thread[t].source))
  BY <1>2 DEF ChildBegins, ChildrenHold
<1>3. ASSUME NEW t \in Thread, ChildEnds(t) \/ (Timeout(t) /\ thread[t].pc = "child")
      PROVE  /\ thread[t].source \in Source /\ holder[thread[t].source] # Nobody
             /\ \/ \E outcome \in Outcomes[thread[t].source] : Conclude(thread[t].source, outcome)
                \/ \E marked \in BOOLEAN : BreakOff(thread[t].source, marked)
  BY <1>3 DEF ChildEnds, Timeout, ChildrenHold
<1>4. ASSUME NEW t \in Thread,
             \/ \E s \in Source : RunNow(t, s)
             \/ RunAllSafe(t) \/ ChildRefuses(t) \/ ReadResult(t) \/ ReadRaises(t)
             \/ FinishBatch(t) \/ (Timeout(t) /\ thread[t].pc # "child")
      PROVE  UNCHANGED <<rows, inserted, health>> /\ UNCHANGED holder
  BY <1>4 DEF RunNow, RunAllSafe, Start, ChildRefuses, ReadResult, ReadRaises, FinishBatch, Timeout,
              health
<1>5. Restart => UNCHANGED <<rows, inserted, health>>
  BY DEF Restart
<1>6. UNCHANGED vars => UNCHANGED <<rows, inserted, health>> /\ UNCHANGED holder
  BY DEF vars, health
<1> QED
  BY <1>1, <1>2, <1>3, <1>4, <1>5, <1>6 DEF Next

\* What a conclusion does to the component row it is reported on.
LEMMA NoteEffect ==
    ASSUME TypeOK, BarredIsNoted, NEW c \in Source,
           NEW outcome \in [status : Concluded, found : BOOLEAN], Note(c, outcome)
    PROVE  /\ component' \in [Source -> Component \union {NoComponent}] /\ barred' \subseteq Source
           /\ BarredIsNoted'
<1>1. Noted(c, outcome) \in Component
  <2>1. component[c] \in Component \union {NoComponent}
    BY DEF TypeOK
  <2>2. component[c].blocked \in BOOLEAN
    <3>1. component[c] \in Component => component[c].blocked \in BOOLEAN
      BY DEF Component
    <3>2. NoComponent.blocked = FALSE
      BY Zenon DEF NoComponent
    <3> HIDE DEF NoComponent
    <3> QED
      BY <2>1, <3>1, <3>2
  <2> QED
    BY <2>2 DEF Noted, Component
<1>2. component' \in [Source -> Component \union {NoComponent}]
  BY <1>1 DEF Note, TypeOK
<1>3. barred' \subseteq Source
  BY DEF Note, Reached, TypeOK
<1>4. \A s \in Source : s # c => component'[s] = component[s] /\ (s \in barred' <=> s \in barred)
  BY DEF Note, Reached, TypeOK
<1>5. /\ c \in barred' => component'[c].blocked
      /\ component'[c].blocked => component'[c].last \in {"BLOCKED", "FAILED"}
  <2>1. CASE component'[c] = Noted(c, outcome)
    <3>1. /\ component'[c].last = outcome.status
          /\ component'[c].blocked
               <=> (outcome.status = "BLOCKED" \/ (outcome.status \notin Success /\ component[c].blocked))
      <4>1. /\ Noted(c, outcome).last = outcome.status
            /\ Noted(c, outcome).blocked
                 <=> (outcome.status = "BLOCKED" \/ (outcome.status \notin Success /\ component[c].blocked))
        BY Zenon DEF Noted
      <4> QED
        BY <2>1, <4>1, Zenon
    <3>2. outcome.status \in Success \union {"BLOCKED", "FAILED"}
      BY DEF Concluded
    <3>3. c \in barred' => outcome.status = "BLOCKED" \/ (outcome.status \notin Success /\ c \in barred)
      BY DEF Note, Reached
    <3>4. /\ c \in barred => component[c].blocked
          /\ "BLOCKED" \notin Success
      BY DEF BarredIsNoted, Success
    <3> HIDE DEF Success
    <3> QED
      BY <3>1, <3>2, <3>3, <3>4, Zenon
  <2>2. CASE outcome.status \in Acquired /\ component' = component
    BY <2>2 DEF Note, Reached, Acquired, Success, BarredIsNoted
  <2> QED
    BY <2>1, <2>2 DEF Note, TypeOK
<1> QED
  BY <1>2, <1>3, <1>4, <1>5 DEF BarredIsNoted

LEMMA NextComponent ==
    ASSUME TypeOK, ChildrenHold, BarredIsNoted, [Next]_vars
    PROVE  /\ component' \in [Source -> Component \union {NoComponent}] /\ barred' \subseteq Source
           /\ BarredIsNoted'
<1> USE OperationsAssumption
<1>1. CASE UNCHANGED <<component, barred>>
  BY <1>1 DEF TypeOK, BarredIsNoted
<1>2. ASSUME NEW s \in Source, NEW outcome \in Outcomes[s], Conclude(s, outcome)
      PROVE  /\ component' \in [Source -> Component \union {NoComponent}] /\ barred' \subseteq Source
             /\ BarredIsNoted'
  <2>1. outcome \in [status : Concluded, found : BOOLEAN]
    OBVIOUS
  <2>2. CASE Note(s, outcome)
    BY <2>1, <2>2, NoteEffect
  <2>3. ASSUME Reports[s] \in Source, NEW seen \in Outcomes[Reports[s]], Note(Reports[s], seen)
        PROVE  /\ component' \in [Source -> Component \union {NoComponent}] /\ barred' \subseteq Source
               /\ BarredIsNoted'
    BY <2>3, NoteEffect
  <2>4. \/ Note(s, outcome) \/ UNCHANGED <<component, barred>>
        \/ Reports[s] \in Source /\ \E seen \in Outcomes[Reports[s]] : Note(Reports[s], seen)
    BY <1>2 DEF Conclude, Report
  <2> QED
    BY <1>1, <2>2, <2>3, <2>4
<1>3. ASSUME NEW s \in Source, NEW marked \in BOOLEAN, BreakOff(s, marked)
      PROVE  /\ component' \in [Source -> Component \union {NoComponent}] /\ barred' \subseteq Source
             /\ BarredIsNoted'
  <2>1. \/ UNCHANGED <<component, barred>>
        \/ Reports[s] \in Source /\ \E seen \in Outcomes[Reports[s]] : Note(Reports[s], seen)
    BY <1>3 DEF BreakOff
  <2>2. ASSUME Reports[s] \in Source, NEW seen \in Outcomes[Reports[s]], Note(Reports[s], seen)
        PROVE  /\ component' \in [Source -> Component \union {NoComponent}] /\ barred' \subseteq Source
               /\ BarredIsNoted'
    BY <2>2, NoteEffect
  <2> QED
    BY <1>1, <2>1, <2>2
<1>4. ASSUME \/ \E s \in Source, p \in Thread \union {Timer} : Begin(s, p)
             \/ \E s \in Source : Overlap(s) \/ TimePasses(s)
             \/ UNCHANGED health
      PROVE  UNCHANGED <<component, barred>>
  BY <1>4 DEF Begin, Overlap, TimePasses, health
<1> QED
  BY <1>1, <1>2, <1>3, <1>4, RunCases

\* The rows of the sources and how their runs ended.
RowsTyped ==
    /\ rows \in [Source -> History] /\ inserted \in 0..MaxRows
    /\ holder \in [Source -> Thread \union {Nobody, Timer}]
    /\ ended \in [Source -> Conclusions \union {"never"}]

LEMMA NextRows ==
    ASSUME TypeOK, ChildrenHold, TopIsTrue, [Next]_vars
    PROVE  RowsTyped' /\ TopIsTrue'
<1> USE OperationsAssumption DEF TopIsTrue, TopRow
<1>1. RowsTyped
  BY DEF TypeOK, RowsTyped, History
<1>2. ASSUME NEW s \in Source, NEW p \in Thread \union {Timer}, Begin(s, p)
      PROVE  RowsTyped' /\ TopIsTrue'
  <2>1. "RUNNING" \in Status /\ "RUNNING" \notin Success
    BY DEF Status, Success, Concluded
  <2>2. Insert(s, "RUNNING") /\ holder' = [holder EXCEPT ![s] = p] /\ ended' = ended
    BY <1>2 DEF Begin, health
  <2> QED
    BY <1>1, <2>1, <2>2, InsertedRow DEF RowsTyped
<1>3. ASSUME NEW s \in Source, Overlap(s) PROVE RowsTyped' /\ TopIsTrue'
  <2>1. "SKIPPED_OVERLAP" \in Status /\ "SKIPPED_OVERLAP" \notin Success
    BY DEF Status, Success, Concluded
  <2>2. Insert(s, "SKIPPED_OVERLAP") /\ holder' = holder /\ ended' = ended
    BY <1>3 DEF Overlap, health
  <2> QED
    BY <1>1, <2>1, <2>2, InsertedRow DEF RowsTyped
<1>4. ASSUME NEW s \in Source, TimePasses(s) PROVE RowsTyped' /\ TopIsTrue'
  <2>1. PICK n \in DOMAIN rows[s] :
            rows' = [rows EXCEPT ![s] =
               [k \in DOMAIN @ |-> IF k >= n THEN [@[k] EXCEPT !.old = TRUE] ELSE @[k]]]
    BY <1>4 DEF TimePasses
  <2> DEFINE h == rows[s]
             g == [k \in DOMAIN h |-> IF k >= n THEN [h[k] EXCEPT !.old = TRUE] ELSE h[k]]
  <2>2. h \in Seq(Row) /\ Len(h) \in Nat /\ DOMAIN h = 1..Len(h) /\ Len(h) <= Window
        /\ \A k \in 1..Len(h) : h[k] \in Row
    BY <1>1, LenProperties, ElementOfSeq DEF RowsTyped, History
  <2>3. \A k \in 1..Len(h) : [h[k] EXCEPT !.old = TRUE] \in Row
                            /\ [h[k] EXCEPT !.old = TRUE].status = h[k].status
    BY <2>2 DEF Row
  <2>4. g \in Seq(Row) /\ Len(g) = Len(h) /\ g # <<>> /\ h # <<>>
        /\ g[1].status = h[1].status
    BY <2>2, <2>3
  <2>5. rows' = [rows EXCEPT ![s] = g] /\ UNCHANGED <<holder, ended, inserted>>
    BY <1>4, <2>1 DEF TimePasses, health
  <2> HIDE DEF g
  <2>6. g \in History
    BY <2>2, <2>4 DEF History
  <2> QED
    BY <1>1, <2>4, <2>5, <2>6 DEF RowsTyped
<1>5. ASSUME NEW s \in Source, NEW outcome \in Outcomes[s], holder[s] # Nobody,
             Conclude(s, outcome)
      PROVE  RowsTyped' /\ TopIsTrue'
  <2>1. outcome \in [status : Concluded, found : BOOLEAN] /\ outcome.status \in Conclusions
    BY DEF Conclusions
  <2>2. /\ Close(s, outcome) /\ holder' = [holder EXCEPT ![s] = Nobody]
        /\ ended' = [ended EXCEPT ![s] = outcome.status] /\ inserted' = inserted
    BY <1>5 DEF Conclude
  <2>3. "SKIPPED_OVERLAP" \notin Success
    BY DEF Success
  <2> QED
    BY <1>1, <2>1, <2>2, <2>3, ClosedRow DEF RowsTyped
<1>6. ASSUME NEW s \in Source, NEW marked \in BOOLEAN, holder[s] # Nobody, BreakOff(s, marked)
      PROVE  RowsTyped' /\ TopIsTrue'
  <2> DEFINE failed == [status |-> "FAILED", found |-> FALSE]
  <2>1. failed \in [status : Concluded, found : BOOLEAN] /\ "died" \in Conclusions
        /\ "FAILED" \notin Success /\ "SKIPPED_OVERLAP" \notin Success
    BY DEF Conclusions, Concluded, Success
  <2>2. /\ Close(s, failed) \/ rows' = rows
        /\ holder' = [holder EXCEPT ![s] = Nobody]
        /\ ended' = [ended EXCEPT ![s] = "died"] /\ inserted' = inserted
    BY <1>6 DEF BreakOff
  <2>3. CASE rows' = rows
    <3>1. RowsTyped'
      BY <1>1, <2>1, <2>2, <2>3 DEF RowsTyped
    <3>2. rows[s] # <<>> => rows[s][1].status \notin Success
      BY <1>6
    <3>3. \A u \in Source : u # s => holder'[u] = holder[u] /\ ended'[u] = ended[u]
      BY <1>1, <2>2 DEF RowsTyped
    <3> QED
      BY <2>3, <3>1, <3>2, <3>3
  <2>4. CASE Close(s, failed)
    <3> HIDE DEF failed
    <3>1. /\ rows' \in [Source -> History]
          /\ \A u \in Source : u # s => rows'[u] = rows[u]
          /\ rows'[s] = <<>> <=> rows[s] = <<>>
          /\ rows[s] # <<>> => rows'[s][1].status \in {failed.status, "SKIPPED_OVERLAP"}
      BY <2>1, <2>4, ClosedRow
    <3>2. failed.status = "FAILED"
      BY DEF failed
    <3>3. RowsTyped'
      BY <1>1, <2>1, <2>2, <3>1 DEF RowsTyped
    <3>4. rows'[s] # <<>> => rows'[s][1].status \notin Success
      BY <2>1, <3>1, <3>2
    <3>5. \A u \in Source : u # s => holder'[u] = holder[u] /\ ended'[u] = ended[u]
      BY <1>1, <2>2 DEF RowsTyped
    <3> QED
      BY <3>1, <3>3, <3>4, <3>5
  <2> QED
    BY <2>2, <2>3, <2>4
<1>7. CASE UNCHANGED <<rows, inserted, health>> /\ (UNCHANGED holder \/ Restart)
  <2>1. rows' = rows /\ inserted' = inserted /\ ended' = ended
    BY <1>7 DEF health
  <2>2. \A s \in Source : holder[s] = Nobody => holder'[s] = Nobody
    BY <1>7 DEF Restart
  <2>3. holder' \in [Source -> Thread \union {Nobody, Timer}]
    BY <1>1, <1>7 DEF Restart, RowsTyped
  <2> QED
    BY <1>1, <2>1, <2>2, <2>3 DEF RowsTyped
<1> QED
  BY <1>2, <1>3, <1>4, <1>5, <1>6, <1>7, RunCases

-----------------------------------------------------------------------------
(***************************************************************************)
(* The dashboard                                                            *)
(***************************************************************************)
Controls == [running : BOOLEAN, mode : {"none", "single", "batch"}, results : Seq(BOOLEAN)]
Threads == [pc : {"off", "launch", "child", "exited", "closing"},
            source : Source \union {Nobody}, todo : Seq(Source), ok : BOOLEAN]

LEMMA OffTyped ==
    /\ Off \in Threads /\ [Off EXCEPT !.pc = "closing"] \in Threads
    /\ Off.pc = "off" /\ [Off EXCEPT !.pc = "closing"].pc = "closing"
    /\ Idle \in Controls /\ Idle.running = FALSE
BY EmptySeq DEF Off, Idle, Threads, Controls

\* A thread is given its next job with the ones after it.
LEMMA NextInLine ==
    ASSUME NEW jobs \in Seq(Source), jobs # <<>>
    PROVE  /\ [Off EXCEPT !.pc = "launch", !.source = Head(jobs), !.todo = Tail(jobs)] \in Threads
           /\ [Off EXCEPT !.pc = "launch", !.source = Head(jobs), !.todo = Tail(jobs)].pc = "launch"
           /\ [Off EXCEPT !.pc = "launch", !.source = Head(jobs), !.todo = Tail(jobs)].source \in Source
<1>1. Head(jobs) \in Source /\ Tail(jobs) \in Seq(Source)
  BY HeadTailProperties
<1> QED
  BY <1>1 DEF Off, Threads

LEMMA NextJobTyped ==
    ASSUME TypeOK, NEW t \in Thread
    PROVE  /\ NextJob(t) \in Threads
           /\ NextJob(t).pc \in {"off", "closing"}
                \/ (NextJob(t).pc = "launch" /\ NextJob(t).source \in Source)
           /\ NextJob(t).pc # "off" => control.mode # "single"
<1>1. thread[t].todo \in Seq(Source)
  BY DEF TypeOK
<1> QED
  BY <1>1, OffTyped, NextInLine DEF NextJob

\* What a step may do to a thread: nothing, start it, or move it on.
LEMMA ThreadStep ==
    ASSUME TypeOK, ChildrenHold, OneThread, [Next]_vars
    PROVE  /\ thread' \in [Thread -> Threads] /\ control' \in Controls
           /\ \A t \in Thread :
                 thread'[t].pc \in {"launch", "child", "exited"} => thread'[t].source \in Source
           /\ OneThread'
<1> USE OperationsAssumption
<1>1. thread \in [Thread -> Threads] /\ control \in Controls
  BY DEF TypeOK, Threads, Controls
<1>2. \A t \in Thread :
         thread[t].pc \in {"launch", "child", "exited"} => thread[t].source \in Source
  BY DEF ChildrenHold
<1>3. /\ \A t, u \in Thread : Live(t) /\ Live(u) => t = u
      /\ \A t \in Thread : Live(t) => control.running
      /\ control.running => control.mode # "none"
  BY DEF OneThread, OneCollectionAtATime
<1>4. CASE UNCHANGED <<control, thread>>
  BY <1>1, <1>2, <1>4 DEF OneThread, OneCollectionAtATime, Live
<1>5. ASSUME NEW t \in Thread, NEW jobs \in Seq(Source), NEW mode \in {"single", "batch"},
             Start(t, jobs, mode)
      PROVE  /\ thread' \in [Thread -> Threads] /\ control' \in Controls
             /\ \A u \in Thread :
                   thread'[u].pc \in {"launch", "child", "exited"} => thread'[u].source \in Source
             /\ OneThread'
  <2>1. PICK new \in Threads :
            /\ thread' = [thread EXCEPT ![t] = new]
            /\ new.pc \in {"launch", "child", "exited"} => new.source \in Source
    BY <1>5, OffTyped, NextInLine DEF Start
  <2>2. control' \in Controls /\ control'.running /\ control'.mode = mode
    BY <1>5, EmptySeq DEF Start, Controls
  <2>3. \A u \in Thread : ~Live(u)
    BY <1>3, <1>5 DEF Start
  <2>4. \A u \in Thread : u # t => thread'[u] = thread[u]
    BY <1>1, <2>1
  <2>5. \A u \in Thread : Live(u)' => u = t
    BY <2>3, <2>4 DEF Live
  <2>6. OneThread'
    BY <2>2, <2>5 DEF OneThread, OneCollectionAtATime
  <2> QED
    BY <1>1, <1>2, <2>1, <2>2, <2>4, <2>6
<1>6. ASSUME NEW t \in Thread, Live(t), control' = control, NEW new \in Threads,
             thread' = [thread EXCEPT ![t] = new],
             new.pc \in {"launch", "child", "exited"} => new.source \in Source
      PROVE  /\ thread' \in [Thread -> Threads] /\ control' \in Controls
             /\ \A u \in Thread :
                   thread'[u].pc \in {"launch", "child", "exited"} => thread'[u].source \in Source
             /\ OneThread'
  <2>1. \A u \in Thread : u # t => thread'[u] = thread[u]
    BY <1>1, <1>6
  <2>2. \A u \in Thread : Live(u)' => Live(u)
    BY <1>6, <2>1 DEF Live
  <2>3. OneThread'
    BY <1>3, <1>6, <2>2 DEF OneThread, OneCollectionAtATime
  <2> QED
    BY <1>1, <1>2, <1>6, <2>1, <2>3
<1>7. ASSUME NEW t \in Thread, thread[t].pc \in {"launch", "child"}, NEW ok \in BOOLEAN,
             Exited(t, ok), control' = control
      PROVE  /\ thread' \in [Thread -> Threads] /\ control' \in Controls
             /\ \A u \in Thread :
                   thread'[u].pc \in {"launch", "child", "exited"} => thread'[u].source \in Source
             /\ OneThread'
  <2> DEFINE new == [thread[t] EXCEPT !.pc = "exited", !.ok = ok]
  <2>1. new \in Threads /\ new.source = thread[t].source
    BY <1>1 DEF Threads
  <2>2. thread' = [thread EXCEPT ![t] = new]
    BY <1>1, <1>7 DEF Exited
  <2>3. Live(t) /\ thread[t].source \in Source
    BY <1>2, <1>7 DEF Live
  <2> HIDE DEF new
  <2> QED
    BY <1>6, <1>7, <2>1, <2>2, <2>3
<1>8. ASSUME NEW t \in Thread, ChildBegins(t)
      PROVE  /\ thread' \in [Thread -> Threads] /\ control' \in Controls
             /\ \A u \in Thread :
                   thread'[u].pc \in {"launch", "child", "exited"} => thread'[u].source \in Source
             /\ OneThread'
  <2>1. thread[t].pc = "launch" /\ control' = control
    BY <1>8 DEF ChildBegins
  <2>2. CASE thread' = [thread EXCEPT ![t].pc = "child"]
    <3> DEFINE new == [thread[t] EXCEPT !.pc = "child"]
    <3>1. new \in Threads /\ new.source = thread[t].source
      BY <1>1 DEF Threads
    <3>2. thread' = [thread EXCEPT ![t] = new]
      BY <1>1, <2>2
    <3>3. Live(t) /\ thread[t].source \in Source
      BY <1>2, <2>1 DEF Live
    <3> HIDE DEF new
    <3> QED
      BY <1>6, <2>1, <3>1, <3>2, <3>3
  <2>3. CASE Exited(t, TRUE)
    BY <1>7, <2>1, <2>3
  <2> QED
    BY <1>8, <2>2, <2>3 DEF ChildBegins
<1>9. ASSUME NEW t \in Thread, ChildRefuses(t) \/ ChildEnds(t) \/ Timeout(t)
      PROVE  \E ok \in BOOLEAN :
                thread[t].pc \in {"launch", "child"} /\ Exited(t, ok) /\ control' = control
  BY <1>9 DEF ChildRefuses, ChildEnds, Timeout
<1>10. ASSUME NEW t \in Thread, ReadResult(t)
       PROVE  /\ thread' \in [Thread -> Threads] /\ control' \in Controls
              /\ \A u \in Thread :
                    thread'[u].pc \in {"launch", "child", "exited"} => thread'[u].source \in Source
              /\ OneThread'
  <2> DEFINE result == LatestRunDetail(thread[t].source, thread[t].ok)
  <2>1. /\ thread[t].pc = "exited" /\ Live(t) /\ thread' = [thread EXCEPT ![t] = NextJob(t)]
        /\ control' = [control EXCEPT !.running = Unfinished, !.results = Append(@, result)]
    BY <1>10 DEF ReadResult, Live
  <2>2. result \in BOOLEAN
    <3>1. thread[t].ok \in BOOLEAN
      BY <1>1 DEF Threads
    <3>2. (Head(rows[thread[t].source]).status \in Success) \in BOOLEAN
      OBVIOUS
    <3>3. \/ result = thread[t].ok
          \/ result = (Head(rows[thread[t].source]).status \in Success)
      BY DEF LatestRunDetail
    <3> QED
      BY <3>1, <3>2, <3>3, Zenon
  <2> HIDE DEF result
  <2>3. Append(control.results, result) \in Seq(BOOLEAN)
    BY <1>1, <2>2, AppendProperties DEF Controls
  <2>4. control' \in Controls /\ control'.running = Unfinished /\ control'.mode = control.mode
    BY <1>1, <2>1, <2>3 DEF Controls, Unfinished
  <2>5. /\ NextJob(t) \in Threads /\ (NextJob(t).pc # "off" => control.mode # "single")
        /\ NextJob(t).pc \in {"launch", "child", "exited"} => NextJob(t).source \in Source
    BY NextJobTyped
  <2>6. \A u \in Thread : u # t => thread'[u] = thread[u] /\ ~Live(u)
    BY <1>1, <1>3, <2>1
  <2>7. \A u \in Thread : Live(u)' => u = t /\ control.mode # "single"
    BY <1>1, <2>1, <2>5, <2>6 DEF Live
  <2>8. control.mode \in {"single", "batch"}
    BY <1>1, <1>3, <2>1 DEF Controls
  <2>9. OneThread'
    BY <2>4, <2>7, <2>8 DEF OneThread, OneCollectionAtATime, Unfinished
  <2> QED
    BY <1>1, <1>2, <2>1, <2>4, <2>5, <2>6, <2>9
<1>11. ASSUME NEW t \in Thread, ReadRaises(t) \/ FinishBatch(t)
       PROVE  /\ thread' \in [Thread -> Threads] /\ control' \in Controls
              /\ \A u \in Thread :
                    thread'[u].pc \in {"launch", "child", "exited"} => thread'[u].source \in Source
              /\ OneThread'
  <2>1. /\ Live(t) /\ thread' = [thread EXCEPT ![t] = Off]
        /\ control' = control \/ control' = [control EXCEPT !.running = FALSE]
    BY <1>11 DEF ReadRaises, FinishBatch, Live
  <2>2. \A u \in Thread : u # t => thread'[u] = thread[u] /\ ~Live(u)
    BY <1>1, <1>3, <2>1
  <2>3. \A u \in Thread : ~Live(u)'
    BY <1>1, <2>1, <2>2, OffTyped DEF Live
  <2>4. control' \in Controls /\ (control'.running => control'.mode # "none")
    BY <1>1, <1>3, <2>1 DEF Controls
  <2>5. OneThread'
    BY <2>3, <2>4 DEF OneThread, OneCollectionAtATime
  <2> QED
    BY <1>1, <1>2, <2>1, <2>2, <2>4, <2>5, OffTyped
<1>12. CASE Restart
  <2>1. control' = Idle /\ thread' = [t \in Thread |-> Off]
    BY <1>12 DEF Restart
  <2> QED
    BY <2>1, OffTyped DEF OneThread, OneCollectionAtATime, Live
<1>13. ASSUME NEW s \in Source, TimerFires(s) \/ TimerEnds(s) \/ TimePasses(s)
       PROVE  UNCHANGED <<control, thread>>
  BY <1>13 DEF TimerFires, TimerEnds, TimePasses
<1>14. ASSUME NEW t \in Thread, (\E s \in Source : RunNow(t, s)) \/ RunAllSafe(t)
       PROVE  \E jobs \in Seq(Source), mode \in {"single", "batch"} : Start(t, jobs, mode)
  <2>1. \A s \in Source : <<s>> \in Seq(Source)
    OBVIOUS
  <2> QED
    BY <1>14, <2>1 DEF RunNow, RunAllSafe
<1>15. UNCHANGED vars => UNCHANGED <<control, thread>>
  BY DEF vars
<1> QED
  BY <1>4, <1>5, <1>7, <1>8, <1>9, <1>10, <1>11, <1>12, <1>13, <1>14, <1>15 DEF Next

LEMMA NextChildrenHold ==
    ASSUME TypeOK, ChildrenHold, OneThread, [Next]_vars
    PROVE  ChildrenHold'
<1> USE OperationsAssumption
<1> DEFINE Holding(t) == thread[t].pc = "child" => holder[thread[t].source] = t
<1>1. thread \in [Thread -> Threads] /\ holder \in [Source -> Thread \union {Nobody, Timer}]
  BY DEF TypeOK, Threads
<1>2. \A t \in Thread :
         Holding(t) /\ (thread[t].pc \in {"launch", "child", "exited"} => thread[t].source \in Source)
  BY DEF ChildrenHold
<1>3. SUFFICES \A t \in Thread : Holding(t)'
  BY <1>3, ThreadStep DEF ChildrenHold
<1>4. ASSUME NEW s \in Source, NEW p \in Thread \union {Timer, Nobody}, holder' = [holder EXCEPT ![s] = p],
             NEW u \in Thread, UNCHANGED thread[u],
             thread[u].pc = "child" => thread[u].source # s
      PROVE  Holding(u)'
  BY <1>1, <1>2, <1>4
<1>5. ASSUME NEW s \in Source, TimerFires(s), NEW u \in Thread PROVE Holding(u)'
  <2>1. thread' = thread
    BY <1>5 DEF TimerFires
  <2>2. CASE Begin(s, Timer)
    <3>1. holder[s] = Nobody /\ holder' = [holder EXCEPT ![s] = Timer]
      BY <2>2 DEF Begin
    <3>2. thread[u].pc = "child" => thread[u].source # s
      BY <1>2, <3>1
    <3> QED
      BY <1>4, <2>1, <3>1, <3>2
  <2>3. CASE Overlap(s)
    BY <1>2, <2>1, <2>3 DEF Overlap
  <2> QED
    BY <1>5, <2>2, <2>3 DEF TimerFires
<1>6. ASSUME NEW s \in Source, TimerEnds(s), NEW u \in Thread PROVE Holding(u)'
  <2>1. thread' = thread /\ holder[s] = Timer /\ holder' = [holder EXCEPT ![s] = Nobody]
    BY <1>6 DEF TimerEnds, Conclude, BreakOff
  <2>2. thread[u].pc = "child" => thread[u].source # s
    BY <1>2, <2>1
  <2> QED
    BY <1>4, <2>1, <2>2
<1>7. ASSUME NEW s \in Source, TimePasses(s), NEW u \in Thread PROVE Holding(u)'
  BY <1>2, <1>7 DEF TimePasses
<1>8. ASSUME NEW t \in Thread, ChildBegins(t), NEW u \in Thread PROVE Holding(u)'
  <2> DEFINE s == thread[t].source
  <2>1. thread[t].pc = "launch" /\ s \in Source
    BY <1>2, <1>8 DEF ChildBegins
  <2>2. CASE Begin(s, t) /\ thread' = [thread EXCEPT ![t].pc = "child"]
    <3>1. holder[s] = Nobody /\ holder' = [holder EXCEPT ![s] = t]
      BY <2>2 DEF Begin
    <3>2. CASE u = t
      <4>1. thread'[u].source = s
        BY <1>1, <2>2, <3>2 DEF Threads
      <4> QED
        BY <1>1, <2>1, <3>1, <3>2, <4>1
    <3>3. CASE u # t
      <4>1. thread'[u] = thread[u]
        BY <1>1, <2>2, <3>3
      <4>2. thread[u].pc = "child" => thread[u].source # s
        BY <1>2, <3>1
      <4> QED
        BY <1>4, <2>1, <3>1, <4>1, <4>2
    <3> QED
      BY <3>2, <3>3
  <2>3. CASE Overlap(s) /\ Exited(t, TRUE)
    BY <1>1, <1>2, <2>3 DEF Overlap, Exited, Threads
  <2> QED
    BY <1>8, <2>2, <2>3 DEF ChildBegins
<1>9. ASSUME NEW t \in Thread, NEW ok, Exited(t, ok), thread[t].pc \in {"launch", "child"},
             \/ holder' = holder
             \/ thread[t].pc = "child" /\ holder' = [holder EXCEPT ![thread[t].source] = Nobody],
             NEW u \in Thread
      PROVE  Holding(u)'
  <2>1. CASE u = t
    <3>1. thread'[u].pc = "exited"
      BY <1>1, <1>9, <2>1 DEF Exited, Threads
    <3> QED
      BY <3>1
  <2>2. CASE u # t
    <3>1. thread'[u] = thread[u]
      BY <1>1, <1>9, <2>2 DEF Exited
    <3>2. CASE holder' = holder
      BY <1>2, <3>1, <3>2
    <3>3. CASE thread[t].pc = "child" /\ holder' = [holder EXCEPT ![thread[t].source] = Nobody]
      <4>1. thread[t].source \in Source
        BY <1>2, <3>3
      <4>2. thread[u].pc = "child" => thread[u].source # thread[t].source
        BY <1>2, <2>2, <3>3
      <4> QED
        BY <1>4, <3>1, <3>3, <4>1, <4>2
    <3> QED
      BY <1>9, <3>2, <3>3
  <2> QED
    BY <2>1, <2>2
<1>10. ASSUME NEW t \in Thread, ChildRefuses(t) \/ ChildEnds(t) \/ Timeout(t), NEW u \in Thread
       PROVE  Holding(u)'
  <2>1. \E ok \in BOOLEAN : Exited(t, ok)
    BY <1>10 DEF ChildRefuses, ChildEnds, Timeout
  <2>2. /\ thread[t].pc \in {"launch", "child"}
        /\ \/ holder' = holder
           \/ thread[t].pc = "child" /\ holder' = [holder EXCEPT ![thread[t].source] = Nobody]
    BY <1>10 DEF ChildRefuses, ChildEnds, Timeout, Conclude, BreakOff
  <2> QED
    BY <1>9, <2>1, <2>2
<1>11. ASSUME NEW t \in Thread, NEW u \in Thread,
              \/ \E s \in Source : RunNow(t, s)
              \/ RunAllSafe(t) \/ ReadResult(t) \/ ReadRaises(t) \/ FinishBatch(t)
       PROVE  Holding(u)'
  <2>1. holder' = holder
    BY <1>11 DEF RunNow, RunAllSafe, Start, ReadResult, ReadRaises, FinishBatch
  <2>2. PICK new \in Threads : new.pc # "child" /\ thread' = [thread EXCEPT ![t] = new]
    <3>1. \A jobs \in Seq(Source), mode \in {"single", "batch"} : Start(t, jobs, mode) =>
             \E new \in Threads : new.pc # "child" /\ thread' = [thread EXCEPT ![t] = new]
      BY OffTyped, NextInLine DEF Start
    <3>2. \A s \in Source : <<s>> \in Seq(Source)
      OBVIOUS
    <3> QED
      BY <1>11, <3>1, <3>2, OffTyped, NextJobTyped
         DEF RunNow, RunAllSafe, ReadResult, ReadRaises, FinishBatch
  <2> QED
    BY <1>1, <1>2, <2>1, <2>2
<1>12. ASSUME Restart, NEW u \in Thread PROVE Holding(u)'
  <2>1. thread'[u] = Off
    BY <1>12 DEF Restart
  <2> QED
    BY <2>1, OffTyped
<1>13. ASSUME UNCHANGED vars, NEW u \in Thread PROVE Holding(u)'
  BY <1>2, <1>13 DEF vars
<1> QED
  BY <1>5, <1>6, <1>7, <1>8, <1>10, <1>11, <1>12, <1>13 DEF Next

-----------------------------------------------------------------------------
(***************************************************************************)
(* The invariants                                                           *)
(***************************************************************************)
LEMMA NextIInv == IInv /\ [Next]_vars => IInv'
<1> SUFFICES ASSUME IInv, [Next]_vars PROVE IInv'
  OBVIOUS
<1> USE DEF IInv
<1>1. TypeOK'
  <2>1. RowsTyped' /\ component' \in [Source -> Component \union {NoComponent}]
        /\ barred' \subseteq Source
    BY NextRows, NextComponent
  <2>2. thread' \in [Thread -> Threads] /\ control' \in Controls
    BY ThreadStep
  <2> QED
    BY <2>1, <2>2 DEF TypeOK, RowsTyped, History, Threads, Controls
<1> QED
  BY <1>1, NextRows, NextComponent, ThreadStep, NextChildrenHold

LEMMA SpecIInv == Spec => []IInv
<1>1. IInv /\ [Next]_vars => IInv'
  BY NextIInv
<1> QED
  BY InitIInv, <1>1, PTL DEF Spec

\* The rows, the component rows, the locks and the dashboard's state and
\* threads stay what they are declared to be, and no history outgrows what a
\* snapshot looks at.
THEOREM TypeCorrect == Spec => []TypeOK
<1>1. IInv => TypeOK
  BY DEF IInv
<1> QED
  BY SpecIInv, <1>1, PTL

\* However the buttons, the children, their timeouts and a restart of the
\* dashboard interleave, two local collections never overlap, and the flag
\* shows the one that goes on.
THEOREM OneAtATime == Spec => []OneCollectionAtATime
<1>1. IInv => OneCollectionAtATime
  BY DEF IInv, OneThread
<1> QED
  BY SpecIInv, <1>1, PTL

\* HEALTHY is only said of a source whose newest row is a success, and such a
\* row is true: the last run that ended succeeded and none goes on.
THEOREM Earned == Spec => []HealthyIsEarned
<1>1. ASSUME IInv PROVE HealthyIsEarned
  <2>1. SUFFICES ASSUME NEW s \in Source, State(rows[s], component[s]) = "HEALTHY"
                 PROVE  ended[s] \in Success /\ holder[s] = Nobody
    BY DEF HealthyIsEarned
  <2>2. rows[s] # <<>> /\ Succeeded(MostRecent(rows[s]))
    BY <2>1 DEF State
  <2>3. rows[s] # <<>> /\ rows[s][1].status \in Success
    BY <2>2 DEF Succeeded, MostRecent
  <2> QED
    BY <1>1, <2>3 DEF IInv, TopIsTrue, TopRow
<1> QED
  BY SpecIInv, <1>1, PTL

\* A component that has been barred is BLOCKED to the health page until a run
\* acquires something: its counter outlives failed, killed and skipped runs.
THEOREM StaysVisible == Spec => []BlockedStaysVisible
<1>1. ASSUME IInv PROVE BlockedStaysVisible
  <2>1. SUFFICES ASSUME NEW s \in barred
                 PROVE  Acquisition(rows[s], component[s]) \notin {"HEALTHY", "SUCCESS"}
    BY DEF BlockedStaysVisible
  <2>2. s \in Source
    BY <1>1 DEF IInv, TypeOK
  <2>3. component[s].blocked /\ component[s].last \in {"BLOCKED", "FAILED"}
    BY <1>1, <2>2 DEF IInv, BarredIsNoted
  <2>4. component[s] # NoComponent
    BY <2>3 DEF NoComponent
  <2> QED
    BY <2>3, <2>4 DEF Acquisition
<1> QED
  BY SpecIInv, <1>1, PTL

-----------------------------------------------------------------------------
(***************************************************************************)
(* Least and greatest numbers                                               *)
(***************************************************************************)
LEMMA LeastFacts ==
    ASSUME NEW T \in SUBSET Nat, T # {}
    PROVE  Least(T) \in T /\ \A j \in T : Least(T) <= j
<1>1. PICK m \in T : \A n \in T : ~(<<n, m>> \in OpToRel(<, Nat))
  BY NatLessThanWellFounded, WFMin
<1>2. \A n \in T : ~(n < m)
  BY <1>1 DEF OpToRel
<1>3. \A n \in T : m <= n
  BY <1>2
<1> QED
  BY <1>3 DEF Least

LEMMA GreatestFacts ==
    ASSUME NEW n \in Nat, NEW T \in SUBSET (1..n), T # {}
    PROVE  Greatest(T) \in T /\ \A j \in T : j <= Greatest(T)
<1> DEFINE D == {n - i : i \in T}
<1>1. D \in SUBSET Nat /\ D # {}
  <2>1. PICK i \in T : TRUE
    OBVIOUS
  <2>2. n - i \in D
    BY <2>1
  <2>3. D \in SUBSET Nat
    OBVIOUS
  <2> QED
    BY <2>2, <2>3
<1>2. PICK m \in D : \A d \in D : m <= d
  BY <1>1, LeastFacts
<1>3. PICK k \in T : m = n - k
  BY <1>2
<1>4. \A j \in T : j <= k
  <2> SUFFICES ASSUME NEW j \in T PROVE j <= k
    OBVIOUS
  <2>1. n - j \in D
    OBVIOUS
  <2>2. j \in Int /\ k \in Int
    OBVIOUS
  <2> HIDE DEF D
  <2>3. n - k <= n - j
    BY <1>2, <1>3, <2>1
  <2> QED
    BY <2>2, <2>3
<1> QED
  BY <1>4 DEF Greatest

-----------------------------------------------------------------------------
(***************************************************************************)
(* What is on file                                                          *)
(***************************************************************************)
LEMMA FileFacts ==
    ASSUME NoveltyTypeOK
    PROVE  /\ Len(obs) \in Nat /\ DOMAIN obs = 1..Len(obs) /\ \A i \in 1..Len(obs) : obs[i] \in Observation
           /\ Len(events) \in Nat /\ DOMAIN events = 1..Len(events)
           /\ \A k \in 1..Len(events) : events[k] \in Event
<1>1. obs \in Seq(Observation) /\ events \in Seq(Event)
  BY DEF NoveltyTypeOK
<1> QED
  BY <1>1, LenProperties

LEMMA AppendFacts ==
    ASSUME NEW S, NEW s \in Seq(S), NEW x \in S
    PROVE  /\ Append(s, x) \in Seq(S) /\ Len(Append(s, x)) = Len(s) + 1
           /\ Len(s) \in Nat /\ DOMAIN s = 1..Len(s) /\ DOMAIN Append(s, x) = 1..(Len(s) + 1)
           /\ \A i \in 1..Len(s) : Append(s, x)[i] = s[i]
           /\ Append(s, x)[Len(s) + 1] = x
BY AppendProperties, LenProperties

LEMMA PriorFacts ==
    ASSUME NoveltyTypeOK, NEW w, NEW r
    PROVE  /\ Prior(w, r) \in 0..Len(obs)
           /\ Prior(w, r) = 0 <=> Market(w, r) = {}
           /\ Market(w, r) = {i \in 1..Len(obs) : obs[i].ref = w /\ obs[i].region = r}
           /\ Prior(w, r) # 0 => /\ Prior(w, r) \in Market(w, r)
                                 /\ \A i \in Market(w, r) : i <= Prior(w, r)
<1>1. Len(obs) \in Nat /\ DOMAIN obs = 1..Len(obs)
  BY FileFacts
<1>2. Market(w, r) = {i \in 1..Len(obs) : obs[i].ref = w /\ obs[i].region = r}
  BY <1>1 DEF Market, Seen
<1>3. CASE Market(w, r) = {}
  BY <1>1, <1>2, <1>3 DEF Prior
<1>4. CASE Market(w, r) # {}
  <2>1. Market(w, r) \in SUBSET (1..Len(obs))
    BY <1>2
  <2>2. Prior(w, r) = Greatest(Market(w, r))
    BY <1>4 DEF Prior
  <2>3. Prior(w, r) \in Market(w, r) /\ \A i \in Market(w, r) : i <= Prior(w, r)
    BY <1>1, <1>4, <2>1, <2>2, GreatestFacts
  <2> QED
    BY <1>1, <1>2, <1>4, <2>1, <2>3
<1> QED
  BY <1>3, <1>4

LEMMA NoneFacts ==
    /\ None \notin Ref /\ None \notin Region /\ None \notin Collection /\ None \notin Stock
    /\ None \notin Nat /\ None \notin Lane /\ None \notin Operator /\ None \notin Facts
    /\ None \notin EventType
BY NoveltyAssumption

-----------------------------------------------------------------------------
(***************************************************************************)
(* What an observation is reported as                                       *)
(***************************************************************************)
LEMMA TypesApart ==
    /\ Change \cap (Claim \union Sighting) = {} /\ Claim \cap Sighting # {} /\ Supply \subseteq Change
    /\ Claim \subseteq EventType /\ Sighting \subseteq EventType /\ Change \subseteq EventType
    /\ "NEW_REFERENCE" \in Claim /\ "SOLD_OUT" \in Supply /\ "PRICE_CHANGE" \in Change
BY DEF Change, Claim, Sighting, Supply, EventType

LEMMA TransitionFacts ==
    ASSUME NEW old, NEW new
    PROVE  /\ Transition(old, new) \in Change \union {None}
           /\ Transition(old, new) # None
                  <=> Moved(old.stock, new.stock) \/ Moved(old.price, new.price)
           /\ Transition(old, new) = "SOLD_OUT" => new.stock \in Gone
           /\ Transition(old, new) = "PRICE_CHANGE" => Moved(old.price, new.price)
<1>1. None \notin {"SOLD_OUT", "RESTOCK", "AVAILABILITY_CHANGE", "PRICE_CHANGE"}
  BY NoneFacts DEF EventType, Change, Supply
<1> HIDE DEF Moved
<1>2. CASE Moved(old.stock, new.stock)
  BY <1>1, <1>2 DEF Transition, Change, Supply
<1>3. CASE ~Moved(old.stock, new.stock) /\ Moved(old.price, new.price)
  BY <1>1, <1>3 DEF Transition, Change, Supply
<1>4. CASE ~Moved(old.stock, new.stock) /\ ~Moved(old.price, new.price)
  <2>1. Transition(old, new) = None
    BY <1>4 DEF Transition
  <2> QED
    BY <1>1, <1>4, <2>1
<1> QED
  BY <1>2, <1>3, <1>4

LEMMA TypeTyped ==
    ASSUME NEW page, NEW l
    PROVE  Type(page, l) \in EventType \union {None}
<1>1. FirstSighting(page.ref, page.facts, l) \in EventType
  BY TypesApart DEF FirstSighting, Sighting, EventType
<1>2. Later(page, RegionOf[l]) \in EventType \union {None}
  BY TransitionFacts, TypesApart DEF Later, Claim
<1> QED
  BY <1>1, <1>2 DEF Type

-----------------------------------------------------------------------------
(***************************************************************************)
(* Scores                                                                   *)
(***************************************************************************)
LEMMA DivFacts == ASSUME NEW a \in Nat, NEW b \in Nat, b # 0 PROVE a \div b \in Nat
OBVIOUS

LEMMA PercentTyped ==
    ASSUME NEW old \in Nat, NEW new \in Nat
    PROVE  Percent(old, new) \in Nat
<1> DEFINE d == IF new > old THEN new - old ELSE old - new
<1>1. d \in Nat /\ 100 * d \in Nat
  OBVIOUS
<1> HIDE DEF d
<1>2. CASE old # 0
  <2> DEFINE n == 100 * d
  <2>1. n \in Nat
    BY <1>1
  <2> HIDE DEF n
  <2>2. n \div old \in Nat
    BY <1>2, <2>1, DivFacts
  <2>3. Percent(old, new) = n \div old
    BY <1>2 DEF Percent, d, n
  <2> QED
    BY <2>2, <2>3
<1> QED
  BY <1>2 DEF Percent

LEMMA BaseTyped ==
    ASSUME NEW type, NEW page, NEW old,
           type = "PRICE_CHANGE" => old.price \in Nat /\ page.price \in Nat
    PROVE  Base(type, page, old) \in Nat
<1>1. CASE type = "PRICE_CHANGE"
  <2>0. old.price \in Nat /\ page.price \in Nat
    BY <1>1
  <2>1. Percent(old.price, page.price) \in Nat
    BY ONLY <2>0, PercentTyped
  <2>2. AtMost(10 + Percent(old.price, page.price), 35) \in Nat
    BY <2>1 DEF AtMost
  <2> QED
    BY <1>1, <2>2 DEF Base
<1>2. CASE type = "NEW_REGION"
  BY <1>2 DEF Base, If
<1>3. CASE type \notin {"PRICE_CHANGE", "NEW_REGION"}
  BY <1>3 DEF Base
<1> QED
  BY <1>1, <1>2, <1>3

LEMMA CharacterTyped ==
    ASSUME NEW type, NEW f \in Facts, NEW firstParty \in BOOLEAN
    PROVE  /\ Character(type, f, firstParty) \in Nat
           /\ f.named < 2 => Character(type, f, firstParty) <= 40
<1>1. f.named \in 0..2
  BY DEF Facts
<1> QED
  BY <1>1 DEF Character, If, Named

LEMMA ReportTyped ==
    ASSUME NoveltyTypeOK, NEW type \in EventType, NEW page, page.ref \in Ref, NEW f \in Facts,
           NEW new \in Nat, NEW prior \in 0..Len(obs), NEW by \in Lane \union Operator \union {None},
           NEW rapid \in BOOLEAN, NEW firstParty \in BOOLEAN,
           type = "PRICE_CHANGE" =>
              prior # 0 /\ page.price \in Nat \union {None} /\ Moved(obs[prior].price, page.price)
    PROVE  /\ EventOf(type, page, f, new, prior, by, rapid, firstParty) \in Event
           /\ EventOf(type, page, f, new, prior, by, rapid, firstParty).type = type
           /\ EventOf(type, page, f, new, prior, by, rapid, firstParty).ref = page.ref
           /\ EventOf(type, page, f, new, prior, by, rapid, firstParty).new = new
           /\ EventOf(type, page, f, new, prior, by, rapid, firstParty).by = by
           /\ type = "SOLD_OUT" /\ f.named < 2 /\ ~rapid =>
                 ~EventOf(type, page, f, new, prior, by, rapid, firstParty).current
<1> DEFINE old == IF prior = 0 THEN page ELSE obs[prior]
           score == Scored(type, page, f, old, rapid, firstParty)
           current == Editorial(type, f, score)
           e == EventOf(type, page, f, new, prior, by, rapid, firstParty)
<1>1. type = "PRICE_CHANGE" => old.price \in Nat /\ page.price \in Nat
  <2> SUFFICES ASSUME type = "PRICE_CHANGE" PROVE old.price \in Nat /\ page.price \in Nat
    OBVIOUS
  <2>1. old = obs[prior] /\ prior \in 1..Len(obs)
    BY FileFacts
  <2>2. obs[prior].price \in Nat \union {None}
    BY <2>1, FileFacts DEF Observation
  <2> QED
    BY <2>1, <2>2 DEF Moved
<1> HIDE DEF old
<1>2. Base(type, page, old) \in Nat /\ Character(type, f, firstParty) \in Nat
  <2>1. Base(type, page, old) \in Nat
    BY <1>1, BaseTyped
  <2>2. Character(type, f, firstParty) \in Nat
    BY CharacterTyped
  <2> QED
    BY <2>1, <2>2
<1> DEFINE points == Base(type, page, old) + (IF rapid THEN 35 ELSE 0) + Character(type, f, firstParty)
<1>9. points \in Nat /\ (~rapid => points = Base(type, page, old) + Character(type, f, firstParty))
  BY <1>2
<1>10. score = IF points > 100 THEN 100 ELSE points
  BY DEF Scored, AtMost, If
<1>3. score \in 0..100
  <2> HIDE DEF points, score
  <2> QED
    BY <1>9, <1>10
<1>4. type = "SOLD_OUT" /\ f.named < 2 /\ ~rapid => ~(score >= 70)
  <2>1. type = "SOLD_OUT" => Base(type, page, old) = 25
    BY DEF Base
  <2>2. f.named < 2 => Character(type, f, firstParty) <= 40
    BY CharacterTyped
  <2> QED
    <3> HIDE DEF points, score
    <3> QED
      BY <1>2, <1>9, <1>10, <2>1, <2>2
<1> HIDE DEF score, points
<1>5. current \in BOOLEAN /\ (type = "SOLD_OUT" /\ f.named < 2 /\ ~rapid => ~current)
  BY <1>4, TypesApart DEF Editorial
<1>6. e = [type |-> type, ref |-> page.ref, new |-> new, prior |-> prior, by |-> by,
           score |-> score, current |-> current, burst |-> FALSE]
  BY DEF EventOf, score, old
<1> HIDE DEF current, e
<1>7. prior \in Nat
  BY FileFacts
<1>8. e \in Event
  BY <1>3, <1>5, <1>6, <1>7 DEF Event
<1> QED
  BY <1>5, <1>6, <1>8 DEF e

-----------------------------------------------------------------------------
(***************************************************************************)
(* The inductive invariant                                                  *)
(***************************************************************************)
KnownWatches == {w \in Ref : Known(w)}

\* A run works on what its source served.
RunsServe == \A l \in Lane : run[l].pages \in Served[l] \union {<<>>}

\* What is on file is about watches on file, of which there are finitely many.
OnFile ==
    /\ IsFiniteSet(KnownWatches)
    /\ \A i \in 1..Len(obs) : Known(obs[i].ref)
    /\ \A k \in 1..Len(events) :
          /\ Known(events[k].ref) /\ events[k].new <= Len(obs)
          /\ events[k].type \in Change => events[k].new >= 1
    /\ \A o \in Operator : /\ op[o].ref # None => Seen(op[o].ref) # {}
                           /\ op[o].seen # None => op[o].ref # None

ChangedAt(j) ==
    \E i \in 1..(j - 1) : /\ Adjacent(i, j)
                          /\ Moved(obs[i].stock, obs[j].stock) \/ Moved(obs[i].price, obs[j].price)

\* ChangesAreReportedOnce without numbers.
ReportedOnce ==
    \A j \in 1..Len(obs) :
        IF ChangedAt(j) /\ ~obs[j].baseline THEN \E k \in DOMAIN events : Changes(j) = {k} ELSE Changes(j) = {}

\* What a catch-up has checked still holds of the Events it has checked.
CheckedWereFree ==
    \A o \in Operator : op[o].seen # None =>
        \A k \in 1..op[o].seen : ~(events[k].ref = op[o].ref /\ events[k].type \in Claim)

NoveltyInv ==
    /\ NoveltyTypeOK /\ RunsServe /\ OnFile
    /\ ReportedOnce /\ InheritedStockIsOld /\ CheckedWereFree

-----------------------------------------------------------------------------
(***************************************************************************)
(* One page                                                                 *)
(***************************************************************************)
LEMMA PageFacts ==
    ASSUME NoveltyTypeOK, NEW l \in Lane, Working(l)
    PROVE  run[l].pages[run[l].next] \in Page
<1>1. run[l] \in Run
  BY DEF NoveltyTypeOK
<1>2. run[l].pages \in Seq(Page) /\ run[l].next \in DOMAIN run[l].pages
  BY <1>1 DEF Run, Working
<1> QED
  BY <1>2

LEMMA ResolvedFacts ==
    ASSUME NoveltyTypeOK, NEW page \in Page
    PROVE  /\ Resolved(page) \in Facts
           /\ Known(page.ref) => Resolved(page).named = watches[page.ref].named
           /\ ~Known(page.ref) => Resolved(page) = page.facts
           /\ Known(page.ref) => Resolved(page).pub = watches[page.ref].pub
<1>1. page.ref \in Ref /\ page.facts \in Facts /\ page.facts.coll \in Collection \union {None}
  BY DEF Page, Facts
<1>2. CASE Known(page.ref)
  <2> DEFINE f == watches[page.ref]
             coll == IF f.coll = None THEN page.facts.coll ELSE f.coll
             g == [f EXCEPT !.coll = coll]
  <2>1. f \in Facts
    BY <1>1, <1>2 DEF Known, NoveltyTypeOK
  <2>2. Resolved(page) = g
    BY <1>2 DEF Resolved
  <2> HIDE DEF f
  <2>3. coll \in Collection \union {None}
    BY <1>1, <2>1 DEF Facts
  <2> HIDE DEF coll
  <2>4. g \in Facts /\ g.named = f.named /\ g.pub = f.pub
    BY <2>1, <2>3 DEF Facts
  <2> QED
    BY <1>2, <2>2, <2>4 DEF f
<1>3. CASE ~Known(page.ref)
  BY <1>1, <1>3 DEF Resolved
<1> QED
  BY <1>2, <1>3

LEMMA ObservedTyped ==
    ASSUME NoveltyTypeOK, NEW l \in Lane, NEW page \in Page
    PROVE  /\ Observed(page, l) \in Observation
           /\ Observed(page, l).ref = page.ref /\ Observed(page, l).region = RegionOf[l]
           /\ Observed(page, l).stock = page.stock /\ Observed(page, l).price = page.price
           /\ Observed(page, l).baseline = run[l].silent
<1>1. RegionOf[l] \in Region /\ run[l].silent \in BOOLEAN /\ day \in 0..MaxDay
  BY NoveltyAssumption DEF NoveltyTypeOK, Run
<1> QED
  BY <1>1 DEF Observed, Observation, Page

\* A change is reported where, and only where, a loud run sees one.
LEMMA ChangeType ==
    ASSUME NoveltyInv, NEW l \in Lane, NEW page \in Page
    PROVE  /\ Type(page, l) \in Change <=>
                 /\ ~run[l].silent /\ Prior(page.ref, RegionOf[l]) # 0
                 /\ \/ Moved(obs[Prior(page.ref, RegionOf[l])].stock, page.stock)
                    \/ Moved(obs[Prior(page.ref, RegionOf[l])].price, page.price)
           /\ Type(page, l) \in Change =>
                 Type(page, l) = Transition(obs[Prior(page.ref, RegionOf[l])], page)
<1> DEFINE p == Prior(page.ref, RegionOf[l])
           t == Transition(obs[p], page)
<1> DEFINE Differs == Moved(obs[p].stock, page.stock) \/ Moved(obs[p].price, page.price)
<1>1. FirstSighting(page.ref, page.facts, l) \notin Change
  BY TypesApart DEF FirstSighting, Sighting, Change, Supply
<1>2. /\ None \notin Change /\ "NEW_REGION" \notin Change
      /\ t \in Change \union {None}
      /\ t # None <=> Differs
  BY TypesApart, TransitionFacts, NoneFacts DEF EventType, Change, Supply
<1>3. p # 0 => Known(page.ref)
  <2>1. p # 0 => p \in 1..Len(obs) /\ obs[p].ref = page.ref
    BY PriorFacts DEF NoveltyInv
  <2> QED
    BY <2>1 DEF NoveltyInv, OnFile
<1>4. Later(page, RegionOf[l]) = IF p # 0 THEN t
                                 ELSE IF ProductRegions(page.ref) \union markets[page.ref] # {}
                                      THEN "NEW_REGION" ELSE None
  BY DEF Later
<1> DEFINE Changed == ~run[l].silent /\ p # 0 /\ Differs
           Goal == (Type(page, l) \in Change <=> Changed) /\ (Type(page, l) \in Change => Type(page, l) = t)
<1> SUFFICES Goal
  BY DEF Differs
<1> HIDE DEF p, t, Differs
<1>5. CASE run[l].silent
  BY <1>1, <1>2, <1>5 DEF Type
<1>6. CASE ~run[l].silent /\ ~Known(page.ref)
  BY <1>1, <1>3, <1>6 DEF Type
<1>7. CASE ~run[l].silent /\ Known(page.ref)
  <2>1. Type(page, l) = Later(page, RegionOf[l])
    BY <1>7 DEF Type
  <2> QED
    BY <1>2, <1>4, <1>7, <2>1
<1> QED
  BY <1>5, <1>6, <1>7

LEMMA ReportedFacts ==
    ASSUME NoveltyInv, NEW l \in Lane, NEW page \in Page, NEW type, type = Type(page, l), type # None
    PROVE  /\ Reported(type, page, l) \in Event
           /\ Reported(type, page, l).type = type /\ Reported(type, page, l).ref = page.ref
           /\ Reported(type, page, l).new = Len(obs) + 1 /\ Reported(type, page, l).by = l
           /\ type = "SOLD_OUT" /\ Reported(type, page, l).current /\ Resolved(page).named < 2
                 => LaunchEvidence(page.ref, RegionOf[l]) # {}
<1> DEFINE prior == IF type \in Claim \union Sighting THEN 0 ELSE Prior(page.ref, RegionOf[l])
           rapid == type \in Supply /\ Rapid(page, RegionOf[l])
           f == Resolved(page)
<1>1. /\ type \in EventType /\ page.ref \in Ref /\ page.price \in Nat \union {None}
      /\ f \in Facts /\ Len(obs) + 1 \in Nat /\ rapid \in BOOLEAN /\ (l \in FirstParty) \in BOOLEAN
      /\ l \in Lane \union Operator \union {None}
  BY TypeTyped, ResolvedFacts, FileFacts DEF NoveltyInv, Page
<1>2. prior \in 0..Len(obs)
  BY PriorFacts, FileFacts DEF NoveltyInv
<1>3. type = "PRICE_CHANGE" => prior # 0 /\ Moved(obs[prior].price, page.price)
  <2> SUFFICES ASSUME type = "PRICE_CHANGE" PROVE prior # 0 /\ Moved(obs[prior].price, page.price)
    OBVIOUS
  <2>1. type \in Change /\ type \notin Claim \union Sighting
    BY DEF Change, Claim, Sighting
  <2>2. prior = Prior(page.ref, RegionOf[l])
    BY <2>1
  <2> HIDE DEF prior
  <2>3. prior # 0 /\ type = Transition(obs[prior], page)
    BY <2>1, <2>2, ChangeType
  <2> QED
    BY <2>3, TransitionFacts
<1>4. Reported(type, page, l) =
          EventOf(type, page, f, Len(obs) + 1, prior, l, rapid, l \in FirstParty)
  BY DEF Reported
<1>5. type = "SOLD_OUT" /\ rapid => LaunchEvidence(page.ref, RegionOf[l]) # {}
  <2> SUFFICES ASSUME type = "SOLD_OUT", rapid PROVE LaunchEvidence(page.ref, RegionOf[l]) # {}
    OBVIOUS
  <2>1. page.stock \in Gone
    <3>1. "SOLD_OUT" \in Change
      BY DEF Change, Supply
    <3>2. Transition(obs[Prior(page.ref, RegionOf[l])], page) = "SOLD_OUT"
      BY <3>1, ChangeType
    <3> QED
      BY <3>2, TransitionFacts
  <2> QED
    BY <2>1 DEF Rapid, Gone
<1> DEFINE first == l \in FirstParty
           e == EventOf(type, page, f, Len(obs) + 1, prior, l, rapid, first)
<1>8. first \in BOOLEAN
  OBVIOUS
<1> HIDE DEF prior, rapid, f, first
<1>6. /\ e \in Event /\ e.type = type /\ e.ref = page.ref /\ e.new = Len(obs) + 1 /\ e.by = l
      /\ type = "SOLD_OUT" /\ f.named < 2 /\ ~rapid => ~e.current
  BY <1>1, <1>2, <1>3, <1>8, ReportTyped DEF NoveltyInv
<1> HIDE DEF e
<1>7. Reported(type, page, l) = e
  BY <1>4 DEF e, first
<1> QED
  BY <1>5, <1>6, <1>7 DEF f

-----------------------------------------------------------------------------
(***************************************************************************)
(* Types                                                                    *)
(***************************************************************************)
RunsTyped ==
    /\ run \in [Lane -> Run]
    /\ \A l \in Lane : /\ run[l] = NoRun \/ run[l].next \in 1..(Len(run[l].pages) + 1)
                       /\ run[l].mine \subseteq DOMAIN events

OpsTyped == op \in [Operator -> [ref : Ref \union {None}, seen : 0..Len(events) \union {None}]]

SpentTyped == spent \in [runs : 0..MaxRuns, news : 0..MaxNews, looks : 0..MaxLooks, faults : 0..MaxFaults]

LEMMA NoRunTyped == NoRun \in Run /\ NoCatchUp \in [ref : Ref \union {None}, seen : Nat \union {None}]
<1>1. <<>> \in Seq(Page)
  OBVIOUS
<1> QED
  BY <1>1 DEF NoRun, Run, NoCatchUp

LEMMA RunStepTyped ==
    ASSUME NoveltyTypeOK, NEW l \in Lane, NEW r \in Run, run' = [run EXCEPT ![l] = r],
           r = NoRun \/ r.next \in 1..(Len(r.pages) + 1),
           r.mine \subseteq DOMAIN events', DOMAIN events \subseteq DOMAIN events'
    PROVE  RunsTyped'
<1>1. run \in [Lane -> Run]
  BY DEF NoveltyTypeOK
<1>2. run' \in [Lane -> Run]
  BY <1>1
<1>3. ASSUME NEW m \in Lane
      PROVE  /\ run'[m] = NoRun \/ run'[m].next \in 1..(Len(run'[m].pages) + 1)
             /\ run'[m].mine \subseteq DOMAIN events'
  <2>1. CASE m = l
    BY <1>1, <2>1
  <2>2. CASE m # l
    BY <1>1, <2>2 DEF NoveltyTypeOK
  <2> QED
    BY <2>1, <2>2
<1> QED
  BY <1>2, <1>3 DEF RunsTyped

LEMMA RunsKeepTyped ==
    ASSUME NoveltyTypeOK, run' = run, DOMAIN events \subseteq DOMAIN events'
    PROVE  RunsTyped'
BY DEF NoveltyTypeOK, RunsTyped

LEMMA OpsKeepTyped ==
    ASSUME NoveltyTypeOK, op' = op, Len(events') \in Nat, Len(events) <= Len(events')
    PROVE  OpsTyped'
<1>1. Len(events) \in Nat
  BY FileFacts
<1>2. 0..Len(events) \subseteq 0..Len(events')
  BY <1>1
<1> QED
  BY <1>2 DEF NoveltyTypeOK, OpsTyped

LEMMA SpentFacts ==
    ASSUME NoveltyTypeOK
    PROVE  /\ SpentTyped
           /\ spent.runs < MaxRuns => [spent EXCEPT !.runs = @ + 1] \in
                 [runs : 0..MaxRuns, news : 0..MaxNews, looks : 0..MaxLooks, faults : 0..MaxFaults]
           /\ spent.news < MaxNews => [spent EXCEPT !.news = @ + 1] \in
                 [runs : 0..MaxRuns, news : 0..MaxNews, looks : 0..MaxLooks, faults : 0..MaxFaults]
           /\ spent.looks < MaxLooks => [spent EXCEPT !.looks = @ + 1] \in
                 [runs : 0..MaxRuns, news : 0..MaxNews, looks : 0..MaxLooks, faults : 0..MaxFaults]
           /\ Fault => SpentTyped'
<1>1. MaxRuns \in Nat /\ MaxNews \in Nat /\ MaxLooks \in Nat /\ MaxFaults \in Nat
  BY NoveltyAssumption
<1>2. SpentTyped
  BY DEF NoveltyTypeOK, SpentTyped
<1> QED
  BY <1>1, <1>2 DEF SpentTyped, Fault

\* The parts of NoveltyTypeOK.
LEMMA TypeParts ==
    /\ NoveltyTypeOK => RunsTyped /\ OpsTyped /\ SpentTyped
    /\ /\ day \in 0..MaxDay /\ watches \in [Ref -> Facts \union {None}]
       /\ obs \in Seq(Observation) /\ events \in Seq(Event)
       /\ markets \in [Ref -> SUBSET Region] /\ lead \in Ref \union {None}
       /\ RunsTyped /\ OpsTyped /\ SpentTyped
       => NoveltyTypeOK
BY DEF NoveltyTypeOK, RunsTyped, OpsTyped, SpentTyped

-----------------------------------------------------------------------------
(***************************************************************************)
(* Steps that make no observation                                           *)
(***************************************************************************)
\* Events are only added, and an old one changes in its burst at most.
EventsKept ==
    /\ Len(events) <= Len(events')
    /\ \A k \in 1..Len(events) :
          /\ events'[k].type = events[k].type /\ events'[k].ref = events[k].ref
          /\ events'[k].new = events[k].new /\ events'[k].current = events[k].current

\* A watch stays on file as what its name says it is.
WatchesKept ==
    \A w \in Ref : Known(w) => watches'[w] # None /\ watches'[w].named = watches[w].named

OpsChecked ==
    \A o \in Operator :
        /\ op'[o].ref # None => Seen(op'[o].ref) # {}
        /\ op'[o].seen # None =>
              /\ op'[o].ref # None /\ op'[o].seen <= Len(events)
              /\ \A k \in 1..op'[o].seen : ~(events[k].ref = op'[o].ref /\ events[k].type \in Claim)

LEMMA FileStep ==
    ASSUME NoveltyInv, NoveltyTypeOK', RunsServe', obs' = obs, IsFiniteSet(KnownWatches'),
           EventsKept, WatchesKept, OpsChecked,
           \A k \in (Len(events) + 1)..Len(events') :
              events'[k].type \in Claim /\ events'[k].new <= Len(obs) /\ watches'[events'[k].ref] # None
    PROVE  NoveltyInv'
<1> DEFINE n == Len(events)
           n2 == Len(events')
<1>1. /\ n \in Nat /\ n2 \in Nat /\ n <= n2 /\ DOMAIN events = 1..n /\ DOMAIN events' = 1..n2
      /\ \A k \in 1..n : events[k] \in Event
      /\ \A k \in 1..n2 : events'[k] \in Event
  <2>1. events \in Seq(Event) /\ events' \in Seq(Event)
    BY DEF NoveltyInv, NoveltyTypeOK
  <2> QED
    BY <2>1, LenProperties DEF EventsKept
<1>2. \A k \in 1..n2 : k \in 1..n \/ k \in (n + 1)..n2
  BY <1>1
<1> HIDE DEF n, n2
<1>3. \A k \in 1..n : /\ events'[k].type = events[k].type /\ events'[k].ref = events[k].ref
                      /\ events'[k].new = events[k].new /\ events'[k].current = events[k].current
                      /\ events[k].ref \in Ref /\ events[k].type \in EventType
  BY <1>1 DEF EventsKept, n, Event
<1>4. \A k \in (n + 1)..n2 : events'[k].type \in Claim /\ events'[k].new <= Len(obs)
                               /\ watches'[events'[k].ref] # None
  BY DEF n, n2
<1>5. Claim \cap Change = {} /\ "SOLD_OUT" \notin Claim
  BY DEF Claim, Change, Supply
<1>6. OnFile'
  <2>1. \A i \in 1..Len(obs) : watches'[obs[i].ref] # None
    <3>1. \A i \in 1..Len(obs) : obs[i].ref \in Ref
      BY FileFacts DEF NoveltyInv, Observation
    <3> QED
      BY <3>1 DEF NoveltyInv, OnFile, WatchesKept
  <2>2. ASSUME NEW k \in 1..n2
        PROVE  /\ watches'[events'[k].ref] # None /\ events'[k].new <= Len(obs)
               /\ events'[k].type \in Change => events'[k].new >= 1
    <3>1. CASE k \in 1..n
      <4>1. Known(events[k].ref) /\ events[k].new <= Len(obs)
            /\ (events[k].type \in Change => events[k].new >= 1)
        BY <3>1 DEF NoveltyInv, OnFile, n
      <4>2. watches'[events[k].ref] # None
        BY <1>3, <3>1, <4>1 DEF WatchesKept
      <4> QED
        BY <1>3, <3>1, <4>1, <4>2
    <3>2. CASE k \in (n + 1)..n2
      BY <1>4, <1>5, <3>2
    <3> QED
      BY <1>2, <3>1, <3>2
  <2>3. \A o \in Operator :
            /\ op'[o].ref # None => {i \in DOMAIN obs' : obs'[i].ref = op'[o].ref} # {}
            /\ op'[o].seen # None => op'[o].ref # None
    BY DEF OpsChecked, Seen
  <2> QED
    BY <2>1, <2>2, <2>3 DEF OnFile, n2, Known, Seen
<1>7. \A j : Changes(j)' = Changes(j)
  <2> SUFFICES ASSUME NEW j PROVE Changes(j)' = Changes(j)
    OBVIOUS
  <2>1. Changes(j)' = {k \in 1..n2 : events'[k].new = j /\ events'[k].type \in Change}
    BY <1>1 DEF Changes
  <2>2. Changes(j) = {k \in 1..n : events[k].new = j /\ events[k].type \in Change}
    BY <1>1 DEF Changes
  <2>3. 1..n \subseteq 1..n2
    BY <1>1
  <2> QED
    BY <1>2, <1>3, <1>4, <1>5, <2>1, <2>2, <2>3
<1>8. ReportedOnce'
  <2>1. ASSUME NEW j \in 1..Len(obs)
        PROVE  IF ChangedAt(j)' /\ ~obs'[j].baseline THEN \E k \in DOMAIN events' : Changes(j)' = {k}
               ELSE Changes(j)' = {}
    <3>1. ChangedAt(j)' <=> ChangedAt(j)
      BY DEF ChangedAt, Adjacent
    <3>2. DOMAIN events \subseteq DOMAIN events'
      BY <1>1
    <3> QED
      BY <1>7, <3>1, <3>2 DEF NoveltyInv, ReportedOnce
  <2> QED
    BY <2>1 DEF ReportedOnce
<1>9. InheritedStockIsOld'
  <2> SUFFICES ASSUME NEW k \in 1..n2, events'[k].type = "SOLD_OUT", events'[k].current,
                      watches'[events'[k].ref].named < 2
               PROVE  \E i \in 1..(events'[k].new - 1) :
                         /\ obs[i].ref = events'[k].ref /\ obs[i].region = obs[events'[k].new].region
                         /\ obs[i].stock = "AVAILABLE" /\ ~obs[i].baseline
    BY <1>1 DEF InheritedStockIsOld
  <2>1. k \in 1..n
    BY <1>2, <1>4, <1>5
  <2>2. /\ events[k].type = "SOLD_OUT" /\ events[k].current /\ events'[k].ref = events[k].ref
        /\ events'[k].new = events[k].new /\ events[k].ref \in Ref
    BY <1>3, <2>1
  <2>3. Known(events[k].ref)
    BY <2>1 DEF NoveltyInv, OnFile, n
  <2>4. watches[events[k].ref].named < 2
    BY <2>2, <2>3 DEF WatchesKept
  <2> QED
    BY <1>1, <2>1, <2>2, <2>4 DEF NoveltyInv, InheritedStockIsOld
<1>10. CheckedWereFree'
  <2> SUFFICES ASSUME NEW o \in Operator, op'[o].seen # None, NEW k \in 1..op'[o].seen
               PROVE  ~(events'[k].ref = op'[o].ref /\ events'[k].type \in Claim)
    BY DEF CheckedWereFree
  <2>1. op'[o].seen <= n /\ op'[o].seen \in Nat
    <3>1. op'[o] \in [ref : Ref \union {None}, seen : 0..n2 \union {None}]
      BY DEF NoveltyTypeOK, n2
    <3> QED
      BY <1>1, <3>1 DEF OpsChecked, n
  <2>2. k \in 1..n
    BY <1>1, <2>1
  <2> QED
    BY <1>3, <2>2 DEF OpsChecked
<1> QED
  BY <1>6, <1>8, <1>9, <1>10 DEF NoveltyInv

LEMMA OpsStay ==
    ASSUME NoveltyInv, op' = op
    PROVE  OpsChecked
<1> SUFFICES ASSUME NEW o \in Operator, op[o].seen # None PROVE op[o].seen <= Len(events)
  BY DEF OpsChecked, NoveltyInv, OnFile, CheckedWereFree
<1>1. op[o] \in [ref : Ref \union {None}, seen : 0..Len(events) \union {None}]
  BY DEF NoveltyInv, NoveltyTypeOK
<1> QED
  BY <1>1, FileFacts DEF NoveltyInv

LEMMA QuietStep ==
    ASSUME NoveltyInv, UNCHANGED <<watches, obs, events>>, NoveltyTypeOK', RunsServe', OpsChecked
    PROVE  NoveltyInv'
<1>1. KnownWatches' = KnownWatches
  BY DEF KnownWatches, Known
<1>2. EventsKept /\ WatchesKept
  BY FileFacts DEF EventsKept, WatchesKept, Known, NoveltyInv
<1>3. (Len(events) + 1)..Len(events') = {}
  BY FileFacts DEF NoveltyInv
<1>4. IsFiniteSet(KnownWatches')
  BY <1>1 DEF NoveltyInv, OnFile
<1> QED
  BY <1>2, <1>3, <1>4, FileStep

LEMMA RunsServeStep ==
    ASSUME NoveltyInv, NEW l \in Lane, NEW r, run' = [run EXCEPT ![l] = r],
           r.pages \in Served[l] \union {<<>>} \/ r.pages = run[l].pages
    PROVE  RunsServe'
<1>1. run \in [Lane -> Run] /\ RunsServe
  BY DEF NoveltyInv, NoveltyTypeOK
<1> SUFFICES ASSUME NEW m \in Lane PROVE run'[m].pages \in Served[m] \union {<<>>}
  BY DEF RunsServe
<1>2. CASE m = l
  BY <1>1, <1>2 DEF RunsServe
<1>3. CASE m # l
  BY <1>1, <1>3 DEF RunsServe
<1> QED
  BY <1>2, <1>3

LEMMA StageOK ==
    ASSUME NoveltyInv, NEW l \in Lane, NEW s \in Served[l], NEW silent \in BOOLEAN, Stage(l, s, silent)
    PROVE  NoveltyInv'
<1> DEFINE r == [pages |-> s, next |-> 1, silent |-> silent, mine |-> {}]
<1>1. NoveltyTypeOK /\ UNCHANGED <<day, watches, obs, events, markets, lead, op>>
      /\ run' = [run EXCEPT ![l] = r] /\ spent.runs < MaxRuns
      /\ spent' = [spent EXCEPT !.runs = @ + 1]
  BY DEF Stage, NoveltyInv
<1>2. s \in Seq(Page) /\ Len(s) \in Nat
  BY NoveltyAssumption, LenProperties
<1>3. r \in Run /\ r.next \in 1..(Len(r.pages) + 1) /\ r.mine \subseteq DOMAIN events'
      /\ r.pages = s
  BY <1>2 DEF Run
<1> HIDE DEF r
<1>4. RunsTyped' /\ RunsServe'
  BY <1>1, <1>3, RunStepTyped, RunsServeStep
<1>5. SpentTyped'
  BY <1>1, SpentFacts DEF SpentTyped
<1>6. OpsTyped'
  BY <1>1, OpsKeepTyped, FileFacts
<1>7. NoveltyTypeOK'
  BY <1>1, <1>4, <1>5, <1>6 DEF NoveltyTypeOK, RunsTyped, OpsTyped, SpentTyped
<1> QED
  BY <1>1, <1>4, <1>7, OpsStay, QuietStep

LEMMA ItemFailsOrCrashOK ==
    ASSUME NoveltyInv, NEW l \in Lane, ItemFails(l) \/ Crash(l)
    PROVE  NoveltyInv'
<1> DEFINE a == run[l]
           r == [a EXCEPT !.next = @ + 1]
<1>1. NoveltyTypeOK /\ UNCHANGED <<day, watches, obs, events, markets, lead, op>> /\ Fault
      /\ a \in Run /\ a.mine \subseteq DOMAIN events
  BY DEF ItemFails, Crash, NoveltyInv, NoveltyTypeOK
<1>2. CASE Crash(l)
  <2>1. run' = [run EXCEPT ![l] = NoRun] /\ NoRun.pages = <<>> /\ NoRun.mine = {}
    BY <1>2 DEF Crash, NoRun
  <2> QED
    BY <1>1, <2>1, NoRunTyped, RunStepTyped, RunsServeStep, SpentFacts, OpsKeepTyped, FileFacts,
       OpsStay, QuietStep DEF NoveltyTypeOK, RunsTyped, OpsTyped, SpentTyped
<1>3. CASE ItemFails(l)
  <2>1. run' = [run EXCEPT ![l] = r] /\ a.next \in DOMAIN a.pages
    BY <1>3 DEF ItemFails, Working
  <2> HIDE DEF a
  <2>2. a.pages \in Seq(Page) /\ a.next \in 1..Len(a.pages) /\ Len(a.pages) \in Nat
    BY <1>1, <2>1, LenProperties DEF Run
  <2>3. r \in Run /\ r.next \in 1..(Len(r.pages) + 1) /\ r.mine = a.mine /\ r.pages = a.pages
    BY <1>1, <2>2 DEF Run
  <2> HIDE DEF r
  <2>4. RunsTyped' /\ RunsServe'
    BY <1>1, <2>1, <2>3, RunStepTyped, RunsServeStep DEF a
  <2> QED
    BY <1>1, <2>4, SpentFacts, OpsKeepTyped, FileFacts, OpsStay, QuietStep
    DEF NoveltyTypeOK, RunsTyped, OpsTyped, SpentTyped
<1> QED
  BY <1>2, <1>3

LEMMA RestOK ==
    ASSUME NoveltyInv, Remember \/ Forget \/ Tick
    PROVE  NoveltyInv'
<1>1. /\ UNCHANGED <<watches, obs, events, run, op>> /\ RunsServe' /\ NoveltyTypeOK
      /\ MaxDay \in Nat /\ NewsRegion \in Region
  BY NoveltyAssumption DEF NoveltyInv, RunsServe, Remember, Forget, Tick
<1>2. SpentTyped'
  BY SpentFacts DEF Remember, Forget, Tick, SpentTyped, NoveltyInv, NoveltyTypeOK
<1>3. day' \in 0..MaxDay /\ markets' \in [Ref -> SUBSET Region] /\ lead' \in Ref \union {None}
  BY <1>1 DEF Remember, Forget, Tick, NoveltyTypeOK
<1>4. NoveltyTypeOK'
  BY <1>1, <1>2, <1>3 DEF NoveltyTypeOK, SpentTyped
<1> QED
  BY <1>1, <1>4, OpsStay, QuietStep

LEMMA LookOK ==
    ASSUME NoveltyInv, NEW o \in Operator, NEW w \in Ref, Look(o, w)
    PROVE  NoveltyInv'
<1>1. /\ UNCHANGED <<day, watches, obs, events, markets, lead, run>> /\ RunsServe' /\ NoveltyTypeOK
      /\ op[o] = NoCatchUp /\ op' = [op EXCEPT ![o].ref = w]
      /\ spent.looks < MaxLooks /\ spent' = [spent EXCEPT !.looks = @ + 1] /\ Seen(w) # {}
  BY DEF NoveltyInv, RunsServe, Look, Candidates
<1>2. SpentTyped'
  BY <1>1, SpentFacts DEF SpentTyped
<1>3. [op[o] EXCEPT !.ref = w] = [ref |-> w, seen |-> None]
  BY <1>1 DEF NoCatchUp
<1>4. op' = [op EXCEPT ![o] = [ref |-> w, seen |-> None]]
  BY <1>1, <1>3
<1>5. OpsTyped'
  BY <1>1, <1>4 DEF OpsTyped, NoveltyTypeOK
<1>6. NoveltyTypeOK'
  BY <1>1, <1>2, <1>5 DEF NoveltyTypeOK, SpentTyped, OpsTyped
<1>7. ASSUME NEW p \in Operator
      PROVE  p # o => op'[p] = op[p]
  BY <1>4 DEF NoveltyInv, NoveltyTypeOK
<1>8. op'[o].ref = w /\ op'[o].seen = None
  BY <1>1, <1>4 DEF NoveltyTypeOK
<1>9. OpsChecked
  <2> SUFFICES ASSUME NEW p \in Operator
               PROVE  /\ op'[p].ref # None => Seen(op'[p].ref) # {}
                      /\ op'[p].seen # None =>
                           /\ op'[p].ref # None /\ op'[p].seen <= Len(events)
                           /\ \A k \in 1..op'[p].seen :
                                 ~(events[k].ref = op'[p].ref /\ events[k].type \in Claim)
    BY DEF OpsChecked
  <2>1. op[p] \in [ref : Ref \union {None}, seen : 0..Len(events) \union {None}]
    BY <1>1 DEF NoveltyTypeOK
  <2> QED
    BY <1>1, <1>7, <1>8, <2>1, FileFacts DEF NoveltyInv, OnFile, CheckedWereFree
<1> QED
  BY <1>1, <1>6, <1>9, QuietStep

LEMMA CheckOK ==
    ASSUME NoveltyInv, NEW o \in Operator, Check(o)
    PROVE  NoveltyInv'
<1> DEFINE w == op[o].ref
           c == IF Claimed(w) THEN NoCatchUp ELSE [ref |-> w, seen |-> Len(events)]
<1>1. /\ UNCHANGED <<day, watches, obs, events, markets, lead, run, spent>> /\ RunsServe' /\ NoveltyTypeOK
      /\ op[o] \in [ref : Ref \union {None}, seen : 0..Len(events) \union {None}]
      /\ w # None /\ op \in [Operator -> [ref : Ref \union {None}, seen : 0..Len(events) \union {None}]]
  BY DEF NoveltyInv, RunsServe, Check, NoveltyTypeOK
<1>2. op' = [op EXCEPT ![o] = c]
  <2>1. [op[o] EXCEPT !.seen = Len(events)] = [ref |-> w, seen |-> Len(events)]
    BY <1>1
  <2>2. op' = [op EXCEPT ![o] = IF Claimed(w) THEN NoCatchUp
                                ELSE [op[o] EXCEPT !.seen = Len(events)]]
    BY DEF Check
  <2> QED
    BY <2>1, <2>2
<1>3. Len(events) \in Nat /\ DOMAIN events = 1..Len(events)
  BY <1>1, FileFacts
<1>4. c \in [ref : Ref \union {None}, seen : 0..Len(events) \union {None}]
      /\ (c.seen # None => c.seen = Len(events) /\ c.ref = w /\ ~Claimed(w))
      /\ (c.ref # None => c.ref = w)
  BY <1>1, <1>3 DEF NoCatchUp
<1> HIDE DEF c, w
<1>5. NoveltyTypeOK'
  BY <1>1, <1>2, <1>4 DEF NoveltyTypeOK
<1>6. OpsChecked
  <2> SUFFICES ASSUME NEW p \in Operator
               PROVE  /\ op'[p].ref # None => Seen(op'[p].ref) # {}
                      /\ op'[p].seen # None =>
                           /\ op'[p].ref # None /\ op'[p].seen <= Len(events)
                           /\ \A k \in 1..op'[p].seen :
                                 ~(events[k].ref = op'[p].ref /\ events[k].type \in Claim)
    BY DEF OpsChecked
  <2>1. op[p] \in [ref : Ref \union {None}, seen : 0..Len(events) \union {None}]
    BY <1>1 DEF NoveltyTypeOK
  <2>2. CASE p # o
    <3>1. op'[p] = op[p]
      BY <1>1, <1>2, <2>2
    <3> QED
      BY <1>3, <2>1, <3>1 DEF NoveltyInv, OnFile, CheckedWereFree
  <2>3. CASE p = o
    <3>1. op'[p] = c
      BY <1>1, <1>2, <2>3
    <3>2. Seen(w) # {}
      BY <1>1 DEF NoveltyInv, OnFile, w
    <3>3. c.seen # None => \A k \in 1..Len(events) : ~(events[k].ref = w /\ events[k].type \in Claim)
      BY <1>3, <1>4 DEF Claimed
    <3> QED
      BY <1>1, <1>3, <1>4, <3>1, <3>2, <3>3
  <2> QED
    BY <2>2, <2>3
<1> QED
  BY <1>1, <1>5, <1>6, QuietStep

\* A claim is about no earlier observation.
ClaimOf(type, page, f, new, by) == EventOf(type, page, f, new, 0, by, FALSE, TRUE)

LEMMA ClaimReported ==
    ASSUME NoveltyTypeOK, NEW type \in Claim, NEW page, page.ref \in Ref, NEW f \in Facts,
           NEW new \in Nat, NEW by \in Lane \union Operator \union {None}
    PROVE  /\ ClaimOf(type, page, f, new, by) \in Event /\ ClaimOf(type, page, f, new, by).type = type
           /\ ClaimOf(type, page, f, new, by).ref = page.ref
           /\ ClaimOf(type, page, f, new, by).new = new /\ ClaimOf(type, page, f, new, by).by = by
<1> DEFINE prior == 0
           rapid == FALSE
           first == TRUE
           e == EventOf(type, page, f, new, prior, by, rapid, first)
<1>1. /\ type \in EventType /\ type # "PRICE_CHANGE"
      /\ prior \in 0..Len(obs) /\ rapid \in BOOLEAN /\ first \in BOOLEAN
  BY FileFacts DEF Claim, EventType
<1>2. ClaimOf(type, page, f, new, by) = e
  BY DEF ClaimOf
<1> HIDE DEF prior, rapid, first
<1>3. e \in Event /\ e.type = type /\ e.ref = page.ref /\ e.new = new /\ e.by = by
  BY <1>1, ReportTyped
<1> HIDE DEF e
<1> QED
  BY <1>2, <1>3

LEMMA FinishOK ==
    ASSUME NoveltyInv, NEW l \in Lane, Finish(l)
    PROVE  NoveltyInv'
<1>1. /\ UNCHANGED <<day, watches, obs, markets, lead, op, spent>> /\ NoveltyTypeOK
      /\ run' = [run EXCEPT ![l] = NoRun] /\ events \in Seq(Event)
      /\ events' = [i \in DOMAIN events |->
                      IF i \in Burst(l) THEN [events[i] EXCEPT !.burst = TRUE] ELSE events[i]]
  BY DEF NoveltyInv, NoveltyTypeOK, Finish
<1>2. Len(events) \in Nat /\ DOMAIN events = 1..Len(events) /\ \A k \in 1..Len(events) : events[k] \in Event
  BY <1>1, FileFacts
<1>3. ASSUME NEW k \in 1..Len(events)
      PROVE  /\ events'[k] \in Event
             /\ events'[k].type = events[k].type /\ events'[k].ref = events[k].ref
             /\ events'[k].new = events[k].new /\ events'[k].current = events[k].current
  <2> DEFINE e == events[k]
             b == [e EXCEPT !.burst = TRUE]
  <2>1. e \in Event
    BY <1>2
  <2>2. b \in Event /\ b.type = e.type /\ b.ref = e.ref /\ b.new = e.new /\ b.current = e.current
    BY <2>1 DEF Event
  <2>3. events'[k] = b \/ events'[k] = e
    BY <1>1, <1>2
  <2> HIDE DEF b
  <2> QED
    BY <2>1, <2>2, <2>3
<1>4. events' \in Seq(Event) /\ Len(events') = Len(events) /\ DOMAIN events' = DOMAIN events
  <2>1. DOMAIN events' = 1..Len(events)
    BY <1>1, <1>2
  <2>2. events' = [i \in 1..Len(events) |-> events'[i]]
    BY <1>1, <1>2
  <2>3. events' \in [1..Len(events) -> Event]
    BY <1>3, <2>2
  <2>4. events' \in Seq(Event)
    BY <1>2, <2>3, SeqDef
  <2> QED
    BY <1>2, <2>1, <2>4, LenProperties
<1>5. RunsTyped' /\ RunsServe'
  BY <1>1, <1>4, NoRunTyped, RunStepTyped, RunsServeStep DEF NoRun
<1>6. NoveltyTypeOK'
  BY <1>1, <1>4, <1>5, OpsKeepTyped, <1>2 DEF NoveltyTypeOK, RunsTyped, OpsTyped
<1>7. EventsKept /\ WatchesKept
  BY <1>1, <1>2, <1>3, <1>4 DEF EventsKept, WatchesKept, Known
<1>8. KnownWatches' = KnownWatches /\ IsFiniteSet(KnownWatches)
  BY <1>1 DEF KnownWatches, Known, NoveltyInv, OnFile
<1>9. (Len(events) + 1)..Len(events') = {}
  BY <1>2, <1>4
<1> QED
  BY <1>1, <1>5, <1>6, <1>7, <1>8, <1>9, OpsStay, FileStep

\* Steps that append a claim, about a watch that is on file or that they add.
LEMMA ClaimStep ==
    ASSUME NoveltyInv, NEW w \in Ref, NEW f \in Facts, watches' = [watches EXCEPT ![w] = f],
           Known(w) => f = watches[w],
           NEW e \in Event, events' = events \/ events' = Append(events, e),
           e.type \in Claim, e.ref = w, e.new <= Len(obs),
           UNCHANGED <<day, obs, markets, run>>, lead' \in Ref \union {None}, SpentTyped', OpsTyped',
           OpsChecked
    PROVE  NoveltyInv'
<1>1. NoveltyTypeOK /\ events \in Seq(Event) /\ watches \in [Ref -> Facts \union {None}] /\ f # None
  BY NoneFacts DEF NoveltyInv, NoveltyTypeOK
<1> DEFINE n == Len(events)
           n2 == Len(events')
<1>2. /\ n \in Nat /\ DOMAIN events = 1..n /\ n2 \in {n, n + 1}
      /\ events' \in Seq(Event) /\ DOMAIN events' = 1..n2
      /\ \A k \in 1..n : events'[k] = events[k]
      /\ n2 = n + 1 => events'[n + 1] = e
  <2>1. CASE events' = events
    <3>1. n \in Nat /\ DOMAIN events = 1..n
      BY ONLY <1>1, LenProperties
    <3>2. n2 = n
      BY <2>1
    <3> HIDE DEF n, n2
    <3>3. n2 # n + 1
      BY ONLY <3>1, <3>2
    <3> QED
      BY ONLY <1>1, <2>1, <3>1, <3>2, <3>3
  <2>2. CASE events' = Append(events, e)
    <3>1. /\ Append(events, e) \in Seq(Event) /\ Len(Append(events, e)) = n + 1
          /\ n \in Nat /\ DOMAIN events = 1..n
          /\ DOMAIN Append(events, e) = 1..(n + 1)
          /\ \A i \in 1..n : Append(events, e)[i] = events[i]
          /\ Append(events, e)[n + 1] = e
      BY <1>1, AppendFacts
    <3>2. n2 = Len(Append(events, e))
      BY <2>2
    <3> HIDE DEF n, n2
    <3> QED
      BY <2>2, <3>1, <3>2
  <2> QED
    BY <2>1, <2>2
<1>3. WatchesKept
  BY <1>1 DEF WatchesKept, Known
<1>5. watches'[w] # None
  BY <1>1
<1>4. EventsKept
  <2>1. n <= n2 /\ \A k \in 1..n :
          /\ events'[k].type = events[k].type /\ events'[k].ref = events[k].ref
          /\ events'[k].new = events[k].new /\ events'[k].current = events[k].current
    <3> HIDE DEF n, n2
    <3> QED
      BY ONLY <1>2
  <2> QED
    BY <2>1 DEF EventsKept
<1>6. ASSUME NEW k \in (n + 1)..n2
      PROVE  events'[k].type \in Claim /\ events'[k].new <= Len(obs) /\ watches'[events'[k].ref] # None
  <2> HIDE DEF n, n2
  <2>1. k = n + 1 /\ n2 = n + 1
    BY <1>2
  <2> QED
    BY <1>2, <1>5, <2>1
<1>10. DOMAIN events \subseteq DOMAIN events'
  <2> HIDE DEF n, n2
  <2> QED
    BY ONLY <1>2
<1>7. IsFiniteSet(KnownWatches')
  <2>1. IsFiniteSet(KnownWatches \union {w})
    BY FS_AddElement DEF NoveltyInv, OnFile
  <2>2. KnownWatches' \subseteq KnownWatches \union {w}
    BY <1>1 DEF KnownWatches, Known
  <2> QED
    BY <2>1, <2>2, FS_Subset
<1>8. RunsTyped' /\ RunsServe'
  BY <1>1, <1>10, RunsKeepTyped DEF NoveltyInv, RunsServe
<1>9. NoveltyTypeOK'
  BY <1>1, <1>2, <1>8 DEF NoveltyTypeOK, RunsTyped, OpsTyped, SpentTyped
<1> QED
  BY <1>3, <1>4, <1>6, <1>7, <1>8, <1>9, FileStep

LEMMA AnnounceOK ==
    ASSUME NoveltyInv, NEW w \in Announced, NEW quiet \in BOOLEAN, Announce(w, quiet)
    PROVE  NoveltyInv'
<1> DEFINE region == markets[w] # {} /\ NewsRegion \notin markets[w]
           type == IF ~Known(w) THEN "NEW_REFERENCE" ELSE IF region THEN "NEW_REGION" ELSE None
           facts == IF Known(w) THEN watches[w]
                    ELSE [coll |-> None, pub |-> None, back |-> FALSE, named |-> 0]
           page == [ref |-> w, facts |-> facts, stock |-> None, price |-> None]
           e == ClaimOf(type, page, facts, 0, None)
           any == ClaimOf("NEW_REFERENCE", page, facts, 0, None)
<1>1. NoveltyTypeOK /\ w \in Ref
  BY NoveltyAssumption DEF NoveltyInv
<1>2. /\ lead' = w /\ watches' = [watches EXCEPT ![w] = facts]
      /\ events' = IF quiet \/ type = None THEN events ELSE Append(events, e)
      /\ spent.news < MaxNews /\ spent' = [spent EXCEPT !.news = @ + 1]
      /\ UNCHANGED <<day, obs, markets, run, op>>
  BY DEF Announce, ClaimOf
<1>3. type \in Claim \/ type = None
  BY DEF Claim
<1>4. facts \in Facts /\ (Known(w) => facts = watches[w]) /\ page.ref = w
  BY <1>1 DEF NoveltyTypeOK, Known, Facts
<1> HIDE DEF facts, page, type
<1>5. /\ 0 \in Nat /\ 0 <= Len(obs) /\ None \in Lane \union Operator \union {None}
  BY <1>1, FileFacts
<1>6. ASSUME NEW t \in Claim
      PROVE  /\ ClaimOf(t, page, facts, 0, None) \in Event /\ ClaimOf(t, page, facts, 0, None).type = t
             /\ ClaimOf(t, page, facts, 0, None).ref = w /\ ClaimOf(t, page, facts, 0, None).new = 0
  <2> DEFINE zero == 0
             p == page
             g == facts
  <2>1. p.ref \in Ref /\ p.ref = w /\ g \in Facts /\ zero \in Nat
    BY <1>1, <1>4
  <2> HIDE DEF p, g, zero
  <2>2. /\ ClaimOf(t, p, g, zero, None) \in Event /\ ClaimOf(t, p, g, zero, None).type = t
        /\ ClaimOf(t, p, g, zero, None).ref = p.ref /\ ClaimOf(t, p, g, zero, None).new = zero
    BY <1>1, <1>5, <2>1, ClaimReported
  <2> QED
    BY <2>1, <2>2 DEF p, g, zero
<1>7. SpentTyped' /\ OpsChecked
  BY <1>1, <1>2, SpentFacts, OpsStay DEF SpentTyped
<1> DEFINE c == IF type \in Claim THEN e ELSE any
<1>8. /\ c \in Event /\ c.type \in Claim /\ c.ref = w /\ c.new <= Len(obs)
      /\ events' = events \/ events' = Append(events, c)
  <2>1. "NEW_REFERENCE" \in Claim
    BY DEF Claim
  <2>2. CASE type \in Claim
    <3>1. c = e
      BY <2>2
    <3> HIDE DEF c
    <3> QED
      BY <1>2, <1>5, <1>6, <2>2, <3>1
  <2>3. CASE type = None /\ type \notin Claim
    <3>1. c = any /\ events' = events
      BY <1>2, <2>3
    <3> HIDE DEF c
    <3> QED
      BY <1>5, <1>6, <2>1, <3>1
  <2> QED
    BY <1>3, <2>2, <2>3
<1> HIDE DEF c
<1>9. OpsTyped'
  <2>1. events \in Seq(Event) /\ c \in Event
    BY <1>1, <1>8 DEF NoveltyTypeOK
  <2>2. Len(events') \in Nat /\ Len(events) <= Len(events')
    BY <1>1, <1>8, <2>1, AppendFacts, FileFacts
  <2> QED
    BY <1>1, <1>2, <2>2, OpsKeepTyped
<1>10. lead' \in Ref \union {None}
  BY <1>1, <1>2
<1> QED
  BY <1>1, <1>2, <1>4, <1>7, <1>8, <1>9, <1>10, ClaimStep

LEMMA BelatedFacts ==
    ASSUME NoveltyInv, NEW o \in Operator, op[o].seen # None
    PROVE  /\ op[o].ref \in Ref /\ Known(op[o].ref) /\ op[o].seen \in 0..Len(events)
           /\ Belated(op[o].ref, o) \in Event /\ Belated(op[o].ref, o).type = "NEW_REFERENCE"
           /\ Belated(op[o].ref, o).ref = op[o].ref /\ Belated(op[o].ref, o).by = o
           /\ Belated(op[o].ref, o).new <= Len(obs)
<1> DEFINE w == op[o].ref
           i == Least(Seen(w))
           page == [ref |-> w, facts |-> watches[w], stock |-> obs[i].stock, price |-> obs[i].price]
           e == EventOf("NEW_REFERENCE", page, watches[w], i, 0, o, FALSE, TRUE)
<1>1. NoveltyTypeOK /\ op[o] \in [ref : Ref \union {None}, seen : 0..Len(events) \union {None}]
  BY DEF NoveltyInv, NoveltyTypeOK
<1>2. w \in Ref /\ Seen(w) # {} /\ op[o].seen \in 0..Len(events)
  BY <1>1 DEF NoveltyInv, OnFile
<1>3. Len(obs) \in Nat /\ Seen(w) \in SUBSET (1..Len(obs)) /\ Seen(w) \in SUBSET Nat
  BY <1>1, FileFacts DEF Seen
<1>4. i \in Seen(w)
  BY <1>2, <1>3, LeastFacts
<1>5. i \in 1..Len(obs) /\ obs[i].ref = w
  BY <1>3, <1>4 DEF Seen
<1>6. Known(w) /\ watches[w] \in Facts
  BY <1>1, <1>2, <1>5 DEF NoveltyInv, OnFile, Known, NoveltyTypeOK
<1>7. e = Belated(w, o) /\ page.ref = w
  BY DEF Belated
<1> HIDE DEF page, i, w
<1>8. e \in Event /\ e.type = "NEW_REFERENCE" /\ e.ref = w /\ e.by = o /\ e.new = i
  <2> DEFINE t == "NEW_REFERENCE"
             p == page
             g == watches[w]
             c == ClaimOf(t, p, g, i, o)
  <2>1. /\ t \in Claim /\ i \in Nat /\ g \in Facts /\ p.ref = w
        /\ o \in Lane \union Operator \union {None} /\ p.ref \in Ref
    BY <1>2, <1>3, <1>5, <1>6, <1>7 DEF Claim
  <2>2. e = c
    BY DEF ClaimOf
  <2> HIDE DEF t, p, g
  <2>3. c \in Event /\ c.type = t /\ c.ref = p.ref /\ c.by = o /\ c.new = i
    <3>1. NoveltyTypeOK
      BY <1>1
    <3> QED
      BY <2>1, <3>1, ClaimReported
  <2> HIDE DEF c, e
  <2> QED
    BY <2>1, <2>2, <2>3 DEF t
<1> HIDE DEF e
<1>9. i <= Len(obs)
  BY <1>3, <1>5
<1> QED
  BY <1>2, <1>6, <1>7, <1>8, <1>9 DEF w

LEMMA CreateBelatedOK ==
    ASSUME NoveltyInv, NEW o \in Operator, CreateBelated(o)
    PROVE  NoveltyInv'
<1> DEFINE w == op[o].ref
           e == Belated(w, o)
<1>1. /\ op[o].seen # None /\ events' = Append(events, e) /\ op' = [op EXCEPT ![o] = NoCatchUp]
      /\ UNCHANGED <<day, watches, obs, markets, lead, run, spent>> /\ NoveltyTypeOK
  BY DEF CreateBelated, NoveltyInv
<1>2. /\ w \in Ref /\ Known(w) /\ e \in Event /\ e.type \in Claim /\ e.ref = w /\ e.new <= Len(obs)
  BY <1>1, BelatedFacts DEF Claim
<1> HIDE DEF w, e
<1>3. watches' = [watches EXCEPT ![w] = watches[w]] /\ watches[w] \in Facts
  BY <1>1, <1>2 DEF NoveltyTypeOK, Known
<1>4. /\ Len(events) \in Nat /\ Len(events') = Len(events) + 1
  <2>1. events \in Seq(Event)
    BY <1>1 DEF NoveltyTypeOK
  <2> QED
    BY <1>1, <1>2, <2>1, AppendFacts
<1>5. OpsTyped'
  <2>1. 0..Len(events) \subseteq 0..Len(events')
    BY <1>4
  <2> QED
    BY <1>1, <2>1 DEF OpsTyped, NoveltyTypeOK, NoCatchUp
<1>6. OpsChecked
  <2> SUFFICES ASSUME NEW p \in Operator
               PROVE  /\ op'[p].ref # None => Seen(op'[p].ref) # {}
                      /\ op'[p].seen # None =>
                           /\ op'[p].ref # None /\ op'[p].seen <= Len(events)
                           /\ \A k \in 1..op'[p].seen :
                                 ~(events[k].ref = op'[p].ref /\ events[k].type \in Claim)
    BY DEF OpsChecked
  <2>1. op[p] \in [ref : Ref \union {None}, seen : 0..Len(events) \union {None}]
    BY <1>1 DEF NoveltyTypeOK
  <2>2. op'[p] = op[p] \/ op'[p] = NoCatchUp
    BY <1>1 DEF NoveltyTypeOK
  <2> QED
    BY <1>4, <2>1, <2>2 DEF NoveltyInv, OnFile, CheckedWereFree, NoCatchUp
<1>7. SpentTyped' /\ lead' \in Ref \union {None}
  BY <1>1, SpentFacts DEF NoveltyTypeOK, SpentTyped
<1> QED
  BY <1>1, <1>2, <1>3, <1>5, <1>6, <1>7, ClaimStep

-----------------------------------------------------------------------------
(***************************************************************************)
(* A step that makes an observation                                         *)
(***************************************************************************)
LEMMA ObservedFacts ==
    ASSUME NoveltyTypeOK, NEW l \in Lane, NEW page \in Page, obs' = Append(obs, Observed(page, l))
    PROVE  /\ obs' \in Seq(Observation) /\ Len(obs') = Len(obs) + 1 /\ Len(obs) \in Nat
           /\ DOMAIN obs' = 1..(Len(obs) + 1) /\ DOMAIN obs = 1..Len(obs)
           /\ \A i \in 1..Len(obs) : obs'[i] = obs[i]
           /\ obs'[Len(obs) + 1].ref = page.ref /\ obs'[Len(obs) + 1].region = RegionOf[l]
           /\ obs'[Len(obs) + 1].stock = page.stock /\ obs'[Len(obs) + 1].price = page.price
           /\ obs'[Len(obs) + 1].baseline = run[l].silent
<1> DEFINE o == Observed(page, l)
<1>1. obs \in Seq(Observation)
  BY DEF NoveltyTypeOK
<1>2. /\ o \in Observation /\ o.ref = page.ref /\ o.region = RegionOf[l] /\ o.stock = page.stock
      /\ o.price = page.price /\ o.baseline = run[l].silent
  BY ObservedTyped
<1>3. obs' = Append(obs, o)
  OBVIOUS
<1> HIDE DEF o
<1> QED
  BY <1>1, <1>2, <1>3, AppendFacts

\* The last observation of a market before a new one is the one it changes from.
LEMMA LatestChange ==
    ASSUME NoveltyTypeOK, NEW l \in Lane, NEW page \in Page, obs' = Append(obs, Observed(page, l)),
           NEW last, last = Len(obs) + 1
    PROVE  /\ \A j \in 1..Len(obs) : ChangedAt(j)' <=> ChangedAt(j)
           /\ ChangedAt(last)' <=>
                 /\ Prior(page.ref, RegionOf[l]) # 0
                 /\ \/ Moved(obs[Prior(page.ref, RegionOf[l])].stock, page.stock)
                    \/ Moved(obs[Prior(page.ref, RegionOf[l])].price, page.price)
<1> DEFINE n == Len(obs)
           r == RegionOf[l]
           p == Prior(page.ref, r)
           S == Market(page.ref, r)
           Adj(i, j) == /\ i < j /\ obs'[i].ref = obs'[j].ref /\ obs'[i].region = obs'[j].region
                        /\ \A k \in (i + 1)..(j - 1) :
                              ~(obs'[k].ref = obs'[j].ref /\ obs'[k].region = obs'[j].region)
           Differ(i, j) == Moved(obs'[i].stock, obs'[j].stock) \/ Moved(obs'[i].price, obs'[j].price)
<1>1. /\ n \in Nat /\ \A i \in 1..n : obs'[i] = obs[i]
      /\ obs'[n + 1].ref = page.ref /\ obs'[n + 1].region = r
      /\ obs'[n + 1].stock = page.stock /\ obs'[n + 1].price = page.price
  BY ObservedFacts
<1>2. /\ p \in 0..n /\ (p = 0 <=> S = {})
      /\ S = {i \in 1..n : obs[i].ref = page.ref /\ obs[i].region = r}
      /\ p # 0 => p \in S /\ \A i \in S : i <= p
  BY PriorFacts
<1>3. \A j : ChangedAt(j)' <=> \E i \in 1..(j - 1) : Adj(i, j) /\ Differ(i, j)
  BY DEF ChangedAt, Adjacent
<1>4. ASSUME NEW j \in 1..n PROVE ChangedAt(j)' <=> ChangedAt(j)
  <2>1. ChangedAt(j) <=>
           \E i \in 1..(j - 1) :
              /\ i < j /\ obs[i].ref = obs[j].ref /\ obs[i].region = obs[j].region
              /\ \A k \in (i + 1)..(j - 1) : ~(obs[k].ref = obs[j].ref /\ obs[k].region = obs[j].region)
              /\ Moved(obs[i].stock, obs[j].stock) \/ Moved(obs[i].price, obs[j].price)
    BY DEF ChangedAt, Adjacent
  <2> HIDE DEF n
  <2>2. /\ obs'[j] = obs[j] /\ \A i \in 1..(j - 1) : i \in 1..n
        /\ \A i \in 1..(j - 1) : \A k \in (i + 1)..(j - 1) : k \in 1..n
    BY ONLY <1>1, j \in 1..n
  <2>3. ASSUME NEW i \in 1..(j - 1)
        PROVE  Adj(i, j) /\ Differ(i, j) <=>
                 /\ i < j /\ obs[i].ref = obs[j].ref /\ obs[i].region = obs[j].region
                 /\ \A k \in (i + 1)..(j - 1) : ~(obs[k].ref = obs[j].ref /\ obs[k].region = obs[j].region)
                 /\ Moved(obs[i].stock, obs[j].stock) \/ Moved(obs[i].price, obs[j].price)
    <3>1. obs'[i] = obs[i] /\ \A k \in (i + 1)..(j - 1) : obs'[k] = obs[k]
      BY <1>1, <2>2
    <3> QED
      BY <2>2, <3>1
  <2> HIDE DEF Adj, Differ
  <2> QED
    BY <1>3, <2>1, <2>3
<1>5. ChangedAt(last)' <=> p # 0 /\ (Moved(obs[p].stock, page.stock) \/ Moved(obs[p].price, page.price))
  <2>0. last = n + 1
    OBVIOUS
  <2>1. ChangedAt(last)' <=> \E i \in 1..(last - 1) : Adj(i, last) /\ Differ(i, last)
    BY DEF ChangedAt, Adjacent
  <2> HIDE DEF n, p, r, S
  <2>2. last = n + 1 /\ last - 1 = n
    BY ONLY <1>1, <2>0
  <2>3. ASSUME NEW i \in 1..n, Adj(i, last)
        PROVE  i = p /\ p # 0
    <3>1. i \in S
      BY <1>1, <1>2, <2>2, <2>3
    <3>2. p # 0 /\ p \in S /\ i <= p /\ p \in 1..n
      BY ONLY <1>2, <3>1
    <3>3. i >= p
      <4> SUFFICES ASSUME i < p PROVE FALSE
        BY <1>2, <3>2
      <4>1. p \in (i + 1)..(last - 1)
        BY <1>1, <2>2, <3>2
      <4>2. obs'[p].ref = page.ref /\ obs'[p].region = r
        BY <1>1, <1>2, <3>2
      <4> QED
        BY <1>1, <2>2, <2>3, <4>1, <4>2
    <3> QED
      BY <3>2, <3>3
  <2>4. ASSUME p # 0 PROVE Adj(p, last) /\ p \in 1..n
    <3>1. p \in S /\ p \in 1..n /\ obs'[p].ref = page.ref /\ obs'[p].region = r
      BY ONLY <1>1, <1>2, <2>4
    <3>2. ASSUME NEW k \in (p + 1)..(last - 1)
          PROVE  ~(obs'[k].ref = obs'[last].ref /\ obs'[k].region = obs'[last].region)
      <4>1. k \in 1..n /\ ~(k <= p)
        BY <1>1, <2>2, <3>1
      <4>2. k \notin S
        BY <1>2, <2>4, <4>1
      <4> QED
        BY <1>1, <1>2, <2>2, <4>1, <4>2
    <3> QED
      BY ONLY <1>1, <2>2, <3>1, <3>2
  <2>5. ASSUME NEW i \in 1..n
        PROVE  Differ(i, last) <=> Moved(obs[i].stock, page.stock) \/ Moved(obs[i].price, page.price)
    BY <1>1, <2>2
  <2> HIDE DEF Adj, Differ
  <2> QED
    BY <2>1, <2>2, <2>3, <2>4, <2>5
<1> QED
  BY <1>4, <1>5

\* What is reported with an observation, if anything is.
LEMMA EventsFacts ==
    ASSUME NoveltyInv, NEW l \in Lane, NEW page \in Page, NEW type, type = Type(page, l),
           events' = IF type = None THEN events ELSE Append(events, Reported(type, page, l))
    PROVE  /\ events' \in Seq(Event) /\ Len(events) \in Nat /\ DOMAIN events = 1..Len(events)
           /\ DOMAIN events' = 1..Len(events')
           /\ Len(events') = IF type = None THEN Len(events) ELSE Len(events) + 1
           /\ \A k \in 1..Len(events) : events'[k] = events[k] /\ events[k] \in Event
           /\ type # None => events'[Len(events) + 1] = Reported(type, page, l)
<1> DEFINE e == Reported(type, page, l)
           n == Len(events)
           n2 == Len(events')
<1>1. events \in Seq(Event)
  BY DEF NoveltyInv, NoveltyTypeOK
<1>2. n \in Nat /\ DOMAIN events = 1..n /\ \A k \in 1..n : events[k] \in Event
  BY <1>1, LenProperties
<1>3. CASE type = None
  <2>1. events' = events /\ n2 = n
    BY <1>3
  <2> HIDE DEF n, n2
  <2>2. /\ events' \in Seq(Event) /\ DOMAIN events' = 1..n2 /\ n2 = IF type = None THEN n ELSE n + 1
        /\ \A k \in 1..n : events'[k] = events[k] /\ events[k] \in Event
    BY ONLY <1>1, <1>2, <1>3, <2>1
  <2> USE DEF n, n2
  <2> QED
    BY <1>2, <1>3, <2>2
<1>4. CASE type # None
  <2>1. e \in Event /\ events' = Append(events, e)
    BY <1>4, ReportedFacts
  <2> HIDE DEF e
  <2>2. /\ events' \in Seq(Event) /\ n2 = n + 1 /\ DOMAIN events' = 1..(n + 1)
        /\ \A k \in 1..n : events'[k] = events[k]
        /\ events'[n + 1] = e
    BY <1>1, <2>1, AppendFacts
  <2> HIDE DEF n, n2
  <2>3. /\ events' \in Seq(Event) /\ DOMAIN events' = 1..n2 /\ n2 = IF type = None THEN n ELSE n + 1
        /\ \A k \in 1..n : events'[k] = events[k] /\ events[k] \in Event
        /\ events'[n + 1] = e
    BY ONLY <1>2, <1>4, <2>2
  <2> USE DEF n, n2, e
  <2> QED
    BY <1>2, <1>4, <2>3
<1> QED
  BY <1>3, <1>4

LEMMA IngestTyped ==
    ASSUME NoveltyInv, NEW l \in Lane, Ingest(l)
    PROVE  NoveltyTypeOK' /\ RunsServe' /\ OpsTyped'
<1> DEFINE page == run[l].pages[run[l].next]
           type == Type(page, l)
           a == run[l]
           mine == IF type = None THEN a.mine ELSE a.mine \union {Len(events) + 1}
           r == [[a EXCEPT !.next = @ + 1] EXCEPT !.mine = mine]
           f == Resolved(page)
<1>1. /\ NoveltyTypeOK /\ Working(l) /\ watches' = [watches EXCEPT ![page.ref] = f]
      /\ obs' = Append(obs, Observed(page, l))
      /\ events' = IF type = None THEN events ELSE Append(events, Reported(type, page, l))
      /\ UNCHANGED <<day, markets, lead, op, spent>>
  BY DEF Ingest, NoveltyInv
<1>2. run' = [run EXCEPT ![l] = r]
  <2>1. run' = [run EXCEPT ![l].next = @ + 1,
                           ![l].mine = IF type = None THEN @ ELSE @ \union {Len(events) + 1}]
    BY DEF Ingest
  <2>2. l \in DOMAIN run
    BY <1>1 DEF NoveltyTypeOK
  <2> QED
    BY <2>1, <2>2
<1>3. page \in Page /\ page.ref \in Ref /\ f \in Facts
  BY <1>1, PageFacts, ResolvedFacts DEF Page
<1> HIDE DEF page, type, f
<1>4. obs' \in Seq(Observation)
  BY <1>1, <1>3, ObservedFacts
<1>5. /\ events' \in Seq(Event) /\ Len(events) \in Nat /\ DOMAIN events = 1..Len(events)
      /\ DOMAIN events' = 1..Len(events')
      /\ Len(events') = IF type = None THEN Len(events) ELSE Len(events) + 1
  <2>1. type = Type(page, l)
    BY DEF type
  <2> QED
    BY <1>1, <1>3, <2>1, EventsFacts
<1> DEFINE n == Len(events)
           n2 == Len(events')
<1>6. n \in Nat /\ n2 \in Nat /\ n <= n2 /\ 1..n \subseteq 1..n2 /\ (type # None => n + 1 \in 1..n2)
      /\ n2 = IF type = None THEN n ELSE n + 1
  <2>1. n \in Nat /\ n2 = IF type = None THEN n ELSE n + 1
    BY <1>5
  <2> HIDE DEF n, n2
  <2> QED
    BY ONLY <2>1
<1>7. /\ a \in Run /\ a.next \in DOMAIN a.pages /\ a.mine \subseteq DOMAIN events
  BY <1>1 DEF NoveltyTypeOK, Working
<1>8. watches' \in [Ref -> Facts \union {None}]
  BY <1>1, <1>3 DEF NoveltyTypeOK
<1>9. mine \subseteq DOMAIN events' /\ mine \subseteq Nat /\ DOMAIN events \subseteq DOMAIN events'
  <2>1. a.mine \subseteq 1..n
    BY <1>5, <1>7
  <2> HIDE DEF n, n2, a
  <2>2. DOMAIN events = 1..n /\ DOMAIN events' = 1..n2
    BY <1>5 DEF n, n2
  <2>3. mine = IF type = None THEN a.mine ELSE a.mine \union {n + 1}
    BY DEF n
  <2> QED
    BY ONLY <1>6, <2>1, <2>2, <2>3
<1> HIDE DEF mine
<1>10. r \in Run /\ r.next \in 1..(Len(r.pages) + 1) /\ r.pages = a.pages /\ r.mine = mine
  <2> HIDE DEF a
  <2>1. a.pages \in Seq(Page) /\ a.next \in 1..Len(a.pages) /\ Len(a.pages) \in Nat /\ a.next \in Nat
    BY <1>7, LenProperties DEF Run
  <2> DEFINE c == [a EXCEPT !.next = @ + 1]
  <2>2. c \in Run /\ c.next = a.next + 1 /\ c.pages = a.pages
    BY <1>7, <2>1 DEF Run
  <2>3. r = [c EXCEPT !.mine = mine]
    OBVIOUS
  <2> HIDE DEF c, r
  <2>4. r \in Run /\ r.next = c.next /\ r.pages = c.pages /\ r.mine = mine
    BY <1>9, <2>2, <2>3 DEF Run
  <2> QED
    BY <2>1, <2>2, <2>4
<1> HIDE DEF r
<1>11. RunsTyped' /\ RunsServe'
  <2>1. RunsTyped'
    BY <1>1, <1>2, <1>9, <1>10, RunStepTyped
  <2>2. RunsServe'
    BY <1>2, <1>10, RunsServeStep
  <2> QED
    BY <2>1, <2>2
<1>12. OpsTyped'
  BY <1>1, <1>6, OpsKeepTyped
<1>13. NoveltyTypeOK'
  BY <1>1, <1>4, <1>5, <1>8, <1>11, <1>12 DEF NoveltyTypeOK, RunsTyped, OpsTyped
<1> QED
  BY <1>11, <1>12, <1>13

\* The parts of a step that ingests a page, by name.
IngestOf(l, page, type) ==
    /\ page = run[l].pages[run[l].next] /\ type = Type(page, l)
    /\ page \in Page /\ page.ref \in Ref /\ NoveltyTypeOK
    /\ watches' = [watches EXCEPT ![page.ref] = Resolved(page)]
    /\ obs' = Append(obs, Observed(page, l))
    /\ events' = IF type = None THEN events ELSE Append(events, Reported(type, page, l))
    /\ UNCHANGED <<day, markets, lead, op, spent>>

LEMMA IngestFacts ==
    ASSUME NoveltyInv, NEW l \in Lane, Ingest(l)
    PROVE  \E page, type : IngestOf(l, page, type)
<1> DEFINE page == run[l].pages[run[l].next]
           type == Type(page, l)
<1>1. page \in Page /\ page.ref \in Ref /\ NoveltyTypeOK
  BY PageFacts DEF Ingest, NoveltyInv, Page
<1>2. IngestOf(l, page, type)
  BY <1>1 DEF Ingest, IngestOf
<1> QED
  BY <1>2

LEMMA IngestWatches ==
    ASSUME NoveltyInv, NEW l \in Lane, NEW page, NEW type, IngestOf(l, page, type)
    PROVE  /\ watches'[page.ref] = Resolved(page) /\ watches'[page.ref] # None /\ WatchesKept
           /\ Resolved(page) \in Facts /\ IsFiniteSet(KnownWatches')
<1>1. NoveltyTypeOK /\ page \in Page /\ page.ref \in Ref /\ watches' = [watches EXCEPT ![page.ref] = Resolved(page)]
      /\ watches \in [Ref -> Facts \union {None}]
  BY DEF IngestOf, NoveltyTypeOK
<1>2. Resolved(page) \in Facts /\ Resolved(page) # None
      /\ (Known(page.ref) => Resolved(page).named = watches[page.ref].named)
  BY <1>1, ResolvedFacts, NoneFacts
<1>3. watches'[page.ref] = Resolved(page)
  BY <1>1
<1>4. WatchesKept
  BY <1>1, <1>2, <1>3 DEF WatchesKept, Known
<1>5. IsFiniteSet(KnownWatches')
  <2> DEFINE w == page.ref
  <2>1. IsFiniteSet(KnownWatches \union {w})
    BY FS_AddElement DEF NoveltyInv, OnFile
  <2>2. KnownWatches' \subseteq KnownWatches \union {w}
    BY <1>1 DEF KnownWatches, Known
  <2> QED
    BY <2>1, <2>2, FS_Subset
<1> QED
  BY <1>2, <1>3, <1>4, <1>5

LEMMA IngestOnFile ==
    ASSUME NoveltyInv, NEW l \in Lane, NEW page, NEW type, IngestOf(l, page, type)
    PROVE  OnFile'
<1> DEFINE n == Len(obs)
           m == Len(events)
           m2 == Len(events')
<1>1. page \in Page /\ page.ref \in Ref /\ NoveltyTypeOK /\ type = Type(page, l)
      /\ obs' = Append(obs, Observed(page, l)) /\ op' = op
      /\ events' = IF type = None THEN events ELSE Append(events, Reported(type, page, l))
  BY DEF IngestOf
<1>2. /\ n \in Nat /\ Len(obs') = n + 1 /\ DOMAIN obs' = 1..(n + 1) /\ DOMAIN obs = 1..n
      /\ \A i \in 1..n : obs'[i] = obs[i]
      /\ obs'[n + 1].ref = page.ref
  BY <1>1, ObservedFacts
<1>3. /\ m \in Nat /\ m2 = IF type = None THEN m ELSE m + 1
      /\ \A k \in 1..m : events'[k] = events[k] /\ events[k] \in Event
      /\ type # None => events'[m + 1] = Reported(type, page, l)
  BY <1>1, EventsFacts
<1>4. type # None => Reported(type, page, l).ref = page.ref /\ Reported(type, page, l).new = n + 1
  BY <1>1, ReportedFacts
<1>5. watches'[page.ref] # None /\ WatchesKept /\ IsFiniteSet(KnownWatches')
  BY IngestWatches
<1>6. \A i \in 1..n : obs[i].ref \in Ref /\ watches[obs[i].ref] # None
  BY <1>1, FileFacts DEF NoveltyInv, OnFile, Known, Observation
<1>7. \A k \in 1..m : /\ events[k].ref \in Ref /\ watches[events[k].ref] # None /\ events[k].new <= n
                      /\ events[k].new \in Nat
                      /\ events[k].type \in Change => events[k].new >= 1
  BY <1>3 DEF NoveltyInv, OnFile, Known, Event
<1>8. \A o \in Operator : /\ op[o].ref # None => \E i \in 1..n : obs[i].ref = op[o].ref
                          /\ op[o].seen # None => op[o].ref # None
  BY <1>2 DEF NoveltyInv, OnFile, Seen
<1>20. \A w \in Ref : watches[w] # None => watches'[w] # None
  BY <1>5 DEF WatchesKept, Known
<1> HIDE DEF n, m, m2
<1>9. \A i \in 1..(n + 1) : watches'[obs'[i].ref] # None
  <2> SUFFICES ASSUME NEW i \in 1..(n + 1) PROVE watches'[obs'[i].ref] # None
    OBVIOUS
  <2>1. i \in 1..n \/ i = n + 1
    BY ONLY <1>2, i \in 1..(n + 1)
  <2> QED
    BY <1>2, <1>5, <1>6, <1>20, <2>1
<1>10. \A k \in 1..m2 : /\ watches'[events'[k].ref] # None /\ events'[k].new <= n + 1
                        /\ events'[k].type \in Change => events'[k].new >= 1
  <2> SUFFICES ASSUME NEW k \in 1..m2
               PROVE  /\ watches'[events'[k].ref] # None /\ events'[k].new <= n + 1
                      /\ events'[k].type \in Change => events'[k].new >= 1
    OBVIOUS
  <2>1. k \in 1..m \/ (k = m + 1 /\ type # None)
    BY ONLY <1>3, k \in 1..m2
  <2>2. CASE k \in 1..m
    BY <1>2, <1>3, <1>7, <1>20, <2>2
  <2>3. CASE k = m + 1 /\ type # None
    BY <1>2, <1>3, <1>4, <1>5, <2>3
  <2> QED
    BY <2>1, <2>2, <2>3
<1>11. \A o \in Operator : /\ op'[o].ref # None => {i \in DOMAIN obs' : obs'[i].ref = op'[o].ref} # {}
                           /\ op'[o].seen # None => op'[o].ref # None
  <2> SUFFICES ASSUME NEW o \in Operator
               PROVE  /\ op[o].ref # None => {i \in DOMAIN obs' : obs'[i].ref = op[o].ref} # {}
                      /\ op[o].seen # None => op[o].ref # None
    BY <1>1
  <2>1. \A i \in 1..n : i \in DOMAIN obs'
    BY <1>2
  <2>2. op[o].ref # None => \E i \in DOMAIN obs' : obs'[i].ref = op[o].ref
    BY <1>2, <1>8, <2>1
  <2> QED
    BY <1>8, <2>2
<1>12. Len(obs') = n + 1
  BY <1>2
<1> QED
  BY <1>5, <1>9, <1>10, <1>11, <1>12 DEF OnFile, Known, Seen, m2

LEMMA IngestReportedOnce ==
    ASSUME NoveltyInv, NEW l \in Lane, NEW page, NEW type, IngestOf(l, page, type)
    PROVE  ReportedOnce'
<1> DEFINE n == Len(obs)
           m == Len(events)
           m2 == Len(events')
           silent == run[l].silent
           p == Prior(page.ref, RegionOf[l])
           Differs == Moved(obs[p].stock, page.stock) \/ Moved(obs[p].price, page.price)
           New(j) == {k \in 1..m2 : events'[k].new = j /\ events'[k].type \in Change}
           Old(j) == {k \in 1..m : events[k].new = j /\ events[k].type \in Change}
<1>1. page \in Page /\ page.ref \in Ref /\ NoveltyTypeOK /\ type = Type(page, l)
      /\ obs' = Append(obs, Observed(page, l))
      /\ events' = IF type = None THEN events ELSE Append(events, Reported(type, page, l))
  BY DEF IngestOf
<1>2. /\ n \in Nat /\ Len(obs') = n + 1 /\ \A i \in 1..n : obs'[i] = obs[i]
      /\ obs'[n + 1].baseline = silent
  BY <1>1, ObservedFacts
<1>3. /\ m \in Nat /\ m2 = (IF type = None THEN m ELSE m + 1)
      /\ DOMAIN events = 1..m /\ DOMAIN events' = 1..m2
      /\ \A k \in 1..m : events'[k] = events[k]
      /\ type # None => events'[m + 1] = Reported(type, page, l)
  BY <1>1, EventsFacts
<1>4. type # None => Reported(type, page, l).new = n + 1 /\ Reported(type, page, l).type = type
  BY <1>1, ReportedFacts
<1>5. type \in Change <=> ~silent /\ p # 0 /\ Differs
  BY <1>1, ChangeType
<1>6. None \notin Change
  BY NoneFacts, TypesApart
<1>7. /\ \A j \in 1..n : ChangedAt(j)' <=> ChangedAt(j)
      /\ \A j : j = n + 1 => (ChangedAt(j)' <=> p # 0 /\ Differs)
  <2>1. ASSUME NEW j, j = n + 1 PROVE ChangedAt(j)' <=> p # 0 /\ Differs
    BY <1>1, <2>1, LatestChange
  <2>2. \A j \in 1..n : ChangedAt(j)' <=> ChangedAt(j)
    <3> DEFINE last == n + 1
    <3>1. last = Len(obs) + 1
      OBVIOUS
    <3> HIDE DEF last
    <3> QED
      BY <1>1, <3>1, LatestChange
  <2> QED
    BY <2>1, <2>2
<1>8. \A k \in 1..m : events[k].new <= n
  BY DEF NoveltyInv, OnFile
<1>9. \A j : Changes(j)' = New(j) /\ Changes(j) = Old(j)
  BY <1>3 DEF Changes
<1>10. \A j \in 1..n : IF ChangedAt(j) /\ ~obs[j].baseline THEN \E k \in 1..m : Changes(j) = {k}
                       ELSE Changes(j) = {}
  BY <1>3 DEF NoveltyInv, ReportedOnce
<1> SUFFICES ASSUME NEW j \in 1..(n + 1)
             PROVE  IF ChangedAt(j)' /\ ~obs'[j].baseline THEN \E k \in 1..m2 : New(j) = {k}
                    ELSE New(j) = {}
  BY <1>2, <1>3, <1>9 DEF ReportedOnce
<1> HIDE DEF n, m, m2, silent, p, Differs
<1>11. CASE j \in 1..n
  <2>1. j # n + 1
    BY ONLY <1>2, <1>11
  <2>2. New(j) = Old(j)
    <3>1. ASSUME NEW k \in New(j) PROVE k \in Old(j)
      <4>1. k \in 1..m \/ (k = m + 1 /\ type # None)
        BY ONLY <1>3, k \in 1..m2
      <4> QED
        BY <1>3, <1>4, <2>1, <4>1
    <3>2. ASSUME NEW k \in Old(j) PROVE k \in New(j)
      <4>1. k \in 1..m2
        BY ONLY <1>3, k \in 1..m
      <4> QED
        BY <1>3, <4>1
    <3> QED
      BY <3>1, <3>2
  <2>3. 1..m \subseteq 1..m2
    BY ONLY <1>3
  <2> HIDE DEF New, Old
  <2> QED
    BY <1>2, <1>7, <1>9, <1>10, <1>11, <2>2, <2>3
<1>12. CASE j = n + 1
  <2>1. \A k \in 1..m : events'[k].new # j
    <3> SUFFICES ASSUME NEW k \in 1..m PROVE events[k].new # j
      BY <1>3
    <3>1. events[k].new \in Nat /\ events[k].new <= n
      BY <1>1, <1>8, FileFacts DEF Event, m
    <3> QED
      BY ONLY <1>2, <1>12, <3>1
  <2>2. CASE type \in Change
    <3>1. m2 = m + 1 /\ m + 1 \in 1..m2 /\ events'[m + 1].new = j /\ events'[m + 1].type = type
      <4>1. type # None
        BY <1>6, <2>2
      <4>2. m2 = m + 1 /\ m + 1 \in 1..m2
        BY ONLY <1>3, <4>1
      <4> QED
        BY <1>3, <1>4, <1>12, <4>1, <4>2
    <3>2. \A k \in 1..m2 : k \in 1..m \/ k = m + 1
      BY ONLY <1>3, <3>1
    <3>3. New(j) = {m + 1}
      BY <2>1, <2>2, <3>1, <3>2
    <3> HIDE DEF New
    <3>4. ChangedAt(j)' /\ ~obs'[j].baseline
      BY <1>2, <1>5, <1>7, <1>12, <2>2
    <3> QED
      BY <3>1, <3>3, <3>4
  <2>3. CASE type \notin Change
    <3>1. ASSUME NEW k \in 1..m2 PROVE ~(events'[k].new = j /\ events'[k].type \in Change)
      <4>1. k \in 1..m \/ (k = m + 1 /\ type # None)
        BY ONLY <1>3, k \in 1..m2
      <4> QED
        BY <1>3, <1>4, <2>1, <2>3, <4>1
    <3>2. New(j) = {}
      BY <3>1
    <3> HIDE DEF New
    <3>3. ~(ChangedAt(j)' /\ ~obs'[j].baseline)
      BY <1>2, <1>5, <1>7, <1>12, <2>3
    <3> QED
      BY <3>2, <3>3
  <2> QED
    BY <2>2, <2>3
<1> QED
  BY <1>2, <1>11, <1>12

LEMMA IngestInherits ==
    ASSUME NoveltyInv, NEW l \in Lane, NEW page, NEW type, IngestOf(l, page, type)
    PROVE  InheritedStockIsOld' /\ CheckedWereFree'
<1> DEFINE n == Len(obs)
           m == Len(events)
           m2 == Len(events')
           e == Reported(type, page, l)
           r == RegionOf[l]
<1>1. page \in Page /\ page.ref \in Ref /\ NoveltyTypeOK /\ type = Type(page, l)
      /\ obs' = Append(obs, Observed(page, l)) /\ op' = op
      /\ events' = IF type = None THEN events ELSE Append(events, Reported(type, page, l))
  BY DEF IngestOf
<1>2. /\ n \in Nat /\ DOMAIN obs = 1..n /\ \A i \in 1..n : obs'[i] = obs[i]
      /\ obs'[n + 1].region = r
  BY <1>1, ObservedFacts
<1>3. /\ m \in Nat /\ m2 = (IF type = None THEN m ELSE m + 1)
      /\ DOMAIN events = 1..m /\ DOMAIN events' = 1..m2
      /\ \A k \in 1..m : events'[k] = events[k] /\ events[k] \in Event
      /\ type # None => events'[m + 1] = e
  BY <1>1, EventsFacts
<1>4. type # None => /\ e.new = n + 1 /\ e.type = type /\ e.ref = page.ref
                     /\ type = "SOLD_OUT" /\ e.current /\ Resolved(page).named < 2
                           => LaunchEvidence(page.ref, r) # {}
  BY <1>1, ReportedFacts
<1>5. /\ watches'[page.ref] = Resolved(page)
      /\ \A w \in Ref : watches[w] # None => watches'[w] # None /\ watches'[w].named = watches[w].named
  BY IngestWatches DEF WatchesKept, Known
<1>6. \A k \in 1..m : /\ events[k].ref \in Ref /\ watches[events[k].ref] # None
                      /\ events[k].new <= n /\ events[k].new \in Nat
                      /\ events[k].type \in Change => events[k].new >= 1
  BY <1>3 DEF NoveltyInv, OnFile, Known, Event
<1>7. \A k \in 1..m :
         events[k].type = "SOLD_OUT" /\ events[k].current /\ watches[events[k].ref].named < 2 =>
            \E i \in 1..(events[k].new - 1) :
               /\ obs[i].ref = events[k].ref /\ obs[i].region = obs[events[k].new].region
               /\ obs[i].stock = "AVAILABLE" /\ ~obs[i].baseline
  BY <1>3 DEF NoveltyInv, InheritedStockIsOld
<1>8. LaunchEvidence(page.ref, r) =
         {i \in 1..n : /\ obs[i].ref = page.ref /\ obs[i].region = r
                       /\ obs[i].stock = "AVAILABLE" /\ ~obs[i].baseline}
  BY <1>2 DEF LaunchEvidence, Market, Seen
<1>9. \A o \in Operator : op[o].seen # None =>
         /\ op[o].seen \in 0..m
         /\ \A k \in 1..op[o].seen : ~(events[k].ref = op[o].ref /\ events[k].type \in Claim)
  BY <1>1 DEF NoveltyInv, CheckedWereFree, NoveltyTypeOK
<1>10. "SOLD_OUT" \in Change
  BY DEF Change, Supply
<1> HIDE DEF n, m, m2, e, r
<1>11. InheritedStockIsOld'
  <2> DEFINE Launched(k) ==
         \E i \in 1..(events'[k].new - 1) :
             /\ obs'[i].ref = events'[k].ref /\ obs'[i].region = obs'[events'[k].new].region
             /\ obs'[i].stock = "AVAILABLE" /\ ~obs'[i].baseline
  <2> SUFFICES ASSUME NEW k \in 1..m2, events'[k].type = "SOLD_OUT", events'[k].current,
                      watches'[events'[k].ref].named < 2
               PROVE  Launched(k)
    BY <1>3 DEF InheritedStockIsOld
  <2>1. k \in 1..m \/ (k = m + 1 /\ type # None)
    BY ONLY <1>3, k \in 1..m2
  <2>2. CASE k \in 1..m
    <3>1. /\ events'[k] = events[k] /\ events[k].ref \in Ref /\ watches[events[k].ref].named < 2
          /\ events[k].new \in 1..n
      <4>1. events[k].type = "SOLD_OUT" /\ events'[k] = events[k]
        BY <1>3, <2>2
      <4>2. events[k].new >= 1 /\ events[k].new <= n /\ events[k].new \in Nat
        BY <1>6, <1>10, <2>2, <4>1
      <4>3. watches'[events[k].ref].named = watches[events[k].ref].named
        BY <1>5, <1>6, <2>2
      <4>4. events[k].new \in 1..n
        BY ONLY <1>2, <4>2
      <4> QED
        BY <1>6, <2>2, <4>1, <4>3, <4>4
    <3>2. PICK i \in 1..(events[k].new - 1) :
               /\ obs[i].ref = events[k].ref /\ obs[i].region = obs[events[k].new].region
               /\ obs[i].stock = "AVAILABLE" /\ ~obs[i].baseline
      BY <1>7, <2>2, <3>1
    <3> DEFINE new == events[k].new
    <3>4. new \in 1..n /\ i \in 1..(new - 1)
      BY <3>1
    <3> HIDE DEF new
    <3>3. i \in 1..n
      BY ONLY <1>2, <3>4
    <3>5. obs'[i] = obs[i] /\ obs'[new] = obs[new]
      BY <1>2, <3>3, <3>4
    <3> QED
      BY <3>1, <3>2, <3>5 DEF new
  <2>3. CASE k = m + 1 /\ type # None
    <3>1. events'[k] = e /\ e.new = n + 1 /\ e.type = type /\ e.ref = page.ref
      BY <1>3, <1>4, <2>3
    <3>2. LaunchEvidence(page.ref, r) # {}
      BY <1>4, <1>5, <2>3, <3>1
    <3>3. PICK i \in 1..n : /\ obs[i].ref = page.ref /\ obs[i].region = r
                            /\ obs[i].stock = "AVAILABLE" /\ ~obs[i].baseline
      BY <1>8, <3>2
    <3>4. (n + 1) - 1 = n
      BY ONLY <1>2
    <3>5. obs'[i] = obs[i]
      BY <1>2
    <3>6. events'[k].new = n + 1 /\ events'[k].ref = page.ref /\ events'[k].new - 1 = n
      BY <3>1, <3>4
    <3> QED
      BY <1>2, <3>3, <3>5, <3>6
  <2> QED
    BY <2>1, <2>2, <2>3
<1>12. CheckedWereFree'
  <2> SUFFICES ASSUME NEW o \in Operator, op[o].seen # None, NEW k \in 1..op[o].seen
               PROVE  ~(events'[k].ref = op[o].ref /\ events'[k].type \in Claim)
    BY <1>1 DEF CheckedWereFree
  <2> DEFINE seen == op[o].seen
  <2>1. seen \in 0..m /\ k \in 1..seen
    BY <1>9
  <2> HIDE DEF seen
  <2>2. k \in 1..m
    BY ONLY <1>3, <2>1
  <2> QED
    BY <1>3, <1>9, <2>2
<1> QED
  BY <1>11, <1>12

LEMMA IngestOK ==
    ASSUME NoveltyInv, NEW l \in Lane, Ingest(l)
    PROVE  NoveltyInv'
<1>1. PICK page, type : IngestOf(l, page, type)
  BY IngestFacts
<1>2. NoveltyTypeOK' /\ RunsServe'
  BY IngestTyped
<1>3. OnFile'
  BY <1>1, IngestOnFile
<1>4. ReportedOnce'
  BY <1>1, IngestReportedOnce
<1>5. InheritedStockIsOld' /\ CheckedWereFree'
  BY <1>1, IngestInherits
<1> QED
  BY <1>2, <1>3, <1>4, <1>5 DEF NoveltyInv

-----------------------------------------------------------------------------
(***************************************************************************)
(* The invariant holds                                                      *)
(***************************************************************************)
LEMMA InitNovelty == NoveltyInit => NoveltyInv
<1> SUFFICES ASSUME NoveltyInit PROVE NoveltyInv
  OBVIOUS
<1>1. /\ obs = <<>> /\ events = <<>> /\ Len(obs) = 0 /\ Len(events) = 0
      /\ DOMAIN obs = {} /\ DOMAIN events = {}
      /\ obs \in Seq(Observation) /\ events \in Seq(Event)
  BY DEF NoveltyInit
<1>2. /\ MaxDay \in Nat /\ MaxRuns \in Nat /\ MaxNews \in Nat /\ MaxLooks \in Nat /\ MaxFaults \in Nat
  BY NoveltyAssumption
<1>3. RunsTyped /\ RunsServe
  BY <1>1, NoRunTyped DEF NoveltyInit, RunsTyped, RunsServe, NoRun
<1>4. NoCatchUp \in [ref : Ref \union {None}, seen : 0..0 \union {None}]
  BY DEF NoCatchUp
<1>5. OpsTyped
  BY <1>1, <1>4 DEF NoveltyInit, OpsTyped
<1>6. SpentTyped
  BY <1>2 DEF NoveltyInit, SpentTyped
<1>7. NoveltyTypeOK
  BY <1>1, <1>2, <1>3, <1>5, <1>6 DEF NoveltyInit, NoveltyTypeOK, RunsTyped, OpsTyped, SpentTyped
<1>8. KnownWatches = {}
  BY DEF NoveltyInit, KnownWatches, Known
<1>9. OnFile
  <2>1. IsFiniteSet(KnownWatches)
    BY <1>8, FS_EmptySet
  <2> QED
    BY <1>1, <2>1 DEF OnFile, NoveltyInit, NoCatchUp
<1>10. ReportedOnce /\ InheritedStockIsOld /\ CheckedWereFree
  BY <1>1 DEF ReportedOnce, InheritedStockIsOld, CheckedWereFree, NoveltyInit, NoCatchUp
<1> QED
  BY <1>3, <1>7, <1>9, <1>10 DEF NoveltyInv

LEMMA NextNovelty == NoveltyInv /\ [NoveltyNext]_noveltyVars => NoveltyInv'
<1> SUFFICES ASSUME NoveltyInv, [NoveltyNext]_noveltyVars PROVE NoveltyInv'
  OBVIOUS
<1>1. CASE \E l \in Lane : LaneStep(l)
  <2> PICK l \in Lane : LaneStep(l)
    BY <1>1
  <2>1. CASE \E s \in Served[l], silent \in BOOLEAN : Stage(l, s, silent)
    BY <2>1, StageOK
  <2>2. CASE Ingest(l)
    BY <2>2, IngestOK
  <2>3. CASE ItemFails(l) \/ Crash(l)
    BY <2>3, ItemFailsOrCrashOK
  <2>4. CASE Finish(l)
    BY <2>4, FinishOK
  <2> QED
    BY <2>1, <2>2, <2>3, <2>4 DEF LaneStep
<1>2. CASE NewsStep
  <2>1. CASE \E w \in Announced, quiet \in BOOLEAN : Announce(w, quiet)
    BY <2>1, AnnounceOK
  <2>2. CASE Remember \/ Forget
    BY <2>2, RestOK
  <2> QED
    BY <1>2, <2>1, <2>2 DEF NewsStep
<1>3. CASE \E o \in Operator : OperatorStep(o)
  <2> PICK o \in Operator : OperatorStep(o)
    BY <1>3
  <2>1. CASE \E w \in Ref : Look(o, w)
    BY <2>1, LookOK
  <2>2. CASE Check(o)
    BY <2>2, CheckOK
  <2>3. CASE CreateBelated(o)
    BY <2>3, CreateBelatedOK
  <2> QED
    BY <2>1, <2>2, <2>3 DEF OperatorStep
<1>4. CASE Tick
  BY <1>4, RestOK
<1>5. CASE UNCHANGED noveltyVars
  <2>1. UNCHANGED <<day, watches, obs, events, markets, lead, run, op, spent>>
    BY <1>5 DEF noveltyVars
  <2>2. NoveltyTypeOK' /\ RunsServe'
    BY <2>1 DEF NoveltyInv, NoveltyTypeOK, RunsServe
  <2> QED
    BY <2>1, <2>2, OpsStay, QuietStep
<1> QED
  BY <1>1, <1>2, <1>3, <1>4, <1>5 DEF NoveltyNext

\* What NoveltyInv says holds in every state: of the observations, of the Events
\* that report them and of the catch-ups that go on.
THEOREM NoveltyInvariant == NoveltySpec => []NoveltyInv
BY InitNovelty, NextNovelty, PTL DEF NoveltySpec

\* The observations, the Events and what writes them are always of their types:
\* a run never reads past its last page, and an operator's check never counts
\* Events that are not on file.
THEOREM NoveltyTypeCorrect == NoveltySpec => []NoveltyTypeOK
<1>1. NoveltyInv => NoveltyTypeOK
  BY DEF NoveltyInv
<1> QED
  BY <1>1, NoveltyInvariant, PTL

\* Each change between two observations of a market is reported by one Event,
\* and no Event reports a change that did not happen, whatever runs, failures
\* and kills come between the two.
THEOREM EveryChangeOnce == NoveltySpec => []ChangesAreReportedOnce
<1>1. NoveltyInv => ChangesAreReportedOnce
  <2> SUFFICES ASSUME NoveltyInv, NEW j \in DOMAIN obs
               PROVE  Cardinality(Changes(j)) = If(ChangedAt(j) /\ ~obs[j].baseline, 1)
    BY DEF ChangesAreReportedOnce, ChangedAt
  <2>1. j \in 1..Len(obs)
    BY FileFacts DEF NoveltyInv
  <2>2. CASE ChangedAt(j) /\ ~obs[j].baseline
    <3>1. PICK k \in DOMAIN events : Changes(j) = {k}
      BY <2>1, <2>2 DEF NoveltyInv, ReportedOnce
    <3>2. Cardinality(Changes(j)) = 1
      BY <3>1, FS_Singleton
    <3> QED
      BY <2>2, <3>2 DEF If
  <2>3. CASE ~(ChangedAt(j) /\ ~obs[j].baseline)
    <3>1. Changes(j) = {}
      BY <2>1, <2>3 DEF NoveltyInv, ReportedOnce
    <3>2. Cardinality(Changes(j)) = 0
      BY <3>1, FS_EmptySet
    <3> QED
      BY <2>3, <3>2 DEF If
  <2> QED
    BY <2>2, <2>3
<1> QED
  BY <1>1, NoveltyInvariant, PTL

\* A sell-out of stock that only silent runs had seen is never made current by
\* the bonus for a rapid sell-out.
THEOREM OldStockStaysOld == NoveltySpec => []InheritedStockIsOld
<1>1. NoveltyInv => InheritedStockIsOld
  BY DEF NoveltyInv
<1> QED
  BY <1>1, NoveltyInvariant, PTL

-----------------------------------------------------------------------------
(***************************************************************************)
(* Who adds an Event                                                        *)
(***************************************************************************)
LEMMA OnlyWritersAdd ==
    ASSUME NoveltyInv, [NoveltyNext]_noveltyVars, Len(events') > Len(events)
    PROVE  \/ \E l \in Lane : Ingest(l)
           \/ \E w \in Announced, quiet \in BOOLEAN : Announce(w, quiet)
           \/ \E o \in Operator : CreateBelated(o)
<1>1. Len(events) \in Nat
  BY FileFacts DEF NoveltyInv
<1>2. events' # events
  <2> SUFFICES ASSUME events' = events PROVE FALSE
    OBVIOUS
  <2> DEFINE n == Len(events)
             n2 == Len(events')
  <2>1. n2 = n /\ n2 > n /\ n \in Nat
    BY <1>1
  <2> HIDE DEF n, n2
  <2> QED
    BY ONLY <2>1
<1>3. ASSUME NEW l \in Lane, Finish(l) PROVE FALSE
  <2> DEFINE n == Len(events)
             n2 == Len(events')
  <2>1. DOMAIN events' = DOMAIN events
    BY <1>3 DEF Finish
  <2>2. NoveltyInv'
    BY FinishOK, <1>3
  <2>3. DOMAIN events' = 1..n2 /\ n2 \in Nat /\ DOMAIN events = 1..n /\ n \in Nat
    <3>1. events \in Seq(Event) /\ events' \in Seq(Event)
      BY <2>2 DEF NoveltyInv, NoveltyTypeOK
    <3> QED
      BY <3>1, LenProperties
  <2>4. n2 > n
    OBVIOUS
  <2> HIDE DEF n, n2
  <2>5. 1..n = 1..n2
    BY <2>1, <2>3
  <2> QED
    BY ONLY <2>3, <2>4, <2>5
<1> QED
  BY <1>2, <1>3 DEF NoveltyNext, LaneStep, Stage, ItemFails, Crash, NewsStep, Remember, Forget,
                    OperatorStep, Look, Check, Tick, noveltyVars

\* One Event more, and the others as they were.
OneAdded ==
    /\ Len(events') = Len(events) + 1
    /\ \A k \in 1..Len(events) : events'[k] = events[k]

LEMMA AddedByLane ==
    ASSUME NoveltyInv, NEW l \in Lane, NEW page, NEW type, IngestOf(l, page, type), Len(events') > Len(events)
    PROVE  /\ OneAdded
           /\ type # None /\ events'[Len(events')] = Reported(type, page, l)
           /\ events'[Len(events')].by = l /\ events'[Len(events')].type = type
           /\ events'[Len(events')].ref = page.ref
<1> DEFINE n == Len(events)
           n2 == Len(events')
           e == Reported(type, page, l)
<1>1. page \in Page /\ type = Type(page, l)
      /\ events' = IF type = None THEN events ELSE Append(events, e)
  BY DEF IngestOf
<1>2. n \in Nat /\ n2 = (IF type = None THEN n ELSE n + 1) /\ (type # None => events'[n + 1] = e) /\ n2 > n
      /\ \A k \in 1..n : events'[k] = events[k]
  BY <1>1, EventsFacts
<1>3. type # None => e.by = l /\ e.type = type /\ e.ref = page.ref
  BY <1>1, ReportedFacts
<1> HIDE DEF n, n2, e
<1>4. type # None /\ n2 = n + 1
  BY ONLY <1>2
<1>5. events'[n2] = e
  BY <1>2, <1>4
<1>6. OneAdded
  BY <1>2, <1>4 DEF OneAdded, n, n2
<1> QED
  BY <1>3, <1>4, <1>5, <1>6 DEF n2, e

LEMMA AddedByNews ==
    ASSUME NoveltyInv, NEW w \in Announced, NEW quiet \in BOOLEAN, Announce(w, quiet), Len(events') > Len(events)
    PROVE  /\ OneAdded /\ events'[Len(events')].by = None
           /\ events'[Len(events')].type = "NEW_REFERENCE" => ~Known(events'[Len(events')].ref)
<1> DEFINE region == markets[w] # {} /\ NewsRegion \notin markets[w]
           type == IF ~Known(w) THEN "NEW_REFERENCE" ELSE IF region THEN "NEW_REGION" ELSE None
           facts == IF Known(w) THEN watches[w]
                    ELSE [coll |-> None, pub |-> None, back |-> FALSE, named |-> 0]
           page == [ref |-> w, facts |-> facts, stock |-> None, price |-> None]
           e == ClaimOf(type, page, facts, 0, None)
           n == Len(events)
           n2 == Len(events')
<1>1. NoveltyTypeOK /\ w \in Ref /\ events \in Seq(Event) /\ n \in Nat
  BY NoveltyAssumption, FileFacts DEF NoveltyInv, NoveltyTypeOK
<1>2. events' = IF quiet \/ type = None THEN events ELSE Append(events, e)
  BY DEF Announce, ClaimOf
<1>3. type \in Claim \/ type = None
  BY DEF Claim
<1>4. facts \in Facts /\ page.ref = w
  BY <1>1 DEF NoveltyTypeOK, Known, Facts
<1>5. events' = events \/ (type \in Claim /\ events' = Append(events, e))
  BY <1>2, <1>3
<1>6. type \in Claim => e \in Event /\ e.by = None /\ e.type = type /\ e.ref = w
  <2> DEFINE zero == 0
             p == page
             g == facts
             t == type
  <2>1. p.ref \in Ref /\ p.ref = w /\ g \in Facts /\ zero \in Nat /\ None \in Lane \union Operator \union {None}
    BY <1>1, <1>4
  <2> HIDE DEF p, g, zero, t
  <2>2. t \in Claim => /\ ClaimOf(t, p, g, zero, None) \in Event /\ ClaimOf(t, p, g, zero, None).by = None
                      /\ ClaimOf(t, p, g, zero, None).type = t
                      /\ ClaimOf(t, p, g, zero, None).ref = p.ref
    BY <1>1, <2>1, ClaimReported
  <2> QED
    BY <2>1, <2>2 DEF p, g, zero, t
<1>9. type = "NEW_REFERENCE" => ~Known(w)
  BY NoneFacts DEF EventType, Claim
<1> HIDE DEF e, type, facts, page
<1>7. CASE events' = events
  <2>1. n2 = n /\ n2 > n
    BY <1>7
  <2> HIDE DEF n, n2
  <2> QED
    BY ONLY <1>1, <2>1
<1>8. CASE type \in Claim /\ events' = Append(events, e)
  <2>1. /\ Len(Append(events, e)) = n + 1 /\ Append(events, e)[n + 1] = e
        /\ \A k \in 1..n : Append(events, e)[k] = events[k]
    BY <1>1, <1>6, <1>8, AppendFacts
  <2>2. OneAdded
    BY <1>8, <2>1 DEF OneAdded, n
  <2> QED
    BY <1>6, <1>8, <1>9, <2>1, <2>2
<1> QED
  BY <1>5, <1>7, <1>8

LEMMA AddedByOperator ==
    ASSUME NoveltyInv, NEW o \in Operator, CreateBelated(o)
    PROVE  /\ OneAdded /\ events'[Len(events')].by = o /\ events'[Len(events')].ref = op[o].ref
           /\ op[o].seen # None
<1> DEFINE e == Belated(op[o].ref, o)
<1>1. op[o].seen # None /\ events' = Append(events, e) /\ events \in Seq(Event)
  BY DEF CreateBelated, NoveltyInv, NoveltyTypeOK
<1>2. e \in Event /\ e.by = o /\ e.ref = op[o].ref
  BY <1>1, BelatedFacts
<1> HIDE DEF e
<1>3. /\ Len(Append(events, e)) = Len(events) + 1 /\ Append(events, e)[Len(events) + 1] = e
      /\ \A k \in 1..Len(events) : Append(events, e)[k] = events[k]
  BY <1>1, <1>2, AppendFacts
<1>4. OneAdded
  BY <1>1, <1>3 DEF OneAdded
<1> QED
  BY <1>1, <1>2, <1>3, <1>4

-----------------------------------------------------------------------------
(***************************************************************************)
(* Who claims a launch                                                      *)
(***************************************************************************)
\* Only a launch is typed as one.
LEMMA LaunchFacts ==
    ASSUME NEW l, NEW page, Type(page, l) = "NEW_REFERENCE"
    PROVE  ~Known(page.ref) /\ IsLaunch(page.ref, page.facts, l)
<1>1. None # "NEW_REFERENCE"
  BY NoneFacts DEF EventType, Claim
<1>2. Later(page, RegionOf[l]) # "NEW_REFERENCE"
  <2>1. Transition(obs[Prior(page.ref, RegionOf[l])], page) # "NEW_REFERENCE"
    <3>1. "NEW_REFERENCE" \notin Change
      BY DEF Change, Supply
    <3> QED
      BY <1>1, <3>1, TransitionFacts
  <2> QED
    BY <1>1, <2>1 DEF Later
<1>3. ~Known(page.ref) /\ FirstSighting(page.ref, page.facts, l) = "NEW_REFERENCE"
  BY <1>1, <1>2 DEF Type
<1> QED
  BY <1>3 DEF FirstSighting

\* A lane and an announcement claim the launch of a watch that nobody knows; an
\* operator that of the watch it has checked, and is done.
Writer(by) ==
    LET e == events'[Len(events')]
    IN  /\ OneAdded /\ e.by = by
        /\ \/ by \notin Operator /\ op' = op /\ (e.type = "NEW_REFERENCE" => ~Known(e.ref))
           \/ /\ by \in Operator /\ op[by].seen # None /\ e.ref = op[by].ref
              /\ op' = [op EXCEPT ![by] = NoCatchUp]

LEMMA WriterFacts ==
    ASSUME NoveltyInv, [NoveltyNext]_noveltyVars, Len(events') > Len(events)
    PROVE  Writer(events'[Len(events')].by)
<1> DEFINE last == events'[Len(events')]
<1>1. CASE \E l \in Lane : Ingest(l)
  <2>1. PICK l \in Lane : Ingest(l)
    BY <1>1
  <2>2. PICK page, type : IngestOf(l, page, type)
    BY <2>1, IngestFacts
  <2>3. OneAdded /\ last.by = l /\ last.type = type /\ last.ref = page.ref
    BY <2>2, AddedByLane
  <2>4. op' = op /\ type = Type(page, l)
    BY <2>2 DEF IngestOf
  <2>5. last.type = "NEW_REFERENCE" => ~Known(last.ref)
    BY <2>3, <2>4, LaunchFacts
  <2>6. l \notin Operator
    BY NoveltyAssumption
  <2> QED
    BY <2>3, <2>4, <2>5, <2>6 DEF Writer
<1>2. CASE \E w \in Announced, quiet \in BOOLEAN : Announce(w, quiet)
  <2>1. PICK w \in Announced, quiet \in BOOLEAN : Announce(w, quiet)
    BY <1>2
  <2>2. OneAdded /\ last.by = None /\ (last.type = "NEW_REFERENCE" => ~Known(last.ref))
    BY <2>1, AddedByNews
  <2>3. op' = op /\ None \notin Operator
    BY <2>1, NoveltyAssumption DEF Announce
  <2> QED
    BY <2>2, <2>3 DEF Writer
<1>3. CASE \E o \in Operator : CreateBelated(o)
  <2>1. PICK o \in Operator : CreateBelated(o)
    BY <1>3
  <2>2. OneAdded /\ last.by = o /\ last.ref = op[o].ref /\ op[o].seen # None
    BY <2>1, AddedByOperator
  <2>3. op' = [op EXCEPT ![o] = NoCatchUp]
    BY <2>1 DEF CreateBelated
  <2> QED
    BY <2>2, <2>3 DEF Writer
<1> QED
  BY <1>1, <1>2, <1>3, OnlyWritersAdd

\* Since its check, an operator has added nothing, and others claimed the launch
\* of its watch only as operators: a lane or an announcement cannot any more.
Overlapping ==
    \A o \in Operator : op[o].seen # None =>
        \A k \in (op[o].seen + 1)..Len(events) :
           /\ events[k].by # o
           /\ events[k].ref = op[o].ref /\ events[k].type = "NEW_REFERENCE" => events[k].by \in Operator

\* A step that adds nothing keeps what an Event says, and an operator has either
\* kept its check, ended its catch-up or checked all there is.
LEMMA SilentStep ==
    ASSUME NoveltyInv, [NoveltyNext]_noveltyVars, ~(Len(events') > Len(events))
    PROVE  /\ Len(events') = Len(events)
           /\ \A k \in 1..Len(events) : /\ events'[k].type = events[k].type
                                        /\ events'[k].ref = events[k].ref
                                        /\ events'[k].by = events[k].by
           /\ \A o \in Operator : \/ op'[o] = op[o] \/ op'[o].seen = None
                                  \/ op'[o].seen = Len(events)
<1>1. NoveltyTypeOK /\ Len(events) \in Nat
  BY FileFacts DEF NoveltyInv
<1>2. CASE events' = events /\ op' = op
  BY <1>2
<1>3. ASSUME NEW l \in Lane, Finish(l) PROVE
        /\ Len(events') = Len(events)
        /\ \A k \in 1..Len(events) : /\ events'[k].type = events[k].type
                                     /\ events'[k].ref = events[k].ref
                                     /\ events'[k].by = events[k].by
        /\ op' = op
  <2>1. /\ op' = op /\ DOMAIN events = 1..Len(events) /\ \A k \in 1..Len(events) : events[k] \in Event
        /\ events' = [i \in DOMAIN events |->
                        IF i \in Burst(l) THEN [events[i] EXCEPT !.burst = TRUE] ELSE events[i]]
    BY <1>1, <1>3, FileFacts DEF Finish
  <2>2. ASSUME NEW k \in 1..Len(events)
        PROVE  events'[k].type = events[k].type /\ events'[k].ref = events[k].ref
               /\ events'[k].by = events[k].by
    <3> DEFINE e == events[k]
               b == [e EXCEPT !.burst = TRUE]
    <3>1. b.type = e.type /\ b.ref = e.ref /\ b.by = e.by
      BY <2>1 DEF Event
    <3>2. events'[k] = b \/ events'[k] = e
      BY <2>1
    <3> HIDE DEF b
    <3> QED
      BY <3>1, <3>2
  <2>3. Len(events') = Len(events)
    <3>1. NoveltyInv'
      BY <1>3, FinishOK
    <3>2. DOMAIN events' = 1..Len(events') /\ Len(events') \in Nat
      <4>1. events' \in Seq(Event)
        BY <3>1 DEF NoveltyInv, NoveltyTypeOK
      <4> QED
        BY <4>1, LenProperties
    <3>3. DOMAIN events' = 1..Len(events)
      BY <2>1
    <3> DEFINE n == Len(events)
               n2 == Len(events')
    <3>4. n \in Nat /\ n2 \in Nat /\ 1..n = 1..n2
      BY <1>1, <3>2, <3>3
    <3> HIDE DEF n, n2
    <3>5. n2 = n
      BY ONLY <3>4
    <3> QED
      BY <3>5 DEF n, n2
  <2> QED
    BY <2>1, <2>2, <2>3
<1>4. ASSUME NEW o \in Operator, \/ \E w \in Ref : Look(o, w)
                                 \/ Check(o)
      PROVE  /\ events' = events
             /\ \A p \in Operator : \/ op'[p] = op[p] \/ op'[p].seen = None
                                    \/ op'[p].seen = Len(events)
  <2>1. events' = events
    BY <1>4 DEF Look, Check
  <2>2. ASSUME NEW p \in Operator, p # o PROVE op'[p] = op[p]
    BY <1>1, <1>4, <2>2 DEF Look, Check, NoveltyTypeOK
  <2>3. op \in [Operator -> [ref : Ref \union {None}, seen : 0..Len(events) \union {None}]]
    BY <1>1 DEF NoveltyTypeOK
  <2>4. op[o] \in [ref : Ref \union {None}, seen : 0..Len(events) \union {None}]
    BY <2>3
  <2>5. ASSUME NEW w \in Ref, Look(o, w) PROVE op'[o].seen = None
    <3>1. op[o] = NoCatchUp /\ op' = [op EXCEPT ![o].ref = w]
      BY <2>5 DEF Look
    <3>2. op'[o] = [op[o] EXCEPT !.ref = w]
      BY <2>3, <3>1
    <3> QED
      BY <3>1, <3>2 DEF NoCatchUp
  <2>6. CASE Check(o)
    <3>1. op' = [op EXCEPT ![o] = IF Claimed(op[o].ref) THEN NoCatchUp
                                  ELSE [op[o] EXCEPT !.seen = Len(events)]]
      BY <2>6 DEF Check
    <3>2. op'[o] = NoCatchUp \/ op'[o] = [op[o] EXCEPT !.seen = Len(events)]
      BY <2>3, <3>1
    <3>3. op'[o].seen = None \/ op'[o].seen = Len(events)
      BY <2>4, <3>2 DEF NoCatchUp
    <3> QED
      BY <2>1, <2>2, <3>3
  <2> QED
    BY <1>4, <2>1, <2>2, <2>5, <2>6
<1>5. ASSUME NEW l \in Lane, Ingest(l) PROVE events' = events /\ op' = op
  <2>1. PICK page, type : IngestOf(l, page, type)
    BY <1>5, IngestFacts
  <2>2. page \in Page /\ type = Type(page, l) /\ op' = op
        /\ events' = IF type = None THEN events ELSE Append(events, Reported(type, page, l))
    BY <2>1 DEF IngestOf
  <2>3. Len(events') = IF type = None THEN Len(events) ELSE Len(events) + 1
    BY <2>2, EventsFacts
  <2>4. type = None
    BY <1>1, <2>3
  <2> QED
    BY <2>2, <2>4
<1>6. ASSUME NEW w \in Announced, NEW quiet \in BOOLEAN, Announce(w, quiet) PROVE events' = events /\ op' = op
  <2>1. op' = op /\ (events' = events \/ \E e : events' = Append(events, e))
    BY <1>6 DEF Announce
  <2>2. ASSUME NEW e, events' = Append(events, e) PROVE FALSE
    BY <1>1, <2>2 DEF NoveltyTypeOK
  <2> QED
    BY <2>1, <2>2
<1>7. ASSUME NEW o \in Operator, CreateBelated(o) PROVE FALSE
  <2>1. OneAdded
    BY <1>7, AddedByOperator
  <2> QED
    BY <1>1, <2>1 DEF OneAdded
<1>8. \/ events' = events /\ op' = op
      \/ \E l \in Lane : Ingest(l) \/ Finish(l)
      \/ \E w \in Announced, quiet \in BOOLEAN : Announce(w, quiet)
      \/ \E o \in Operator : (\E w \in Ref : Look(o, w)) \/ Check(o) \/ CreateBelated(o)
  BY DEF NoveltyNext, LaneStep, Stage, ItemFails, Crash, NewsStep, Remember, Forget, OperatorStep,
         Tick, noveltyVars
<1> QED
  BY <1>2, <1>3, <1>4, <1>5, <1>6, <1>7, <1>8

LEMMA NextOverlapping == NoveltyInv /\ Overlapping /\ [NoveltyNext]_noveltyVars => Overlapping'
<1> SUFFICES ASSUME NoveltyInv, Overlapping, [NoveltyNext]_noveltyVars,
                    NEW o \in Operator, op'[o].seen # None,
                    NEW k \in (op'[o].seen + 1)..Len(events')
             PROVE  /\ events'[k].by # o
                    /\ events'[k].ref = op'[o].ref /\ events'[k].type = "NEW_REFERENCE" =>
                          events'[k].by \in Operator
  BY DEF Overlapping
<1> DEFINE n == Len(events)
<1>1. /\ NoveltyTypeOK /\ n \in Nat
      /\ op \in [Operator -> [ref : Ref \union {None}, seen : 0..n \union {None}]]
  BY FileFacts DEF NoveltyInv, NoveltyTypeOK
<1>2. op[o].seen \in 0..n \union {None}
  BY <1>1
<1>3. CASE ~(Len(events') > n)
  <2>1. /\ Len(events') = n
        /\ \A j \in 1..n : /\ events'[j].type = events[j].type /\ events'[j].ref = events[j].ref
                           /\ events'[j].by = events[j].by
        /\ op'[o] = op[o] \/ op'[o].seen = n
    BY <1>3, SilentStep
  <2> HIDE DEF n
  <2>2. op'[o] = op[o] /\ op[o].seen \in 0..n /\ k \in 1..n /\ k \in (op[o].seen + 1)..n
    BY <1>1, <1>2, <2>1
  <2> QED
    BY <2>1, <2>2 DEF Overlapping, n
<1>4. CASE Len(events') > n
  <2> DEFINE last == events'[Len(events')]
  <2>1. Writer(last.by)
    BY <1>4, WriterFacts
  <2>2. Len(events') = n + 1 /\ \A j \in 1..n : events'[j] = events[j]
    BY <2>1 DEF Writer, OneAdded
  <2>3. op'[o] = op[o] /\ last.by # o
    <3>1. CASE last.by = o
      <4>1. op'[o] = NoCatchUp
        BY <1>1, <2>1, <3>1 DEF Writer
      <4> QED
        BY <4>1 DEF NoCatchUp
    <3>2. CASE last.by # o
      BY <1>1, <2>1, <3>2 DEF Writer
    <3> QED
      BY <3>1, <3>2
  <2>4. op[o].seen \in 0..n
    BY <1>2, <2>3
  <2>5. CASE k \in 1..n
    <3>1. k \in (op[o].seen + 1)..n
      BY <1>1, <2>3, <2>4, <2>5
    <3> QED
      BY <2>2, <2>3, <2>5, <3>1 DEF Overlapping
  <2>6. CASE k = n + 1
    <3>1. Known(op[o].ref)
      BY <2>3, BelatedFacts
    <3> QED
      BY <2>1, <2>2, <2>3, <2>6, <3>1 DEF Writer
  <2>7. k \in 1..n \/ k = n + 1
    <3> HIDE DEF n
    <3> QED
      BY <1>1, <2>2, <2>3, <2>4
  <2> QED
    BY <2>5, <2>6, <2>7
<1> QED
  BY <1>3, <1>4

LEMMA OverlappingInvariant == NoveltySpec => []Overlapping
<1>1. NoveltyInit => Overlapping
  BY DEF NoveltyInit, Overlapping, NoCatchUp
<1> QED
  BY <1>1, NextOverlapping, NoveltyInvariant, PTL DEF NoveltySpec

\* A launch has one claim, whoever meets the watch first, a lane, an
\* announcement or a catch-up, and in whatever order the others come to it.  A
\* second one is a catch-up's and fell between that catch-up's check and its
\* insert; a launch that is claimed twice is two operators'.
THEOREM OneLaunchOneClaim == NoveltySpec => LaunchesAreClaimedOnce
<1> DEFINE Step == \A i \in DOMAIN events :
         LET e == events[i]
             f == events'[Len(events')]
         IN  /\ Len(events') > Len(events) /\ f.type = "NEW_REFERENCE"
             /\ e.ref = f.ref /\ e.type \in Claim
             => /\ f.by \in Operator /\ i > op[f.by].seen /\ e.by # f.by
                /\ e.type = "NEW_REFERENCE" => e.by \in Operator
<1>1. NoveltyInv /\ Overlapping /\ [NoveltyNext]_noveltyVars => [Step]_noveltyVars
  <2> DEFINE f == events'[Len(events')]
             o == f.by
  <2> SUFFICES ASSUME NoveltyInv, Overlapping, [NoveltyNext]_noveltyVars, NEW i \in DOMAIN events,
                      Len(events') > Len(events), f.type = "NEW_REFERENCE",
                      events[i].ref = f.ref, events[i].type \in Claim
               PROVE  /\ o \in Operator /\ i > op[o].seen /\ events[i].by # o
                      /\ events[i].type = "NEW_REFERENCE" => events[i].by \in Operator
    OBVIOUS
  <2>1. Writer(o) /\ i \in 1..Len(events) /\ Len(events) \in Nat
    BY WriterFacts, FileFacts DEF NoveltyInv
  <2>2. Known(events[i].ref)
    BY <2>1 DEF NoveltyInv, OnFile
  <2>3. o \in Operator /\ op[o].seen # None /\ f.ref = op[o].ref
    BY <2>1, <2>2 DEF Writer
  <2>4. op[o].seen \in 0..Len(events)
    BY <2>3, BelatedFacts
  <2>5. i \notin 1..op[o].seen
    BY <2>3 DEF NoveltyInv, CheckedWereFree
  <2> HIDE DEF f, o
  <2>6. i > op[o].seen /\ i \in (op[o].seen + 1)..Len(events)
    BY <2>1, <2>4, <2>5
  <2> QED
    BY <2>3, <2>6 DEF Overlapping
<1> HIDE DEF Step
<1>2. NoveltySpec => [][Step]_noveltyVars
  BY <1>1, NoveltyInvariant, OverlappingInvariant, PTL DEF NoveltySpec
<1>3. [][Step]_noveltyVars => LaunchesAreClaimedOnce
  BY PTL DEF Step, LaunchesAreClaimedOnce
<1> QED
  BY <1>2, <1>3

-----------------------------------------------------------------------------
(***************************************************************************)
(* Catalogue syncs                                                          *)
(***************************************************************************)
LEMMA ImageFacts ==
    ASSUME NEW S, IsFiniteSet(S), NEW T, NEW f \in [S -> T], T = {f[x] : x \in S}
    PROVE  IsFiniteSet(T) /\ Cardinality(T) <= Cardinality(S)
<1>1. f \in Surjection(S, T)
  BY DEF Surjection
<1> QED
  BY <1>1, FS_Surjection

LEMMA BatchFacts ==
    ASSUME NoveltyInv, NEW l \in Lane, Working(l), NEW pub
    PROVE  /\ DOMAIN run[l].pages = 1..Len(run[l].pages) /\ Len(run[l].pages) \in Nat
           /\ l \in FirstParty =>
                 \A i, j \in DOMAIN run[l].pages :
                    run[l].pages[i].ref = run[l].pages[j].ref /\ run[l].pages[i].facts.pub # None => i = j
           /\ run[l].next \in DOMAIN run[l].pages
           /\ \A w : IsFiniteSet(Staged(w, pub, l)) /\ IsFiniteSet(OnRecord(w, pub))
<1> DEFINE s == run[l].pages
<1>1. s \in Seq(Page) /\ run[l].next \in DOMAIN s
  BY DEF NoveltyInv, NoveltyTypeOK, Run, Working
<1>2. DOMAIN s = 1..Len(s) /\ Len(s) \in Nat
  BY <1>1, LenProperties
<1>3. s \in Served[l]
  <2>1. s # <<>>
    BY <1>1
  <2> QED
    BY <2>1 DEF NoveltyInv, RunsServe
<1>4. l \in FirstParty =>
         \A i, j \in DOMAIN s : s[i].ref = s[j].ref /\ s[i].facts.pub # None => i = j
  BY <1>3, NoveltyAssumption
<1>5. \A w : IsFiniteSet(Staged(w, pub, l))
  <2>1. IsFiniteSet(DOMAIN s)
    <3> DEFINE n == Len(s)
    <3>1. n \in Nat /\ DOMAIN s = 1..n
      BY <1>2
    <3> HIDE DEF n
    <3>2. IsFiniteSet(1..n)
      BY <3>1, FS_Interval
    <3> QED
      BY <3>1, <3>2
  <2>2. \A w : Staged(w, pub, l) \subseteq DOMAIN s
    BY DEF Staged
  <2> QED
    BY <2>1, <2>2, FS_Subset
<1>6. \A w : IsFiniteSet(OnRecord(w, pub))
  <2>1. \A w : OnRecord(w, pub) \subseteq KnownWatches
    BY DEF OnRecord, KnownWatches
  <2> QED
    BY <2>1, FS_Subset DEF NoveltyInv, OnFile
<1> QED
  BY <1>1, <1>2, <1>4, <1>5, <1>6

\* The references that bear a launch's date are no more than the test counts.
LEMMA DatedReferences ==
    ASSUME NoveltyInv, NEW l \in Lane, NEW page, NEW type, IngestOf(l, page, type), Working(l),
           ~Known(page.ref), NEW pub, pub = page.facts.pub
    PROVE  /\ Cardinality({d[1] : d \in Dated(pub, l)}) <= Siblings(page.ref, pub, l) + 1
           /\ Siblings(page.ref, pub, l) \in Nat
           /\ Cardinality({d[1] : d \in Dated(pub, l)}) \in Nat
<1> DEFINE w == page.ref
           s == run[l].pages
           St == Staged(w, pub, l)
           Rec == OnRecord(w, pub)
           Im == {s[i].ref : i \in St}
           D == {d[1] : d \in Dated(pub, l)}
           All == {w} \union (Im \union Rec)
<1>1. IsFiniteSet(St) /\ IsFiniteSet(Rec)
  BY BatchFacts
<1>2. IsFiniteSet(Im) /\ Cardinality(Im) <= Cardinality(St) /\ Cardinality(Im) \in Nat
  <2> DEFINE f == [i \in St |-> s[i].ref]
  <2>1. Im = {f[i] : i \in St} /\ f \in [St -> Im]
    OBVIOUS
  <2> HIDE DEF f, Im
  <2>2. IsFiniteSet(Im) /\ Cardinality(Im) <= Cardinality(St)
    BY <1>1, <2>1, ImageFacts
  <2> QED
    BY <2>2, FS_CardinalityType
<1>3. D \subseteq All
  <2> SUFFICES ASSUME NEW d \in Dated(pub, l) PROVE d[1] \in All
    OBVIOUS
  <2>1. CASE \E i \in DOMAIN s : s[i].facts.pub = pub /\ d = <<s[i].ref, s[i].facts.coll>>
    <3>1. PICK i \in DOMAIN s : s[i].facts.pub = pub /\ d = <<s[i].ref, s[i].facts.coll>>
      BY <2>1
    <3>2. d[1] = s[i].ref
      BY <3>1
    <3>3. s[i].ref # w => i \in St
      BY <3>1 DEF Staged
    <3> HIDE DEF St
    <3> QED
      BY <3>2, <3>3
  <2>2. CASE \E x \in Ref : Known(x) /\ watches[x].pub = pub /\ d = <<x, watches[x].coll>>
    <3>1. PICK x \in Ref : Known(x) /\ watches[x].pub = pub /\ d = <<x, watches[x].coll>>
      BY <2>2
    <3>2. d[1] = x /\ x \in Rec
      BY <3>1 DEF OnRecord
    <3> QED
      BY <3>2
  <2> QED
    BY <2>1, <2>2 DEF Dated, ToSet
<1> HIDE DEF Im, St, Rec, D, w
<1>4. /\ IsFiniteSet(Im \union Rec) /\ Cardinality(Im \union Rec) <= Cardinality(Im) + Cardinality(Rec)
      /\ Cardinality(Im) \in Nat /\ Cardinality(Rec) \in Nat /\ Cardinality(St) \in Nat
      /\ Cardinality(Im \union Rec) \in Nat
  <2>1. IsFiniteSet(Im \union Rec) /\ Cardinality(Im) \in Nat /\ Cardinality(Rec) \in Nat
        /\ Cardinality(St) \in Nat /\ Cardinality(Im \union Rec) \in Nat
        /\ Cardinality(Im \cap Rec) \in Nat
    BY <1>1, <1>2, FS_Union, FS_Intersection, FS_CardinalityType
  <2>2. Cardinality(Im \union Rec) = Cardinality(Im) + Cardinality(Rec) - Cardinality(Im \cap Rec)
    BY <1>1, <1>2, FS_Union
  <2> QED
    BY <2>1, <2>2
<1>5. IsFiniteSet(All) /\ Cardinality(All) <= Cardinality(Im \union Rec) + 1 /\ Cardinality(All) \in Nat
  <2> DEFINE T == Im \union Rec
  <2>1. All = T \union {w} /\ IsFiniteSet(T)
    BY <1>4
  <2> HIDE DEF All, T
  <2>2. /\ IsFiniteSet(All)
        /\ Cardinality(All) = Cardinality(T) \/ Cardinality(All) = Cardinality(T) + 1
    BY <2>1, FS_AddElement
  <2>3. Cardinality(All) \in Nat /\ Cardinality(T) \in Nat
    BY <2>1, <2>2, FS_CardinalityType
  <2> QED
    BY <2>2, <2>3 DEF T
<1>6. Cardinality(D) <= Cardinality(All) /\ Cardinality(D) \in Nat
  BY <1>3, <1>5, FS_Subset, FS_CardinalityType
<1>7. Siblings(w, pub, l) = Cardinality(St) + Cardinality(Rec)
  BY DEF Siblings, St, Rec
<1> HIDE DEF All
<1>8. /\ Cardinality(D) <= Siblings(w, pub, l) + 1 /\ Siblings(w, pub, l) \in Nat
      /\ Cardinality(D) \in Nat
  BY <1>2, <1>4, <1>5, <1>6, <1>7
<1> QED
  BY <1>8 DEF D, w

\* So are the collections.
LEMMA DatedCollections ==
    ASSUME NoveltyInv, NEW l \in FirstParty, NEW page, NEW type, IngestOf(l, page, type), Working(l), l \in Lane,
           ~Known(page.ref), NEW pub, pub = page.facts.pub, pub # None
    PROVE  {d[2] : d \in Dated(pub, l)} \ {None} = Collections(page.ref, page.facts, l)
<1> DEFINE w == page.ref
           s == run[l].pages
           k == run[l].next
           C == {d[2] : d \in Dated(pub, l)} \ {None}
           Cols == Collections(w, page.facts, l)
<1>1. /\ k \in DOMAIN s /\ page = s[k] /\ w \in Ref
      /\ \A i \in DOMAIN s : s[k].ref = s[i].ref => k = i
  BY BatchFacts DEF IngestOf
<1>2. \A c : c \in Cols <=>
         /\ c # None
         /\ \/ c = page.facts.coll
            \/ \E i \in Staged(w, pub, l) : c = s[i].facts.coll
            \/ \E x \in OnRecord(w, pub) : c = watches[x].coll
  BY DEF Collections
<1>3. \A i : i \in Staged(w, pub, l) <=> i \in DOMAIN s /\ s[i].ref # w /\ s[i].facts.pub = pub
  BY DEF Staged
<1>4. \A x : x \in OnRecord(w, pub) <=> x \in Ref /\ x # w /\ Known(x) /\ watches[x].pub = pub
  BY DEF OnRecord
<1>5. \A i \in DOMAIN s : i = k \/ s[i].ref # w
  BY <1>1
<1>6. \A d : d \in Dated(pub, l) <=>
         \/ \E i \in DOMAIN s : s[i].facts.pub = pub /\ d = <<s[i].ref, s[i].facts.coll>>
         \/ \E x \in Ref : Known(x) /\ watches[x].pub = pub /\ d = <<x, watches[x].coll>>
  BY DEF Dated, ToSet
<1>7. \A c : c \in C <=>
         /\ c # None
         /\ \/ \E i \in DOMAIN s : s[i].facts.pub = pub /\ c = s[i].facts.coll
            \/ \E x \in Ref : Known(x) /\ watches[x].pub = pub /\ c = watches[x].coll
  <2>1. ASSUME NEW c \in C
        PROVE  /\ c # None
               /\ \/ \E i \in DOMAIN s : s[i].facts.pub = pub /\ c = s[i].facts.coll
                  \/ \E x \in Ref : Known(x) /\ watches[x].pub = pub /\ c = watches[x].coll
    <3>1. PICK d \in Dated(pub, l) : c = d[2] /\ c # None
      OBVIOUS
    <3> QED
      BY <1>6, <3>1
  <2>2. ASSUME NEW c, c # None,
               NEW i \in DOMAIN s, s[i].facts.pub = pub, c = s[i].facts.coll
        PROVE  c \in C
    <3> DEFINE d == <<s[i].ref, c>>
    <3>1. d \in Dated(pub, l) /\ d[2] = c
      BY <1>6, <2>2
    <3> HIDE DEF d
    <3> QED
      BY <2>2, <3>1
  <2>3. ASSUME NEW c, c # None,
               NEW x \in Ref, Known(x), watches[x].pub = pub, c = watches[x].coll
        PROVE  c \in C
    <3> DEFINE d == <<x, c>>
    <3>1. d \in Dated(pub, l) /\ d[2] = c
      BY <1>6, <2>3
    <3> HIDE DEF d
    <3> QED
      BY <2>3, <3>1
  <2> HIDE DEF C
  <2> QED
    BY <2>1, <2>2, <2>3
<1>8. ~Known(w)
  OBVIOUS
<1> HIDE DEF C, Cols, w, s, k
<1>9. \A c : c \in C <=> c \in Cols
  <2>1. \A c : (\E i \in DOMAIN s : s[i].facts.pub = pub /\ c = s[i].facts.coll)
                <=> c = page.facts.coll \/ \E i \in Staged(w, pub, l) : c = s[i].facts.coll
    BY <1>1, <1>3, <1>5
  <2>2. \A c : (\E x \in Ref : Known(x) /\ watches[x].pub = pub /\ c = watches[x].coll)
                <=> \E x \in OnRecord(w, pub) : c = watches[x].coll
    BY <1>4, <1>8
  <2> QED
    BY <1>2, <1>7, <2>1, <2>2
<1>10. C = Cols
  BY <1>9
<1> QED
  BY <1>10 DEF C, Cols, w

LEMMA CollectionsFinite ==
    ASSUME NoveltyInv, NEW l \in Lane, Working(l), NEW page
    PROVE  IsFiniteSet(Collections(page.ref, page.facts, l))
<1> DEFINE w == page.ref
           f == page.facts
           St == Staged(w, f.pub, l)
           Rec == OnRecord(w, f.pub)
           A == {run[l].pages[i].facts.coll : i \in St}
           B == {watches[x].coll : x \in Rec}
           One == {f.coll}
<1>1. IsFiniteSet(St) /\ IsFiniteSet(Rec)
  BY BatchFacts
<1>2. IsFiniteSet(A)
  <2> DEFINE g == [i \in St |-> run[l].pages[i].facts.coll]
  <2>1. A = {g[i] : i \in St} /\ g \in [St -> A]
    OBVIOUS
  <2> HIDE DEF g, A
  <2> QED
    BY <1>1, <2>1, ImageFacts
<1>3. IsFiniteSet(B)
  <2> DEFINE g == [x \in Rec |-> watches[x].coll]
  <2>1. B = {g[x] : x \in Rec} /\ g \in [Rec -> B]
    OBVIOUS
  <2> HIDE DEF g, B
  <2> QED
    BY <1>1, <2>1, ImageFacts
<1>4. IsFiniteSet(One)
  BY FS_Singleton
<1>5. Collections(w, f, l) \subseteq (One \union A) \union B
  BY DEF Collections
<1> HIDE DEF A, B, One
<1>6. IsFiniteSet((One \union A) \union B)
  BY <1>2, <1>3, <1>4, FS_Union
<1> QED
  BY <1>5, <1>6, FS_Subset

\* No launch is claimed for a page that bears one date with so many others of
\* so many collections that the catalogue must have been touched in bulk.
THEOREM SyncsAreNoLaunches == NoveltySpec => SyncsClaimNothing
<1> DEFINE Step == \A l \in Lane : Added(l) /\ events'[Len(events')].type = "NEW_REFERENCE" =>
         LET dated == Dated(watches'[events'[Len(events')].ref].pub, l)
         IN  \/ Cardinality({d[1] : d \in dated}) < MinSize
             \/ Cardinality({d[2] : d \in dated} \ {None}) < MinCollections
<1>1. NoveltyInv /\ [NoveltyNext]_noveltyVars => [Step]_noveltyVars
  <2> DEFINE last == events'[Len(events')]
             pub == watches'[last.ref].pub
  <2> SUFFICES ASSUME NoveltyInv, [NoveltyNext]_noveltyVars, NEW l \in Lane, Added(l), last.type = "NEW_REFERENCE"
               PROVE  \/ Cardinality({d[1] : d \in Dated(pub, l)}) < MinSize
                      \/ Cardinality({d[2] : d \in Dated(pub, l)} \ {None}) < MinCollections
    OBVIOUS
  <2>1. Len(events') > Len(events) /\ last.by = l
    BY DEF Added
  <2>2. l \notin Operator /\ l # None
    BY NoveltyAssumption
  <2>3. Ingest(l)
    <3>1. CASE \E m \in Lane : Ingest(m)
      <4>1. PICK m \in Lane : Ingest(m)
        BY <3>1
      <4>2. PICK page, type : IngestOf(m, page, type)
        BY <4>1, IngestFacts
      <4>3. last.by = m
        BY <2>1, <4>2, AddedByLane
      <4> QED
        BY <2>1, <4>1, <4>3
    <3>2. CASE \E w \in Announced, quiet \in BOOLEAN : Announce(w, quiet)
      BY <2>1, <2>2, <3>2, AddedByNews
    <3>3. CASE \E o \in Operator : CreateBelated(o)
      BY <2>1, <2>2, <3>3, AddedByOperator
    <3> QED
      BY <2>1, <3>1, <3>2, <3>3, OnlyWritersAdd
  <2>4. PICK page, type : IngestOf(l, page, type)
    BY <2>3, IngestFacts
  <2>5. last.type = type /\ last.ref = page.ref
    BY <2>1, <2>4, AddedByLane
  <2>6. type = Type(page, l) /\ page \in Page /\ NoveltyTypeOK /\ Working(l) /\ MinSize \in Nat
    BY <2>3, <2>4, NoveltyAssumption DEF IngestOf, Ingest
  <2>7. ~Known(page.ref) /\ IsLaunch(page.ref, page.facts, l)
    BY <2>5, <2>6, LaunchFacts
  <2>8. watches'[page.ref] = page.facts
    BY <2>4, <2>6, <2>7, IngestWatches, ResolvedFacts
  <2>9. pub = page.facts.pub
    BY <2>5, <2>8
  <2> HIDE DEF pub, last
  <2>10. l \in FirstParty /\ ~BulkTouch(page.ref, page.facts, l) /\ page.facts.pub # None
    BY <2>7 DEF IsLaunch, ProvenFresh, IsFresh
  <2>11. ~(Siblings(page.ref, pub, l) + 1 >= MinSize)
         \/ ~(Cardinality(Collections(page.ref, page.facts, l)) >= MinCollections)
    BY <2>9, <2>10 DEF BulkTouch
  <2> DEFINE cards == Cardinality({d[1] : d \in Dated(pub, l)})
             sibs == Siblings(page.ref, pub, l)
             coll == {d[2] : d \in Dated(pub, l)} \ {None}
             cols == Cardinality(coll)
  <2>12. cards <= sibs + 1 /\ sibs \in Nat /\ cards \in Nat
    BY <2>4, <2>6, <2>7, <2>9, DatedReferences
  <2>13. coll = Collections(page.ref, page.facts, l)
    BY <2>4, <2>6, <2>7, <2>9, <2>10, DatedCollections
  <2>14. IsFiniteSet(Collections(page.ref, page.facts, l))
    BY <2>4, <2>6, <2>9, CollectionsFinite
  <2>15. cols \in Nat /\ MinCollections \in Nat
    BY <2>13, <2>14, FS_CardinalityType, NoveltyAssumption
  <2>16. ~(sibs + 1 >= MinSize) \/ ~(cols >= MinCollections)
    BY <2>11, <2>13
  <2> HIDE DEF cards, sibs, cols
  <2>17. cards < MinSize \/ cols < MinCollections
    BY ONLY <2>6, <2>12, <2>15, <2>16
  <2> QED
    BY <2>17 DEF cards, cols
<1> HIDE DEF Step
<1>2. NoveltySpec => [][Step]_noveltyVars
  BY <1>1, NoveltyInvariant, PTL DEF NoveltySpec
<1>3. [][Step]_noveltyVars => SyncsClaimNothing
  BY PTL DEF Step, SyncsClaimNothing
<1> QED
  BY <1>2, <1>3
=============================================================================

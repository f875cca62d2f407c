----------------------------- MODULE Operations -----------------------------
(***************************************************************************)
(* Running collectors and watching them: timers and the dashboard's local   *)
(* collection (_LocalCollectionController, app/main.py) start the same      *)
(* command line (scripts/run_pipeline.py); each run leaves a row, and some  *)
(* lanes a component row; the health page is computed from both.            *)
(*                                                                          *)
(* The dashboard keeps one state behind a mutex.  A button press sets its   *)
(* running flag and starts a thread; the thread runs one child per job,     *)
(* waits for it at most 900 seconds, reads the job's newest row and clears  *)
(* the flag when its jobs are done.                                         *)
(***************************************************************************)
EXTENDS Health, FiniteSets

CONSTANTS Source,
          Reports,   \* the source whose component row a run writes, or Nobody
          Outcomes,  \* how the runs of a source may conclude
          SafeIds,   \* SAFE_COLLECTOR_IDS: the jobs of RUN ALL, in order
          Thread,
          Nobody, Timer,
          MaxRows    \* bound of the model: run rows ever inserted

ASSUME OperationsAssumption ==
    /\ Reports \in [Source -> Source \union {Nobody}]
    /\ Outcomes \in [Source -> SUBSET [status : Concluded, found : BOOLEAN]]
    /\ SafeIds \in Seq(Source) /\ IsInjective(SafeIds)
    /\ Nobody \notin Thread \union Source /\ Timer \notin Thread /\ Nobody # Timer
    /\ MaxRows \in Nat

VARIABLES rows,      \* the newest run rows of each source, newest first
          component, \* each source's component row
          holder,    \* who runs each source: the holder of its lock file
          control,   \* the dashboard's state
          thread,    \* the dashboard's background threads
          inserted,  \* run rows inserted so far
          ended,     \* how each source's last run ended, whatever its row says
          barred     \* the sources that blocked the last run to reach them

vars == <<rows, component, holder, control, thread, inserted, ended, barred>>
health == <<component, ended, barred>>

Off == [pc |-> "off", source |-> Nobody, todo |-> <<>>, ok |-> FALSE]
Live(t) == thread[t].pc # "off"

Idle == [running |-> FALSE, mode |-> "none", results |-> <<>>]

Conclusions == {o.status : o \in UNION {Outcomes[s] : s \in Source}} \union {"died"}

TypeOK ==
    /\ rows \in [Source -> {h \in Seq(Row) : Len(h) <= Window}]
    /\ component \in [Source -> Component \union {NoComponent}]
    /\ holder \in [Source -> Thread \union {Nobody, Timer}]
    /\ control \in [running : BOOLEAN, mode : {"none", "single", "batch"}, results : Seq(BOOLEAN)]
    /\ thread \in [Thread -> [pc : {"off", "launch", "child", "exited", "closing"},
                              source : Source \union {Nobody},
                              todo : Seq(Source), ok : BOOLEAN]]
    /\ inserted \in 0..MaxRows
    /\ ended \in [Source -> Conclusions \union {"never"}] /\ barred \subseteq Source

Init ==
    /\ rows = [s \in Source |-> <<>>]
    /\ component = [s \in Source |-> NoComponent]
    /\ holder = [s \in Source |-> Nobody]
    /\ control = Idle /\ thread = [t \in Thread |-> Off]
    /\ inserted = 0
    /\ ended = [s \in Source |-> "never"] /\ barred = {}

(***************************************************************************)
(* Collector runs                                                           *)
(***************************************************************************)
\* A run first closes the source's abandoned rows: those beyond the 45 minute
\* threshold, which no cadence's triple is below.
Recovered(history, from) ==
    [n \in DOMAIN history |->
        IF n >= from /\ history[n].status = "RUNNING"
        THEN [history[n] EXCEPT !.status = "FAILED"] ELSE history[n]]

Newest(history) == SubSeq(history, 1, IF Len(history) < Window THEN Len(history) ELSE Window)

Insert(s, status) ==
    /\ inserted < MaxRows /\ inserted' = inserted + 1
    /\ \E from \in 1..(Len(rows[s]) + 1) :
        /\ \A n \in DOMAIN rows[s] : rows[s][n].old => from <= n
        /\ rows' = [rows EXCEPT ![s] =
               Newest(<<[status |-> status, found |-> FALSE, old |-> FALSE]>> \o Recovered(@, from))]

Begin(s, p) ==
    /\ holder[s] = Nobody /\ Insert(s, "RUNNING")
    /\ holder' = [holder EXCEPT ![s] = p]
    /\ UNCHANGED health

Overlap(s) ==
    /\ holder[s] # Nobody /\ Insert(s, "SKIPPED_OVERLAP")
    /\ UNCHANGED <<holder, health>>

\* The conclusions of a run with items.
Acquired == {"SUCCESS", "PARTIAL"}

\* _update_component_state.
Noted(c, outcome) ==
    [last |-> outcome.status,
     blocked |-> \/ outcome.status = "BLOCKED"
                 \/ outcome.status \notin Success /\ component[c].blocked]

Reached(c, outcome) ==
    IF outcome.status = "BLOCKED" THEN barred' = barred \union {c}
    ELSE IF outcome.status \in Success THEN barred' = barred \ {c} ELSE UNCHANGED barred

\* The component row of c that a run commits.  It may be lost with what was
\* acquired: an item that raises rolls back all that is not committed yet.
Note(c, outcome) ==
    /\ Reached(c, outcome)
    /\ \/ component' = [component EXCEPT ![c] = Noted(c, outcome)]
       \/ outcome.status \in Acquired /\ UNCHANGED component

\* A run reports on its own source, or, as casio_multi does, on the part that
\* is bundled in it; that part is not tried while it is backed off.
Report(s, outcome) ==
    IF Reports[s] = Nobody THEN UNCHANGED <<component, barred>>
    ELSE IF Reports[s] = s THEN Note(s, outcome)
    ELSE \/ \E seen \in Outcomes[Reports[s]] : Note(Reports[s], seen)
         \/ component[Reports[s]].blocked /\ UNCHANGED <<component, barred>>

\* The newest row of s that is not a skipped overlap's: that of the run in hand.
OwnRow(s) == SelectInSeq(rows[s], LAMBDA row : row.status # "SKIPPED_OVERLAP")

Close(s, outcome) ==
    IF OwnRow(s) = 0 THEN UNCHANGED rows
    ELSE rows' = [rows EXCEPT ![s][OwnRow(s)].status = outcome.status,
                              ![s][OwnRow(s)].found = outcome.found]

\* A run concludes: what it reports and its row are one commit.
Conclude(s, outcome) ==
    /\ Report(s, outcome) /\ Close(s, outcome)
    /\ holder' = [holder EXCEPT ![s] = Nobody]
    /\ ended' = [ended EXCEPT ![s] = outcome.status]
    /\ UNCHANGED inserted

\* A run breaks off: an exception marks its row FAILED, a kill leaves it
\* RUNNING.  What it acquired may be committed, with its first item.
BreakOff(s, marked) ==
    /\ \/ UNCHANGED <<component, barred>>
       \/ /\ Reports[s] # Nobody
          /\ \E seen \in Outcomes[Reports[s]] :
                seen.status \in Acquired /\ Note(Reports[s], seen)
    /\ IF marked THEN Close(s, [status |-> "FAILED", found |-> FALSE]) ELSE UNCHANGED rows
    /\ holder' = [holder EXCEPT ![s] = Nobody]
    /\ ended' = [ended EXCEPT ![s] = "died"]
    /\ UNCHANGED inserted

TimerFires(s) ==
    /\ Begin(s, Timer) \/ Overlap(s)
    /\ UNCHANGED <<control, thread>>

TimerEnds(s) ==
    /\ holder[s] = Timer
    /\ \/ \E outcome \in Outcomes[s] : Conclude(s, outcome)
       \/ \E marked \in BOOLEAN : BreakOff(s, marked)
    /\ UNCHANGED <<control, thread>>

\* Three cadences pass since the rows from the n-th on were started.
TimePasses(s) ==
    /\ \E n \in DOMAIN rows[s] :
        /\ ~rows[s][n].old
        /\ rows' = [rows EXCEPT ![s] =
               [k \in DOMAIN @ |-> IF k >= n THEN [@[k] EXCEPT !.old = TRUE] ELSE @[k]]]
    /\ UNCHANGED <<holder, inserted, control, thread, health>>

(***************************************************************************)
(* The dashboard                                                            *)
(***************************************************************************)
Start(t, jobs, mode) ==
    /\ ~control.running /\ ~Live(t)
    /\ control' = [running |-> TRUE, mode |-> mode, results |-> <<>>]
    /\ thread' = [thread EXCEPT ![t] =
           IF jobs = <<>> THEN [Off EXCEPT !.pc = "closing"]
           ELSE [Off EXCEPT !.pc = "launch", !.source = Head(jobs), !.todo = Tail(jobs)]]
    /\ UNCHANGED <<rows, holder, inserted, health>>

RunNow(t, s) == Start(t, <<s>>, "single")
RunAllSafe(t) == Start(t, SafeIds, "batch")

Exited(t, ok) == thread' = [thread EXCEPT ![t].pc = "exited", ![t].ok = ok]

\* The child gets its source's lock, or records that it did not and exits 0.
ChildBegins(t) ==
    /\ thread[t].pc = "launch"
    /\ \/ Begin(thread[t].source, t) /\ thread' = [thread EXCEPT ![t].pc = "child"]
       \/ Overlap(thread[t].source) /\ Exited(t, TRUE)
    /\ UNCHANGED control

\* The child exits before it has a row: a schema mismatch, a failed import.
ChildRefuses(t) ==
    /\ thread[t].pc = "launch" /\ Exited(t, FALSE)
    /\ UNCHANGED <<rows, holder, inserted, control, health>>

\* Every conclusion but FAILED exits 0.
ChildEnds(t) ==
    /\ thread[t].pc = "child"
    /\ \/ \E outcome \in Outcomes[thread[t].source] :
            Conclude(thread[t].source, outcome) /\ Exited(t, outcome.status # "FAILED")
       \/ BreakOff(thread[t].source, TRUE) /\ Exited(t, FALSE)
    /\ UNCHANGED control

\* A variant: no timeout.
Timeout_Never(t) == FALSE

\* subprocess.run kills the child after its timeout.
Timeout(t) ==
    /\ thread[t].pc \in {"launch", "child"} /\ Exited(t, FALSE)
    /\ IF thread[t].pc = "child" THEN BreakOff(thread[t].source, FALSE)
       ELSE UNCHANGED <<rows, holder, inserted, health>>
    /\ UNCHANGED control

\* _latest_run_detail: the job counts as done by the source's newest row,
\* whoever's that is, and by the child's exit code if there is none.
LatestRunDetail(s, ok) == IF rows[s] # <<>> THEN Head(rows[s]).status \in Success ELSE ok

\* _run clears the flag with its only result; _run_all keeps it for the rest.
NextJob(t) ==
    IF control.mode = "single" THEN Off
    ELSE IF thread[t].todo = <<>> THEN [Off EXCEPT !.pc = "closing"]
    ELSE [Off EXCEPT !.pc = "launch", !.source = Head(thread[t].todo), !.todo = Tail(thread[t].todo)]

\* A variant: every job clears the flag.
Unfinished_Never == FALSE

Unfinished == control.mode = "batch"

ReadResult(t) ==
    /\ thread[t].pc = "exited"
    /\ control' = [control EXCEPT !.running = Unfinished,
           !.results = Append(@, LatestRunDetail(thread[t].source, thread[t].ok))]
    /\ thread' = [thread EXCEPT ![t] = NextJob(t)]
    /\ UNCHANGED <<rows, holder, inserted, health>>

\* Reading the row raises: nothing catches it and the flag stays set.
ReadRaises(t) ==
    /\ thread[t].pc = "exited"
    /\ thread' = [thread EXCEPT ![t] = Off]
    /\ UNCHANGED <<rows, holder, inserted, control, health>>

FinishBatch(t) ==
    /\ thread[t].pc = "closing"
    /\ control' = [control EXCEPT !.running = FALSE]
    /\ thread' = [thread EXCEPT ![t] = Off]
    /\ UNCHANGED <<rows, holder, inserted, health>>

\* The dashboard restarts.  Its threads are gone; a child of theirs goes on.
Restart ==
    /\ control # Idle
    /\ control' = Idle /\ thread' = [t \in Thread |-> Off]
    /\ holder' = [s \in Source |-> IF holder[s] = Nobody THEN Nobody ELSE Timer]
    /\ UNCHANGED <<rows, inserted, health>>

Next ==
    \/ \E s \in Source : TimerFires(s) \/ TimerEnds(s) \/ TimePasses(s)
    \/ \E t \in Thread :
        \/ \E s \in Source : RunNow(t, s)
        \/ RunAllSafe(t)
        \/ ChildBegins(t) \/ ChildRefuses(t) \/ ChildEnds(t) \/ Timeout(t)
        \/ ReadResult(t) \/ ReadRaises(t) \/ FinishBatch(t)
    \/ Restart

Spec == Init /\ [][Next]_vars

\* Fairness: subprocess.run returns, at its timeout at the latest, and a thread
\* that is not waiting goes on.  A child, a timer and a button owe nothing.
FairSpec ==
    /\ Spec
    /\ \A t \in Thread : WF_vars(Timeout(t)) /\ WF_vars(ReadResult(t)) /\ WF_vars(FinishBatch(t))

(***************************************************************************)
(* Properties                                                               *)
(***************************************************************************)
\* A source that keeps a component row and blocked the last run that reached
\* an answer is not shown as acquiring, whatever failed, died, was skipped or
\* succeeded before ("a persistent 403 ... must never render healthy").
BlockedStaysVisible ==
    \A s \in barred : Acquisition(rows[s], component[s]) \notin {"HEALTHY", "SUCCESS"}

\* HEALTHY is earned: the last run of the source ended, and with a success.
\* One that was killed, in the dashboard or outside, never shows as HEALTHY.
HealthyIsEarned ==
    \A s \in Source : State(rows[s], component[s]) = "HEALTHY" =>
        ended[s] \in Success /\ holder[s] = Nobody

\* The two buttons share one flag: collections never overlap, and one that is
\* going on is shown as running, from its first job to its last.
OneCollectionAtATime ==
    /\ \A t, u \in Thread : Live(t) /\ Live(u) => t = u
    /\ \A t \in Thread : Live(t) => control.running

\* A collection ends, hung children and failed jobs included, unless reading a
\* result raises: the flag then stays set, with no thread to clear it.
CollectionsEnd ==
    control.running ~> (~control.running \/ \A t \in Thread : ~Live(t))
=============================================================================

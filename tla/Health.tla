------------------------------- MODULE Health -------------------------------
(***************************************************************************)
(* What the health page says of a source (app/services/health.py), as a     *)
(* function of its newest run rows, newest first, and of its component row, *)
(* which counts the blocks since the last acquisition.  The yield column is *)
(* left out.                                                                *)
(***************************************************************************)
EXTENDS Naturals, Sequences, SequencesExt

CONSTANTS Window,   \* run rows a snapshot looks at
          Streak    \* empty runs in a row that are worth a warning

ASSUME HealthAssumption == Window \in Nat \ {0} /\ Streak \in Nat \ {0}

Success == {"SUCCESS", "PARTIAL", "ZERO_ITEMS"}
Concluded == Success \union {"BLOCKED", "FAILED"}
Status == Concluded \union {"RUNNING", "SKIPPED_OVERLAP"}

\* found: anything was discovered; old: started over three cadences ago.
Row == [status : Status, found : BOOLEAN, old : BOOLEAN]

\* last: last_status; blocked: consecutive_blocks > 0.
Component == [last : Concluded, blocked : BOOLEAN]
NoComponent == [last |-> "absent", blocked |-> FALSE]

Succeeded(row) == row.status \in Success
Failed(row) == row.status = "FAILED"
Empty(row) == row.status = "ZERO_ITEMS" /\ ~row.found

\* Empty runs since the newest row that is not one.
EmptyStreak(rows) ==
    LET other == SelectInSeq(rows, LAMBDA row : ~Empty(row))
    IN  IF other = 0 THEN Len(rows) ELSE other - 1

\* heartbeat_overdue: the newest success is over three cadences old.
Overdue(rows) ==
    LET newest == SelectInSeq(rows, Succeeded)
    IN  newest # 0 /\ rows[newest].old

\* A variant: a run in progress is passed over.
MostRecent_Concluded(rows) ==
    LET done == SelectSeq(rows, LAMBDA row : row.status # "RUNNING")
    IN  IF done = <<>> THEN Head(rows) ELSE Head(done)

MostRecent(rows) == Head(rows)

State(rows, component) ==
    CASE rows = <<>> -> IF component.last = "BLOCKED" THEN "WARNING" ELSE "NEVER_RUN"
      [] rows # <<>> /\ Succeeded(MostRecent(rows)) ->
            IF EmptyStreak(rows) >= Streak \/ Overdue(rows) THEN "WARNING" ELSE "HEALTHY"
      [] rows # <<>> /\ MostRecent(rows).status = "SKIPPED_OVERLAP" -> "WARNING"
      [] OTHER -> IF SelectInSeq(rows, Succeeded) # 0 THEN "WARNING" ELSE "FAILED"

\* A variant: only the component's last status is looked at.
Acquisition_LastStatus(rows, component) ==
    CASE rows = <<>> -> IF component = NoComponent THEN "NEVER_RUN" ELSE component.last
      [] rows # <<>> /\ component.last = "BLOCKED" -> "BLOCKED"
      [] rows # <<>> /\ component.last # "BLOCKED" /\ (component.last = "SUCCESS" \/ SelectInSeq(rows, Succeeded) # 0) -> "HEALTHY"
      [] OTHER -> IF SelectInSeq(rows, Failed) # 0 THEN "BROKEN" ELSE "UNKNOWN"

\* A component that is BLOCKED, or was and has acquired nothing since, is
\* BLOCKED; the component's status is shown as it is when no run has a row.
Acquisition(rows, component) ==
    CASE rows = <<>> -> IF component = NoComponent THEN "NEVER_RUN" ELSE component.last
      [] rows # <<>> /\ component.blocked -> "BLOCKED"
      [] rows # <<>> /\ ~component.blocked /\ (component.last = "SUCCESS" \/ SelectInSeq(rows, Succeeded) # 0) -> "HEALTHY"
      [] OTHER -> IF SelectInSeq(rows, Failed) # 0 THEN "BROKEN" ELSE "UNKNOWN"
=============================================================================

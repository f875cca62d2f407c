--------------------------- MODULE ProposalInbox ---------------------------
(***************************************************************************)
(* What the D1 proposal inbox promises (docs/D1_DISCOVERY.md, "Persistence, *)
(* replay, disable and rollback"): a reader always sees the result of whole *)
(* operations, each applied to one inbox that was once published.  Writers  *)
(* are not locked against each other, so the inbox an operation applies to  *)
(* is the one its writer took, which need not be the one it replaces.       *)
(***************************************************************************)
EXTENDS Naturals, Sequences, SequencesExt

CONSTANTS Writer, Lead, Label,
          Batches   \* what a validated export may hold, in its order

VARIABLES inbox,  \* what readers see
          taken   \* the inbox each writer works from

vars == <<inbox, taken>>

Unreviewed == "unreviewed"
NoProposal == "none"

\* Observations and verdicts in the order of their ids; a label per proposal.
Empty == [observations |-> <<>>, verdicts |-> <<>>, label |-> [l \in Lead |-> NoProposal]]

Nothing == [Empty EXCEPT !.label = [l \in Lead |-> "not taken"]]

Of(l, box) == SelectSeq(box.observations, LAMBDA o : o.lead = l)

\* A proposal seen for the first time awaits review, and an observation equal
\* to the proposal's last one is not kept again.
Observed(box, o) ==
    IF Of(o.lead, box) # <<>> /\ Last(Of(o.lead, box)) = o
    THEN box
    ELSE [box EXCEPT !.observations = Append(@, o),
                     !.label[o.lead] = IF @ = NoProposal THEN Unreviewed ELSE @]

\* The inbox after each of the observations of a batch.
Imported(box, batch) ==
    LET after[n \in 0..Len(batch)] ==
            IF n = 0 THEN box ELSE Observed(after[n - 1], batch[n])
    IN  after

Labelled(box, l, label) ==
    [box EXCEPT !.label[l] = IF @ = NoProposal THEN @ ELSE label,
                !.verdicts = Append(@, [lead |-> l, label |-> label])]

Init == inbox = Empty /\ taken = [w \in Writer |-> Nothing]

Take(w) ==
    /\ taken[w] = Nothing
    /\ taken' = [taken EXCEPT ![w] = inbox]
    /\ UNCHANGED inbox

Abandon(w) ==
    /\ taken' = [taken EXCEPT ![w] = Nothing]
    /\ UNCHANGED inbox

Publish(w, box) ==
    /\ taken[w] # Nothing
    /\ inbox' = box
    /\ taken' = [taken EXCEPT ![w] = Nothing]

Import(w) == \E batch \in Batches : Publish(w, Imported(taken[w], batch)[Len(batch)])

Review(w) == \E l \in Lead, label \in Label : Publish(w, Labelled(taken[w], l, label))

\* An operation interrupted after its inbox was published takes it away.
Lose == inbox' = Empty /\ UNCHANGED taken

Next ==
    \/ \E w \in Writer : Take(w) \/ Abandon(w) \/ Import(w) \/ Review(w)
    \/ Lose

Spec == Init /\ [][Next]_vars
=============================================================================

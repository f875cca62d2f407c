----------------------------- MODULE Discovery -----------------------------
(***************************************************************************)
(* The manual D1 proposal inbox (app/discovery.py, app/discovery_cli.py,    *)
(* app/discovery_dashboard.py): operators import validated exports, refresh *)
(* from the pinned producer and label proposals.  Every write copies the    *)
(* generation CURRENT names, changes the copy and publishes it by replacing *)
(* CURRENT; copied evidence is shared by all generations.  Nothing locks    *)
(* one command against another.                                             *)
(*                                                                          *)
(* A generation's proposals, observations and verdicts are one inbox; a     *)
(* directory that is not published is the draft of its writer.  A payload   *)
(* is a version with the digests it refers to, so an observation's          *)
(* fingerprint is the observation itself.                                   *)
(***************************************************************************)
EXTENDS Naturals, Sequences, SequencesExt, FiniteSets

CONSTANTS Writer,          \* commands that may run at the same time
          Lead, Blob,
          Version, BlobsOf, \* the digests of a payload's text and capture
          Labels,          \* the labels of a review
          Exports,         \* files an operator may import: sequences of lines
          Roots,           \* what the producer's evidence root may hold
          MaxObservations, \* bound of the model: observations of a generation
          MaxVerdicts,     \* bound of the model: verdicts of a generation
          MaxInterrupts    \* bound of the model: interrupts after a publication

Line == [lead : Lead, version : Version, subject : {"watch", "accessory", "malformed"}]

\* The state of a referenced file in the producer's evidence root.
Found == {"there", "missing", "altered"}

ASSUME DiscoveryAssumption ==
    /\ MaxObservations \in Nat /\ MaxVerdicts \in Nat /\ MaxInterrupts \in Nat
    /\ BlobsOf \in [Version -> SUBSET Blob]
    /\ Exports \subseteq Seq(Line) /\ Roots \subseteq [Blob -> Found]
    /\ Lead # {} /\ Labels \cap {"none", "not taken"} = {}

VARIABLES settings,  \* the settings file: "absent", "off" or "on"
          inbox,     \* the generation CURRENT names
          blob,      \* each file of the consumer's evidence directory
          writer,    \* each command
          interrupts

d1vars == <<settings, inbox, blob, writer, interrupts>>

\* prepare: every line is validated, excluded ones too, before any write.
Valid(lines, root) ==
    /\ \A n \in DOMAIN lines : lines[n].subject # "malformed"
    /\ \A n, k \in DOMAIN lines : lines[n].lead = lines[k].lead => n = k
    /\ \A n \in DOMAIN lines : \A b \in BlobsOf[lines[n].version] : root[b] # "altered"

\* What is imported: the lines about a watch, with the evidence that is there.
Prepared(lines, root) ==
    LET kept[n \in 0..Len(lines)] ==
            IF n = 0 THEN <<>>
            ELSE IF lines[n].subject # "watch" THEN kept[n - 1]
            ELSE Append(kept[n - 1],
                     [lead |-> lines[n].lead, version |-> lines[n].version,
                      copied |-> {b \in BlobsOf[lines[n].version] : root[b] = "there"}])
    IN  kept[Len(lines)]

Observation == {o \in [lead : Lead, version : Version, copied : SUBSET Blob] :
                  o.copied \subseteq BlobsOf[o.version]}

Inbox == INSTANCE ProposalInbox WITH
    Label <- Labels,
    Batches <- {Prepared(lines, root) : lines \in Exports, root \in Roots},
    taken <- [w \in Writer |-> writer[w].base]

Idle == [pc |-> "idle", todo |-> <<>>, copied |-> {}, verdict |-> <<>>,
         base |-> Inbox!Nothing, draft |-> Inbox!Empty, stale |-> FALSE]

VerdictRow == [lead : Lead, label : Labels]

Generation ==
    [observations : Seq(Observation), verdicts : Seq(VerdictRow),
     label : [Lead -> Labels \union {Inbox!Unreviewed, Inbox!NoProposal, "not taken"}]]

Command ==
    [pc : {"idle", "refreshing", "open", "copy", "write", "replaced"},
     todo : Seq(Observation), copied : SUBSET Blob, verdict : Seq(VerdictRow),
     base : Generation, draft : Generation, stale : BOOLEAN]

D1TypeOK ==
    /\ settings \in {"absent", "off", "on"}
    /\ blob \in [Blob -> {"absent", "partial", "whole"}]
    /\ interrupts \in 0..MaxInterrupts
    /\ inbox \in Generation
    /\ writer \in [Writer -> Command]

D1Init ==
    /\ settings = "absent"
    /\ inbox = Inbox!Empty
    /\ blob = [b \in Blob |-> "absent"]
    /\ writer = [w \in Writer |-> Idle]
    /\ interrupts = 0

(***************************************************************************)
(* Settings                                                                 *)
(***************************************************************************)
Configure ==
    /\ settings = "absent" /\ settings' = "off"
    /\ UNCHANGED <<inbox, blob, writer, interrupts>>

Switch ==
    /\ settings # "absent"
    /\ settings' \in {"off", "on"} \ {settings}
    /\ UNCHANGED <<inbox, blob, writer, interrupts>>

Accept(w, lines) ==
    \E root \in Roots :
        /\ Valid(lines, root)
        /\ writer' = [writer EXCEPT ![w] = [Idle EXCEPT !.pc = "open", !.todo = Prepared(lines, root)]]

(***************************************************************************)
(* Commands.  Each loads the settings when it starts, and never again.      *)
(***************************************************************************)
StartImport(w) ==
    /\ writer[w] = Idle /\ settings = "on"
    /\ \E lines \in Exports : Accept(w, lines)
    /\ UNCHANGED <<settings, inbox, blob, interrupts>>

StartReview(w) ==
    /\ writer[w] = Idle /\ settings = "on"
    /\ \E l \in Lead, label \in Labels :
        /\ inbox.label[l] # Inbox!NoProposal
        /\ writer' = [writer EXCEPT ![w] =
               [Idle EXCEPT !.pc = "open", !.verdict = <<[lead |-> l, label |-> label]>>]]
    /\ UNCHANGED <<settings, inbox, blob, interrupts>>

StartRefresh(w) ==
    /\ writer[w] = Idle /\ settings = "on"
    /\ writer' = [writer EXCEPT ![w].pc = "refreshing"]
    /\ UNCHANGED <<settings, inbox, blob, interrupts>>

\* The producer has run on its projection; only a complete report within its
\* budget is imported.
Refreshed(w) ==
    /\ writer[w].pc = "refreshing"
    /\ \E lines \in Exports : Accept(w, lines)
    /\ UNCHANGED <<settings, inbox, blob, interrupts>>

\* new_generation: the draft is a copy of the generation CURRENT names.
NewGeneration(w) ==
    /\ writer[w].pc = "open"
    /\ writer' = [writer EXCEPT ![w].pc = "copy", ![w].base = inbox, ![w].draft = inbox]
    /\ UNCHANGED <<settings, inbox, blob, interrupts>>

Pending(w) == Head(writer[w].todo).copied \ writer[w].copied

\* A file that exists is compared with the bytes it should hold.
Usable_Unread(file) == file # "absent"
Usable(file) == file = "whole"

\* copy_blob of a blob that is there, or the start of writing one that is not.
\* A short file is a corruption the import does not survive: see Fail.
CopyBlob(w) ==
    /\ writer[w].pc = "copy" /\ writer[w].todo # <<>>
    /\ \E b \in Pending(w) :
        \/ /\ Usable(blob[b])
           /\ writer' = [writer EXCEPT ![w].copied = @ \union {b}]
           /\ UNCHANGED blob
        \/ /\ blob[b] = "absent"
           /\ blob' = [blob EXCEPT ![b] = "partial"]
           /\ writer' = [writer EXCEPT ![w].pc = "write", ![w].copied = @ \union {b}]
    /\ UNCHANGED <<settings, inbox, interrupts>>

\* The writer's one unfinished blob is the partial one among those it copied.
WriteBlob(w) ==
    /\ writer[w].pc = "write"
    /\ blob' = [b \in Blob |-> IF b \in writer[w].copied THEN "whole" ELSE blob[b]]
    /\ writer' = [writer EXCEPT ![w].pc = "copy"]
    /\ UNCHANGED <<settings, inbox, interrupts>>

Unchanged(box, o) == Inbox!Of(o.lead, box) # <<>> /\ Last(Inbox!Of(o.lead, box)) = o

Inserted_Replaces(box, o) ==
    [box EXCEPT !.observations = Append(SelectSeq(@, LAMBDA p : p.lead # o.lead), o),
                !.label[o.lead] = IF @ = Inbox!NoProposal THEN Inbox!Unreviewed ELSE @]
Inserted(box, o) ==
    [box EXCEPT !.observations = Append(@, o),
                !.label[o.lead] = IF @ = Inbox!NoProposal THEN Inbox!Unreviewed ELSE @]

Insert(w) ==
    LET o == Head(writer[w].todo)
    IN  /\ writer[w].pc = "copy" /\ writer[w].todo # <<>>
        /\ Pending(w) = {}
        /\ Len(writer[w].draft.observations) < MaxObservations
        /\ writer' = [writer EXCEPT ![w].todo = Tail(@), ![w].copied = {},
                          ![w].draft = IF Unchanged(@, o) THEN @ ELSE Inserted(@, o)]
        /\ UNCHANGED <<settings, inbox, blob, interrupts>>

\* The label is set where the copied generation has the proposal; the verdict
\* is recorded whether it has it or not.
Verdict(w) ==
    /\ writer[w].pc = "copy" /\ writer[w].verdict # <<>>
    /\ Len(writer[w].draft.verdicts) < MaxVerdicts
    /\ LET v == Head(writer[w].verdict)
       IN  writer' = [writer EXCEPT ![w].verdict = <<>>,
                ![w].draft.label[v.lead] = IF @ = Inbox!NoProposal THEN @ ELSE v.label,
                ![w].draft.verdicts = Append(@, v)]
    /\ UNCHANGED <<settings, inbox, blob, interrupts>>

Finished_AtAnyLine(w) == writer[w].verdict = <<>>
Finished(w) == writer[w].todo = <<>> /\ writer[w].verdict = <<>>

\* publish: CURRENT is replaced, whatever it names by now.
Replace(w) ==
    /\ writer[w].pc = "copy" /\ Finished(w)
    /\ inbox' = writer[w].draft
    /\ writer' = [v \in Writer |->
           IF v = w THEN [Idle EXCEPT !.pc = "replaced"]
           ELSE IF writer[v].pc \in {"idle", "refreshing", "open"} THEN writer[v]
           ELSE [writer[v] EXCEPT !.stale = TRUE]]
    /\ UNCHANGED <<settings, blob, interrupts>>

Return(w) ==
    /\ writer[w].pc = "replaced"
    /\ writer' = [writer EXCEPT ![w] = Idle]
    /\ UNCHANGED <<settings, inbox, blob, interrupts>>

\* Before the publication a command that raises removes its draft, one that is
\* killed leaves a directory nothing refers to; a blob may stay half written.
Fail(w) ==
    /\ writer[w].pc \in {"refreshing", "open", "copy", "write"}
    /\ writer' = [writer EXCEPT ![w] = Idle]
    /\ UNCHANGED <<settings, inbox, blob, interrupts>>

\* After it, the handler removes the directory CURRENT may name.
Interrupt(w) ==
    /\ writer[w].pc = "replaced"
    /\ interrupts < MaxInterrupts
    /\ interrupts' = interrupts + 1
    /\ inbox' = IF writer[w].stale THEN inbox ELSE Inbox!Empty
    /\ writer' = [writer EXCEPT ![w] = Idle]
    /\ UNCHANGED <<settings, blob>>

Step(w) ==
    \/ StartImport(w) \/ StartReview(w) \/ StartRefresh(w) \/ Refreshed(w)
    \/ NewGeneration(w) \/ CopyBlob(w) \/ WriteBlob(w) \/ Insert(w) \/ Verdict(w)
    \/ Replace(w) \/ Return(w) \/ Fail(w) \/ Interrupt(w)

D1Next == Configure \/ Switch \/ \E w \in Writer : Step(w)

D1Spec == D1Init /\ [][D1Next]_d1vars

(***************************************************************************)
(* Properties                                                               *)
(***************************************************************************)
\* The dashboard serves a blob an observation refers to when its bytes still
\* have the digest they are named by.
Allowed == UNION {o.copied : o \in ToSet(inbox.observations)}
Served(b) == b \in Allowed /\ blob[b] = "whole"

\* Every piece of copied evidence the inbox links to is there whole, whichever
\* commands overlapped, failed or died while they shared the evidence directory.
EvidenceIsOwned == \A b \in Allowed : Served(b)

\* Operations are atomic: what readers see is always one whole import or one
\* verdict applied to an inbox that was published, however commands overlap.
ImplementsInbox == Inbox!Spec

Keeps(box, old) ==
    /\ IsPrefix(old.observations, box.observations)
    /\ IsPrefix(old.verdicts, box.verdicts)
    /\ \A l \in Lead : old.label[l] # Inbox!NoProposal => box.label[l] # Inbox!NoProposal

\* A publication loses observations, verdicts or proposals only when another
\* command published while it worked: one writer at a time keeps its history.
OnlyOverlapLoses ==
    [][\A w \in Writer : Replace(w) /\ ~writer[w].stale => Keeps(inbox', inbox)]_d1vars
=============================================================================

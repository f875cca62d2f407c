------------------------ MODULE Qualification_proofs ------------------------
(***************************************************************************)
(* Proofs about Qualification for any processes, lanes and revisions, any  *)
(* maturity sets, any lanes judging their events as others, and any number *)
(* of deployments and failures.                                            *)
(***************************************************************************)
EXTENDS Qualification, TLAPS

(* Only one process runs a lane, and it runs some code. *)
LockHeld ==
    \A p \in Proc : pc[p] # "idle" => holder[run[p].lane] = p /\ run[p].code \in Code

(* The rows that name a revision leave it in material; resets qualify      *)
(* nobody.                                                                 *)
RowsAreNamed ==
    \A l \in Lane :
        /\ newest[l].kind \in {"TERMINAL", "CODE_RESET"} => material[l] # NoCode
        /\ newest[l].kind \in {"CODE_RESET", "CONFIG_RESET"} => newest[l].gate = "RESET"

(* While a run collects, the lane's evidence names its code if any, and a  *)
(* run that reset the lane is not followed by another's terminal row.      *)
Stamped ==
    \A p \in Proc : pc[p] = "collecting" =>
        /\ material[run[p].lane] \in {NoCode, run[p].code}
        /\ run[p].reset => newest[run[p].lane].kind # "TERMINAL"

IInv == TypeOK /\ LockHeld /\ RowsAreNamed /\ Stamped

-----------------------------------------------------------------------------
(* Types *)

LEMMA NoRunTyped == NoRun \in Run
BY QualificationAssumption DEF NoRun, Run, Provenance

LEMMA InitIInv == Init => IInv
<1> SUFFICES ASSUME Init PROVE IInv
  OBVIOUS
<1>1. TypeOK
  BY QualificationAssumption, NoRunTyped DEF Init, TypeOK, NoRow, Row
<1>2. LockHeld /\ RowsAreNamed /\ Stamped
  BY DEF Init, LockHeld, RowsAreNamed, Stamped, NoRow
<1> QED
  BY <1>1, <1>2 DEF IInv

(* What an appended row leaves behind. *)
LEMMA AppendTyped ==
    ASSUME TypeOK, NEW l \in Lane, NEW c \in Code,
           NEW kind \in {"TERMINAL", "CODE_RESET", "CONFIG_RESET", "PROMOTION"},
           NEW gate \in {"ELIGIBLE", "UNKNOWN", "RESET"}, Append(l, kind, c, gate)
    PROVE  newest' \in [Lane -> Row]
<1>1. Epoch(c) \in SUBSET Lane
  BY QualificationAssumption DEF Epoch
<1>2. [kind |-> kind, epoch |-> Epoch(c), gate |-> gate] \in Row
  BY <1>1 DEF Row
<1> QED
  BY <1>2 DEF TypeOK, Append

LEMMA NextTypeOK == TypeOK /\ LockHeld /\ [Next]_vars => TypeOK'
<1> SUFFICES ASSUME TypeOK, LockHeld, [Next]_vars PROVE TypeOK'
  OBVIOUS
<1> USE QualificationAssumption
<1>1. ASSUME NEW p \in Proc, NEW l \in Lane, NEW provenance \in Started,
             Start(p, l, provenance)
      PROVE  TypeOK'
  <2>1. [lane |-> l, code |-> deployed, provenance |-> provenance, reset |-> FALSE] \in Run
    BY DEF TypeOK, Run
  <2> QED
    BY <1>1, <2>1 DEF Start, TypeOK
<1>2. ASSUME NEW p \in Proc, Prepare(p) PROVE TypeOK'
  <2>1. run[p].lane \in Lane /\ run[p].code \in Code
    BY <1>2 DEF Prepare, LockHeld, TypeOK, Run
  <2>2. newest' \in [Lane -> Row]
    BY <1>2, <2>1, AppendTyped DEF Prepare, TypeOK
  <2>3. material' \in [Lane -> Code \union {NoCode}]
    BY <1>2, <2>1 DEF Prepare, Stamp, TypeOK
  <2>4. \A w \in Run, b \in BOOLEAN : [w EXCEPT !.reset = b] \in Run
    BY DEF Run
  <2>5. run' \in [Proc -> Run]
    BY <1>2, <2>4 DEF Prepare, Changed, TypeOK
  <2> QED
    BY <1>2, <2>2, <2>3, <2>5 DEF Prepare, TypeOK
<1>3. ASSUME NEW p \in Proc, NEW l \in Lane, Drift(p, l) PROVE TypeOK'
  <2> run[p].code \in Code
    BY <1>3 DEF Drift, LockHeld
  <2>1. newest' \in [Lane -> Row]
    BY <1>3, AppendTyped DEF Drift
  <2> QED
    BY <1>3, <2>1 DEF Drift, TypeOK
<1>4. ASSUME NEW p \in Proc, End(p) PROVE TypeOK'
  <2>1. /\ run[p].lane \in Lane /\ run[p].code \in Code
        /\ Credit(run[p].provenance) \in {"ELIGIBLE", "UNKNOWN", "RESET"}
    BY <1>4 DEF End, LockHeld, TypeOK, Run, Credit
  <2>2. newest' \in [Lane -> Row]
    BY <1>4, <2>1, AppendTyped DEF End
  <2> QED
    BY <1>4, <2>1, <2>2, NoRunTyped DEF End, Stamp, Left, TypeOK
<1>5. ASSUME NEW p \in Proc, Abort(p) PROVE TypeOK'
  <2>1. faults' \in 0..MaxFaults
    BY <1>5 DEF Abort, TypeOK
  <2>2. /\ holder' \in [Lane -> Proc \union {Nobody}]
        /\ pc' \in [Proc -> {"idle", "started", "collecting"}]
        /\ run' \in [Proc -> Run]
    BY <1>5, NoRunTyped DEF Abort, Left, TypeOK
  <2> QED
    BY <1>5, <2>1, <2>2 DEF Abort, TypeOK
<1>6. ASSUME NEW c \in Code, Deploy(c) PROVE TypeOK'
  BY <1>6 DEF Deploy, TypeOK
<1>7. ASSUME NEW l \in Lane, Promote(l) PROVE TypeOK'
  <2>1. newest' \in [Lane -> Row]
    BY <1>7, AppendTyped DEF Promote, TypeOK
  <2> QED
    BY <1>7, <2>1 DEF Promote, TypeOK
<1>8. CASE UNCHANGED vars
  BY <1>8 DEF vars, TypeOK
<1> QED
  BY <1>1, <1>2, <1>3, <1>4, <1>5, <1>6, <1>7, <1>8 DEF Next, RunStep

-----------------------------------------------------------------------------
(* The strengthening *)

LEMMA NextLockHeld == TypeOK /\ LockHeld /\ [Next]_vars => LockHeld'
<1> SUFFICES ASSUME TypeOK, LockHeld, [Next]_vars PROVE LockHeld'
  OBVIOUS
<1> USE QualificationAssumption DEF LockHeld, TypeOK, Run
<1>1. ASSUME NEW p \in Proc, NEW l \in Lane, NEW provenance \in Started,
             Start(p, l, provenance)
      PROVE  LockHeld'
  BY <1>1 DEF Start
<1>2. ASSUME NEW p \in Proc, Prepare(p) PROVE LockHeld'
  <2>1. \A q \in Proc : run'[q].lane = run[q].lane /\ run'[q].code = run[q].code
    BY <1>2 DEF Prepare
  <2> QED
    BY <1>2, <2>1 DEF Prepare
<1>3. ASSUME NEW p \in Proc, pc[p] # "idle", Left(p) PROVE LockHeld'
  BY <1>3 DEF Left
<1>4. ASSUME UNCHANGED <<pc, run, holder>> PROVE LockHeld'
  BY <1>4
<1> QED
  BY <1>1, <1>2, <1>3, <1>4 DEF Next, RunStep, Drift, End, Abort, Deploy, Promote, vars

LEMMA NextRowsAreNamed == IInv /\ [Next]_vars => RowsAreNamed'
<1> SUFFICES ASSUME IInv, [Next]_vars PROVE RowsAreNamed'
  OBVIOUS
<1> USE QualificationAssumption DEF IInv, RowsAreNamed, TypeOK, Run
<1>1. ASSUME NEW p \in Proc, Prepare(p) PROVE RowsAreNamed'
  <2>1. run[p].lane \in Lane /\ run[p].code # NoCode
    BY <1>1 DEF Prepare, LockHeld
  <2> QED
    BY <1>1, <2>1 DEF Prepare, Append, Stamp
<1>2. ASSUME NEW p \in Proc, NEW l \in Lane, Drift(p, l) PROVE RowsAreNamed'
  BY <1>2 DEF Drift, Append
<1>3. ASSUME NEW p \in Proc, End(p) PROVE RowsAreNamed'
  <2>1. run[p].lane \in Lane /\ run[p].code # NoCode
    BY <1>3 DEF End, LockHeld
  <2> QED
    BY <1>3, <2>1 DEF End, Append, Stamp
<1>4. ASSUME NEW l \in Lane, Promote(l) PROVE RowsAreNamed'
  BY <1>4 DEF Promote, Append
<1>5. ASSUME UNCHANGED <<newest, material>> PROVE RowsAreNamed'
  BY <1>5
<1> QED
  BY <1>1, <1>2, <1>3, <1>4, <1>5 DEF Next, RunStep, Start, Abort, Deploy, vars

LEMMA NextStamped == IInv /\ [Next]_vars => Stamped'
<1> SUFFICES ASSUME IInv, [Next]_vars PROVE Stamped'
  OBVIOUS
<1> USE QualificationAssumption DEF IInv, Stamped, LockHeld, TypeOK, Run
<1>1. ASSUME NEW p \in Proc, NEW l \in Lane, NEW provenance \in Started,
             Start(p, l, provenance)
      PROVE  Stamped'
  BY <1>1 DEF Start
<1>2. ASSUME NEW p \in Proc, Prepare(p) PROVE Stamped'
  (* Nobody else runs this lane; the newest row is a reset if one was due. *)
  <2>1. \A q \in Proc : q # p /\ pc[q] = "collecting" => run[q].lane # run[p].lane
    BY <1>2 DEF Prepare
  <2>2. \A q \in Proc : /\ q # p => run'[q] = run[q] /\ pc'[q] = pc[q]
                        /\ run'[q].lane = run[q].lane /\ run'[q].code = run[q].code
    BY <1>2 DEF Prepare
  <2>3. \A l \in Lane : l # run[p].lane => newest'[l] = newest[l] /\ material'[l] = material[l]
    BY <1>2 DEF Prepare, Append, Stamp
  <2> DEFINE l == run[p].lane
  <2>4. l \in Lane /\ run'[p].reset = Changed(p)
    BY <1>2 DEF Prepare
  <2>5. CASE Changed(p)
    <3>1. newest'[l].kind = "CODE_RESET" /\ material'[l] = run[p].code
      BY <1>2, <2>4, <2>5 DEF Prepare, Append, Stamp
    <3> QED
      BY <2>1, <2>2, <2>3, <2>4, <3>1
  <2>6. CASE ~Changed(p)
    <3>1. material'[l] \in {NoCode, run[p].code} /\ ~run'[p].reset
      BY <1>2, <2>4, <2>6 DEF Prepare, Changed
    <3> QED
      BY <2>1, <2>2, <2>3, <2>4, <3>1
  <2> QED
    BY <2>5, <2>6
<1>3. ASSUME NEW p \in Proc, NEW l \in Lane, Drift(p, l) PROVE Stamped'
  BY <1>3 DEF Drift, Append
<1>4. ASSUME NEW p \in Proc, End(p) PROVE Stamped'
  <2>1. \A q \in Proc : q # p /\ pc[q] = "collecting" => run[q].lane # run[p].lane
    BY <1>4 DEF End
  <2>2. \A q \in Proc : pc'[q] = "collecting" =>
                         q # p /\ run'[q] = run[q] /\ pc[q] = "collecting"
    BY <1>4 DEF End, Left
  <2>3. \A l \in Lane : l # run[p].lane => newest'[l] = newest[l] /\ material'[l] = material[l]
    BY <1>4 DEF End, Append, Stamp
  <2> QED
    BY <2>1, <2>2, <2>3
<1>5. ASSUME NEW p \in Proc, Abort(p) PROVE Stamped'
  BY <1>5 DEF Abort, Left
<1>6. ASSUME NEW l \in Lane, Promote(l) PROVE Stamped'
  BY <1>6 DEF Promote, Append
<1>7. ASSUME UNCHANGED <<newest, material, pc, run>> PROVE Stamped'
  BY <1>7
<1> QED
  BY <1>1, <1>2, <1>3, <1>4, <1>5, <1>6, <1>7 DEF Next, RunStep, Deploy, vars

THEOREM Inductive == Spec => []IInv
<1>1. IInv /\ [Next]_vars => IInv'
  BY NextTypeOK, NextLockHeld, NextRowsAreNamed, NextStamped DEF IInv
<1> QED
  BY InitIInv, <1>1, PTL DEF Spec

-----------------------------------------------------------------------------
(* Results *)

(* Every variable of the qualification log keeps its type. *)
THEOREM TypeCorrect == Spec => []TypeOK
<1>1. IInv => TypeOK
  BY DEF IInv
<1> QED
  BY Inductive, <1>1, PTL

(* A run that may deliver an event of its own lane does so on a promotion  *)
(* or on the credit of a scheduled run of the same code, earned before it  *)
(* (qualification.py:61-116).                                              *)
THEOREM QualifiedFirst == Spec => []DeliversQualifiedCode
<1>1. IInv => DeliversQualifiedCode
  BY DEF IInv, DeliversQualifiedCode, Stamped, RowsAreNamed, MayDeliver, TypeOK, Row, Run
<1> QED
  BY Inductive, <1>1, PTL
=============================================================================

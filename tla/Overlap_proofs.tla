--------------------------- MODULE Overlap_proofs ---------------------------
(***************************************************************************)
(* Processes that may run at the same time.  First those a lock keeps      *)
(* apart: RunLock for any number of slots, collectors, lock files and      *)
(* rows, and any assignment of collectors to lock files.  Then those       *)
(* nothing keeps apart: the commands on the proposal inbox of Discovery,   *)
(* for any number of commands, leads, blobs, versions and exports.         *)
(***************************************************************************)
EXTENDS RunLock, Discovery, SequenceTheorems, WellFoundedInduction, TLAPS

-----------------------------------------------------------------------------
(***************************************************************************)
(* RunLock                                                                  *)
(***************************************************************************)
(* A slot that acts on the lock is the one the kernel granted it to. *)
GrantOwned == \A s \in Slot : pc[s] \in Holding => grant[File(s)] = s

(* A slot writes to a row only while it runs, and the row exists. *)
RowOwned ==
    /\ \A p \in Proc : mine[p] # NoRun =>
          pc[p] \in {"running", "ended"} /\ status[mine[p]] # "ABSENT"
    /\ \A p, q \in Proc : mine[p] # NoRun /\ mine[p] = mine[q] => p = q

IInv == TypeOK /\ GrantOwned /\ RowOwned

-----------------------------------------------------------------------------
(* The type invariant is inductive on its own. *)
LEMMA InitTypeOK == Init => TypeOK
BY SlotsAssumption DEF Init, TypeOK, PC, RowStatus, Slot

LEMMA FileTyped == ASSUME NEW s \in Slot PROVE File(s) \in LockFile
BY SlotsAssumption DEF File

LEMMA NextTypeOK == TypeOK /\ [Next]_vars => TypeOK'
<1> SUFFICES ASSUME TypeOK, [Next]_vars PROVE TypeOK'
  OBVIOUS
<1> USE SlotsAssumption, FileTyped
    DEF TypeOK, PC, Holding, RowStatus, EndStatus, Slot, Dropped
<1>1. ASSUME NEW s \in Slot, Recover(s) PROVE TypeOK'
  BY <1>1 DEF Recover, StaleRows
<1>2. ASSUME NEW s \in Slot, Take(s) PROVE TypeOK'
  BY <1>2 DEF Take
<1>3. ASSUME NEW s \in Slot, Refuse(s) PROVE TypeOK'
  BY <1>3 DEF Refuse
<1>4. ASSUME NEW s \in Slot, EndProbe(s) PROVE TypeOK'
  BY <1>4 DEF EndProbe
<1>5. ASSUME NEW p \in Proc, MetadataFails(p) PROVE TypeOK'
  BY <1>5 DEF MetadataFails
<1>6. ASSUME NEW p \in Proc, NEW r \in Run, RecordOverlap(p, r) PROVE TypeOK'
  BY <1>6 DEF RecordOverlap, InsertRow
<1>7. ASSUME NEW p \in Proc, NEW r \in Run, StartRun(p, r) PROVE TypeOK'
  BY <1>7 DEF StartRun, InsertRow
<1>8. ASSUME NEW p \in Proc, NEW st \in EndStatus, Finish(p, st) PROVE TypeOK'
  BY <1>8 DEF Finish
<1>9. ASSUME NEW p \in Proc, Release(p) PROVE TypeOK'
  BY <1>9 DEF Release
<1>10. ASSUME NEW p \in Proc, Crash(p) PROVE TypeOK'
  BY <1>10 DEF Crash
<1>11. ASSUME NEW r \in Run, Age(r) PROVE TypeOK'
  BY <1>11 DEF Age
<1>12. ASSUME NEW r \in Run, Forget(r) PROVE TypeOK'
  BY <1>12 DEF Forget
<1>13. CASE UNCHANGED vars
  BY <1>13 DEF vars
<1> QED
  BY <1>1, <1>2, <1>3, <1>4, <1>5, <1>6, <1>7, <1>8, <1>9, <1>10, <1>11, <1>12, <1>13
  DEF Next, RunStep, ProbeStep, Acquire, WindowFull

(* The variables keep their types in every reachable state. *)
THEOREM TypeCorrect == Spec => []TypeOK
BY InitTypeOK, NextTypeOK, PTL DEF Spec

-----------------------------------------------------------------------------
LEMMA InitIInv == Init => IInv
BY InitTypeOK DEF Init, IInv, GrantOwned, RowOwned, Holding

LEMMA NextGrantOwned == IInv /\ [Next]_vars => GrantOwned'
<1> SUFFICES ASSUME IInv, [Next]_vars, NEW t \in Slot, pc'[t] \in Holding
             PROVE  grant'[File(t)] = t
  BY DEF GrantOwned, File
<1> USE SlotsAssumption, FileTyped DEF IInv, TypeOK, GrantOwned, Holding, Slot, Dropped
<1>1. ASSUME NEW s \in Slot, Recover(s) PROVE grant'[File(t)] = t
  BY <1>1 DEF Recover
<1>2. ASSUME NEW s \in Slot, Take(s) PROVE grant'[File(t)] = t
  BY <1>2 DEF Take, Obtainable
<1>3. ASSUME NEW s \in Slot, Refuse(s) PROVE grant'[File(t)] = t
  BY <1>3 DEF Refuse
<1>4. ASSUME NEW s \in Slot, EndProbe(s) PROVE grant'[File(t)] = t
  BY <1>4 DEF EndProbe
<1>5. ASSUME NEW p \in Proc, MetadataFails(p) PROVE grant'[File(t)] = t
  BY <1>5 DEF MetadataFails
<1>6. ASSUME NEW p \in Proc, NEW r \in Run, RecordOverlap(p, r) PROVE grant'[File(t)] = t
  BY <1>6 DEF RecordOverlap
<1>7. ASSUME NEW p \in Proc, NEW r \in Run, StartRun(p, r) PROVE grant'[File(t)] = t
  BY <1>7 DEF StartRun
<1>8. ASSUME NEW p \in Proc, NEW st \in EndStatus, Finish(p, st) PROVE grant'[File(t)] = t
  BY <1>8 DEF Finish
<1>9. ASSUME NEW p \in Proc, Release(p) PROVE grant'[File(t)] = t
  BY <1>9 DEF Release
<1>10. ASSUME NEW p \in Proc, Crash(p) PROVE grant'[File(t)] = t
  BY <1>10 DEF Crash
<1>11. ASSUME NEW r \in Run, Age(r) \/ Forget(r) PROVE grant'[File(t)] = t
  BY <1>11 DEF Age, Forget
<1>12. CASE UNCHANGED vars
  BY <1>12 DEF vars
<1> QED
  BY <1>1, <1>2, <1>3, <1>4, <1>5, <1>6, <1>7, <1>8, <1>9, <1>10, <1>11, <1>12
  DEF Next, RunStep, ProbeStep, Acquire, WindowFull

LEMMA NextRowOwned == IInv /\ [Next]_vars => RowOwned'
<1> SUFFICES ASSUME IInv, [Next]_vars PROVE RowOwned'
  OBVIOUS
<1> USE SlotsAssumption DEF IInv, TypeOK, RowOwned, Slot
<1>1. ASSUME NEW s \in Slot, Recover(s) PROVE RowOwned'
  BY <1>1 DEF Recover
<1>2. ASSUME NEW s \in Slot, Take(s) \/ Refuse(s) PROVE RowOwned'
  BY <1>2 DEF Take, Refuse
<1>3. ASSUME NEW s \in Probe, EndProbe(s) PROVE RowOwned'
  BY <1>3 DEF EndProbe
<1>4. ASSUME NEW p \in Proc, MetadataFails(p) PROVE RowOwned'
  BY <1>4 DEF MetadataFails
<1>5. ASSUME NEW p \in Proc, NEW r \in Run, RecordOverlap(p, r) PROVE RowOwned'
  BY <1>5 DEF RecordOverlap, InsertRow
<1>6. ASSUME NEW p \in Proc, NEW r \in Run, StartRun(p, r) PROVE RowOwned'
  BY <1>6 DEF StartRun, InsertRow
<1>7. ASSUME NEW p \in Proc, NEW st \in EndStatus, Finish(p, st) PROVE RowOwned'
  BY <1>7 DEF Finish, EndStatus
<1>8. ASSUME NEW p \in Proc, Release(p) \/ Crash(p) PROVE RowOwned'
  BY <1>8 DEF Release, Crash
<1>9. ASSUME NEW r \in Run, Age(r) PROVE RowOwned'
  BY <1>9 DEF Age
<1>10. ASSUME NEW r \in Run, Forget(r) PROVE RowOwned'
  BY <1>10 DEF Forget, Live
<1>11. CASE UNCHANGED vars
  BY <1>11 DEF vars
<1> QED
  BY <1>1, <1>2, <1>3, <1>4, <1>5, <1>6, <1>7, <1>8, <1>9, <1>10, <1>11
  DEF Next, RunStep, ProbeStep, Acquire, WindowFull

(* The inductive invariant: types, ownership of grants, ownership of rows. *)
THEOREM Inductive == Spec => []IInv
<1>1. IInv /\ [Next]_vars => IInv'
  BY NextTypeOK, NextGrantOwned, NextRowOwned DEF IInv
<1> QED
  BY InitIInv, <1>1, PTL DEF Spec

(* For every number of processes and every sharing of lock files, no two   *)
(* processes are inside runs under one lock file (run_lock.py:3-5).        *)
THEOREM Exclusion == Spec => []MutualExclusion
<1>1. IInv => MutualExclusion
  BY DEF IInv, GrantOwned, MutualExclusion, Slot
<1> QED
  BY <1>1, Inductive, PTL

(* A live RUNNING row has one process behind it and is alone under its     *)
(* lock file.                                                              *)
THEOREM LiveRowsAlone == Spec => []OneLiveRunPerFile
<1>1. IInv => OneLiveRunPerFile
  BY DEF IInv, TypeOK, GrantOwned, RowOwned, OneLiveRunPerFile, Slot, Holding
<1> QED
  BY <1>1, Inductive, PTL

(* Only the process whose run it is restates a closed row; stale recovery  *)
(* and later runs cannot.                                                  *)
THEOREM ClosedRows == Spec => ClosedRowsAreTheirOwners
<1> DEFINE Restated(r) ==
      status[r] \in EndStatus \union {"SKIPPED_OVERLAP"} /\ status'[r] # status[r]
         => \/ status'[r] = "ABSENT"
            \/ \E p \in Proc : mine[p] = r /\ pc[p] = "running"
<1>1. ASSUME IInv, Next, NEW r \in Run PROVE Restated(r)
  <2> USE <1>1 DEF IInv, TypeOK, EndStatus
  <2>1. ASSUME NEW s \in Slot, Recover(s) PROVE Restated(r)
    BY <2>1 DEF Recover, StaleRows
  <2>2. ASSUME NEW p \in Proc, NEW q \in Run, RecordOverlap(p, q) \/ StartRun(p, q)
        PROVE Restated(r)
    BY <2>2 DEF RecordOverlap, StartRun, InsertRow
  <2>3. ASSUME NEW p \in Proc, NEW st \in EndStatus, Finish(p, st) PROVE Restated(r)
    BY <2>3 DEF Finish
  <2>4. ASSUME NEW q \in Run, Forget(q) PROVE Restated(r)
    BY <2>4 DEF Forget
  <2>5. CASE UNCHANGED status
    BY <2>5
  <2> QED
    BY <2>1, <2>2, <2>3, <2>4, <2>5
    DEF Next, RunStep, ProbeStep, Acquire, WindowFull, Slot, Take, Refuse, EndProbe,
        MetadataFails, Release, Crash, Age
<1>2. IInv /\ [Next]_vars => [\A r \in Run : Restated(r)]_vars
  BY <1>1
<1> QED
  BY <1>2, Inductive, PTL DEF Spec, ClosedRowsAreTheirOwners

-----------------------------------------------------------------------------
(* RunLock implements OverlapGuard: taking the lock is entering, every way *)
(* of giving it up (release, failed metadata, end of a probe, death) is    *)
(* leaving, and all else leaves who is inside alone.                       *)
THEOREM Refinement == Spec => ImplementsOverlapGuard
<1> DEFINE in == {s \in Slot : pc[s] \in Holding}
<1>1. Init => Overlap!Init
  BY DEF Init, Overlap!Init, Holding
<1>2. ASSUME IInv, [Next]_vars PROVE [Overlap!Next]_in
  <2> USE <1>2, SlotsAssumption DEF IInv, TypeOK, Holding
  <2>1. ASSUME NEW s \in Slot, Take(s) PROVE Overlap!Enter(s)
    <3>1. s \notin in /\ in' = in \union {s}
      BY <2>1 DEF Take
    <3>2. \A v \in in : File(v) # File(s)
      BY <2>1 DEF Take, Obtainable, GrantOwned
    <3> QED
      BY <3>1, <3>2 DEF Overlap!Enter, Overlap!Vacant
  <2>2. ASSUME NEW s \in Slot, pc[s] \in Holding, pc' = [pc EXCEPT ![s] = "idle"]
        PROVE Overlap!Leave(s)
    BY <2>2 DEF Overlap!Leave
  <2>3. ASSUME NEW p \in Proc, MetadataFails(p) PROVE Overlap!Leave(p)
    BY <2>3 DEF MetadataFails, Overlap!Leave, Slot
  <2>4. ASSUME NEW p \in Proc, Crash(p) PROVE Overlap!Leave(p) \/ in' = in
    <3>1. pc' = [pc EXCEPT ![p] = "idle"] /\ p \in Slot
      BY <2>4 DEF Crash, Slot
    <3>2. CASE pc[p] \in Holding
      BY <2>2, <3>1, <3>2
    <3>3. CASE pc[p] \notin Holding
      BY <3>1, <3>3
    <3> QED BY <3>2, <3>3
  <2>5. ASSUME NEW s \in Slot, Recover(s) \/ Refuse(s) PROVE in' = in
    BY <2>5 DEF Recover, Refuse
  <2>6. ASSUME NEW p \in Proc, NEW r \in Run, RecordOverlap(p, r) \/ StartRun(p, r)
        PROVE in' = in
    BY <2>6 DEF RecordOverlap, StartRun, Slot
  <2>7. ASSUME NEW p \in Proc, NEW st \in EndStatus, Finish(p, st) PROVE in' = in
    BY <2>7 DEF Finish, Slot
  <2>8. ASSUME NEW p \in Proc, Release(p) PROVE Overlap!Leave(p)
    BY <2>2, <2>8 DEF Release, Slot
  <2>9. ASSUME NEW s \in Probe, EndProbe(s) PROVE Overlap!Leave(s)
    BY <2>2, <2>9 DEF EndProbe, Slot
  <2>10. ASSUME NEW r \in Run, Age(r) \/ Forget(r) PROVE in' = in
    BY <2>10 DEF Age, Forget
  <2>11. CASE UNCHANGED vars
    BY <2>11 DEF vars
  <2> QED
    BY <2>1, <2>3, <2>4, <2>5, <2>6, <2>7, <2>8, <2>9, <2>10, <2>11
    DEF Next, RunStep, ProbeStep, Acquire, WindowFull, Overlap!Next, Slot
<1> QED
  BY <1>1, <1>2, Inductive, PTL DEF Spec, ImplementsOverlapGuard, Overlap!Spec

-----------------------------------------------------------------------------
(***************************************************************************)
(* Discovery: what an import prepares                                       *)
(***************************************************************************)
LEMMA LeastElement ==
    ASSUME NEW T \in SUBSET Nat, T # {}
    PROVE  \E m \in T : \A n \in T : m <= n
<1>1. PICK m \in T : \A n \in T : ~(<<n, m>> \in OpToRel(<, Nat))
  BY NatLessThanWellFounded, WFMin
<1>2. \A n \in T : ~(n < m)
  BY <1>1 DEF OpToRel
<1> QED
  BY <1>2

\* What a line adds to what is imported.
Evidence(line, root) ==
    [lead |-> line.lead, version |-> line.version,
     copied |-> {b \in BlobsOf[line.version] : root[b] = "there"}]

KeptUpTo(f, lines, root, k) ==
    f = [n \in 0..k |->
            IF n = 0 THEN <<>>
            ELSE IF lines[n].subject # "watch" THEN f[n - 1]
            ELSE Append(f[n - 1], Evidence(lines[n], root))]

ImportedUpTo(f, box, batch, k) ==
    f = [n \in 0..k |-> IF n = 0 THEN box ELSE Inbox!Observed(f[n - 1], batch[n])]

LEMMA ImportedExists ==
    ASSUME NEW box, NEW batch, NEW m \in Nat
    PROVE  \E f : ImportedUpTo(f, box, batch, m)
<1> DEFINE T == {k \in Nat : ~ \E f : ImportedUpTo(f, box, batch, k)}
<1> SUFFICES ASSUME T # {} PROVE FALSE
  OBVIOUS
<1>1. PICK k \in T : \A n \in T : k <= n
  BY LeastElement
<1>2. k \in Nat /\ ~ \E f : ImportedUpTo(f, box, batch, k)
  OBVIOUS
<1>3. \A n \in Nat : n < k => \E f : ImportedUpTo(f, box, batch, n)
  BY <1>1, <1>2
<1> HIDE DEF T
<1>4. CASE k = 0
  <2> DEFINE g == [n \in 0..0 |-> box]
  <2>1. ImportedUpTo(g, box, batch, 0)
    BY DEF ImportedUpTo
  <2> QED
    BY <1>2, <1>4, <2>1
<1>5. CASE k > 0
  <2>1. k - 1 \in Nat
    BY <1>2, <1>5
  <2>2. PICK f : ImportedUpTo(f, box, batch, k - 1)
    BY <1>2, <1>3, <2>1
  <2>3. \A n \in 0..(k - 1) : f[n] = IF n = 0 THEN box ELSE Inbox!Observed(f[n - 1], batch[n])
    BY <2>2 DEF ImportedUpTo
  <2> DEFINE g == [n \in 0..k |-> IF n = k THEN Inbox!Observed(f[k - 1], batch[k]) ELSE f[n]]
  <2>4. ASSUME NEW n \in 0..k
        PROVE  g[n] = IF n = 0 THEN box ELSE Inbox!Observed(g[n - 1], batch[n])
    <3>1. CASE n = k
      BY <1>5, <2>1, <3>1
    <3>2. CASE n = 0
      BY <1>5, <2>1, <2>3, <3>2
    <3>3. CASE n # 0 /\ n # k
      <4>1. n \in 0..(k - 1) /\ n - 1 \in 0..k /\ n - 1 # k
        BY <1>2, <3>3
      <4>2. g[n] = f[n] /\ g[n - 1] = f[n - 1]
        BY <3>3, <4>1
      <4> QED
        BY <2>3, <3>3, <4>1, <4>2
    <3> QED
      BY <3>1, <3>2, <3>3
  <2>5. ImportedUpTo(g, box, batch, k)
    BY <2>4 DEF ImportedUpTo
  <2> QED
    BY <1>2, <2>5
<1> QED
  BY <1>2, <1>4, <1>5

\* An import observes its batch one by one.
LEMMA ImportedFacts ==
    ASSUME NEW box, NEW batch, Len(batch) \in Nat
    PROVE  /\ Inbox!Imported(box, batch)[0] = box
           /\ \A n \in 1..Len(batch) :
                 Inbox!Imported(box, batch)[n]
                     = Inbox!Observed(Inbox!Imported(box, batch)[n - 1], batch[n])
<1>1. \E f : ImportedUpTo(f, box, batch, Len(batch))
  BY ImportedExists
<1>2. Inbox!Imported(box, batch) = CHOOSE f : ImportedUpTo(f, box, batch, Len(batch))
  BY DEF Inbox!Imported, ImportedUpTo
<1>3. ImportedUpTo(Inbox!Imported(box, batch), box, batch, Len(batch))
  BY <1>1, <1>2
<1> QED
  BY <1>3 DEF ImportedUpTo

LEMMA KeptExists ==
    ASSUME NEW lines \in Seq(Line), NEW root, NEW m \in 0..Len(lines)
    PROVE  \E f : KeptUpTo(f, lines, root, m) /\ f \in [0..m -> Seq(Observation)]
<1> DEFINE T == {k \in 0..Len(lines) :
                    ~ \E f : KeptUpTo(f, lines, root, k) /\ f \in [0..k -> Seq(Observation)]}
<1>0. Len(lines) \in Nat /\ \A n \in 1..Len(lines) : lines[n] \in Line
  BY LenProperties
<1> SUFFICES ASSUME T # {} PROVE FALSE
  OBVIOUS
<1>1. PICK k \in T : \A n \in T : k <= n
  <2>1. T \in SUBSET Nat
    BY <1>0
  <2> QED
    BY <2>1, LeastElement
<1>2. /\ k \in 0..Len(lines)
      /\ ~ \E f : KeptUpTo(f, lines, root, k) /\ f \in [0..k -> Seq(Observation)]
  OBVIOUS
<1>3. \A n \in 0..Len(lines) : n < k =>
          \E f : KeptUpTo(f, lines, root, n) /\ f \in [0..n -> Seq(Observation)]
  BY <1>0, <1>1, <1>2
<1> HIDE DEF T
<1>4. CASE k = 0
  <2> DEFINE g == [n \in 0..0 |-> <<>>]
  <2>1. KeptUpTo(g, lines, root, 0)
    BY DEF KeptUpTo
  <2>2. g \in [0..0 -> Seq(Observation)]
    OBVIOUS
  <2> QED
    BY <1>2, <1>4, <2>1, <2>2
<1>5. CASE k > 0
  <2>1. k - 1 \in 0..Len(lines) /\ k - 1 < k /\ k \in 1..Len(lines)
    BY <1>0, <1>2, <1>5
  <2>2. PICK f : KeptUpTo(f, lines, root, k - 1) /\ f \in [0..(k - 1) -> Seq(Observation)]
    BY <1>3, <2>1
  <2>3. \A n \in 0..(k - 1) :
            f[n] = IF n = 0 THEN <<>>
                   ELSE IF lines[n].subject # "watch" THEN f[n - 1]
                   ELSE Append(f[n - 1], Evidence(lines[n], root))
    BY <2>2 DEF KeptUpTo
  <2> DEFINE last == IF lines[k].subject # "watch" THEN f[k - 1]
                     ELSE Append(f[k - 1], Evidence(lines[k], root))
             g == [n \in 0..k |-> IF n = k THEN last ELSE f[n]]
  <2>4. ASSUME NEW n \in 0..k
        PROVE  g[n] = IF n = 0 THEN <<>>
                      ELSE IF lines[n].subject # "watch" THEN g[n - 1]
                      ELSE Append(g[n - 1], Evidence(lines[n], root))
    <3>1. CASE n = k
      BY <1>5, <2>1, <3>1
    <3>2. CASE n = 0
      BY <1>5, <2>1, <2>3, <3>2
    <3>3. CASE n # 0 /\ n # k
      <4>1. n \in 0..(k - 1) /\ n - 1 \in 0..k /\ n - 1 # k
        BY <1>2, <3>3
      <4>2. g[n] = f[n] /\ g[n - 1] = f[n - 1]
        BY <3>3, <4>1
      <4> QED
        BY <2>3, <3>3, <4>1, <4>2
    <3> QED
      BY <3>1, <3>2, <3>3
  <2>5. KeptUpTo(g, lines, root, k)
    BY <2>4 DEF KeptUpTo
  <2>6. last \in Seq(Observation)
    <3>1. f[k - 1] \in Seq(Observation)
      BY <2>1, <2>2
    <3>2. Evidence(lines[k], root) \in Observation
      <4>1. lines[k].lead \in Lead /\ lines[k].version \in Version
        BY <1>0, <2>1 DEF Line
      <4>2. BlobsOf[lines[k].version] \subseteq Blob
        BY <4>1, DiscoveryAssumption
      <4> QED
        BY <4>1, <4>2 DEF Evidence, Observation
    <3> QED
      BY <3>1, <3>2, AppendProperties
  <2>7. g \in [0..k -> Seq(Observation)]
    <3> HIDE DEF last
    <3>1. \A n \in 0..k : n # k => n \in 0..(k - 1)
      BY <1>2
    <3> QED
      BY <2>2, <2>6, <3>1
  <2> QED
    BY <1>2, <2>5, <2>7
<1> QED
  BY <1>2, <1>4, <1>5

\* Two loops over the same lines keep the same.
LEMMA KeptUnique ==
    ASSUME NEW lines, NEW root, NEW m \in Nat, NEW f, NEW g,
           KeptUpTo(f, lines, root, m), KeptUpTo(g, lines, root, m)
    PROVE  \A n \in 0..m : f[n] = g[n]
<1> DEFINE T == {n \in 0..m : f[n] # g[n]}
<1> SUFFICES ASSUME T # {} PROVE FALSE
  OBVIOUS
<1>1. PICK k \in T : \A n \in T : k <= n
  <2>1. T \in SUBSET Nat
    OBVIOUS
  <2> QED
    BY <2>1, LeastElement
<1>2. k \in 0..m /\ f[k] # g[k]
  OBVIOUS
<1>3. k # 0 => k - 1 \in 0..m /\ f[k - 1] = g[k - 1]
  BY <1>1, <1>2
<1> HIDE DEF T
<1> QED
  BY <1>2, <1>3 DEF KeptUpTo

LEMMA PreparedTyped ==
    ASSUME NEW lines \in Seq(Line), NEW root
    PROVE  Prepared(lines, root) \in Seq(Observation)
<1> DEFINE kept == CHOOSE f : KeptUpTo(f, lines, root, Len(lines))
<1>1. Len(lines) \in Nat
  BY LenProperties
<1>2. PICK f : KeptUpTo(f, lines, root, Len(lines)) /\ f \in [0..Len(lines) -> Seq(Observation)]
  <2>1. Len(lines) \in 0..Len(lines)
    BY <1>1
  <2> QED
    BY <2>1, KeptExists
<1>3. Prepared(lines, root) = kept[Len(lines)]
  BY DEF Prepared, KeptUpTo, Evidence
<1>4. KeptUpTo(kept, lines, root, Len(lines))
  BY <1>2
<1> HIDE DEF kept
<1>5. kept[Len(lines)] = f[Len(lines)]
  BY <1>1, <1>2, <1>4, KeptUnique
<1> QED
  BY <1>1, <1>2, <1>3, <1>5

Batches == {Prepared(lines, root) : lines \in Exports, root \in Roots}
Working == {"copy", "write"}

\* The evidence a generation refers to is there.
WholeIn(files, box) ==
    \A n \in DOMAIN box.observations : \A b \in box.observations[n].copied : files[b] = "whole"

\* No generation is mistaken for one that was not taken.
Published(box) == \A l \in Lead : box.label[l] # "not taken"

\* todo is what is left of a batch after k of it.
Left(todo, batch, k) ==
    /\ Len(todo) = Len(batch) - k
    /\ \A n \in 1..Len(todo) : todo[n] = batch[k + n]

\* A command applies part of one batch, or one verdict, to the inbox it took.
Importing(c) ==
    /\ c.verdict = <<>>
    /\ \E batch \in Batches : \E k \in 0..Len(batch) :
          /\ Left(c.todo, batch, k)
          /\ IF c.pc = "open" THEN k = 0
             ELSE c.draft = Inbox!Imported(c.base, batch)[k]

Judging(c) ==
    /\ c.todo = <<>>
    /\ \E v \in VerdictRow :
          \/ c.verdict = <<v>> /\ (c.pc = "open" \/ c.draft = c.base)
          \/ c.verdict = <<>> /\ c.pc # "open" /\ c.draft = Inbox!Labelled(c.base, v.lead, v.label)

\* What is true of a command beside an inbox and the evidence files.
CommandOK(c, box, files) ==
    /\ c.pc \in Working <=> c.base # Inbox!Nothing
    /\ c.pc \in Working \union {"open"} => Importing(c) \/ Judging(c)
    /\ c.pc \in Working =>
          /\ WholeIn(files, c.draft) /\ Published(c.draft)
          /\ ~c.stale => Keeps(c.draft, box)
    /\ c.pc \in {"open", "copy"} => \A b \in c.copied : files[b] = "whole"

D1IInv ==
    /\ D1TypeOK /\ Published(inbox) /\ WholeIn(blob, inbox)
    /\ \A w \in Writer : CommandOK(writer[w], inbox, blob)

-----------------------------------------------------------------------------
(***************************************************************************)
(* Generations                                                              *)
(***************************************************************************)
Label == Labels \union {"unreviewed", "none", "not taken"}

LEMMA GenerationFacts ==
    /\ Inbox!Unreviewed = "unreviewed" /\ Inbox!NoProposal = "none"
    /\ \A box \in Generation : /\ box.observations \in Seq(Observation)
                               /\ box.verdicts \in Seq(VerdictRow)
                               /\ box.label \in [Lead -> Label]
    /\ \A box \in Generation, label \in [Lead -> Label] :
          [box EXCEPT !.label = label] \in Generation
BY DEF Generation, Label, Inbox!Unreviewed, Inbox!NoProposal

LEMMA EmptyFacts ==
    /\ Inbox!Empty \in Generation /\ Inbox!Nothing \in Generation
    /\ Published(Inbox!Empty) /\ \A files : WholeIn(files, Inbox!Empty)
    /\ \A box \in Generation : Published(box) => box # Inbox!Nothing
    /\ \A box \in Generation : Keeps(box, Inbox!Empty)
<1>1. /\ Inbox!Empty.observations = <<>> /\ Inbox!Empty.verdicts = <<>>
      /\ Inbox!Empty.label = [l \in Lead |-> "none"] /\ Inbox!Empty \in Generation
  <2>1. <<>> \in Seq(Observation) /\ <<>> \in Seq(VerdictRow)
    OBVIOUS
  <2>2. [l \in Lead |-> "none"] \in [Lead -> Labels \union {"unreviewed", "none", "not taken"}]
    OBVIOUS
  <2> QED
    BY <2>1, <2>2 DEF Inbox!Empty, Generation, Inbox!NoProposal, Inbox!Unreviewed
<1>2. Inbox!Nothing \in Generation /\ Inbox!Nothing.label = [l \in Lead |-> "not taken"]
  <2>1. [l \in Lead |-> "not taken"] \in [Lead -> Label]
    BY DEF Label
  <2>2. ASSUME NEW box \in Generation, NEW label
        PROVE  [box EXCEPT !.label = label].label = label
    BY DEF Generation
  <2>3. Inbox!Nothing = [Inbox!Empty EXCEPT !.label = [l \in Lead |-> "not taken"]]
    BY DEF Inbox!Nothing
  <2> QED
    BY <1>1, <2>1, <2>2, <2>3, GenerationFacts
<1>4. \A box \in Generation : Published(box) => box # Inbox!Nothing
  <2>1. PICK l \in Lead : TRUE
    BY DiscoveryAssumption
  <2> QED
    BY <1>2, <2>1 DEF Published
<1>5. ASSUME NEW box \in Generation PROVE Keeps(box, Inbox!Empty)
  <2>1. \A S : \A s \in Seq(S) : IsPrefix(<<>>, s)
    BY DEF IsPrefix
  <2>2. box.observations \in Seq(Observation) /\ box.verdicts \in Seq(VerdictRow)
    BY DEF Generation
  <2>3. IsPrefix(<<>>, box.observations) /\ IsPrefix(<<>>, box.verdicts)
    BY <2>1, <2>2
  <2> QED
    BY <1>1, <2>3 DEF Keeps, Inbox!NoProposal
<1>6. Published(Inbox!Empty)
  BY <1>1 DEF Published
<1>7. \A files : WholeIn(files, Inbox!Empty)
  BY <1>1 DEF WholeIn
<1> QED
  BY <1>1, <1>2, <1>4, <1>5, <1>6, <1>7

LEMMA PrefixFacts ==
    ASSUME NEW S, NEW s \in Seq(S), NEW t \in Seq(S), NEW x \in S
    PROVE  /\ IsPrefix(s, s)
           /\ IsPrefix(s, t) => IsPrefix(s, Append(t, x))
<1>1. Len(s) \in Nat /\ Len(t) \in Nat
  BY LenProperties
<1>2. IsPrefix(s, s)
  BY <1>1 DEF IsPrefix
<1>3. ASSUME IsPrefix(s, t) PROVE IsPrefix(s, Append(t, x))
  <2>1. Len(s) <= Len(t) /\ SubSeq(s, 1, Len(s)) = SubSeq(t, 1, Len(s))
    BY <1>3 DEF IsPrefix
  <2>2. Len(Append(t, x)) = Len(t) + 1 /\ \A n \in 1..Len(t) : Append(t, x)[n] = t[n]
    BY AppendProperties
  <2>3. SubSeq(Append(t, x), 1, Len(s)) = SubSeq(t, 1, Len(s))
    BY <1>1, <2>1, <2>2
  <2> QED
    BY <1>1, <2>1, <2>2, <2>3 DEF IsPrefix
<1> QED
  BY <1>2, <1>3

LEMMA KeepsItself ==
    ASSUME NEW box \in Generation
    PROVE  Keeps(box, box)
<1>1. box.observations \in Seq(Observation) /\ box.verdicts \in Seq(VerdictRow)
  BY DEF Generation
<1>2. IsPrefix(box.observations, box.observations) /\ IsPrefix(box.verdicts, box.verdicts)
  BY <1>1 DEF IsPrefix
<1> QED
  BY <1>2 DEF Keeps

\* An observation adds to a generation.
LEMMA ObservedFacts ==
    ASSUME NEW box \in Generation, NEW o \in Observation
    PROVE  /\ Inbox!Observed(box, o) = IF Unchanged(box, o) THEN box ELSE Inserted(box, o)
           /\ Inserted(box, o) \in Generation
           /\ Published(box) => Published(Inserted(box, o))
           /\ \A files : WholeIn(files, box) /\ (\A b \in o.copied : files[b] = "whole")
                  => WholeIn(files, Inserted(box, o))
           /\ \A old \in Generation : Keeps(box, old) => Keeps(Inserted(box, o), old)
<1> DEFINE new == Inserted(box, o)
           label == [box.label EXCEPT ![o.lead] = IF box.label[o.lead] = "none" THEN "unreviewed"
                                                  ELSE box.label[o.lead]]
<1>1. /\ box.observations \in Seq(Observation) /\ box.verdicts \in Seq(VerdictRow)
      /\ box.label \in [Lead -> Label]
      /\ o.lead \in Lead /\ "unreviewed" \in Label
  BY GenerationFacts DEF Observation, Label
<1>2. /\ new.observations = Append(box.observations, o) /\ new.verdicts = box.verdicts
      /\ new.label = label
      /\ new = [box EXCEPT !.observations = Append(box.observations, o), !.label = label]
  <2>1. new = [box EXCEPT !.observations = Append(box.observations, o), !.label = label]
    BY DEF Inserted, Inbox!Unreviewed, Inbox!NoProposal, Generation
  <2> HIDE DEF new, label
  <2> QED
    BY <2>1 DEF Generation
<1>3. Inbox!Observed(box, o) = IF Unchanged(box, o) THEN box ELSE new
  BY Zenon DEF Inbox!Observed, Unchanged, Inserted, Last, Inbox!Last
<1> HIDE DEF new
<1>4. /\ new.observations \in Seq(Observation)
      /\ DOMAIN new.observations = 1..(Len(box.observations) + 1)
      /\ \A n \in 1..Len(box.observations) : new.observations[n] = box.observations[n]
      /\ new.observations[Len(box.observations) + 1] = o
      /\ DOMAIN box.observations = 1..Len(box.observations) /\ Len(box.observations) \in Nat
  <2> HIDE DEF label
  <2>1. \A s \in Seq(Observation) :
            /\ Append(s, o) \in Seq(Observation) /\ DOMAIN Append(s, o) = 1..(Len(s) + 1)
            /\ \A n \in 1..Len(s) : Append(s, o)[n] = s[n]
            /\ Append(s, o)[Len(s) + 1] = o
            /\ DOMAIN s = 1..Len(s) /\ Len(s) \in Nat
    BY AppendProperties, LenProperties
  <2> QED
    BY <1>1, <1>2, <2>1
<1>5. label \in [Lead -> Label]
  BY <1>1
<1>6. new \in Generation
  <2> HIDE DEF label
  <2>1. Append(box.observations, o) \in Seq(Observation)
    BY <1>1, AppendProperties
  <2>2. [box EXCEPT !.observations = Append(box.observations, o), !.label = label] \in Generation
    BY <1>5, <2>1 DEF Generation, Label, Inbox!Unreviewed, Inbox!NoProposal
  <2> QED
    BY <1>2, <2>2
<1>7. Published(box) => Published(new)
  <2>1. \A l \in Lead : box.label[l] # "not taken" => label[l] # "not taken"
    BY <1>1
  <2> HIDE DEF label
  <2> QED
    BY <1>2, <2>1 DEF Published
<1>8. ASSUME NEW files, WholeIn(files, box), \A b \in o.copied : files[b] = "whole"
      PROVE  WholeIn(files, new)
  <2> SUFFICES ASSUME NEW n \in 1..(Len(box.observations) + 1)
               PROVE  \A b \in new.observations[n].copied : files[b] = "whole"
    BY <1>4 DEF WholeIn
  <2>1. n \in 1..Len(box.observations) \/ n = Len(box.observations) + 1
    BY <1>4
  <2> QED
    BY <1>4, <1>8, <2>1 DEF WholeIn
<1>9. ASSUME NEW prior \in Generation, Keeps(box, prior) PROVE Keeps(new, prior)
  <2>1. prior.observations \in Seq(Observation) /\ prior.verdicts \in Seq(VerdictRow)
    BY DEF Generation
  <2>2. IsPrefix(prior.observations, new.observations)
    <3> HIDE DEF label
    <3>1. IsPrefix(prior.observations, box.observations)
      BY <1>9 DEF Keeps
    <3>2. IsPrefix(prior.observations, Append(box.observations, o))
      BY <1>1, <2>1, <3>1, PrefixFacts
    <3> QED
      BY <1>2, <3>2
  <2>3. \A l \in Lead : box.label[l] # "none" => new.label[l] # "none"
    BY <1>1, <1>2
  <2> QED
    BY <1>2, <1>9, <2>2, <2>3 DEF Keeps, Inbox!NoProposal
<1> QED
  BY <1>3, <1>6, <1>7, <1>8, <1>9 DEF new

\* So does a verdict.
LEMMA LabelledFacts ==
    ASSUME NEW box \in Generation, NEW v \in VerdictRow
    PROVE  /\ Inbox!Labelled(box, v.lead, v.label) =
                 [box EXCEPT !.label[v.lead] = IF @ = Inbox!NoProposal THEN @ ELSE v.label,
                             !.verdicts = Append(@, v)]
           /\ Inbox!Labelled(box, v.lead, v.label) \in Generation
           /\ Inbox!Labelled(box, v.lead, v.label).observations = box.observations
           /\ Published(box) => Published(Inbox!Labelled(box, v.lead, v.label))
           /\ \A old \in Generation :
                 Keeps(box, old) => Keeps(Inbox!Labelled(box, v.lead, v.label), old)
<1> DEFINE new == Inbox!Labelled(box, v.lead, v.label)
           label == [box.label EXCEPT ![v.lead] = IF box.label[v.lead] = "none" THEN "none" ELSE v.label]
<1>1. /\ box.observations \in Seq(Observation) /\ box.verdicts \in Seq(VerdictRow)
      /\ box.label \in [Lead -> Label]
      /\ v.lead \in Lead /\ v.label \in Label /\ v.label \in Labels /\ "none" \in Label
      /\ v = [lead |-> v.lead, label |-> v.label]
  BY GenerationFacts DEF VerdictRow, Label
<1>2. new = [box EXCEPT !.label[v.lead] = IF @ = Inbox!NoProposal THEN @ ELSE v.label,
                        !.verdicts = Append(@, v)]
  BY <1>1 DEF Inbox!Labelled
<1>3. /\ new.observations = box.observations /\ new.verdicts = Append(box.verdicts, v)
      /\ new.label = label
      /\ new = [box EXCEPT !.label = label, !.verdicts = Append(box.verdicts, v)]
  <2>1. new = [box EXCEPT !.label = label, !.verdicts = Append(box.verdicts, v)]
    BY <1>1, <1>2 DEF Inbox!NoProposal
  <2> HIDE DEF new, label
  <2> QED
    BY <2>1 DEF Generation
<1> HIDE DEF new
<1>4. Append(box.verdicts, v) \in Seq(VerdictRow)
  BY <1>1, AppendProperties
<1>5. label \in [Lead -> Label]
  BY <1>1
<1>6. new \in Generation
  <2> HIDE DEF label
  <2>1. [box EXCEPT !.label = label, !.verdicts = Append(box.verdicts, v)] \in Generation
    BY <1>4, <1>5 DEF Generation, Label, Inbox!Unreviewed, Inbox!NoProposal
  <2> QED
    BY <1>3, <2>1
<1>7. Published(box) => Published(new)
  BY <1>1, <1>3, DiscoveryAssumption DEF Published
<1>8. ASSUME NEW prior \in Generation, Keeps(box, prior) PROVE Keeps(new, prior)
  <2>1. prior.observations \in Seq(Observation) /\ prior.verdicts \in Seq(VerdictRow)
    BY DEF Generation
  <2>2. IsPrefix(prior.verdicts, new.verdicts)
    <3> HIDE DEF label
    <3>1. IsPrefix(prior.verdicts, box.verdicts)
      BY <1>8 DEF Keeps
    <3>2. IsPrefix(prior.verdicts, Append(box.verdicts, v))
      BY <1>1, <2>1, <3>1, PrefixFacts
    <3> QED
      BY <1>3, <3>2
  <2>3. \A l \in Lead : box.label[l] # "none" => new.label[l] # "none"
    BY <1>1, <1>3, DiscoveryAssumption
  <2> QED
    BY <1>3, <1>8, <2>2, <2>3 DEF Keeps, Inbox!NoProposal
<1> QED
  BY <1>2, <1>3, <1>6, <1>7, <1>8 DEF new

-----------------------------------------------------------------------------
(***************************************************************************)
(* Commands                                                                 *)
(***************************************************************************)
Pc == {"idle", "refreshing", "open", "copy", "write", "replaced"}

LEMMA CommandFacts ==
    /\ \A c \in Command :
          /\ c.pc \in Pc /\ c.todo \in Seq(Observation) /\ c.copied \in SUBSET Blob
          /\ c.verdict \in Seq(VerdictRow) /\ c.base \in Generation /\ c.draft \in Generation
          /\ c.stale \in BOOLEAN
    /\ Idle \in Command /\ Idle.pc = "idle" /\ Idle.base = Inbox!Nothing
<1>1. <<>> \in Seq(Observation) /\ <<>> \in Seq(VerdictRow)
  OBVIOUS
<1> QED
  BY <1>1, EmptyFacts DEF Command, Idle, Pc

LEMMA StillWhole ==
    ASSUME NEW box \in Generation, NEW files, NEW later, WholeIn(files, box),
           \A b \in Blob : files[b] = "whole" => later[b] = "whole"
    PROVE  WholeIn(later, box)
<1>1. ASSUME NEW n \in DOMAIN box.observations PROVE box.observations[n].copied \subseteq Blob
  <2>1. box.observations \in Seq(Observation)
    BY GenerationFacts
  <2>2. box.observations[n] \in Observation
    BY <1>1, <2>1
  <2> QED
    BY <2>2 DEF Observation
<1> QED
  BY <1>1 DEF WholeIn

\* Evidence that becomes whole disturbs no command.
LEMMA FilesGrow ==
    ASSUME NEW c \in Command, NEW box, NEW files, NEW later, CommandOK(c, box, files),
           \A b \in Blob : files[b] = "whole" => later[b] = "whole"
    PROVE  CommandOK(c, box, later)
<1>1. c.copied \subseteq Blob /\ c.draft \in Generation
  BY CommandFacts
<1>2. c.pc \in {"open", "copy"} => \A b \in c.copied : later[b] = "whole"
  BY <1>1 DEF CommandOK
<1>3. c.pc \in Working => WholeIn(later, c.draft)
  BY <1>1, StillWhole DEF CommandOK
<1> QED
  BY <1>2, <1>3 DEF CommandOK

\* A step of one command that leaves the inbox and what is whole of the evidence.
LEMMA StepOK ==
    ASSUME D1IInv, NEW w \in Writer, NEW c \in Command,
           writer' = [writer EXCEPT ![w] = c],
           UNCHANGED <<settings, inbox, interrupts>>,
           blob' \in [Blob -> {"absent", "partial", "whole"}],
           \A b \in Blob : blob[b] = "whole" => blob'[b] = "whole",
           CommandOK(c, inbox, blob')
    PROVE  D1IInv'
<1>1. D1TypeOK /\ inbox \in Generation /\ writer \in [Writer -> Command]
  BY DEF D1IInv, D1TypeOK
<1>2. D1TypeOK'
  BY <1>1 DEF D1TypeOK
<1>3. WholeIn(blob', inbox)
  BY <1>1, StillWhole DEF D1IInv
<1>4. ASSUME NEW v \in Writer PROVE CommandOK(writer'[v], inbox, blob')
  <2>1. CASE v = w
    BY <1>1, <2>1
  <2>2. CASE v # w
    <3>1. writer'[v] = writer[v] /\ writer[v] \in Command /\ CommandOK(writer[v], inbox, blob)
      BY <1>1, <2>2 DEF D1IInv
    <3>2. CommandOK(writer[v], inbox, blob')
      BY <3>1, FilesGrow
    <3> QED
      BY <3>1, <3>2
  <2> QED
    BY <2>1, <2>2
<1> QED
  BY <1>2, <1>3, <1>4 DEF D1IInv, Published

LEMMA InitD1IInv == D1Init => D1IInv
<1> SUFFICES ASSUME D1Init PROVE D1IInv
  OBVIOUS
<1>1. D1TypeOK
  <2>1. writer \in [Writer -> Command] /\ inbox \in Generation
    BY EmptyFacts, CommandFacts DEF D1Init
  <2>2. interrupts \in 0..MaxInterrupts
    <3>1. MaxInterrupts \in Nat
      BY DiscoveryAssumption
    <3> QED
      BY <3>1 DEF D1Init
  <2> QED
    BY <2>1, <2>2 DEF D1Init, D1TypeOK
<1>2. Published(inbox) /\ WholeIn(blob, inbox)
  BY EmptyFacts DEF D1Init
<1>3. \A w \in Writer : CommandOK(writer[w], inbox, blob)
  BY CommandFacts DEF D1Init, CommandOK, Working
<1> QED
  BY <1>1, <1>2, <1>3 DEF D1IInv

\* A command that is not at work yet.
LEMMA WaitingOK ==
    ASSUME NEW c \in Command, c.pc \notin Working, c.base = Inbox!Nothing,
           c.pc = "open" => c.copied = {} /\ (Importing(c) \/ Judging(c)), NEW box, NEW files
    PROVE  CommandOK(c, box, files)
BY DEF CommandOK, Working

LEMMA AcceptOK ==
    ASSUME D1IInv, NEW w \in Writer, NEW lines \in Exports, Accept(w, lines),
           UNCHANGED <<settings, inbox, blob, interrupts>>
    PROVE  D1IInv'
<1>1. PICK root \in Roots : writer' = [writer EXCEPT ![w] = [Idle EXCEPT !.pc = "open", !.todo = Prepared(lines, root)]]
  BY DEF Accept
<1> DEFINE batch == Prepared(lines, root)
           c == [Idle EXCEPT !.pc = "open", !.todo = batch]
<1>2. batch \in Batches /\ batch \in Seq(Observation)
  <2>1. lines \in Seq(Line)
    BY DiscoveryAssumption
  <2>2. batch \in Batches
    BY DEF Batches
  <2> QED
    BY <2>1, <2>2, PreparedTyped
<1> HIDE DEF batch
<1>3. c \in Command /\ c.pc = "open" /\ c.todo = batch /\ c.verdict = <<>> /\ c.base = Inbox!Nothing
      /\ c.copied = {}
  BY <1>2, CommandFacts DEF Command, Idle
<1> HIDE DEF c
<1>4. Importing(c)
  <2>1. Len(batch) \in Nat /\ 0 \in 0..Len(batch)
    BY <1>2, LenProperties
  <2>2. Left(batch, batch, 0)
    BY <2>1 DEF Left
  <2> QED
    BY <1>2, <1>3, <2>1, <2>2 DEF Importing
<1>5. CommandOK(c, inbox, blob')
  BY <1>3, <1>4, WaitingOK DEF Working
<1>6. writer' = [writer EXCEPT ![w] = c]
  BY <1>1 DEF c, batch
<1> QED
  BY <1>3, <1>5, <1>6, StepOK DEF D1IInv, D1TypeOK

LEMMA StartReviewOK ==
    ASSUME D1IInv, NEW w \in Writer, StartReview(w)
    PROVE  D1IInv'
<1>1. PICK l \in Lead, label \in Labels :
          writer' = [writer EXCEPT ![w] =
              [Idle EXCEPT !.pc = "open", !.verdict = <<[lead |-> l, label |-> label]>>]]
  BY DEF StartReview
<1> DEFINE v == [lead |-> l, label |-> label]
           c == [Idle EXCEPT !.pc = "open", !.verdict = <<v>>]
<1>2. v \in VerdictRow /\ <<v>> \in Seq(VerdictRow)
  BY DEF VerdictRow
<1> HIDE DEF v
<1>3. c \in Command /\ c.pc = "open" /\ c.todo = <<>> /\ c.verdict = <<v>> /\ c.base = Inbox!Nothing
      /\ c.copied = {}
  BY <1>2, CommandFacts DEF Command, Idle
<1> HIDE DEF c
<1>4. Judging(c)
  BY <1>2, <1>3 DEF Judging
<1>5. CommandOK(c, inbox, blob)
  BY <1>3, <1>4, WaitingOK DEF Working
<1>6. writer' = [writer EXCEPT ![w] = c] /\ UNCHANGED <<settings, inbox, blob, interrupts>>
  BY <1>1 DEF c, v, StartReview
<1> QED
  BY <1>3, <1>5, <1>6, StepOK DEF D1IInv, D1TypeOK

\* A command returns to rest, or starts a refresh.
LEMMA RestOK ==
    ASSUME D1IInv, NEW w \in Writer,
           \/ StartRefresh(w) \/ Return(w) \/ Fail(w)
    PROVE  D1IInv'
<1> DEFINE r == [Idle EXCEPT !.pc = "refreshing"]
<1>1. r \in Command /\ r.pc = "refreshing" /\ r.base = Inbox!Nothing
  BY CommandFacts DEF Command, Idle
<1>2. CommandOK(Idle, inbox, blob) /\ CommandOK(r, inbox, blob)
  BY <1>1, CommandFacts, WaitingOK DEF Working
<1>3. UNCHANGED <<settings, inbox, blob, interrupts>>
      /\ (writer' = [writer EXCEPT ![w] = Idle] \/ writer' = [writer EXCEPT ![w] = r])
  <2>1. CASE StartRefresh(w)
    BY <2>1 DEF StartRefresh
  <2>2. CASE Return(w) \/ Fail(w)
    BY <2>2 DEF Return, Fail
  <2> QED
    BY <2>1, <2>2
<1> HIDE DEF r
<1> QED
  BY <1>1, <1>2, <1>3, CommandFacts, StepOK DEF D1IInv, D1TypeOK

LEMMA BatchTyped ==
    ASSUME NEW batch \in Batches
    PROVE  batch \in Seq(Observation) /\ Len(batch) \in Nat
<1>1. Exports \subseteq Seq(Line)
  BY DiscoveryAssumption
<1>2. PICK lines \in Exports, root \in Roots : batch = Prepared(lines, root)
  BY DEF Batches
<1>3. batch \in Seq(Observation)
  BY <1>1, <1>2, PreparedTyped
<1> QED
  BY <1>3, LenProperties

\* new_generation: the draft of a command is the inbox it takes.
LEMMA NewGenerationOK ==
    ASSUME D1IInv, NEW w \in Writer, NewGeneration(w)
    PROVE  D1IInv'
<1> DEFINE o == writer[w]
           c == [o EXCEPT !.pc = "copy", !.base = inbox, !.draft = inbox]
<1>1. /\ o \in Command /\ CommandOK(o, inbox, blob) /\ o.pc = "open"
      /\ inbox \in Generation /\ Published(inbox) /\ WholeIn(blob, inbox)
      /\ UNCHANGED <<settings, inbox, blob, interrupts>>
  BY DEF D1IInv, D1TypeOK, NewGeneration
<1>2. writer' = [writer EXCEPT ![w] = c]
  BY DEF NewGeneration
<1> HIDE DEF o
<1>3. /\ c \in Command /\ c.pc = "copy" /\ c.base = inbox /\ c.draft = inbox
      /\ c.todo = o.todo /\ c.copied = o.copied /\ c.verdict = o.verdict /\ c.stale = o.stale
  <2> DEFINE c1 == [o EXCEPT !.pc = "copy"]
             c2 == [c1 EXCEPT !.base = inbox]
  <2>1. c1 \in Command
    BY <1>1 DEF Command
  <2>2. c2 \in Command
    BY <1>1, <2>1 DEF Command
  <2>3. c = [c2 EXCEPT !.draft = inbox]
    OBVIOUS
  <2>4. c \in Command
    <3> HIDE DEF c2, c
    <3> QED
      BY <1>1, <2>2, <2>3 DEF Command
  <2> QED
    BY <1>1, <2>4 DEF Command
<1> HIDE DEF c
<1>4. Importing(c) \/ Judging(c)
  <2>1. CASE Importing(o)
    <3>1. PICK batch \in Batches : \E k \in 0..Len(batch) : Left(o.todo, batch, k) /\ k = 0
      BY <1>1, <2>1 DEF Importing
    <3>2. Left(c.todo, batch, 0) /\ 0 \in 0..Len(batch) /\ c.draft = Inbox!Imported(c.base, batch)[0]
      BY <1>3, <3>1, BatchTyped, ImportedFacts
    <3> QED
      BY <1>3, <2>1, <3>1, <3>2 DEF Importing
  <2>2. CASE Judging(o)
    BY <1>1, <1>3, <2>2 DEF Judging
  <2> QED
    BY <1>1, <2>1, <2>2 DEF CommandOK
<1>5. inbox # Inbox!Nothing /\ Keeps(inbox, inbox)
  BY <1>1, EmptyFacts, KeepsItself
<1>6. CommandOK(c, inbox, blob)
  BY <1>1, <1>3, <1>4, <1>5 DEF CommandOK, Working
<1> QED
  BY <1>1, <1>2, <1>3, <1>6, StepOK DEF D1IInv, D1TypeOK

\* A command that has files to copy is not finished with its batch.
LEMMA CopyFacts ==
    ASSUME NEW c \in Command, c.todo # <<>>
    PROVE  Len(c.todo) \in Nat /\ 1 \in 1..Len(c.todo) /\ Head(c.todo) = c.todo[1]
           /\ Head(c.todo) \in Observation
<1>1. c.todo \in Seq(Observation)
  BY CommandFacts
<1> QED
  BY <1>1

\* What a command applies to the inbox it took is not touched by copying files.
LEMMA Copying ==
    ASSUME NEW o \in Command, NEW c \in Command, o.pc \in Working, c.pc \in Working,
           c.todo = o.todo, c.verdict = o.verdict, c.base = o.base, c.draft = o.draft,
           c.stale = o.stale, NEW box, NEW files, NEW later,
           \A b \in Blob : files[b] = "whole" => later[b] = "whole",
           CommandOK(o, box, files),
           c.pc = "copy" => \A b \in c.copied : later[b] = "whole"
    PROVE  CommandOK(c, box, later)
<1>1. CommandOK(o, box, later)
  BY FilesGrow
<1>2. Importing(c) \/ Judging(c)
  <2>1. CASE Importing(o)
    BY <2>1 DEF Importing, Working
  <2>2. CASE Judging(o)
    BY <2>2 DEF Judging, Working
  <2> QED
    BY <2>1, <2>2 DEF CommandOK
<1> QED
  BY <1>1, <1>2 DEF CommandOK, Working

LEMMA CopyBlobOK ==
    ASSUME D1IInv, NEW w \in Writer, CopyBlob(w)
    PROVE  D1IInv'
<1> DEFINE o == writer[w]
<1>1. /\ o \in Command /\ CommandOK(o, inbox, blob) /\ o.pc = "copy" /\ o.todo # <<>>
      /\ UNCHANGED <<settings, inbox, interrupts>>
      /\ blob \in [Blob -> {"absent", "partial", "whole"}]
  BY DEF D1IInv, D1TypeOK, CopyBlob
<1>2. PICK b \in Pending(w) :
        \/ /\ blob[b] = "whole"
           /\ writer' = [writer EXCEPT ![w] = [o EXCEPT !.copied = @ \union {b}]]
           /\ UNCHANGED blob
        \/ /\ blob[b] = "absent"
           /\ blob' = [blob EXCEPT ![b] = "partial"]
           /\ writer' = [writer EXCEPT ![w] = [o EXCEPT !.pc = "write", !.copied = @ \union {b}]]
  BY DEF CopyBlob, Usable
<1>3. b \in Blob
  <2>1. Head(o.todo) \in Observation
    BY <1>1, CopyFacts
  <2> QED
    BY <1>2, <2>1 DEF Pending, Observation
<1> DEFINE c1 == [o EXCEPT !.copied = @ \union {b}]
           c2 == [c1 EXCEPT !.pc = "write"]
<1> HIDE DEF o
<1>4. /\ c1 \in Command /\ c1.pc = "copy" /\ c1.copied = o.copied \union {b}
      /\ c1.todo = o.todo /\ c1.verdict = o.verdict /\ c1.base = o.base /\ c1.draft = o.draft
      /\ c1.stale = o.stale
  BY <1>1, <1>3 DEF Command
<1>5. c2 = [o EXCEPT !.pc = "write", !.copied = @ \union {b}]
  BY <1>1 DEF Command
<1> HIDE DEF c1
<1>6. /\ c2 \in Command /\ c2.pc = "write"
      /\ c2.todo = o.todo /\ c2.verdict = o.verdict /\ c2.base = o.base /\ c2.draft = o.draft
      /\ c2.stale = o.stale
  BY <1>4 DEF Command
<1> HIDE DEF c2
<1>7. CASE blob[b] = "whole" /\ writer' = [writer EXCEPT ![w] = c1] /\ blob' = blob
  <2>1. CommandOK(c1, inbox, blob)
    <3>1. \A d \in c1.copied : blob[d] = "whole"
      BY <1>1, <1>4, <1>7 DEF CommandOK
    <3> QED
      BY <1>1, <1>4, <3>1, Copying DEF Working
  <2> QED
    BY <1>1, <1>4, <1>7, <2>1, StepOK
<1>8. CASE blob[b] = "absent" /\ writer' = [writer EXCEPT ![w] = c2]
           /\ blob' = [blob EXCEPT ![b] = "partial"]
  <2>1. /\ blob' \in [Blob -> {"absent", "partial", "whole"}]
        /\ \A d \in Blob : blob[d] = "whole" => blob'[d] = "whole"
    BY <1>1, <1>3, <1>8
  <2>2. CommandOK(c2, inbox, blob')
    BY <1>1, <1>6, <2>1, Copying DEF Working
  <2> QED
    BY <1>1, <1>6, <1>8, <2>1, <2>2, StepOK
<1> QED
  BY <1>2, <1>5, <1>7, <1>8 DEF c1

LEMMA WriteBlobOK ==
    ASSUME D1IInv, NEW w \in Writer, WriteBlob(w)
    PROVE  D1IInv'
<1> DEFINE o == writer[w]
           c == [o EXCEPT !.pc = "copy"]
<1>1. /\ o \in Command /\ CommandOK(o, inbox, blob) /\ o.pc = "write"
      /\ UNCHANGED <<settings, inbox, interrupts>>
      /\ blob \in [Blob -> {"absent", "partial", "whole"}]
      /\ blob' = [b \in Blob |-> IF b \in o.copied THEN "whole" ELSE blob[b]]
      /\ writer' = [writer EXCEPT ![w] = c]
  BY DEF D1IInv, D1TypeOK, WriteBlob
<1> HIDE DEF o
<1>2. /\ c \in Command /\ c.pc = "copy" /\ c.copied = o.copied
      /\ c.todo = o.todo /\ c.verdict = o.verdict /\ c.base = o.base /\ c.draft = o.draft
      /\ c.stale = o.stale /\ c.copied \subseteq Blob
  BY <1>1 DEF Command
<1> HIDE DEF c
<1>3. /\ blob' \in [Blob -> {"absent", "partial", "whole"}]
      /\ \A b \in Blob : blob[b] = "whole" => blob'[b] = "whole"
      /\ \A b \in c.copied : blob'[b] = "whole"
  BY <1>1, <1>2
<1>4. CommandOK(c, inbox, blob')
  BY <1>1, <1>2, <1>3, Copying DEF Working
<1> QED
  BY <1>1, <1>2, <1>3, <1>4, StepOK

\* What is left of a batch when one more of it is observed.
LEMMA LeftTail ==
    ASSUME NEW S, NEW todo \in Seq(S), todo # <<>>, NEW batch, Len(batch) \in Nat,
           NEW k \in 0..Len(batch), Left(todo, batch, k)
    PROVE  /\ k + 1 \in 1..Len(batch) /\ k + 1 - 1 = k
           /\ Head(todo) = batch[k + 1]
           /\ Left(Tail(todo), batch, k + 1)
<1>1. Len(todo) \in Nat /\ Len(todo) > 0 /\ Len(todo) = Len(batch) - k
      /\ \A n \in 1..Len(todo) : todo[n] = batch[k + n]
  BY DEF Left
<1>2. Head(todo) = todo[1] /\ Len(Tail(todo)) = Len(todo) - 1
      /\ \A n \in 1..(Len(todo) - 1) : Tail(todo)[n] = todo[n + 1]
  BY <1>1
<1>3. \A n \in 1..(Len(todo) - 1) : Tail(todo)[n] = batch[k + 1 + n]
  <2> SUFFICES ASSUME NEW n \in 1..(Len(todo) - 1) PROVE Tail(todo)[n] = batch[k + 1 + n]
    OBVIOUS
  <2>1. n + 1 \in 1..Len(todo) /\ k + (n + 1) = k + 1 + n
    BY <1>1
  <2> QED
    BY <1>1, <1>2, <2>1
<1>4. k + 1 \in 1..Len(batch) /\ k + 1 - 1 = k /\ 1 \in 1..Len(todo)
  BY <1>1
<1> QED
  BY <1>1, <1>2, <1>3, <1>4 DEF Left

LEMMA InsertOK ==
    ASSUME D1IInv, NEW w \in Writer, Insert(w)
    PROVE  D1IInv'
<1> DEFINE a == writer[w]
           o == Head(a.todo)
           draft == IF Unchanged(a.draft, o) THEN a.draft ELSE Inserted(a.draft, o)
           c1 == [a EXCEPT !.todo = Tail(a.todo)]
           c2 == [c1 EXCEPT !.copied = {}]
           c == [c2 EXCEPT !.draft = draft]
<1>1. /\ a \in Command /\ CommandOK(a, inbox, blob) /\ a.pc = "copy" /\ a.todo # <<>>
      /\ o.copied \subseteq a.copied /\ inbox \in Generation
      /\ UNCHANGED <<settings, inbox, blob, interrupts>>
      /\ blob \in [Blob -> {"absent", "partial", "whole"}]
  BY DEF D1IInv, D1TypeOK, Insert, Pending
<1>2. writer' = [writer EXCEPT ![w] = c]
  BY DEF Insert
<1> HIDE DEF a
<1>3. /\ a.todo \in Seq(Observation) /\ a.draft \in Generation /\ Published(a.draft)
      /\ WholeIn(blob, a.draft) /\ (~a.stale => Keeps(a.draft, inbox))
      /\ \A b \in a.copied : blob[b] = "whole"
      /\ a.base # Inbox!Nothing /\ o \in Observation
  BY <1>1, CommandFacts, CopyFacts DEF CommandOK, Working
<1> HIDE DEF o
<1>4. /\ draft \in Generation /\ Published(draft) /\ WholeIn(blob, draft)
      /\ (~a.stale => Keeps(draft, inbox))
      /\ draft = Inbox!Observed(a.draft, o)
  BY <1>1, <1>3, ObservedFacts
<1> HIDE DEF draft
<1>5. c1 \in Command /\ c1.todo = Tail(a.todo) /\ c1.pc = "copy"
      /\ c1.verdict = a.verdict /\ c1.base = a.base /\ c1.stale = a.stale
  <2>1. Tail(a.todo) \in Seq(Observation)
    BY <1>1, <1>3, HeadTailProperties
  <2> QED
    BY <1>1, <2>1 DEF Command
<1> HIDE DEF c1
<1>6. c2 \in Command /\ c2.todo = Tail(a.todo) /\ c2.pc = "copy" /\ c2.copied = {}
      /\ c2.verdict = a.verdict /\ c2.base = a.base /\ c2.stale = a.stale
  BY <1>5 DEF Command
<1> HIDE DEF c2
<1>7. c \in Command /\ c.todo = Tail(a.todo) /\ c.pc = "copy" /\ c.copied = {} /\ c.draft = draft
      /\ c.verdict = a.verdict /\ c.base = a.base /\ c.stale = a.stale
  BY <1>4, <1>6 DEF Command
<1> HIDE DEF c
<1>8. Importing(c)
  <2>1. Importing(a)
    BY <1>1 DEF CommandOK, Working, Judging
  <2>2. PICK batch \in Batches : \E k \in 0..Len(batch) :
            Left(a.todo, batch, k) /\ a.draft = Inbox!Imported(a.base, batch)[k]
    BY <1>1, <2>1 DEF Importing
  <2>3. PICK k \in 0..Len(batch) : Left(a.todo, batch, k) /\ a.draft = Inbox!Imported(a.base, batch)[k]
    BY <2>2
  <2>4. Len(batch) \in Nat
    BY BatchTyped
  <2>5. /\ k + 1 \in 1..Len(batch) /\ k + 1 - 1 = k
        /\ Head(a.todo) = batch[k + 1] /\ Left(Tail(a.todo), batch, k + 1)
    BY <1>1, <1>3, <2>3, <2>4, LeftTail
  <2>6. Inbox!Imported(a.base, batch)[k + 1] = Inbox!Observed(a.draft, o)
    BY <2>3, <2>4, <2>5, ImportedFacts DEF o
  <2>7. k + 1 \in 0..Len(batch) /\ Left(c.todo, batch, k + 1) /\ c.verdict = <<>>
        /\ c.draft = Inbox!Imported(c.base, batch)[k + 1]
    BY <1>4, <1>7, <2>1, <2>4, <2>5, <2>6 DEF Importing
  <2> QED
    BY <1>7, <2>7 DEF Importing
<1>9. CommandOK(c, inbox, blob)
  BY <1>3, <1>4, <1>7, <1>8 DEF CommandOK, Working
<1> QED
  BY <1>1, <1>2, <1>7, <1>9, StepOK DEF c, c2, c1

LEMMA VerdictOK ==
    ASSUME D1IInv, NEW w \in Writer, Verdict(w)
    PROVE  D1IInv'
<1> DEFINE a == writer[w]
           v == Head(a.verdict)
           draft == [a.draft EXCEPT !.label[v.lead] = IF @ = Inbox!NoProposal THEN @ ELSE v.label,
                                    !.verdicts = Append(@, v)]
           c1 == [a EXCEPT !.verdict = <<>>]
           c == [c1 EXCEPT !.draft = draft]
<1>1. /\ a \in Command /\ CommandOK(a, inbox, blob) /\ a.pc = "copy" /\ a.verdict # <<>>
      /\ inbox \in Generation
      /\ UNCHANGED <<settings, inbox, blob, interrupts>>
      /\ blob \in [Blob -> {"absent", "partial", "whole"}]
  BY DEF D1IInv, D1TypeOK, Verdict
<1>2. writer' = [writer EXCEPT ![w] = c]
  BY DEF Verdict
<1> HIDE DEF a
<1>3. /\ a.draft \in Generation /\ Published(a.draft)
      /\ WholeIn(blob, a.draft) /\ (~a.stale => Keeps(a.draft, inbox))
      /\ \A b \in a.copied : blob[b] = "whole"
      /\ a.base # Inbox!Nothing
  BY <1>1, CommandFacts DEF CommandOK, Working
<1>4. v \in VerdictRow /\ a.todo = <<>> /\ a.draft = a.base
  <2>1. Judging(a)
    BY <1>1 DEF CommandOK, Working, Importing
  <2>2. PICK u \in VerdictRow : a.verdict = <<u>> /\ a.draft = a.base
    BY <1>1, <2>1 DEF Judging
  <2> QED
    BY <2>1, <2>2 DEF Judging
<1> HIDE DEF v
<1>5. /\ draft = Inbox!Labelled(a.base, v.lead, v.label)
      /\ draft \in Generation /\ draft.observations = a.draft.observations /\ Published(draft)
      /\ (~a.stale => Keeps(draft, inbox))
  <2>1. draft = Inbox!Labelled(a.draft, v.lead, v.label)
    BY <1>3, <1>4, LabelledFacts
  <2> HIDE DEF draft
  <2> QED
    BY <1>1, <1>3, <1>4, <2>1, LabelledFacts
<1> HIDE DEF draft
<1>6. WholeIn(blob, draft)
  BY <1>3, <1>5 DEF WholeIn
<1>7. c1 \in Command /\ c1.verdict = <<>> /\ c1.pc = "copy" /\ c1.copied = a.copied
      /\ c1.todo = a.todo /\ c1.base = a.base /\ c1.stale = a.stale
  <2>1. <<>> \in Seq(VerdictRow)
    OBVIOUS
  <2> QED
    BY <1>1, <2>1 DEF Command
<1> HIDE DEF c1
<1>8. c \in Command /\ c.verdict = <<>> /\ c.pc = "copy" /\ c.copied = a.copied /\ c.draft = draft
      /\ c.todo = a.todo /\ c.base = a.base /\ c.stale = a.stale
  BY <1>5, <1>7 DEF Command
<1> HIDE DEF c
<1>9. Judging(c)
  BY <1>4, <1>5, <1>8 DEF Judging
<1>10. CommandOK(c, inbox, blob)
  BY <1>3, <1>5, <1>6, <1>8, <1>9 DEF CommandOK, Working
<1> QED
  BY <1>1, <1>2, <1>8, <1>10, StepOK DEF c, c1

LEMMA ReplaceOK ==
    ASSUME D1IInv, NEW w \in Writer, Replace(w)
    PROVE  D1IInv'
<1>1. /\ writer \in [Writer -> Command] /\ writer[w].pc = "copy" /\ inbox' = writer[w].draft
      /\ UNCHANGED <<settings, blob, interrupts>> /\ D1TypeOK
      /\ \A v \in Writer : CommandOK(writer[v], inbox, blob)
  BY DEF D1IInv, D1TypeOK, Replace
<1>2. inbox' \in Generation /\ Published(inbox') /\ WholeIn(blob, inbox')
  BY <1>1, CommandFacts DEF CommandOK, Working
<1> DEFINE done == [Idle EXCEPT !.pc = "replaced"]
<1>3. done \in Command /\ done.pc = "replaced" /\ done.base = Inbox!Nothing
  BY CommandFacts DEF Command, Idle
<1>4. writer' = [v \in Writer |->
          IF v = w THEN done
          ELSE IF writer[v].pc \in {"idle", "refreshing", "open"} THEN writer[v]
          ELSE [writer[v] EXCEPT !.stale = TRUE]]
  BY DEF Replace
<1> HIDE DEF done
<1>5. ASSUME NEW v \in Writer
      PROVE  writer'[v] \in Command /\ CommandOK(writer'[v], inbox', blob)
  <2>1. CASE v = w
    BY <1>3, <1>4, <2>1, WaitingOK DEF Working
  <2>2. CASE v # w /\ writer[v].pc \in {"idle", "refreshing", "open"}
    <3>1. writer'[v] = writer[v] /\ writer[v] \in Command /\ writer[v].pc \notin Working
      BY <1>1, <1>4, <2>2 DEF Working
    <3> QED
      BY <1>1, <3>1 DEF CommandOK
  <2>3. CASE v # w /\ writer[v].pc \notin {"idle", "refreshing", "open"}
    <3> DEFINE o == writer[v]
               c == [o EXCEPT !.stale = TRUE]
    <3>1. writer'[v] = c /\ o \in Command /\ CommandOK(o, inbox, blob)
          /\ o.pc \notin {"idle", "refreshing", "open"}
      BY <1>1, <1>4, <2>3
    <3> HIDE DEF o
    <3>2. /\ c \in Command /\ c.stale = TRUE /\ c.pc = o.pc /\ c.todo = o.todo
          /\ c.copied = o.copied /\ c.verdict = o.verdict /\ c.base = o.base /\ c.draft = o.draft
      BY <3>1 DEF Command
    <3> HIDE DEF c
    <3>3. c.pc \in Working => Importing(c) \/ Judging(c)
      BY <3>1, <3>2 DEF CommandOK, Importing, Judging, Working
    <3>4. CommandOK(c, inbox', blob)
      BY <3>1, <3>2, <3>3 DEF CommandOK, Working
    <3> QED
      BY <3>1, <3>2, <3>4
  <2> QED
    BY <2>1, <2>2, <2>3
<1>6. D1TypeOK'
  BY <1>1, <1>2, <1>4, <1>5 DEF D1TypeOK
<1> QED
  BY <1>1, <1>2, <1>5, <1>6 DEF D1IInv, Published

LEMMA InterruptOK ==
    ASSUME D1IInv, NEW w \in Writer, Interrupt(w)
    PROVE  D1IInv'
<1>1. /\ writer \in [Writer -> Command] /\ writer' = [writer EXCEPT ![w] = Idle]
      /\ inbox' \in {inbox, Inbox!Empty} /\ UNCHANGED <<settings, blob>> /\ D1TypeOK
      /\ \A v \in Writer : CommandOK(writer[v], inbox, blob)
      /\ Published(inbox) /\ WholeIn(blob, inbox) /\ inbox \in Generation
  BY DEF D1IInv, D1TypeOK, Interrupt
<1>2. inbox' \in Generation /\ Published(inbox') /\ WholeIn(blob, inbox')
  BY <1>1, EmptyFacts
<1>3. interrupts' \in 0..MaxInterrupts
  <2>1. MaxInterrupts \in Nat
    BY DiscoveryAssumption
  <2> QED
    BY <2>1 DEF Interrupt, D1IInv, D1TypeOK
<1>4. ASSUME NEW v \in Writer
      PROVE  writer'[v] \in Command /\ CommandOK(writer'[v], inbox', blob)
  <2>1. CASE v = w
    BY <1>1, <2>1, CommandFacts, WaitingOK DEF Working
  <2>2. CASE v # w
    <3>1. writer'[v] = writer[v] /\ writer[v] \in Command /\ CommandOK(writer[v], inbox, blob)
      BY <1>1, <2>2
    <3>2. Keeps(writer[v].draft, inbox) => Keeps(writer[v].draft, inbox')
      BY <1>1, <3>1, CommandFacts, EmptyFacts
    <3> QED
      BY <3>1, <3>2 DEF CommandOK
  <2> QED
    BY <2>1, <2>2
<1>5. D1TypeOK'
  BY <1>1, <1>2, <1>3, CommandFacts DEF D1TypeOK
<1> QED
  BY <1>1, <1>2, <1>4, <1>5 DEF D1IInv, Published

LEMMA NextD1IInv == D1IInv /\ [D1Next]_d1vars => D1IInv'
<1> SUFFICES ASSUME D1IInv, [D1Next]_d1vars PROVE D1IInv'
  OBVIOUS
<1>1. CASE Configure \/ Switch
  <2>1. UNCHANGED <<inbox, blob, writer, interrupts>> /\ settings' \in {"absent", "off", "on"}
    BY <1>1 DEF Configure, Switch
  <2>2. D1TypeOK'
    BY <2>1 DEF D1IInv, D1TypeOK
  <2> QED
    BY <2>1, <2>2 DEF D1IInv, Published
<1>2. CASE UNCHANGED d1vars
  <2>1. UNCHANGED <<settings, inbox, blob, writer, interrupts>>
    BY <1>2 DEF d1vars
  <2>2. D1TypeOK'
    BY <2>1 DEF D1IInv, D1TypeOK
  <2> QED
    BY <2>1, <2>2 DEF D1IInv, Published
<1>3. ASSUME NEW w \in Writer, Step(w) PROVE D1IInv'
  <2>1. CASE StartImport(w) \/ Refreshed(w)
    BY <2>1, AcceptOK DEF StartImport, Refreshed
  <2>2. CASE StartReview(w)
    BY <2>2, StartReviewOK
  <2>3. CASE StartRefresh(w) \/ Return(w) \/ Fail(w)
    BY <2>3, RestOK
  <2>4. CASE NewGeneration(w)
    BY <2>4, NewGenerationOK
  <2>5. CASE CopyBlob(w)
    BY <2>5, CopyBlobOK
  <2>6. CASE WriteBlob(w)
    BY <2>6, WriteBlobOK
  <2>7. CASE Insert(w)
    BY <2>7, InsertOK
  <2>8. CASE Verdict(w)
    BY <2>8, VerdictOK
  <2>9. CASE Replace(w)
    BY <2>9, ReplaceOK
  <2>10. CASE Interrupt(w)
    BY <2>10, InterruptOK
  <2> QED
    BY <1>3, <2>1, <2>2, <2>3, <2>4, <2>5, <2>6, <2>7, <2>8, <2>9, <2>10 DEF Step
<1> QED
  BY <1>1, <1>2, <1>3 DEF D1Next

(* The inductive invariant: what is taken and drafted by every command.    *)
THEOREM CommandsAreWhole == D1Spec => []D1IInv
BY InitD1IInv, NextD1IInv, PTL DEF D1Spec

(* The inbox, its evidence and every command keep their types.             *)
THEOREM InboxTypeCorrect == D1Spec => []D1TypeOK
<1>1. D1IInv => D1TypeOK
  BY DEF D1IInv
<1> QED
  BY <1>1, CommandsAreWhole, PTL

(* Every piece of evidence the inbox links to is there whole, for any      *)
(* number of commands over one evidence directory.                         *)
THEOREM LinkedEvidence == D1Spec => []EvidenceIsOwned
<1>1. ASSUME D1IInv PROVE EvidenceIsOwned
  <2>1. inbox.observations \in Seq(Observation) /\ WholeIn(blob, inbox)
    BY <1>1, GenerationFacts DEF D1IInv, D1TypeOK
  <2>2. ToSet(inbox.observations) = {inbox.observations[n] : n \in DOMAIN inbox.observations}
    BY DEF ToSet
  <2>3. ASSUME NEW b \in Allowed PROVE blob[b] = "whole"
    <3>1. PICK n \in DOMAIN inbox.observations : b \in inbox.observations[n].copied
      BY <2>2 DEF Allowed
    <3> QED
      BY <2>1, <3>1 DEF WholeIn
  <2> QED
    BY <2>3 DEF EvidenceIsOwned, Served
<1> QED
  BY <1>1, CommandsAreWhole, PTL

(* A publication no other overtook loses nothing the inbox held.           *)
THEOREM HistoryKept == D1Spec => OnlyOverlapLoses
<1> DEFINE Kept == \A w \in Writer : Replace(w) /\ ~writer[w].stale => Keeps(inbox', inbox)
<1>1. D1IInv /\ [D1Next]_d1vars => [Kept]_d1vars
  BY DEF D1IInv, CommandOK, Working, Replace
<1> QED
  BY <1>1, CommandsAreWhole, PTL DEF D1Spec, OnlyOverlapLoses

-----------------------------------------------------------------------------
(***************************************************************************)
(* Discovery implements ProposalInbox                                       *)
(***************************************************************************)
Taken == [w \in Writer |-> writer[w].base]

LEMMA TakenByOne ==
    ASSUME D1IInv, NEW w \in Writer, NEW c, writer' = [writer EXCEPT ![w] = c]
    PROVE  /\ Taken' = [Taken EXCEPT ![w] = c.base]
           /\ c.base = writer[w].base => Taken' = Taken
BY DEF D1IInv, D1TypeOK, Taken

LEMMA StuttersOrAbandons ==
    ASSUME D1IInv, NEW w \in Writer,
           \/ StartImport(w) \/ StartReview(w) \/ StartRefresh(w) \/ Refreshed(w)
           \/ CopyBlob(w) \/ WriteBlob(w) \/ Insert(w) \/ Verdict(w)
           \/ Return(w) \/ Fail(w)
    PROVE  inbox' = inbox /\ (Taken' = Taken \/ Taken' = [Taken EXCEPT ![w] = Inbox!Nothing])
<1> USE DEF D1IInv, D1TypeOK
<1>1. writer \in [Writer -> Command] /\ CommandOK(writer[w], inbox, blob)
  OBVIOUS
<1>2. Idle.base = Inbox!Nothing
  BY DEF Idle
<1> HIDE DEF D1IInv, D1TypeOK
<1>3. CASE StartImport(w) \/ Refreshed(w)
  <2>1. PICK lines \in Exports, root \in Roots :
            writer' = [writer EXCEPT ![w] = [Idle EXCEPT !.pc = "open", !.todo = Prepared(lines, root)]]
    BY <1>3 DEF StartImport, Refreshed, Accept
  <2> DEFINE c == [Idle EXCEPT !.pc = "open", !.todo = Prepared(lines, root)]
  <2>2. c.base = Inbox!Nothing
    BY DEF Idle
  <2> HIDE DEF c
  <2>3. Taken' = [Taken EXCEPT ![w] = Inbox!Nothing]
    BY <2>1, <2>2, TakenByOne DEF c
  <2> QED
    BY <1>3, <2>3 DEF StartImport, Refreshed
<1>4. CASE StartReview(w)
  <2>1. PICK l \in Lead, label \in Labels :
            writer' = [writer EXCEPT ![w] =
                [Idle EXCEPT !.pc = "open", !.verdict = <<[lead |-> l, label |-> label]>>]]
    BY <1>4 DEF StartReview
  <2> DEFINE c == [Idle EXCEPT !.pc = "open", !.verdict = <<[lead |-> l, label |-> label]>>]
  <2>2. c.base = Inbox!Nothing
    BY DEF Idle
  <2> HIDE DEF c
  <2>3. Taken' = [Taken EXCEPT ![w] = Inbox!Nothing]
    BY <2>1, <2>2, TakenByOne DEF c
  <2> QED
    BY <1>4, <2>3 DEF StartReview
<1>5. CASE Return(w) \/ Fail(w)
  <2>1. writer' = [writer EXCEPT ![w] = Idle]
    BY <1>5 DEF Return, Fail
  <2> QED
    BY <1>2, <1>5, <2>1, TakenByOne DEF Return, Fail
<1> DEFINE a == writer[w]
<1>0. a \in Command
  BY <1>1
<1>6. CASE StartRefresh(w) \/ WriteBlob(w)
  <2>1. PICK x : writer' = [writer EXCEPT ![w] = [a EXCEPT !.pc = x]]
    BY <1>6 DEF StartRefresh, WriteBlob
  <2>2. [a EXCEPT !.pc = x].base = a.base
    BY <1>0 DEF Command
  <2> QED
    BY <1>6, <2>1, <2>2, TakenByOne DEF StartRefresh, WriteBlob
<1>7. CASE CopyBlob(w)
  <2>1. PICK b \in Pending(w) :
            \/ writer' = [writer EXCEPT ![w] = [a EXCEPT !.copied = @ \union {b}]]
            \/ writer' = [writer EXCEPT ![w] = [a EXCEPT !.pc = "write", !.copied = @ \union {b}]]
    BY <1>7 DEF CopyBlob
  <2> DEFINE c1 == [a EXCEPT !.copied = @ \union {b}]
             c2 == [a EXCEPT !.pc = "write", !.copied = @ \union {b}]
  <2>2. c1.base = a.base /\ c2.base = a.base
    BY <1>0 DEF Command
  <2>3. writer' = [writer EXCEPT ![w] = c1] \/ writer' = [writer EXCEPT ![w] = c2]
    BY <2>1
  <2> HIDE DEF c1, c2
  <2> QED
    BY <1>7, <2>2, <2>3, TakenByOne DEF CopyBlob
<1>8. CASE Insert(w)
  <2> DEFINE o == Head(a.todo)
             c == [a EXCEPT !.todo = Tail(@), !.copied = {},
                            !.draft = IF Unchanged(@, o) THEN @ ELSE Inserted(@, o)]
  <2>1. writer' = [writer EXCEPT ![w] = c]
    BY <1>8 DEF Insert
  <2>2. c.base = a.base
    BY <1>0 DEF Command
  <2> HIDE DEF c
  <2> QED
    BY <1>8, <2>1, <2>2, TakenByOne DEF Insert
<1>9. CASE Verdict(w)
  <2> DEFINE v == Head(a.verdict)
             draft == [a.draft EXCEPT !.label[v.lead] = IF @ = Inbox!NoProposal THEN @ ELSE v.label,
                                      !.verdicts = Append(@, v)]
             c1 == [a EXCEPT !.verdict = <<>>]
             c == [c1 EXCEPT !.draft = draft]
  <2>1. writer' = [writer EXCEPT ![w] = c]
    BY <1>9 DEF Verdict
  <2>2. c.base = a.base
    <3> HIDE DEF draft
    <3>1. c1 \in [pc : {a.pc}, todo : {a.todo}, copied : {a.copied}, verdict : {<<>>},
                  base : {a.base}, draft : {a.draft}, stale : {a.stale}]
      BY <1>0 DEF Command
    <3> HIDE DEF c1
    <3> QED
      BY <3>1
  <2> HIDE DEF c
  <2> QED
    BY <1>9, <2>1, <2>2, TakenByOne DEF Verdict
<1> QED
  BY <1>3, <1>4, <1>5, <1>6, <1>7, <1>8, <1>9

\* What a command publishes is one operation applied to the inbox it took.
LEMMA PublishedIsOneOperation ==
    ASSUME D1IInv, NEW w \in Writer, Replace(w)
    PROVE  /\ writer[w].base # Inbox!Nothing /\ inbox' = writer[w].draft
           /\ Taken' = [Taken EXCEPT ![w] = Inbox!Nothing]
           /\ \/ \E batch \in Batches :
                    inbox' = Inbox!Imported(writer[w].base, batch)[Len(batch)]
              \/ \E v \in VerdictRow : inbox' = Inbox!Labelled(writer[w].base, v.lead, v.label)
<1> DEFINE a == writer[w]
<1>1. /\ a \in Command /\ CommandOK(a, inbox, blob) /\ a.pc = "copy"
      /\ a.todo = <<>> /\ a.verdict = <<>> /\ inbox' = a.draft
      /\ writer \in [Writer -> Command]
  BY DEF D1IInv, D1TypeOK, Replace, Finished
<1>2. a.base # Inbox!Nothing /\ (Importing(a) \/ Judging(a))
  BY <1>1 DEF CommandOK, Working
<1> DEFINE OneOperation ==
      \/ \E batch \in Batches : inbox' = Inbox!Imported(a.base, batch)[Len(batch)]
      \/ \E v \in VerdictRow : inbox' = Inbox!Labelled(a.base, v.lead, v.label)
<1>3. ASSUME Importing(a) PROVE OneOperation
  <2>1. PICK batch \in Batches : \E k \in 0..Len(batch) :
            Left(a.todo, batch, k) /\ a.draft = Inbox!Imported(a.base, batch)[k]
    BY <1>1, <1>3 DEF Importing
  <2>2. PICK k \in 0..Len(batch) :
            Left(a.todo, batch, k) /\ a.draft = Inbox!Imported(a.base, batch)[k]
    BY <2>1
  <2>3. k = Len(batch)
    <3>1. Len(batch) \in Nat /\ Len(a.todo) = 0
      BY <1>1, BatchTyped
    <3> QED
      BY <2>2, <3>1 DEF Left
  <2> QED
    BY <1>1, <2>2, <2>3
<1>4. ASSUME Judging(a) PROVE OneOperation
  <2>1. \A v : <<v>> # <<>>
    OBVIOUS
  <2> QED
    BY <1>1, <1>4, <2>1 DEF Judging
<1>5. Taken' = [Taken EXCEPT ![w] = Inbox!Nothing]
  <2>1. ASSUME NEW v \in Writer
        PROVE  writer'[v].base = IF v = w THEN Inbox!Nothing ELSE writer[v].base
    <3> DEFINE o == writer[v]
    <3>1. o \in Command
      BY <1>1
    <3>2. [Idle EXCEPT !.pc = "replaced"].base = Inbox!Nothing
      BY DEF Idle
    <3>3. [o EXCEPT !.stale = TRUE].base = o.base
      BY <3>1 DEF Command
    <3>4. writer'[v] = IF v = w THEN [Idle EXCEPT !.pc = "replaced"]
                       ELSE IF o.pc \in {"idle", "refreshing", "open"} THEN o
                       ELSE [o EXCEPT !.stale = TRUE]
      BY DEF Replace
    <3> QED
      BY <3>2, <3>3, <3>4
  <2> QED
    BY <2>1 DEF Taken
<1> QED
  BY <1>1, <1>2, <1>3, <1>4, <1>5

(* Discovery implements ProposalInbox: copying the generation is taking it, *)
(* replacing CURRENT publishes one whole import or one verdict applied to   *)
(* what was taken, an interrupt after it loses it, and the rest is unseen.  *)
THEOREM InboxRefinement == D1Spec => ImplementsInbox
<1>1. D1Init => Inbox!Init
  BY DEF D1Init, Inbox!Init, Idle
<1>2. ASSUME D1IInv, [D1Next]_d1vars
      PROVE  Inbox!Next \/ (inbox' = inbox /\ Taken' = Taken)
  <2>1. CASE Configure \/ Switch \/ UNCHANGED d1vars
    BY <2>1 DEF Configure, Switch, d1vars, Taken
  <2>2. ASSUME NEW w \in Writer, Step(w)
        PROVE  Inbox!Next \/ (inbox' = inbox /\ Taken' = Taken)
    <3>1. CASE NewGeneration(w)
      <4>1. Taken[w] = Inbox!Nothing
        BY <1>2, <3>1 DEF NewGeneration, D1IInv, CommandOK, Working, Taken
      <4>2. Taken' = [Taken EXCEPT ![w] = inbox] /\ inbox' = inbox
        <5> DEFINE a == writer[w]
                   c == [a EXCEPT !.pc = "copy", !.base = inbox, !.draft = inbox]
        <5>1. a \in Command
          BY <1>2 DEF D1IInv, D1TypeOK
        <5>2. c.base = inbox
          BY <5>1 DEF Command
        <5>3. writer' = [writer EXCEPT ![w] = c] /\ inbox' = inbox
          BY <3>1 DEF NewGeneration
        <5> HIDE DEF c
        <5> QED
          BY <1>2, <5>2, <5>3, TakenByOne
      <4>3. Inbox!Take(w)
        BY <4>1, <4>2 DEF Taken, Inbox!Take
      <4> QED
        BY <4>3 DEF Inbox!Next
    <3>2. CASE Replace(w)
      <4>1. Taken[w] = writer[w].base /\ Taken[w] # Inbox!Nothing
            /\ Taken' = [Taken EXCEPT ![w] = Inbox!Nothing]
        BY <1>2, <3>2, PublishedIsOneOperation DEF Taken
      <4>2. CASE \E batch \in Batches :
                    inbox' = Inbox!Imported(writer[w].base, batch)[Len(batch)]
        <5>1. PICK batch \in Batches : inbox' = Inbox!Imported(Taken[w], batch)[Len(batch)]
          BY <4>1, <4>2
        <5>2. Inbox!Publish(w, Inbox!Imported(Taken[w], batch)[Len(batch)])
          BY <4>1, <5>1 DEF Inbox!Publish, Taken
        <5>3. Inbox!Import(w)
          BY <5>2, SMT DEF Inbox!Import, Batches, Taken
        <5> QED
          BY <5>3 DEF Inbox!Next
      <4>3. CASE \E v \in VerdictRow : inbox' = Inbox!Labelled(writer[w].base, v.lead, v.label)
        <5>1. PICK v \in VerdictRow : inbox' = Inbox!Labelled(Taken[w], v.lead, v.label)
          BY <4>1, <4>3
        <5>2. Inbox!Review(w)
          BY <4>1, <5>1 DEF Inbox!Review, Inbox!Publish, VerdictRow, Taken
        <5> QED
          BY <5>2 DEF Inbox!Next
      <4> QED
        BY <1>2, <3>2, <4>2, <4>3, PublishedIsOneOperation
    <3>3. CASE Interrupt(w)
      <4>1. Taken' = Taken
        <5>1. writer' = [writer EXCEPT ![w] = Idle] /\ writer[w].base = Inbox!Nothing
          BY <1>2, <3>3 DEF Interrupt, D1IInv, CommandOK, Working
        <5>2. Idle.base = Inbox!Nothing
          BY DEF Idle
        <5> QED
          BY <1>2, <5>1, <5>2, TakenByOne
      <4>2. inbox' = inbox \/ inbox' = Inbox!Empty
        BY <3>3 DEF Interrupt
      <4> QED
        BY <4>1, <4>2 DEF Inbox!Next, Inbox!Lose, Taken
    <3>4. CASE ~(NewGeneration(w) \/ Replace(w) \/ Interrupt(w))
      <4>1. inbox' = inbox /\ (Taken' = Taken \/ Taken' = [Taken EXCEPT ![w] = Inbox!Nothing])
        BY <1>2, <2>2, <3>4, StuttersOrAbandons DEF Step
      <4> QED
        BY <4>1 DEF Inbox!Next, Inbox!Abandon, Taken
    <3> QED
      BY <3>1, <3>2, <3>3, <3>4
  <2> QED
    BY <1>2, <2>1, <2>2 DEF D1Next
<1>3. D1IInv /\ [D1Next]_d1vars => [Inbox!Next]_(Inbox!vars)
  BY <1>2 DEF Inbox!vars, Taken
<1> QED
  BY <1>1, <1>3, CommandsAreWhole, PTL DEF D1Spec, ImplementsInbox, Inbox!Spec
=============================================================================

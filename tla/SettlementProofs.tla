-------------------------- MODULE SettlementProofs --------------------------
(* What holds of BundlerService as long as no loop outlives the lock and    *)
(* the database answers: the two tables agree, outcomes are final, and the  *)
(* bundler implements Settlement; and what it takes for a failed operation  *)
(* never to have been executed.                                             *)
EXTENDS BundlerProofs, FiniteSetTheorems

Premise == TtlOutlivesBundle /\ "db" \notin Faults

-----------------------------------------------------------------------------
(* What a loop's rows and bundle say at each await *)

\* Where the outcome of the batch is not yet written to its rows.
Undecided == {"create", "submit", "markSubmitted", "wait", "confirmBundle", "confirmOps",
              "failBundle", "failTooLong", "failOps"}

FollowsLoop(l) ==
    /\ pc[l] \in Undecided => batch[l] \subseteq Pending
    /\ pc[l] \in Working => \A r \in batch[l] : bundleOf[r] = current[l]
    /\ pc[l] \in Working => payload[current[l]] \in {{}, batch[l]}
    /\ pc[l] \in {"failBundle", "failTooLong"} =>
            bstatus[current[l]] \in {"pending", "submitted"}
    /\ pc[l] = "confirmOps" => bstatus[current[l]] = "confirmed"
    /\ pc[l] \in {"failOps", "removeOps"} => bstatus[current[l]] = "failed"
    /\ pc[l] = "removeOps" => \A r \in payload[current[l]] : status[r] # "pending"
    /\ pc[l] \notin Working \cup {"release"} => current[l] = NoBundle

NothingSent == \A b \in Bundles : tx[b] = "none" => payload[b] = {}

AgreeInv ==
    /\ OutcomeInv /\ LockInv /\ RowsOnly
    /\ \A l \in Loops : FollowsLoop(l)
    /\ NothingSent
    /\ TablesAgree

LEMMA AgreeInit == Init => AgreeInv
  <1> SUFFICES ASSUME Init PROVE AgreeInv
    OBVIOUS
  <1>1. OutcomeInv /\ LockInv /\ RowsOnly
    BY OutcomeInit, LockInit, NonceInit DEF NonceInv
  <1>2. (\A l \in Loops : FollowsLoop(l)) /\ NothingSent
    BY DEF Init, BundlerInit, FollowsLoop, NothingSent, Undecided, Working
  <1>3. TablesAgree
    BY DEF Init, StoreInit, TablesAgree, Settled
  <1> QED
    BY <1>1, <1>2, <1>3 DEF AgreeInv

\* While one loop bundles the others have nothing.
LEMMA LoopAlone ==
  ASSUME AgreeInv, NEW l \in Loops, pc[l] \in Critical, NEW m \in Loops, m # l
  PROVE  pc[m] \in {"idle", "acquire"} /\ current[m] = NoBundle
  <1>1. pc[m] \notin Critical
    BY DEF AgreeInv, LockInv, LockIsHeld
  <1>2. pc[m] \in {"idle", "acquire"}
    BY <1>1 DEF AgreeInv, LockInv, TypeOK
  <1> QED
    BY <1>2 DEF AgreeInv, FollowsLoop, Working

\* A loop that has nothing is not disturbed by another.
LEMMA NothingToFollow ==
  ASSUME NEW m \in Loops, pc'[m] \in {"idle", "acquire"}, current'[m] = NoBundle
  PROVE  FollowsLoop(m)'
  BY BundlerAssumption DEF FollowsLoop, Undecided, Working

LEMMA OthersFollow ==
  ASSUME AgreeInv, NEW l \in Loops, pc[l] \in Critical,
         \A m \in Loops : m # l => pc'[m] = pc[m] /\ current'[m] = current[m],
         FollowsLoop(l)'
  PROVE  \A m \in Loops : FollowsLoop(m)'
  BY LoopAlone, NothingToFollow

\* A step that leaves rows, bundles and loops alone.
LEMMA AgreeUntouched ==
  ASSUME AgreeInv, UNCHANGED <<status, tableVars, payload, loopVars>>
  PROVE  (\A l \in Loops : FollowsLoop(l)') /\ TablesAgree'
  <1>1. \A l \in Loops : FollowsLoop(l)'
    BY DEF AgreeInv, FollowsLoop, Pending, tableVars, loopVars
  <1>2. TablesAgree'
    BY DEF AgreeInv, TablesAgree, tableVars
  <1> QED
    BY <1>1, <1>2

\* A loop that moves on without writing anything.
LEMMA AgreeMoves ==
  ASSUME AgreeInv, NEW l \in Loops, pc[l] \in Critical, NEW next \in Critical,
         GoTo(l, next), UNCHANGED <<status, tableVars, payload, batch, current>>,
         \/ pc[l] \in {"failTooLong", "removeOps"} /\ next = "release"
         \/ pc[l] \in {"submit", "wait"} /\ next \in {"failBundle", "failTooLong"}
         \/ pc[l] = "wait" /\ next = "confirmBundle"
  PROVE  (\A m \in Loops : FollowsLoop(m)') /\ TablesAgree'
  <1>1. FollowsLoop(l) /\ RowFollowsLoop /\ pc'[l] = next
    BY DEF AgreeInv, OutcomeInv, TypeOK, GoTo
  <1>2. FollowsLoop(l)'
    BY <1>1 DEF RowFollowsLoop, FollowsLoop, Undecided, Working, Pending, tableVars
  <1>3. \A m \in Loops : m # l => pc'[m] = pc[m] /\ current'[m] = current[m]
    BY DEF AgreeInv, OutcomeInv, TypeOK, GoTo
  <1>4. TablesAgree'
    BY DEF AgreeInv, TablesAgree, tableVars
  <1> QED
    BY <1>2, <1>3, <1>4, OthersFollow

\* A write of the loop's bundle, which no settled row points at.
LEMMA AgreeBundleWritten ==
  ASSUME AgreeInv, NEW l \in Loops, NEW s \in OpStatus, NEW next \in Critical,
         GoTo(l, next), bstatus' = [bstatus EXCEPT ![current[l]] = s],
         UNCHANGED <<status, bundleOf, payload, batch, current>>,
         \/ pc[l] = "markSubmitted" /\ s = "submitted" /\ next = "wait"
         \/ pc[l] = "confirmBundle" /\ s = "confirmed" /\ next = "confirmOps"
         \/ pc[l] = "failBundle" /\ s = "failed" /\ next = "failOps"
  PROVE  (\A m \in Loops : FollowsLoop(m)') /\ TablesAgree'
  <1>1. current[l] \in Bundles /\ bstatus[current[l]] \in {"pending", "submitted"}
    BY DEF AgreeInv, OutcomeInv, OwnBundle, RowFollowsLoop, FollowsLoop, Working
  <1>2. FollowsLoop(l)'
    BY <1>1 DEF AgreeInv, OutcomeInv, TypeOK, GoTo, FollowsLoop, Undecided, Working, Pending
  <1>3. \A m \in Loops : m # l => pc'[m] = pc[m] /\ current'[m] = current[m]
    BY DEF AgreeInv, OutcomeInv, TypeOK, GoTo
  <1>4. TablesAgree'
    BY <1>1 DEF AgreeInv, OutcomeInv, TypeOK, TablesAgree, Settled
  <1>5. pc[l] \in Critical
    BY DEF Critical
  <1> QED
    BY <1>2, <1>3, <1>4, <1>5, OthersFollow

\* A write of the batch's rows, to what their bundle says.
LEMMA AgreeOpsWritten ==
  ASSUME AgreeInv, NEW l \in Loops, NEW s \in Settled, NEW next \in Critical,
         GoTo(l, next), SetStatus(batch[l], s),
         UNCHANGED <<tableVars, payload, batch, current>>,
         \/ pc[l] = "confirmOps" /\ s = "confirmed" /\ next = "release"
         \/ pc[l] = "failOps" /\ s = "failed" /\ next = "removeOps"
  PROVE  (\A m \in Loops : FollowsLoop(m)') /\ TablesAgree'
  <1>1. /\ current[l] \in Bundles /\ bstatus[current[l]] = s
        /\ \A r \in batch[l] : bundleOf[r] = current[l]
        /\ payload[current[l]] \in {{}, batch[l]} /\ batch[l] \subseteq Ids
    BY DEF AgreeInv, OutcomeInv, TypeOK, OwnBundle, FollowsLoop, Working
  <1>2. \A r \in batch[l] : status'[r] = s
    BY <1>1 DEF SetStatus
  <1>3. FollowsLoop(l)'
    BY <1>1, <1>2
    DEF AgreeInv, OutcomeInv, TypeOK, GoTo, FollowsLoop, Undecided, Working, Settled, tableVars
  <1>4. \A m \in Loops : m # l => pc'[m] = pc[m] /\ current'[m] = current[m]
    BY DEF AgreeInv, OutcomeInv, TypeOK, GoTo
  <1>5. TablesAgree'
    BY <1>1, BundlerAssumption
    DEF AgreeInv, OutcomeInv, TypeOK, TablesAgree, SetStatus, tableVars
  <1>6. pc[l] \in Critical
    BY DEF Critical
  <1> QED
    BY <1>3, <1>4, <1>5, <1>6, OthersFollow

\* Loops that end, or have not begun, have nothing to follow.
LEMMA AgreeEnds ==
  ASSUME AgreeInv, UNCHANGED <<status, tableVars, payload>>,
         \A l \in Loops : \/ pc'[l] = pc[l] /\ batch'[l] = batch[l] /\ current'[l] = current[l]
                          \/ pc'[l] \in {"idle", "acquire"} /\ current'[l] = NoBundle
  PROVE  (\A l \in Loops : FollowsLoop(l)') /\ TablesAgree'
  <1>1. ASSUME NEW l \in Loops PROVE FollowsLoop(l)'
    <2>1. CASE pc'[l] = pc[l] /\ batch'[l] = batch[l] /\ current'[l] = current[l]
      BY <2>1 DEF AgreeInv, FollowsLoop, Pending, tableVars
    <2>2. CASE pc'[l] \in {"idle", "acquire"} /\ current'[l] = NoBundle
      BY <2>2, NothingToFollow
    <2> QED
      BY <2>1, <2>2
  <1>2. TablesAgree'
    BY DEF AgreeInv, TablesAgree, tableVars
  <1> QED
    BY <1>1, <1>2

\* createBundle takes over pending rows only, and a bundle nobody points at.
LEMMA AgreeBundleCreated ==
  ASSUME AgreeInv, NEW l \in Loops, CreateBundle(l), "db" \notin Faults
  PROVE  (\A m \in Loops : FollowsLoop(m)') /\ TablesAgree'
  <1>1. PICK b \in Bundles :
            /\ bstatus[b] = "absent"
            /\ bstatus' = [bstatus EXCEPT ![b] = "pending"]
            /\ bundleOf' = [r \in Ids |-> IF r \in batch[l] THEN b ELSE bundleOf[r]]
            /\ current' = [current EXCEPT ![l] = b]
            /\ GoTo(l, "submit")
    BY DEF CreateBundle, Fault
  <1>2. pc[l] = "create" /\ UNCHANGED <<status, batch, payload, tx>>
    BY DEF CreateBundle, At, chainVars
  <1>3. batch[l] \subseteq Pending /\ payload[b] = {}
    BY <1>1, <1>2 DEF AgreeInv, FollowsLoop, Undecided, NothingSent, OutcomeInv, TxFollowsLoop
  <1>4. /\ pc'[l] = "submit" /\ current'[l] = b /\ \A r \in batch[l] : bundleOf'[r] = b
    BY <1>1, <1>3 DEF GoTo, AgreeInv, OutcomeInv, TypeOK, Pending
  <1>5. FollowsLoop(l)'
    BY <1>1, <1>2, <1>3, <1>4, BundlerAssumption DEF FollowsLoop, Undecided, Working, Pending
  <1>6. \A m \in Loops : m # l => pc'[m] = pc[m] /\ current'[m] = current[m]
    BY <1>1 DEF AgreeInv, OutcomeInv, TypeOK, GoTo
  <1>7. TablesAgree'
    BY <1>1, <1>2, <1>3 DEF AgreeInv, OutcomeInv, TypeOK, TablesAgree, Settled, Pending
  <1>8. pc[l] \in Critical
    BY <1>2 DEF Critical
  <1> QED
    BY <1>5, <1>6, <1>7, <1>8, OthersFollow

LEMMA AgreeFetched ==
  ASSUME AgreeInv, NEW l \in Loops, FetchPending(l), "db" \notin Faults
  PROVE  (\A m \in Loops : FollowsLoop(m)') /\ TablesAgree'
  <1>1. PICK S \in SUBSET Ids :
            /\ S \subseteq Pending
            /\ batch' = [batch EXCEPT ![l] = S]
            /\ GoTo(l, "release") \/ GoTo(l, "create")
    BY DEF FetchPending, Fault, IsOldestPending
  <1>2. pc[l] = "fetch" /\ UNCHANGED <<status, current, tableVars, payload>>
    BY DEF FetchPending, At, chainVars
  <1>3. current[l] = NoBundle
    BY <1>2 DEF AgreeInv, FollowsLoop, Working
  <1>4. FollowsLoop(l)'
    BY <1>1, <1>2, <1>3, BundlerAssumption
    DEF AgreeInv, OutcomeInv, TypeOK, GoTo, FollowsLoop, Undecided, Working, Pending
  <1>5. \A m \in Loops : m # l => pc'[m] = pc[m] /\ current'[m] = current[m]
    BY <1>1, <1>2 DEF AgreeInv, OutcomeInv, TypeOK, GoTo
  <1>6. TablesAgree'
    BY <1>2 DEF AgreeInv, TablesAgree, tableVars
  <1>7. pc[l] \in Critical
    BY <1>2 DEF Critical
  <1> QED
    BY <1>4, <1>5, <1>6, <1>7, OthersFollow

\* What is sent is the batch.
LEMMA AgreeSubmitted ==
  ASSUME AgreeInv, NEW l \in Loops, SubmitBundle(l)
  PROVE  (\A m \in Loops : FollowsLoop(m)') /\ TablesAgree'
  <1>1. pc[l] = "submit" /\ UNCHANGED <<status, batch, current, tableVars>>
    BY DEF SubmitBundle, At
  <1>2. CASE UNCHANGED chainVars /\ (GoTo(l, "failBundle") \/ GoTo(l, "failTooLong"))
    BY <1>1, <1>2, AgreeMoves DEF chainVars, Critical
  <1>3. CASE /\ Broadcast(l)
             /\ \E next \in {"markSubmitted", "failBundle", "failTooLong"} : GoTo(l, next)
    <2>1. current[l] \in Bundles /\ bstatus[current[l]] = "pending"
      BY <1>1 DEF AgreeInv, OutcomeInv, OwnBundle, RowFollowsLoop, Working
    <2>2. payload'[current[l]] = batch[l]
      BY <1>3, <2>1 DEF Broadcast, AgreeInv, OutcomeInv, TypeOK
    <2>3. FollowsLoop(l)'
      BY <1>1, <1>3, <2>1, <2>2
      DEF AgreeInv, OutcomeInv, TypeOK, GoTo, FollowsLoop, Undecided, Working, Pending, tableVars
    <2>4. \A m \in Loops : m # l => pc'[m] = pc[m] /\ current'[m] = current[m]
      BY <1>1, <1>3 DEF AgreeInv, OutcomeInv, TypeOK, GoTo
    <2>5. TablesAgree'
      BY <1>1 DEF AgreeInv, TablesAgree, tableVars
    <2>6. pc[l] \in Critical
      BY <1>1 DEF Critical
    <2> QED
      BY <2>3, <2>4, <2>5, <2>6, OthersFollow
  <1> QED
    BY <1>2, <1>3 DEF SubmitBundle, Catch, CatchShort, CatchLong

LEMMA AgreeLoopStep ==
  ASSUME AgreeInv, NEW l \in Loops, LoopStep(l), "db" \notin Faults
  PROVE  (\A m \in Loops : FollowsLoop(m)') /\ TablesAgree'
  <1>1. CASE AcquireBundleLock(l)
    <2>1. pc[l] = "acquire" /\ UNCHANGED <<status, batch, current, tableVars, payload>>
      BY <1>1 DEF AcquireBundleLock, At, chainVars
    <2>2. current[l] = NoBundle
      BY <2>1 DEF AgreeInv, FollowsLoop, Working
    <2>3. pc'[l] \in {"fetch", "idle"} /\ \A m \in Loops : m # l => pc'[m] = pc[m]
      BY <1>1 DEF AcquireBundleLock, GoTo, AgreeInv, OutcomeInv, TypeOK
    <2>4. FollowsLoop(l)'
      BY <2>1, <2>2, <2>3, BundlerAssumption DEF FollowsLoop, Undecided, Working
    <2>5. \A m \in Loops : m # l => FollowsLoop(m)'
      BY <2>1, <2>3 DEF AgreeInv, FollowsLoop, Pending, tableVars
    <2>6. TablesAgree'
      BY <2>1 DEF AgreeInv, TablesAgree, tableVars
    <2> QED
      BY <2>4, <2>5, <2>6
  <1>2. CASE FetchPending(l)
    BY <1>2, AgreeFetched
  <1>3. CASE CreateBundle(l)
    BY <1>3, AgreeBundleCreated
  <1>4. CASE SubmitBundle(l)
    BY <1>4, AgreeSubmitted
  <1>5. CASE MarkSubmitted(l) \/ ConfirmBundle(l) \/ FailBundle(l)
    BY <1>5, AgreeBundleWritten
    DEF MarkSubmitted, ConfirmBundle, FailBundle, WriteBundle, At, Fault, Critical, OpStatus,
        chainVars
  <1>6. CASE AwaitReceipt(l)
    BY <1>6, AgreeMoves DEF AwaitReceipt, Catch, CatchShort, CatchLong, At, Critical, chainVars
  <1>7. CASE ConfirmOps(l) \/ FailOps(l)
    BY <1>7, AgreeOpsWritten
    DEF ConfirmOps, FailOps, WriteOps, At, Fault, Critical, Settled, chainVars
  <1>8. CASE RemoveFailedOps(l)
    BY <1>8, AgreeMoves DEF RemoveFailedOps, At, Critical, chainVars
  <1>9. CASE ReleaseBundleLock(l)
    BY <1>9, AgreeEnds
    DEF ReleaseBundleLock, GoTo, AgreeInv, OutcomeInv, TypeOK, chainVars
  <1>10. CASE FailBundleTooLong(l)
    BY <1>10, AgreeMoves DEF FailBundleTooLong, At, Critical, storeVars, chainVars
  <1> QED
    BY <1>1, <1>2, <1>3, <1>4, <1>5, <1>6, <1>7, <1>8, <1>9, <1>10 DEF LoopStep

\* A new row is pending and in nobody's hands.
LEMMA AgreeEnqueued ==
  ASSUME AgreeInv, NEW r \in Ids, NEW h \in Hashes, Enqueue(r, h)
  PROVE  (\A l \in Loops : FollowsLoop(l)') /\ TablesAgree'
  <1>1. /\ status[r] = "absent" /\ status' = [status EXCEPT ![r] = "pending"]
        /\ UNCHANGED <<loopVars, tableVars, payload>>
    BY DEF Enqueue, InsertRow, bundlerVars, chainVars
  <1>2. ASSUME NEW l \in Loops PROVE FollowsLoop(l)'
    <2>1. Pending \subseteq Pending'
      BY <1>1 DEF Pending, AgreeInv, OutcomeInv, TypeOK, StoreTypeOK
    <2>2. \A b \in Bundles : \A q \in payload[b] : status'[q] = status[q]
      BY <1>1 DEF AgreeInv, RowsOnly, Recorded, OutcomeInv, TypeOK, StoreTypeOK
    <2> QED
      BY <1>1, <2>1, <2>2
      DEF AgreeInv, OutcomeInv, OwnBundle, FollowsLoop, Working, loopVars, tableVars
  <1>3. TablesAgree'
    BY <1>1 DEF AgreeInv, OutcomeInv, TypeOK, StoreTypeOK, TablesAgree, Settled, tableVars
  <1> QED
    BY <1>2, <1>3

LEMMA NothingSentStep ==
  ASSUME AgreeInv, [Next]_vars
  PROVE  NothingSent'
  <1>1. ASSUME NEW b \in Bundles, tx'[b] = "none"
        PROVE  tx[b] = "none" /\ payload'[b] = payload[b]
    BY <1>1
    DEF Next, BundlerStep, LoopStep, Start, Stop, Exit, Tick, AcquireBundleLock, FetchPending,
        CreateBundle, SubmitBundle, Broadcast, MarkSubmitted, AwaitReceipt, ConfirmBundle,
        ConfirmOps, FailBundle, FailBundleTooLong, FailOps, WriteBundle, WriteOps,
        RemoveFailedOps, ReleaseBundleLock, MineTx, RevertTx, LockExpire, Enqueue, AgreeInv,
        OutcomeInv, TypeOK, vars, bundlerVars, chainVars
  <1> QED
    BY <1>1 DEF AgreeInv, NothingSent

LEMMA AgreeStep ==
  ASSUME Premise, AgreeInv, [Next]_vars
  PROVE  AgreeInv'
  <1> DEFINE Goal == (\A l \in Loops : FollowsLoop(l)') /\ TablesAgree'
  <1>1. (OutcomeInv /\ LockInv /\ RowsOnly /\ NothingSent)'
    <2>1. RowsOnly'
      BY RowsStay, BatchesAreRows DEF AgreeInv, OutcomeInv, RowsOnly
    <2> QED
      BY <2>1, OutcomeStep, LockStep, NothingSentStep DEF Premise, AgreeInv
  <1>2. ASSUME NEW p \in Procs, Start(p) \/ Stop(p) \/ Exit(p)
        PROVE  Goal
    <2>1. UNCHANGED <<status, tableVars, payload>>
      BY <1>2 DEF Start, Stop, Exit, storeVars, chainVars
    <2>2. ASSUME NEW l \in Loops
          PROVE  \/ pc'[l] = pc[l] /\ batch'[l] = batch[l] /\ current'[l] = current[l]
                 \/ pc'[l] \in {"idle", "acquire"} /\ current'[l] = NoBundle
      BY <1>2 DEF Start, Stop, Exit, GoTo, At, AgreeInv, OutcomeInv, TypeOK, FollowsLoop,
                  Working, loopVars
    <2> QED
      BY <2>1, <2>2, AgreeEnds
  <1>3. ASSUME NEW l \in Loops, Tick(l)
        PROVE  Goal
    <2>1. UNCHANGED <<status, tableVars, payload>>
      BY <1>3 DEF Tick, storeVars, chainVars
    <2>2. ASSUME NEW m \in Loops
          PROVE  \/ pc'[m] = pc[m] /\ batch'[m] = batch[m] /\ current'[m] = current[m]
                 \/ pc'[m] \in {"idle", "acquire"} /\ current'[m] = NoBundle
      BY <1>3 DEF Tick, GoTo, At, AgreeInv, OutcomeInv, TypeOK, FollowsLoop, Working
    <2> QED
      BY <2>1, <2>2, AgreeEnds
  <1>4. ASSUME NEW l \in Loops, LoopStep(l)
        PROVE  Goal
    BY <1>4, AgreeLoopStep DEF Premise
  <1>5. ASSUME NEW b \in Bundles, MineTx(b) \/ RevertTx(b)
        PROVE  Goal
    BY <1>5, AgreeUntouched DEF MineTx, RevertTx, storeVars
  <1>6. ASSUME NEW r \in Ids, NEW h \in Hashes, Enqueue(r, h)
        PROVE  Goal
    BY <1>6, AgreeEnqueued
  <1>7. ASSUME LockExpire \/ UNCHANGED vars
        PROVE  Goal
    BY <1>7, AgreeUntouched DEF LockExpire, vars, storeVars, bundlerVars, chainVars
  <1>8. Goal
    BY <1>2, <1>3, <1>4, <1>5, <1>6, <1>7 DEF Next, BundlerStep
  <1> QED
    BY <1>1, <1>8 DEF AgreeInv

\* Without database errors and as long as no loop outlives the lock, a settled row and
\* its bundle say the same, for any number of loops and through crashes, Redis errors
\* and lost answers (BundlerService.ts:117-139).
THEOREM TablesCorrect == Premise => (Spec => []TablesAgree)
  <1> SUFFICES ASSUME Premise PROVE Spec => []TablesAgree
    OBVIOUS
  <1>1. AgreeInv /\ [Next]_vars => AgreeInv'
    BY AgreeStep
  <1>2. AgreeInv => TablesAgree
    BY DEF AgreeInv
  <1> QED
    BY <1>1, <1>2, AgreeInit, PTL DEF Spec

-----------------------------------------------------------------------------
(* Outcomes are final *)

LEMMA FinalStep ==
  ASSUME Premise, AgreeInv, [Next]_vars
  PROVE  /\ \A r \in Ids : status[r] \in Settled => status'[r] = status[r]
         /\ \A b \in Bundles : bstatus[b] \in Settled => bstatus'[b] = bstatus[b]
  <1> DEFINE Goal == /\ \A r \in Ids : status[r] \in Settled => status'[r] = status[r]
                     /\ \A b \in Bundles : bstatus[b] \in Settled => bstatus'[b] = bstatus[b]
  <1>1. ASSUME NEW l \in Loops, ConfirmOps(l) \/ FailOps(l)
        PROVE  Goal
    <2>1. batch[l] \subseteq Pending
      BY <1>1 DEF ConfirmOps, FailOps, WriteOps, At, AgreeInv, FollowsLoop, Undecided
    <2>2. UNCHANGED bstatus /\ \E s \in Settled : SetStatus(batch[l], s)
      BY <1>1 DEF ConfirmOps, FailOps, WriteOps, Fault, Premise, Settled, tableVars
    <2> QED
      BY <2>1, <2>2 DEF SetStatus, Pending, Settled
  <1>2. ASSUME NEW r \in Ids, NEW h \in Hashes, Enqueue(r, h)
        PROVE  Goal
    BY <1>2
    DEF Enqueue, InsertRow, AgreeInv, OutcomeInv, TypeOK, StoreTypeOK, Settled, bundlerVars,
        tableVars
  <1>3. ASSUME NEW l \in Loops, CreateBundle(l)
        PROVE  Goal
    BY <1>3 DEF CreateBundle, AgreeInv, OutcomeInv, TypeOK, Settled, tableVars
  <1>4. ASSUME NEW l \in Loops, MarkSubmitted(l) \/ ConfirmBundle(l) \/ FailBundle(l)
        PROVE  Goal
    <2>1. bstatus[current[l]] \notin Settled
      BY <1>4 DEF MarkSubmitted, ConfirmBundle, FailBundle, WriteBundle, At, AgreeInv, OutcomeInv,
                  RowFollowsLoop, FollowsLoop, Settled
    <2> QED
      BY <1>4, <2>1 DEF MarkSubmitted, ConfirmBundle, FailBundle, WriteBundle, AgreeInv,
                        OutcomeInv, TypeOK
  <1>5. \/ \E l \in Loops : ConfirmOps(l) \/ FailOps(l) \/ CreateBundle(l) \/ MarkSubmitted(l)
                            \/ ConfirmBundle(l) \/ FailBundle(l)
        \/ \E r \in Ids, h \in Hashes : Enqueue(r, h)
        \/ UNCHANGED <<status, bstatus>>
    BY DEF Next, BundlerStep, LoopStep, Start, Stop, Exit, Tick, AcquireBundleLock, FetchPending,
           SubmitBundle, AwaitReceipt, FailBundleTooLong, RemoveFailedOps, ReleaseBundleLock,
           MineTx, RevertTx, LockExpire, vars, storeVars, bundlerVars, tableVars
  <1> QED
    BY <1>1, <1>2, <1>3, <1>4, <1>5

\* Under the same premise no loop rewrites an outcome, its own or another's
\* (BundlerService.ts:117-139).
THEOREM FinalCorrect == Premise => (Spec => SettledIsFinal)
  <1> SUFFICES ASSUME Premise PROVE Spec => SettledIsFinal
    OBVIOUS
  <1>1. AgreeInv /\ [Next]_vars => AgreeInv'
    BY AgreeStep
  <1>2. AgreeInv /\ [Next]_vars =>
          [/\ \A r \in Ids : status[r] \in Settled => status'[r] = status[r]
           /\ \A b \in Bundles : bstatus[b] \in Settled => bstatus'[b] = bstatus[b]]_vars
    BY FinalStep
  <1> QED
    BY <1>1, <1>2, AgreeInit, PTL DEF Spec, SettledIsFinal

-----------------------------------------------------------------------------
(* Only an exit, or an error whose message is too long, strands a bundle *)

\* A loop that bundles keeps what it has while others move.
LEMMA LoopWaits ==
  ASSUME AgreeInv, [Next]_vars, ~\E p \in Procs : Exit(p),
         NEW l \in Loops, pc[l] \in Critical, ~LoopStep(l)
  PROVE  pc'[l] = pc[l] /\ batch'[l] = batch[l] /\ current'[l] = current[l]
  <1>1. ASSUME NEW m \in Loops, LoopStep(m)
        PROVE  m # l /\ pc'[l] = pc[l] /\ UNCHANGED <<batch, current>>
    <2>1. m # l /\ pc[m] \in {"idle", "acquire"}
      BY <1>1, LoopAlone
    <2>2. AcquireBundleLock(m)
      BY <1>1, <2>1
      DEF LoopStep, FetchPending, CreateBundle, SubmitBundle, MarkSubmitted, AwaitReceipt,
          ConfirmBundle, ConfirmOps, FailBundle, FailBundleTooLong, FailOps, WriteBundle,
          WriteOps, RemoveFailedOps, ReleaseBundleLock, At
    <2> QED
      BY <2>1, <2>2 DEF AcquireBundleLock, GoTo, AgreeInv, OutcomeInv, TypeOK
  <1>2. ASSUME NEW m \in Loops, At(m, "idle"), GoTo(m, "acquire")
        PROVE  pc'[l] = pc[l]
    BY <1>2 DEF At, Critical, GoTo, AgreeInv, OutcomeInv, TypeOK
  <1>3. \/ \E m \in Loops : LoopStep(m)
        \/ /\ \E m \in Loops : At(m, "idle") /\ GoTo(m, "acquire")
           /\ UNCHANGED <<batch, current>>
        \/ UNCHANGED loopVars
    BY DEF Next, BundlerStep, Start, Tick, Stop, MineTx, RevertTx, LockExpire, Enqueue, vars,
           bundlerVars, loopVars
  <1> QED
    BY <1>1, <1>2, <1>3 DEF loopVars

LEMMA StrandStep ==
  ASSUME Premise, AgreeInv, [Next]_vars,
         ~\E p \in Procs : Exit(p), ~\E l \in Loops : FailBundleTooLong(l),
         NEW b \in Bundles, ~Stranded(b)
  PROVE  ~Stranded(b)'
  <1>1. CASE Driven(b)
    <2>1. PICK l \in Loops : current[l] = b /\ pc[l] \in Critical \ {"release"}
      BY <1>1 DEF Driven
    <2>2. CASE ConfirmOps(l)
      <3>1. /\ pc[l] = "confirmOps" /\ SetStatus(batch[l], "confirmed")
            /\ UNCHANGED <<bstatus, payload>>
        BY <2>2 DEF ConfirmOps, WriteOps, At, Fault, Premise, tableVars, chainVars
      <3>2. bstatus[b] = "confirmed" /\ payload[b] \subseteq batch[l] /\ payload[b] \subseteq Ids
        BY <2>1, <3>1 DEF AgreeInv, FollowsLoop, Working, OutcomeInv, TypeOK
      <3> QED
        BY <3>1, <3>2 DEF SetStatus, Stranded, Unfinished
    <2>3. CASE RemoveFailedOps(l)
      <3>1. pc[l] = "removeOps" /\ UNCHANGED <<status, bstatus, payload>>
        BY <2>3 DEF RemoveFailedOps, At, tableVars, chainVars
      <3>2. bstatus[b] = "failed" /\ \A r \in payload[b] : status[r] # "pending"
        BY <2>1, <3>1 DEF AgreeInv, FollowsLoop
      <3> QED
        BY <3>1, <3>2 DEF Stranded, Unfinished
    <2>4. CASE ~ConfirmOps(l) /\ ~RemoveFailedOps(l)
      <3>1. pc[l] \in Working
        BY <2>1, BundlerAssumption DEF AgreeInv, LockInv, TypeOK, FollowsLoop, Critical
      <3>2. ASSUME LoopStep(l)
            PROVE  current'[l] = b /\ pc'[l] \in Critical \ {"release"}
        <4>1. UNCHANGED current /\ \E step \in Critical \ {"release"} : GoTo(l, step)
          BY <2>4, <3>1, <3>2
          DEF LoopStep, AcquireBundleLock, FetchPending, CreateBundle, SubmitBundle, Catch,
              CatchShort, CatchLong, MarkSubmitted, AwaitReceipt, ConfirmBundle, FailBundle,
              FailOps, WriteBundle, WriteOps, ReleaseBundleLock, At, Critical, Working, Fault,
              Premise
        <4> QED
          BY <2>1, <4>1 DEF GoTo, AgreeInv, OutcomeInv, TypeOK
      <3>3. ASSUME ~LoopStep(l)
            PROVE  current'[l] = b /\ pc'[l] \in Critical \ {"release"}
        BY <2>1, <3>3, LoopWaits
      <3> QED
        BY <3>2, <3>3 DEF Stranded, Driven
    <2> QED
      BY <2>2, <2>3, <2>4
  <1>2. CASE ~Driven(b) /\ ~Unfinished(b)
    <2>1. CASE \E l \in Loops : CreateBundle(l) /\ current'[l] = b
      <3>1. PICK l \in Loops : CreateBundle(l) /\ current'[l] = b
        BY <2>1
      <3>2. GoTo(l, "submit")
        BY <3>1 DEF CreateBundle, Fault, Premise
      <3>3. pc'[l] = "submit"
        BY <3>2 DEF GoTo, AgreeInv, OutcomeInv, TypeOK
      <3> QED
        BY <3>1, <3>3 DEF Stranded, Driven, Critical
    <2>2. CASE ~\E l \in Loops : CreateBundle(l) /\ current'[l] = b
      <3>1. \A l \in Loops : pc[l] \in Critical \ {"release"} => current[l] # b
        BY <1>2 DEF Driven
      <3>2. bstatus'[b] = bstatus[b] /\ payload'[b] = payload[b]
        BY <2>2, <3>1
        DEF Next, BundlerStep, LoopStep, Start, Stop, Exit, Tick, AcquireBundleLock,
            FetchPending, CreateBundle, SubmitBundle, Broadcast, MarkSubmitted, AwaitReceipt,
            ConfirmBundle, ConfirmOps, FailBundle, FailBundleTooLong, FailOps, WriteBundle,
            WriteOps, RemoveFailedOps, ReleaseBundleLock, MineTx, RevertTx, LockExpire, Enqueue,
            At, Fault, Premise, Critical, AgreeInv, OutcomeInv, TypeOK, vars, bundlerVars,
            tableVars, chainVars
      <3>3. \A r \in payload[b] : status'[r] # "pending"
        <4>1. \A r \in payload[b] : r \in Recorded /\ status[r] # "pending"
          BY <1>2 DEF Unfinished, AgreeInv, RowsOnly
        <4>2. \A r \in Recorded : status'[r] = "pending" => status[r] = "pending"
          BY DEF Next, BundlerStep, LoopStep, Start, Stop, Exit, Tick, AcquireBundleLock,
                 FetchPending, CreateBundle, SubmitBundle, MarkSubmitted, AwaitReceipt,
                 ConfirmBundle, ConfirmOps, FailBundle, FailBundleTooLong, FailOps, WriteBundle,
                 WriteOps, SetStatus, RemoveFailedOps, ReleaseBundleLock, MineTx, RevertTx,
                 LockExpire, Enqueue, InsertRow, Recorded, AgreeInv, OutcomeInv, TypeOK,
                 StoreTypeOK, vars, storeVars
        <4> QED
          BY <4>1, <4>2
      <3> QED
        BY <1>2, <3>2, <3>3 DEF Stranded, Unfinished
    <2> QED
      BY <2>1, <2>2
  <1> QED
    BY <1>1, <1>2 DEF Stranded

\* Under the same premise every error takes a bundle to its end but two: the exit of a
\* process, and an error whose message the column bundles.error cannot hold
\* (BundlerService.ts:96-152, Bundle.ts:29).
THEOREM StrandsCorrect == Premise => (Spec => OnlyExitOrLongErrorStrands)
  <1> SUFFICES ASSUME Premise PROVE Spec => OnlyExitOrLongErrorStrands
    OBVIOUS
  <1>1. AgreeInv /\ [Next]_vars => AgreeInv'
    BY AgreeStep
  <1>2. AgreeInv /\ [Next]_vars =>
          [(\E b \in Bundles : ~Stranded(b) /\ Stranded(b)') =>
              \/ \E p \in Procs : Exit(p)
              \/ \E l \in Loops : FailBundleTooLong(l)]_vars
    BY StrandStep
  <1> QED
    BY <1>1, <1>2, AgreeInit, PTL DEF Spec, OnlyExitOrLongErrorStrands

-----------------------------------------------------------------------------
(* Sending again takes a failure *)

\* Only the loop that has a bundle sends its transaction, and only the chain decides it.
LEMMA TxChanges ==
  ASSUME AgreeInv, [Next]_vars, NEW b \in Bundles, tx'[b] # tx[b]
  PROVE  \/ MineTx(b) \/ RevertTx(b)
         \/ \E l \in Loops : SubmitBundle(l) /\ current[l] = b
  BY DEF Next, BundlerStep, LoopStep, Start, Stop, Exit, Tick, AcquireBundleLock, FetchPending,
         CreateBundle, SubmitBundle, Broadcast, MarkSubmitted, AwaitReceipt, ConfirmBundle,
         ConfirmOps, FailBundle, FailBundleTooLong, FailOps, WriteBundle, WriteOps,
         RemoveFailedOps, ReleaseBundleLock, MineTx, RevertTx, LockExpire, Enqueue, AgreeInv,
         OutcomeInv, TypeOK, vars, bundlerVars, chainVars

\* The transactions of a row that the chain ran or may yet run.
Sent(r) == {b \in Bundles : r \in payload[b] /\ tx[b] # "reverted"}

\* Where a bundle was sent and its outcome is still to be written.
InHand == {"markSubmitted", "wait", "confirmBundle", "confirmOps", "failBundle", "failOps"}

Held(r) == \E l \in Loops : pc[l] \in InHand /\ current[l] \in Sent(r)

\* A row that a loop may still fetch and send was sent by loops that failed.
SentInv ==
    \A r \in Ids :
        /\ IsFiniteSet(Sent(r))
        /\ Cardinality(Sent(r)) <= 1 + faults
        /\ status[r] \in Settled \/ Held(r) \/ Cardinality(Sent(r)) <= faults

LEMMA OneMore ==
  ASSUME NEW S, IsFiniteSet(S), NEW x, NEW T, T \subseteq S \cup {x}
  PROVE  /\ IsFiniteSet(T) /\ Cardinality(T) \in Nat
         /\ Cardinality(T) <= Cardinality(S) + 1
  <1>1. /\ IsFiniteSet(S \cup {x})
        /\ Cardinality(S \cup {x}) = IF x \in S THEN Cardinality(S) ELSE Cardinality(S) + 1
    BY FS_AddElement
  <1>2. Cardinality(S) \in Nat
    BY FS_CardinalityType
  <1>3. Cardinality(S \cup {x}) <= Cardinality(S) + 1 /\ Cardinality(S \cup {x}) \in Nat
    BY <1>1, <1>2
  <1>4. IsFiniteSet(T) /\ Cardinality(T) <= Cardinality(S \cup {x})
    BY <1>1, FS_Subset
  <1>5. Cardinality(T) \in Nat
    BY <1>4, FS_CardinalityType
  <1> QED
    BY <1>2, <1>3, <1>4, <1>5

LEMMA SentInit == Init => SentInv
  <1> SUFFICES ASSUME Init, NEW r \in Ids
               PROVE  IsFiniteSet(Sent(r)) /\ Cardinality(Sent(r)) = 0 /\ faults = 0
    BY DEF SentInv
  <1>1. Sent(r) = {}
    BY DEF Sent, Init, BundlerInit
  <1> QED
    BY <1>1, FS_EmptySet DEF Init, StoreInit

LEMMA FaultsCount ==
  ASSUME TypeOK, [Next]_vars
  PROVE  faults \in Nat /\ faults' \in {faults, faults + 1}
  <1>1. faults \in Nat
    BY DEF TypeOK, StoreTypeOK
  <1>2. UNCHANGED faults \/ faults' = faults + 1
    BY DEF Next, BundlerStep, LoopStep, Start, Stop, Exit, Tick, AcquireBundleLock, FetchPending,
           CreateBundle, SubmitBundle, MarkSubmitted, AwaitReceipt, ConfirmBundle, ConfirmOps,
           FailBundle, FailBundleTooLong, FailOps, WriteBundle, WriteOps, RemoveFailedOps,
           ReleaseBundleLock, MineTx, RevertTx, LockExpire, Enqueue, Fault, NoFault, vars,
           storeVars
  <1> QED
    BY <1>1, <1>2

\* What a loop holds it goes on holding, without a failure, until it is settled or the
\* transaction reverts.
LEMMA HeldStays ==
  ASSUME Premise, AgreeInv, [Next]_vars, UNCHANGED faults, NEW r \in Ids, Held(r)
  PROVE  \/ Held(r)' \/ status'[r] \in Settled
         \/ \E b \in Sent(r) : RevertTx(b)
  <1>1. PICK l \in Loops : pc[l] \in InHand /\ current[l] \in Sent(r)
    BY DEF Held
  <1>2. pc[l] \in Critical /\ pc[l] \in Working
    BY <1>1 DEF InHand, Critical, Working
  <1>3. r \in batch[l] /\ current[l] \in Bundles /\ r \in payload[current[l]]
    BY <1>1, <1>2 DEF Sent, AgreeInv, FollowsLoop
  <1>4. ~\E p \in Procs : Exit(p)
    BY DEF Exit, Fault, AgreeInv, OutcomeInv, TypeOK, StoreTypeOK
  <1>5. ~Fault("lostAck") /\ ~Fault("rpc") /\ ~Fault("db")
    BY DEF Fault, AgreeInv, OutcomeInv, TypeOK, StoreTypeOK
  <1>6. CASE ~LoopStep(l)
    <2>1. pc'[l] = pc[l] /\ current'[l] = current[l]
      BY <1>2, <1>4, <1>6, LoopWaits
    <2>2. CASE current[l] \in Sent(r)'
      BY <1>1, <2>1, <2>2 DEF Held
    <2>3. CASE current[l] \notin Sent(r)'
      <3>1. \A m \in Loops : ~SubmitBundle(m)
        <4>1. ASSUME NEW m \in Loops, SubmitBundle(m) PROVE m = l
          BY <1>2, <4>1, LoopAlone DEF SubmitBundle, At
        <4> QED
          BY <1>6, <4>1 DEF LoopStep
      <3>2. UNCHANGED payload
        BY <3>1
        DEF Next, BundlerStep, LoopStep, Start, Stop, Exit, Tick, AcquireBundleLock, FetchPending,
            CreateBundle, MarkSubmitted, AwaitReceipt, ConfirmBundle, ConfirmOps, FailBundle,
            FailBundleTooLong, FailOps, WriteBundle, WriteOps, RemoveFailedOps, ReleaseBundleLock,
            MineTx, RevertTx, LockExpire, Enqueue, vars, bundlerVars, chainVars
      <3>3. tx'[current[l]] = "reverted" /\ tx[current[l]] # "reverted"
        BY <1>1, <1>3, <2>3, <3>2 DEF Sent
      <3>4. RevertTx(current[l])
        <4>1. MineTx(current[l]) => tx'[current[l]] = "mined"
          BY <1>3 DEF MineTx, AgreeInv, OutcomeInv, TypeOK
        <4> QED
          BY <1>3, <3>1, <3>3, <4>1, TxChanges
      <3> QED
        BY <1>1, <3>4
    <2> QED
      BY <2>2, <2>3
  <1>7. CASE ConfirmOps(l) \/ FailOps(l)
    BY <1>3, <1>7
    DEF ConfirmOps, FailOps, WriteOps, SetStatus, Fault, Premise, Settled, AgreeInv, OutcomeInv,
        TypeOK
  <1>8. CASE LoopStep(l) /\ ~ConfirmOps(l) /\ ~FailOps(l)
    <2>1. UNCHANGED <<current, tx, payload>> /\ \E step \in InHand : GoTo(l, step)
      BY <1>1, <1>5, <1>8
      DEF LoopStep, AcquireBundleLock, FetchPending, CreateBundle, SubmitBundle, MarkSubmitted,
          AwaitReceipt, CatchLong, ConfirmBundle, FailBundle, FailBundleTooLong, WriteBundle,
          RemoveFailedOps, ReleaseBundleLock, At, InHand, Sent, chainVars
    <2> QED
      BY <1>1, <2>1 DEF GoTo, Held, Sent, AgreeInv, OutcomeInv, TypeOK
  <1> QED
    BY <1>6, <1>7, <1>8

\* A row that was sent to a transaction which reverts has one less.
LEMMA OneLess ==
  ASSUME AgreeInv, NEW r \in Ids, NEW b \in Sent(r), RevertTx(b), IsFiniteSet(Sent(r))
  PROVE  Cardinality(Sent(r)') = Cardinality(Sent(r)) - 1
  <1>1. Sent(r)' = Sent(r) \ {b}
    BY DEF Sent, RevertTx, AgreeInv, OutcomeInv, TypeOK
  <1> QED
    BY <1>1, FS_RemoveElement

LEMMA SentStep ==
  ASSUME Premise, AgreeInv, SentInv, [Next]_vars
  PROVE  SentInv'
  <1> SUFFICES ASSUME NEW r \in Ids
               PROVE  /\ IsFiniteSet(Sent(r)')
                      /\ Cardinality(Sent(r)') <= 1 + faults'
                      /\ \/ status'[r] \in Settled
                         \/ Held(r)'
                         \/ Cardinality(Sent(r)') <= faults'
    BY DEF SentInv
  <1>1. faults \in Nat /\ faults' \in {faults, faults + 1}
    BY FaultsCount DEF AgreeInv, OutcomeInv
  <1>2. IsFiniteSet(Sent(r)) /\ Cardinality(Sent(r)) \in Nat
    BY FS_CardinalityType DEF SentInv
  <1>3. CASE Sent(r)' \subseteq Sent(r)
    <2>1. /\ IsFiniteSet(Sent(r)') /\ Cardinality(Sent(r)') \in Nat
          /\ Cardinality(Sent(r)') <= Cardinality(Sent(r))
      BY <1>2, <1>3, FS_Subset, FS_CardinalityType
    <2>2. CASE faults' = faults + 1
      BY <1>1, <1>2, <2>1, <2>2 DEF SentInv
    <2>3. CASE UNCHANGED faults
      <3>1. status[r] \in Settled => status'[r] \in Settled
        BY FinalStep
      <3>2. Held(r) => \/ Held(r)' \/ status'[r] \in Settled
                       \/ \E b \in Sent(r) : RevertTx(b)
        BY <2>3, HeldStays
      <3>3. (\E b \in Sent(r) : RevertTx(b)) => Cardinality(Sent(r)') = Cardinality(Sent(r)) - 1
        BY <1>2, OneLess
      <3> QED
        BY <1>1, <1>2, <2>1, <2>3, <3>1, <3>2, <3>3 DEF SentInv
    <2> QED
      BY <1>1, <2>2, <2>3
  <1>4. ASSUME NEW l \in Loops, SubmitBundle(l), Broadcast(l), r \in batch[l]
        PROVE  /\ IsFiniteSet(Sent(r)')
               /\ Cardinality(Sent(r)') <= 1 + faults'
               /\ Held(r)' \/ Cardinality(Sent(r)') <= faults'
    <2>1. pc[l] = "submit" /\ UNCHANGED <<batch, current>> /\ current[l] \in Bundles
      BY <1>4 DEF SubmitBundle, At, AgreeInv, OutcomeInv, OwnBundle, Working
    <2>2. status[r] \notin Settled
      BY <1>4, <2>1 DEF AgreeInv, FollowsLoop, Undecided, Pending, Settled
    <2>3. ~Held(r)
      BY <2>1, LoopAlone DEF Held, InHand, Critical
    <2>4. Cardinality(Sent(r)) <= faults
      BY <2>2, <2>3 DEF SentInv
    <2>5. Sent(r)' \subseteq Sent(r) \cup {current[l]} /\ current[l] \in Sent(r)'
      BY <1>4, <2>1 DEF Broadcast, Sent, AgreeInv, OutcomeInv, TypeOK
    <2>6. /\ IsFiniteSet(Sent(r)')
          /\ Cardinality(Sent(r)') \in Nat /\ Cardinality(Sent(r)') <= Cardinality(Sent(r)) + 1
      BY <1>2, <2>5, OneMore
    <2>7. pc'[l] \in InHand \/ faults' = faults + 1
      <3>1. tx'[current[l]] # tx[current[l]]
        BY <1>4, <2>1 DEF Broadcast, AgreeInv, OutcomeInv, TypeOK, TxFollowsLoop
      <3>2. GoTo(l, "markSubmitted") \/ Fault("lostAck")
        BY <1>4, <3>1 DEF SubmitBundle, chainVars
      <3> QED
        BY <3>2 DEF GoTo, Fault, InHand, AgreeInv, OutcomeInv, TypeOK
    <2> QED
      BY <1>1, <1>2, <2>1, <2>4, <2>5, <2>6, <2>7 DEF Held
  <1>5. \/ Sent(r)' \subseteq Sent(r)
        \/ \E l \in Loops : SubmitBundle(l) /\ Broadcast(l) /\ r \in batch[l]
    <2>1. UNCHANGED payload \/ \E l \in Loops : SubmitBundle(l) /\ Broadcast(l)
      BY DEF Next, BundlerStep, LoopStep, Start, Stop, Exit, Tick, AcquireBundleLock,
             FetchPending, CreateBundle, SubmitBundle, MarkSubmitted, AwaitReceipt,
             ConfirmBundle, ConfirmOps, FailBundle, FailBundleTooLong, FailOps, WriteBundle,
             WriteOps, RemoveFailedOps, ReleaseBundleLock, MineTx, RevertTx, LockExpire,
             Enqueue, vars, bundlerVars, chainVars
    <2>2. ASSUME NEW b \in Bundles, tx[b] = "reverted" PROVE tx'[b] = "reverted"
      <3>1. ~MineTx(b) /\ ~RevertTx(b)
        BY <2>2 DEF MineTx, RevertTx
      <3>2. ~\E l \in Loops : SubmitBundle(l) /\ current[l] = b
        BY <2>2 DEF SubmitBundle, At, AgreeInv, OutcomeInv, TxFollowsLoop
      <3> QED
        BY <2>2, <3>1, <3>2, TxChanges
    <2>3. CASE UNCHANGED payload
      BY <2>2, <2>3 DEF Sent
    <2>4. ASSUME NEW l \in Loops, SubmitBundle(l), Broadcast(l), r \notin batch[l]
          PROVE  Sent(r)' \subseteq Sent(r)
      <3>1. \A b \in Bundles : r \in payload'[b] => r \in payload[b]
        BY <2>4 DEF Broadcast, AgreeInv, OutcomeInv, TypeOK
      <3> QED
        BY <2>2, <3>1 DEF Sent
    <2> QED
      BY <2>1, <2>3, <2>4
  <1> QED
    BY <1>3, <1>4, <1>5

\* Under the same premise an operation has one transaction that the chain ran or may yet
\* run, and one more for each failure at most, whatever reverts (BundlerService.ts:76-152).
THEOREM ResentCorrect == Premise => (Spec => []ResentPerFailure)
  <1> SUFFICES ASSUME Premise PROVE Spec => []ResentPerFailure
    OBVIOUS
  <1>1. AgreeInv /\ SentInv /\ [Next]_vars => (AgreeInv /\ SentInv)'
    BY AgreeStep, SentStep
  <1>2. SentInv => ResentPerFailure
    BY DEF SentInv, Sent, ResentPerFailure
  <1> QED
    BY <1>1, <1>2, AgreeInit, SentInit, PTL DEF Spec

-----------------------------------------------------------------------------
(* The bundler implements Settlement *)

\* A transaction that may still be mined carries pending rows, or is lost.
LEMMA InflightIsPending ==
  ASSUME AgreeInv, NEW b \in Bundles, tx[b] = "inflight"
  PROVE  payload[b] \subseteq Pending \/ OutcomeLost
  <1>1. CASE bstatus[b] = "failed" \/ Stranded(b)
    BY <1>1 DEF OutcomeLost
  <1>2. CASE bstatus[b] # "failed" /\ ~Stranded(b)
    <2>1. bstatus[b] \in {"pending", "submitted"}
      BY <1>2 DEF AgreeInv, OutcomeInv, TypeOK, OpStatus, TxFollowsLoop, ConfirmedIsExecuted
    <2>2. PICK l \in Loops : current[l] = b /\ pc[l] \in Critical \ {"release"}
      BY <1>2, <2>1 DEF Stranded, Unfinished, Driven
    <2>3. pc[l] \in {"submit", "markSubmitted", "wait", "confirmBundle", "failBundle",
                     "failTooLong"}
      BY <2>1, <2>2, BundlerAssumption
      DEF AgreeInv, FollowsLoop, Working, Critical, Settled
    <2> QED
      BY <2>2, <2>3 DEF AgreeInv, FollowsLoop, Working, Undecided
  <1> QED
    BY <1>1, <1>2

\* A batch about to be recorded as failed was not executed, or some outcome is lost.
LEMMA FailedIsLost ==
  ASSUME AgreeInv, NEW l \in Loops, pc[l] = "failOps"
  PROVE  batch[l] \cap Executed = {} \/ OutcomeLost
  <1> SUFFICES ASSUME NEW r \in batch[l], NEW b \in Bundles, tx[b] = "mined", r \in payload[b]
               PROVE  OutcomeLost
    BY DEF Executed
  <1>1. status[r] = "pending" /\ bstatus[current[l]] = "failed"
    BY DEF AgreeInv, FollowsLoop, Undecided, Pending
  <1>2. CASE current[l] = b
    BY <1>1, <1>2 DEF OutcomeLost
  <1>3. CASE current[l] # b
    <2>1. \A m \in Loops : m # l => current[m] # b
      BY LoopAlone, BundlerAssumption DEF Critical
    <2> QED
      BY <1>1, <1>3, <2>1 DEF OutcomeLost, Stranded, Unfinished, Driven
  <1> QED
    BY <1>2, <1>3

\* What was executed stays so, and only MineTx adds to it.
LEMMA ExecutedStays ==
  ASSUME AgreeInv, [Next]_vars, \A b \in Bundles : ~MineTx(b)
  PROVE  UNCHANGED Executed
  <1>1. \A b \in Bundles : tx'[b] = "mined" => tx[b] = "mined" /\ payload'[b] = payload[b]
    BY OnlyMineTx, BatchesAreRows DEF AgreeInv, OutcomeInv
  <1>2. ASSUME NEW b \in Bundles, tx[b] = "mined"
        PROVE  tx'[b] = "mined" /\ payload'[b] = payload[b]
    <2>1. \A l \in Loops : pc[l] = "submit" => current[l] # b
      BY <1>2 DEF AgreeInv, OutcomeInv, TxFollowsLoop
    <2> QED
      BY <1>2, <2>1
      DEF Next, BundlerStep, LoopStep, Start, Stop, Exit, Tick, AcquireBundleLock, FetchPending,
          CreateBundle, SubmitBundle, Broadcast, MarkSubmitted, AwaitReceipt, ConfirmBundle,
          ConfirmOps, FailBundle, FailBundleTooLong, FailOps, WriteBundle, WriteOps,
          RemoveFailedOps, ReleaseBundleLock, MineTx, RevertTx, LockExpire, Enqueue, At,
          AgreeInv, OutcomeInv, TypeOK, vars, bundlerVars, chainVars
  <1> QED
    BY <1>1, <1>2 DEF Executed

LEMMA OutcomeNext ==
  ASSUME Premise, AgreeInv, [Next]_vars
  PROVE  [Outcome!Next]_(Outcome!svars)
  <1>1. ASSUME NEW r \in Ids, NEW h \in Hashes, Enqueue(r, h)
        PROVE  Outcome!Arrive(r)
    <2>1. UNCHANGED Executed
      BY <1>1 DEF Enqueue, Executed, bundlerVars, chainVars
    <2>2. /\ status[r] = "absent"
          /\ status' = [q \in Ids |-> IF q \in {r} THEN "pending" ELSE status[q]]
      BY <1>1 DEF Enqueue, InsertRow, AgreeInv, OutcomeInv, TypeOK, StoreTypeOK
    <2> QED
      BY <2>1, <2>2 DEF Outcome!Arrive, Outcome!Record
  <1>2. ASSUME NEW b \in Bundles, MineTx(b)
        PROVE  Outcome!Execute(payload[b])
    <2>1. Executed' = Executed \cup payload[b] /\ UNCHANGED status
      BY <1>2 DEF MineTx, Executed, AgreeInv, OutcomeInv, TypeOK, storeVars
    <2>2. payload[b] \cap Executed = {}
      BY <1>2 DEF MineTx, Mineable
    <2>3. payload[b] \subseteq Pending \/ OutcomeLost
      BY <1>2, InflightIsPending DEF MineTx
    <2> QED
      BY <2>1, <2>2, <2>3 DEF Outcome!Execute, Outcome!Pending, Pending
  <1>3. ASSUME NEW l \in Loops, ConfirmOps(l), UNCHANGED Executed
        PROVE  Outcome!Confirm(batch[l])
    <2>1. pc[l] = "confirmOps" /\ SetStatus(batch[l], "confirmed")
      BY <1>3 DEF ConfirmOps, WriteOps, At, Fault, Premise
    <2>2. batch[l] \subseteq Pending
      BY <2>1 DEF AgreeInv, FollowsLoop, Undecided
    <2>3. batch[l] \subseteq Executed
      BY <2>1 DEF AgreeInv, OutcomeInv, OwnBundle, TxFollowsLoop, Executed, Working
    <2> QED
      BY <1>3, <2>1, <2>2, <2>3
      DEF Outcome!Confirm, Outcome!Record, Outcome!Pending, SetStatus, Pending
  <1>4. ASSUME NEW l \in Loops, FailOps(l), UNCHANGED Executed
        PROVE  Outcome!Fail(batch[l])
    <2>1. pc[l] = "failOps" /\ SetStatus(batch[l], "failed")
      BY <1>4 DEF FailOps, WriteOps, At, Fault, Premise
    <2>2. batch[l] \subseteq Pending
      BY <2>1 DEF AgreeInv, FollowsLoop, Undecided
    <2>3. batch[l] \cap Executed = {} \/ OutcomeLost
      BY <2>1, FailedIsLost
    <2> QED
      BY <1>4, <2>1, <2>2, <2>3
      DEF Outcome!Fail, Outcome!Record, Outcome!Pending, SetStatus, Pending
  <1>5. UNCHANGED status \/ (\E l \in Loops : ConfirmOps(l) \/ FailOps(l))
                         \/ (\E r \in Ids, h \in Hashes : Enqueue(r, h))
    BY DEF Next, BundlerStep, LoopStep, Start, Stop, Exit, Tick, AcquireBundleLock, FetchPending,
           CreateBundle, SubmitBundle, MarkSubmitted, AwaitReceipt, ConfirmBundle, FailBundle,
           FailBundleTooLong, WriteBundle, RemoveFailedOps, ReleaseBundleLock, MineTx, RevertTx,
           LockExpire, vars, storeVars
  <1>6. CASE \E b \in Bundles : MineTx(b)
    <2>1. PICK b \in Bundles : MineTx(b)
      BY <1>6
    <2>2. payload[b] \in SUBSET Ids
      BY DEF AgreeInv, OutcomeInv, TypeOK
    <2> QED
      BY <1>2, <2>1, <2>2 DEF Outcome!Next
  <1>7. CASE ~\E b \in Bundles : MineTx(b)
    <2>1. UNCHANGED Executed
      BY <1>7, ExecutedStays
    <2>2. \A l \in Loops : batch[l] \in SUBSET Ids
      BY DEF AgreeInv, OutcomeInv, TypeOK
    <2> QED
      BY <1>1, <1>3, <1>4, <1>5, <2>1, <2>2 DEF Outcome!Next, Outcome!svars
  <1> QED
    BY <1>6, <1>7

\* Under the same premise the bundler implements Settlement, with a transaction whose
\* bundle is recorded as failed, or left behind, while the chain has or may yet run it,
\* as what is lost (BundlerService.ts:96-152).
THEOREM SettlementCorrect == Premise => (Spec => ImplementsSettlement)
  <1> SUFFICES ASSUME Premise PROVE Spec => ImplementsSettlement
    OBVIOUS
  <1>1. Init => Outcome!Init
    BY DEF Init, StoreInit, BundlerInit, Executed, Outcome!Init
  <1>2. AgreeInv /\ [Next]_vars => AgreeInv'
    BY AgreeStep
  <1>3. AgreeInv /\ [Next]_vars => [Outcome!Next]_(Outcome!svars)
    BY OutcomeNext
  <1> QED
    BY <1>1, <1>2, <1>3, AgreeInit, PTL DEF Spec, ImplementsSettlement, Outcome!Spec

-----------------------------------------------------------------------------
(* What keeps a bundle that was executed from being recorded as failed *)

\* No process exits, no answer of the node is lost and the database answers: what is
\* left is Redis errors, submissions that are refused, reverts, and loops that overlap.
Calm == Premise /\ Faults \cap {"crash", "lostAck"} = {}

\* The chain may yet run the bundle, or has run it and its rows do not say so.
Open(b) ==
    \/ tx[b] = "inflight"
    \/ tx[b] = "mined" /\ \E r \in payload[b] : status[r] = "pending"

Attended(b) ==
    \E l \in Loops :
        current[l] = b /\ pc[l] \in {"markSubmitted", "wait", "confirmBundle", "confirmOps"}

\* The catch block is only reached with a transaction that will never be mined.
KnownOutcome ==
    \A l \in Loops : pc[l] \in {"failBundle", "failOps"} => tx[current[l]] \in {"none", "reverted"}

\* The inductive invariant behind FailedWasNotExecuted, on top of AgreeInv.
TruthInv ==
    /\ KnownOutcome
    /\ \A b \in Bundles : Open(b) => Attended(b)
    /\ FailedWasNotExecuted

LEMMA TruthInit == Init => TruthInv
  BY DEF Init, StoreInit, BundlerInit, TruthInv, KnownOutcome, Open, FailedWasNotExecuted

\* What a loop may do to its bundle once it has one, when nothing goes wrong around it.
LEMMA CalmLoopStep ==
  ASSUME Calm, AgreeInv, NEW l \in Loops, LoopStep(l), pc[l] \in Working \ {"removeOps"}
  PROVE  /\ UNCHANGED current
         /\ pc[l] = "submit" =>
                \/ tx'[current[l]] = "inflight" /\ pc'[l] = "markSubmitted"
                \/ UNCHANGED tx /\ pc'[l] \in {"failBundle", "failTooLong"}
         /\ pc[l] = "markSubmitted" => UNCHANGED tx /\ pc'[l] = "wait"
         /\ pc[l] = "wait" =>
                \/ UNCHANGED tx /\ pc'[l] = "confirmBundle"
                \/ UNCHANGED tx /\ tx[current[l]] = "reverted" /\ pc'[l] = "failTooLong"
         /\ pc[l] = "confirmBundle" => UNCHANGED tx /\ pc'[l] = "confirmOps"
         /\ pc[l] = "confirmOps" =>
                UNCHANGED <<tx, payload>> /\ SetStatus(batch[l], "confirmed")
                /\ pc'[l] = "release"
         /\ pc[l] = "failBundle" => UNCHANGED tx /\ pc'[l] = "failOps"
         /\ pc[l] = "failTooLong" => UNCHANGED tx /\ pc'[l] = "release"
         /\ pc[l] = "failOps" => UNCHANGED tx /\ pc'[l] = "removeOps"
  <1>1. "db" \notin Faults /\ "lostAck" \notin Faults
    BY DEF Calm, Premise
  <1>2. \A next : GoTo(l, next) => pc'[l] = next
    BY DEF GoTo, AgreeInv, OutcomeInv, TypeOK
  <1>3. current[l] \in Bundles /\ tx \in [Bundles -> {"none", "inflight", "mined", "reverted"}]
    BY DEF AgreeInv, OutcomeInv, OwnBundle, TypeOK
  <1> QED
    BY <1>1, <1>2, <1>3
    DEF LoopStep, AcquireBundleLock, FetchPending, CreateBundle, SubmitBundle, Catch, CatchShort,
        CatchLong, Broadcast, MarkSubmitted, AwaitReceipt, ConfirmBundle, ConfirmOps,
        FailBundle, FailBundleTooLong,
        FailOps, WriteBundle, WriteOps, RemoveFailedOps, ReleaseBundleLock, At, Fault, Working,
        chainVars

\* A row that was executed is not in the batch about to be recorded as failed.
LEMMA FailsUnexecuted ==
  ASSUME AgreeInv, TruthInv, NEW l \in Loops, pc[l] = "failOps"
  PROVE  batch[l] \cap Executed = {}
  <1> SUFFICES ASSUME NEW r \in batch[l], NEW b \in Bundles, tx[b] = "mined", r \in payload[b]
               PROVE  FALSE
    BY DEF Executed
  <1>1. status[r] = "pending"
    BY DEF AgreeInv, FollowsLoop, Undecided, Pending
  <1>2. PICK m \in Loops :
          current[m] = b /\ pc[m] \in {"markSubmitted", "wait", "confirmBundle", "confirmOps"}
    BY <1>1 DEF TruthInv, Open, Attended
  <1>3. m # l
    BY <1>2
  <1> QED
    BY <1>2, <1>3, LoopAlone DEF Critical

LEMMA KnownStep ==
  ASSUME Calm, AgreeInv, TruthInv, [Next]_vars
  PROVE  KnownOutcome'
  <1> SUFFICES ASSUME NEW l \in Loops, pc'[l] \in {"failBundle", "failOps"}
               PROVE  tx'[current'[l]] \in {"none", "reverted"}
    BY DEF KnownOutcome
  <1>1. ~\E p \in Procs : Exit(p)
    BY DEF Calm, Exit, Fault
  <1>2. CASE LoopStep(l)
    <2>1. pc[l] \in Working \ {"removeOps"}
      BY <1>2
      DEF LoopStep, AcquireBundleLock, FetchPending, CreateBundle, SubmitBundle, Catch,
          CatchShort, CatchLong, MarkSubmitted, AwaitReceipt, ConfirmBundle, ConfirmOps,
          FailBundle, FailBundleTooLong, FailOps, WriteBundle, WriteOps, RemoveFailedOps,
          ReleaseBundleLock, At, GoTo, Working, AgreeInv, OutcomeInv, TypeOK
    <2>2. pc[l] \in {"submit", "wait", "failBundle"}
      BY <1>2, <2>1, CalmLoopStep DEF Working
    <2> QED
      BY <1>2, <2>1, <2>2, CalmLoopStep
      DEF TruthInv, KnownOutcome, AgreeInv, OutcomeInv, TxFollowsLoop
  <1>3. CASE ~LoopStep(l)
    <2>1. pc[l] \in {"failBundle", "failOps"} /\ current'[l] = current[l]
      <3>1. CASE pc[l] \in Critical
        BY <1>1, <1>3, <3>1, LoopWaits
      <3>2. CASE pc[l] \notin Critical
        BY <1>1, <1>3, <3>2
        DEF Next, BundlerStep, LoopStep, Start, Stop, Tick, AcquireBundleLock, FetchPending,
            CreateBundle, SubmitBundle, Catch, CatchShort, CatchLong, MarkSubmitted,
            AwaitReceipt, ConfirmBundle, ConfirmOps, FailBundle, FailBundleTooLong, FailOps,
            WriteBundle, WriteOps, RemoveFailedOps, ReleaseBundleLock, MineTx, RevertTx,
            LockExpire, Enqueue, At, GoTo, Critical, AgreeInv, OutcomeInv, TypeOK, vars,
            bundlerVars, loopVars
      <3> QED
        BY <3>1, <3>2
    <2>2. current[l] \in Bundles /\ tx[current[l]] \in {"none", "reverted"}
      BY <2>1 DEF TruthInv, KnownOutcome, AgreeInv, OutcomeInv, OwnBundle, Working
    <2>3. ~\E m \in Loops : SubmitBundle(m) /\ current[m] = current[l]
      BY <2>1, <2>2 DEF SubmitBundle, At, AgreeInv, OutcomeInv, OwnBundle
    <2>4. ~MineTx(current[l]) /\ ~RevertTx(current[l])
      BY <2>2 DEF MineTx, RevertTx
    <2> QED
      BY <2>1, <2>2, <2>3, <2>4, TxChanges
  <1> QED
    BY <1>2, <1>3

\* A bundle becomes open in the hands of the loop that sends it.
LEMMA OpensAttended ==
  ASSUME Calm, AgreeInv, [Next]_vars, NEW b \in Bundles, ~Open(b), Open(b)'
  PROVE  Attended(b)'
  <1>1. CASE tx'[b] # tx[b]
    <2>1. PICK l \in Loops : SubmitBundle(l) /\ current[l] = b
      BY <1>1, TxChanges DEF MineTx, RevertTx, Open
    <2>2. pc[l] = "submit" /\ LoopStep(l)
      BY <2>1 DEF SubmitBundle, At, LoopStep
    <2> QED
      BY <1>1, <2>1, <2>2, CalmLoopStep DEF Working, Attended
  <1>2. CASE tx'[b] = tx[b]
    <2>1. PICK r \in payload'[b] : tx[b] = "mined" /\ status'[r] = "pending"
      BY <1>2 DEF Open
    <2>2. r \in payload[b] /\ r \in Recorded
      BY <1>2, <2>1, BatchesAreRows DEF AgreeInv, OutcomeInv, RowsOnly
    <2>3. status[r] = "pending"
      BY <2>1, <2>2
      DEF Next, BundlerStep, LoopStep, Start, Stop, Exit, Tick, AcquireBundleLock, FetchPending,
          CreateBundle, SubmitBundle, MarkSubmitted, AwaitReceipt, ConfirmBundle, ConfirmOps,
          FailBundle, FailBundleTooLong, FailOps, WriteBundle, WriteOps, SetStatus,
          RemoveFailedOps, ReleaseBundleLock, MineTx, RevertTx, LockExpire, Enqueue, InsertRow,
          Recorded, AgreeInv, OutcomeInv, TypeOK, StoreTypeOK, vars, storeVars
    <2> QED
      BY <2>1, <2>2, <2>3 DEF Open
  <1> QED
    BY <1>1, <1>2

\* It is let go only when it was reverted or its rows are settled.
LEMMA StaysAttended ==
  ASSUME Calm, AgreeInv, TruthInv, [Next]_vars, NEW b \in Bundles, Open(b), Open(b)'
  PROVE  Attended(b)'
  <1>1. PICK l \in Loops :
          current[l] = b /\ pc[l] \in {"markSubmitted", "wait", "confirmBundle", "confirmOps"}
    BY DEF TruthInv, Attended
  <1>2. ~\E p \in Procs : Exit(p)
    BY DEF Calm, Exit, Fault
  <1>3. CASE ~LoopStep(l)
    BY <1>1, <1>2, <1>3, LoopWaits DEF Critical, Attended
  <1>4. CASE LoopStep(l)
    <2>1. pc[l] \in Working \ {"removeOps"}
      BY <1>1 DEF Working
    <2>2. CASE pc[l] = "confirmOps"
      <3>1. tx[b] = "mined" /\ payload[b] = batch[l]
        BY <1>1, <2>2 DEF AgreeInv, OutcomeInv, TxFollowsLoop
      <3>2. UNCHANGED <<tx, payload>> /\ SetStatus(batch[l], "confirmed")
        BY <1>4, <2>1, <2>2, CalmLoopStep
      <3>3. \A r \in payload[b] : r \in Ids /\ status'[r] = "confirmed"
        BY <3>1, <3>2 DEF SetStatus, AgreeInv, OutcomeInv, TypeOK
      <3> QED
        BY <3>1, <3>2, <3>3 DEF Open
    <2>3. CASE pc[l] # "confirmOps"
      <3>1. pc'[l] \in {"wait", "confirmBundle", "confirmOps"} /\ current'[l] = b
        BY <1>1, <1>4, <2>1, <2>3, CalmLoopStep DEF Open
      <3> QED
        BY <3>1 DEF Attended
    <2> QED
      BY <2>2, <2>3
  <1> QED
    BY <1>3, <1>4

LEMMA FailedStep ==
  ASSUME Calm, AgreeInv, TruthInv, [Next]_vars
  PROVE  FailedWasNotExecuted'
  <1> SUFFICES ASSUME NEW r \in Ids, status'[r] = "failed", r \in Executed'
               PROVE  FALSE
    BY DEF FailedWasNotExecuted
  <1>1. CASE \E b \in Bundles : MineTx(b)
    <2>1. PICK b \in Bundles : MineTx(b)
      BY <1>1
    <2>2. Executed' = Executed \cup payload[b] /\ UNCHANGED status
      BY <2>1 DEF MineTx, Executed, AgreeInv, OutcomeInv, TypeOK, storeVars
    <2>3. PICK l \in Loops :
            current[l] = b /\ pc[l] \in {"markSubmitted", "wait", "confirmBundle", "confirmOps"}
      BY <2>1 DEF TruthInv, Open, Attended, MineTx
    <2>4. payload[b] \subseteq Pending
      BY <2>3 DEF AgreeInv, OutcomeInv, TxFollowsLoop, FollowsLoop, Undecided
    <2> QED
      BY <2>2, <2>4 DEF TruthInv, FailedWasNotExecuted, Pending
  <1>2. CASE ~\E b \in Bundles : MineTx(b)
    <2>1. r \in Executed
      BY <1>2, ExecutedStays
    <2>2. status[r] = "failed" \/ \E l \in Loops : FailOps(l) /\ r \in batch[l]
      BY DEF Next, BundlerStep, LoopStep, Start, Stop, Exit, Tick, AcquireBundleLock,
             FetchPending, CreateBundle, SubmitBundle, MarkSubmitted, AwaitReceipt,
             ConfirmBundle, ConfirmOps, FailBundle, FailBundleTooLong, FailOps, WriteBundle,
             WriteOps, SetStatus, RemoveFailedOps, ReleaseBundleLock, MineTx, RevertTx,
             LockExpire, Enqueue, InsertRow, AgreeInv, OutcomeInv, TypeOK, StoreTypeOK, vars,
             storeVars
    <2>3. \A l \in Loops : FailOps(l) => pc[l] = "failOps"
      BY DEF FailOps, WriteOps, At
    <2> QED
      BY <2>1, <2>2, <2>3, FailsUnexecuted DEF TruthInv, FailedWasNotExecuted
  <1> QED
    BY <1>1, <1>2

\* Nothing the chain executed is recorded as failed as long as, besides the premise
\* above, no process exits and no answer of the node is lost: a bundle's submission
\* that is refused, a revert, a Redis error and overlapping ticks are all recorded
\* truly.  A database error or a lost answer is enough to record it untruly; an exit,
\* or a lock that expires, needs a later bundle of the same rows that is refused, or
\* cannot be estimated, as well (BundlerService.ts:133-152).
THEOREM FailedCorrect == Calm => (Spec => []FailedWasNotExecuted)
  <1> SUFFICES ASSUME Calm PROVE Spec => []FailedWasNotExecuted
    OBVIOUS
  <1>1. AgreeInv /\ [Next]_vars => AgreeInv'
    BY AgreeStep DEF Calm
  <1>2. AgreeInv /\ TruthInv /\ [Next]_vars => TruthInv'
    <2>1. ASSUME AgreeInv, TruthInv, [Next]_vars, NEW b \in Bundles, Open(b)'
          PROVE  Attended(b)'
      BY <2>1, OpensAttended, StaysAttended
    <2> QED
      BY <2>1, KnownStep, FailedStep DEF TruthInv
  <1>3. TruthInv => FailedWasNotExecuted
    BY DEF TruthInv
  <1> QED
    BY <1>1, <1>2, <1>3, AgreeInit, TruthInit, PTL DEF Spec

=============================================================================

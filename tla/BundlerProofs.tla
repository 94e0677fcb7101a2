--------------------------- MODULE BundlerProofs ---------------------------
(* What holds of BundlerService for any number of processes, overlapping    *)
(* loops, bundles and user operations, and for any failures.                *)
EXTENDS BundlerService, TLAPS

-----------------------------------------------------------------------------
(* Type correctness *)

LEMMA TypeInit == Init => TypeOK
  BY StoreAssumption, BundlerAssumption
  DEF Init, StoreInit, BundlerInit, TypeOK, StoreTypeOK, OpStatus, Spelling, Critical

\* The two ways to write the tables and the failure counter keep their types.
LEMMA FaultType ==
  ASSUME TypeOK, NEW k, Fault(k) \/ NoFault
  PROVE  faults' \in 0 .. MaxFaults
  BY StoreAssumption DEF Fault, NoFault, TypeOK, StoreTypeOK

LEMMA WriteBundleType ==
  ASSUME TypeOK, NEW l \in Loops, NEW from, NEW s \in OpStatus,
         NEW next \in Critical, NEW onError \in Critical,
         WriteBundle(l, from, s, next, onError)
  PROVE  TypeOK'
  <1>1. faults' \in 0 .. MaxFaults
    BY FaultType DEF WriteBundle
  <1>2. bstatus' \in [Bundles -> OpStatus \cup {"absent"}]
    BY DEF WriteBundle, TypeOK
  <1>3. pc' \in [Loops -> Critical \cup {"idle", "acquire"}]
    BY DEF WriteBundle, GoTo, TypeOK
  <1> QED
    BY <1>1, <1>2, <1>3 DEF WriteBundle, TypeOK, StoreTypeOK, redisVars, chainVars

LEMMA WriteOpsType ==
  ASSUME TypeOK, NEW l \in Loops, NEW from, NEW s \in OpStatus,
         NEW next \in Critical, NEW onError \in Critical,
         WriteOps(l, from, s, next, onError)
  PROVE  TypeOK'
  <1>1. faults' \in 0 .. MaxFaults
    BY FaultType DEF WriteOps
  <1>2. status' \in [Ids -> OpStatus \cup {"absent"}]
    BY DEF WriteOps, SetStatus, TypeOK, StoreTypeOK
  <1>3. pc' \in [Loops -> Critical \cup {"idle", "acquire"}]
    BY DEF WriteOps, GoTo, TypeOK
  <1> QED
    BY <1>1, <1>2, <1>3 DEF WriteOps, TypeOK, StoreTypeOK, redisVars, tableVars, chainVars

LEMMA TypeStep == TypeOK /\ [Next]_vars => TypeOK'
  <1> SUFFICES ASSUME TypeOK, [Next]_vars
               PROVE  TypeOK'
    OBVIOUS
  <1>1. ASSUME NEW p \in Procs, Start(p) \/ Stop(p)
        PROVE  TypeOK'
    BY <1>1 DEF Start, Stop, GoTo, TypeOK, StoreTypeOK, storeVars, loopVars, tableVars, chainVars
  <1>2. ASSUME NEW p \in Procs, Exit(p)
        PROVE  TypeOK'
    <2>1. faults' \in 0 .. MaxFaults
      BY <1>2, FaultType DEF Exit
    <2> QED
      BY <1>2, <2>1 DEF Exit, TypeOK, StoreTypeOK, redisVars, tableVars, chainVars
  <1>3. ASSUME NEW l \in Loops, Tick(l)
        PROVE  TypeOK'
    BY <1>3 DEF Tick, GoTo, TypeOK, StoreTypeOK, storeVars, tableVars, chainVars
  <1>4. ASSUME NEW l \in Loops, LoopStep(l)
        PROVE  TypeOK'
    <2>1. CASE AcquireBundleLock(l)
      <3>1. faults' \in 0 .. MaxFaults
        BY <2>1, FaultType DEF AcquireBundleLock
      <3>2. lock' \in Loops \cup {NoLoop}
        BY <2>1 DEF AcquireBundleLock, TypeOK
      <3>3. pc' \in [Loops -> Critical \cup {"idle", "acquire"}]
        BY <2>1 DEF AcquireBundleLock, GoTo, TypeOK, Critical
      <3> QED
        BY <2>1, <3>1, <3>2, <3>3
        DEF AcquireBundleLock, TypeOK, StoreTypeOK, redisVars, tableVars, chainVars
    <2>2. CASE FetchPending(l)
      <3>1. faults' \in 0 .. MaxFaults
        BY <2>2, FaultType DEF FetchPending
      <3>2. batch' \in [Loops -> SUBSET Ids] /\ pc' \in [Loops -> Critical \cup {"idle", "acquire"}]
        BY <2>2 DEF FetchPending, GoTo, TypeOK, Critical
      <3> QED
        BY <2>2, <3>1, <3>2 DEF FetchPending, TypeOK, StoreTypeOK, redisVars, tableVars, chainVars
    <2>3. CASE CreateBundle(l)
      <3>1. faults' \in 0 .. MaxFaults
        BY <2>3, FaultType DEF CreateBundle
      <3>2. bstatus' \in [Bundles -> OpStatus \cup {"absent"}]
        BY <2>3 DEF CreateBundle, TypeOK, tableVars, OpStatus
      <3>3. bundleOf' \in [Ids -> Bundles \cup {NoBundle}]
        BY <2>3 DEF CreateBundle, TypeOK, tableVars
      <3>4. /\ pc' \in [Loops -> Critical \cup {"idle", "acquire"}]
            /\ current' \in [Loops -> Bundles \cup {NoBundle}]
        BY <2>3 DEF CreateBundle, GoTo, TypeOK, Critical
      <3> QED
        BY <2>3, <3>1, <3>2, <3>3, <3>4 DEF CreateBundle, TypeOK, StoreTypeOK, redisVars, chainVars
    <2>4. CASE SubmitBundle(l)
      <3>1. faults' \in 0 .. MaxFaults
        BY <2>4, FaultType DEF SubmitBundle
      <3>2. /\ tx' \in [Bundles -> {"none", "inflight", "mined", "reverted"}]
            /\ payload' \in [Bundles -> SUBSET Ids]
            /\ pc' \in [Loops -> Critical \cup {"idle", "acquire"}]
        BY <2>4 DEF SubmitBundle, Catch, CatchShort, CatchLong, Broadcast, GoTo, TypeOK,
                    chainVars, Critical
      <3> QED
        BY <2>4, <3>1, <3>2 DEF SubmitBundle, Broadcast, TypeOK, StoreTypeOK, redisVars, tableVars
    <2>5. CASE MarkSubmitted(l)
      BY <2>5, WriteBundleType DEF MarkSubmitted, OpStatus, Critical
    <2>6. CASE AwaitReceipt(l)
      <3>1. faults' \in 0 .. MaxFaults
        BY <2>6, FaultType DEF AwaitReceipt
      <3>2. pc' \in [Loops -> Critical \cup {"idle", "acquire"}]
        BY <2>6 DEF AwaitReceipt, Catch, CatchShort, CatchLong, GoTo, TypeOK, Critical
      <3> QED
        BY <2>6, <3>1, <3>2 DEF AwaitReceipt, TypeOK, StoreTypeOK, redisVars, tableVars, chainVars
    <2>7. CASE ConfirmBundle(l)
      BY <2>7, WriteBundleType DEF ConfirmBundle, OpStatus, Critical
    <2>8. CASE ConfirmOps(l)
      BY <2>8, WriteOpsType DEF ConfirmOps, OpStatus, Critical
    <2>9. CASE FailBundle(l)
      BY <2>9, WriteBundleType DEF FailBundle, OpStatus, Critical
    <2>10. CASE FailOps(l)
      BY <2>10, WriteOpsType DEF FailOps, OpStatus, Critical
    <2>13. CASE FailBundleTooLong(l)
      BY <2>13
      DEF FailBundleTooLong, GoTo, TypeOK, StoreTypeOK, Critical, storeVars, tableVars, chainVars
    <2>11. CASE RemoveFailedOps(l)
      <3>1. faults' \in 0 .. MaxFaults
        BY <2>11, FaultType DEF RemoveFailedOps
      <3>2. /\ cache' \in [Hashes -> Spelling \cup {"none"}]
            /\ index' \in [Keys -> Hashes \cup {NoHash}]
        BY <2>11 DEF RemoveFailedOps, DropKeys, redisVars, TypeOK, StoreTypeOK
      <3>3. pc' \in [Loops -> Critical \cup {"idle", "acquire"}]
        BY <2>11 DEF RemoveFailedOps, GoTo, TypeOK, Critical
      <3> QED
        BY <2>11, <3>1, <3>2, <3>3 DEF RemoveFailedOps, TypeOK, StoreTypeOK, tableVars, chainVars
    <2>12. CASE ReleaseBundleLock(l)
      <3>1. faults' \in 0 .. MaxFaults
        BY <2>12, FaultType DEF ReleaseBundleLock
      <3>2. /\ pc' \in [Loops -> Critical \cup {"idle", "acquire"}]
            /\ batch' \in [Loops -> SUBSET Ids]
            /\ current' \in [Loops -> Bundles \cup {NoBundle}]
            /\ lock' \in Loops \cup {NoLoop}
        BY <2>12 DEF ReleaseBundleLock, GoTo, TypeOK
      <3> QED
        BY <2>12, <3>1, <3>2
        DEF ReleaseBundleLock, TypeOK, StoreTypeOK, redisVars, tableVars, chainVars
    <2> QED
      BY <1>4, <2>1, <2>2, <2>3, <2>4, <2>5, <2>6, <2>7, <2>8, <2>9, <2>10, <2>11, <2>12, <2>13
      DEF LoopStep
  <1>5. ASSUME NEW b \in Bundles, MineTx(b)
        PROVE  TypeOK'
    BY <1>5 DEF MineTx, TypeOK, StoreTypeOK, storeVars, loopVars, tableVars
  <1>6. ASSUME NEW b \in Bundles, RevertTx(b)
        PROVE  TypeOK'
    <2>1. faults' \in 0 .. MaxFaults
      BY <1>6, FaultType DEF RevertTx
    <2> QED
      BY <1>6, <2>1 DEF RevertTx, TypeOK, StoreTypeOK, redisVars, loopVars, tableVars
  <1>7. CASE LockExpire
    BY <1>7 DEF LockExpire, TypeOK, StoreTypeOK, storeVars, loopVars, tableVars, chainVars
  <1>8. ASSUME NEW r \in Ids, NEW h \in Hashes, Enqueue(r, h)
        PROVE  TypeOK'
    <2>1. /\ hash' \in [Ids -> Hashes \cup {NoHash}]
          /\ status' \in [Ids -> OpStatus \cup {"absent"}]
      BY <1>8 DEF Enqueue, InsertRow, TypeOK, StoreTypeOK, OpStatus
    <2> QED
      BY <1>8, <2>1
      DEF Enqueue, TypeOK, StoreTypeOK, redisVars, bundlerVars, loopVars, tableVars, chainVars
  <1>9. CASE UNCHANGED vars
    BY <1>9 DEF vars, storeVars, bundlerVars, loopVars, tableVars, chainVars, TypeOK, StoreTypeOK
  <1> QED
    BY <1>1, <1>2, <1>3, <1>4, <1>5, <1>6, <1>7, <1>8, <1>9 DEF Next, BundlerStep

\* Every variable keeps its type, in particular the status columns keep to their
\* enum (entities UserOperation and Bundle).
THEOREM TypeCorrect == Spec => []TypeOK
  BY TypeInit, TypeStep, PTL DEF Spec

-----------------------------------------------------------------------------
(* Outcomes are recorded truly *)

\* Where a loop has a bundle of its own.
Working == {"submit", "markSubmitted", "wait", "confirmBundle", "confirmOps",
            "failBundle", "failTooLong", "failOps", "removeOps"}

\* A working loop has a bundle, recorded, that no other loop has.
OwnBundle ==
    /\ \A l \in Loops : pc[l] \in Working => current[l] \in Bundles
    /\ \A l \in Loops : current[l] \in Bundles => bstatus[current[l]] # "absent"
    /\ \A l, m \in Loops : current[l] \in Bundles /\ current[l] = current[m] => l = m

\* How far the transaction is when the loop is at an await.
TxFollowsLoop ==
    /\ \A b \in Bundles : bstatus[b] = "absent" => tx[b] = "none"
    /\ \A l \in Loops : pc[l] = "submit" => tx[current[l]] = "none"
    /\ \A l \in Loops : pc[l] \in {"markSubmitted", "wait", "confirmBundle", "confirmOps"} =>
            payload[current[l]] = batch[l]
    /\ \A l \in Loops : pc[l] \in {"confirmBundle", "confirmOps"} => tx[current[l]] = "mined"

\* What the bundle's row says when the loop is at an await.
RowFollowsLoop ==
    /\ \A l \in Loops : pc[l] \in {"submit", "markSubmitted"} => bstatus[current[l]] = "pending"
    /\ \A l \in Loops : pc[l] \in {"wait", "confirmBundle"} => bstatus[current[l]] = "submitted"

\* The inductive invariant behind ConfirmedIsExecuted and BundleNeverGoesBack.
OutcomeInv == TypeOK /\ OwnBundle /\ TxFollowsLoop /\ RowFollowsLoop /\ ConfirmedIsExecuted

LEMMA OutcomeInit == Init => OutcomeInv
  <1> SUFFICES ASSUME Init PROVE OutcomeInv
    OBVIOUS
  <1>1. TypeOK
    BY TypeInit
  <1>2. OwnBundle /\ TxFollowsLoop /\ RowFollowsLoop
    BY BundlerAssumption
    DEF Init, BundlerInit, OwnBundle, TxFollowsLoop, RowFollowsLoop, Working
  <1>3. ConfirmedIsExecuted
    BY DEF Init, StoreInit, BundlerInit, ConfirmedIsExecuted
  <1> QED
    BY <1>1, <1>2, <1>3 DEF OutcomeInv

\* A step that touches neither the bundles, nor the chain, nor the status of a row
\* leaves the outcomes alone.
LEMMA OutcomesUntouched ==
  ASSUME ConfirmedIsExecuted, UNCHANGED <<status, bstatus, tx, payload>>
  PROVE  ConfirmedIsExecuted'
  BY DEF ConfirmedIsExecuted, Executed

\* A step of loop l that moves it on without touching its bundle, batch or the chain.
LEMMA LoopMoves ==
  ASSUME OutcomeInv, NEW l \in Loops, NEW next \in Critical \cup {"idle", "acquire"},
         GoTo(l, next), UNCHANGED <<status, batch, current, bstatus, tx, payload>>, TypeOK',
         \/ next \notin Working
         \/ pc[l] \in Working /\ next \in {"failBundle", "failTooLong", "failOps", "removeOps"}
         \/ pc[l] = "wait" /\ next = "confirmBundle" /\ tx[current[l]] = "mined"
  PROVE  OutcomeInv'
  <1> USE DEF OutcomeInv
  <1>1. OwnBundle'
    BY DEF OwnBundle, GoTo, TypeOK, Working
  <1>2. TxFollowsLoop'
    BY DEF TxFollowsLoop, GoTo, TypeOK, Working
  <1>3. RowFollowsLoop'
    BY DEF RowFollowsLoop, GoTo, TypeOK, Working
  <1>4. ConfirmedIsExecuted'
    BY OutcomesUntouched
  <1> QED
    BY <1>1, <1>2, <1>3, <1>4

\* A write of a loop's own bundle row.
LEMMA BundleWritten ==
  ASSUME OutcomeInv, TypeOK', NEW l \in Loops, NEW s \in OpStatus, NEW next \in Critical,
         pc[l] \in Working, GoTo(l, next),
         bstatus' = [bstatus EXCEPT ![current[l]] = s],
         UNCHANGED <<status, batch, current, tx, payload>>,
         \/ pc[l] = "markSubmitted" /\ s = "submitted" /\ next = "wait"
         \/ pc[l] = "confirmBundle" /\ s = "confirmed" /\ next = "confirmOps"
         \/ next \in {"failBundle", "failOps", "removeOps", "release"} /\
                (s = "confirmed" => tx[current[l]] = "mined")
  PROVE  OutcomeInv'
  <1> USE DEF OutcomeInv
  <1> DEFINE b == current[l]
  <1>1. b \in Bundles /\ \A m \in Loops : m # l => current[m] # b
    BY DEF OwnBundle
  <1>2. OwnBundle'
    BY <1>1 DEF OwnBundle, GoTo, TypeOK, Working, OpStatus
  <1>3. TxFollowsLoop'
    BY <1>1 DEF TxFollowsLoop, GoTo, TypeOK, Working, OpStatus, OwnBundle
  <1>4. RowFollowsLoop'
    BY <1>1 DEF RowFollowsLoop, GoTo, TypeOK, Working, OpStatus, OwnBundle
  <1>5. ConfirmedIsExecuted'
    BY <1>1 DEF ConfirmedIsExecuted, Executed, TypeOK, TxFollowsLoop
  <1> QED
    BY <1>2, <1>3, <1>4, <1>5

\* A write of the rows of a loop's batch.
LEMMA OpsWritten ==
  ASSUME OutcomeInv, TypeOK', NEW l \in Loops, NEW s \in OpStatus, NEW next \in Critical,
         pc[l] \in Working, GoTo(l, next), SetStatus(batch[l], s),
         UNCHANGED <<batch, current, bstatus, tx, payload>>,
         next \in {"failBundle", "removeOps", "release"},
         s = "confirmed" => pc[l] = "confirmOps"
  PROVE  OutcomeInv'
  <1> USE DEF OutcomeInv
  <1>1. OwnBundle'
    BY DEF OwnBundle, GoTo, TypeOK, Working
  <1>2. TxFollowsLoop'
    BY DEF TxFollowsLoop, GoTo, TypeOK, Working
  <1>3. RowFollowsLoop'
    BY DEF RowFollowsLoop, GoTo, TypeOK, Working
  <1>4. Executed' = Executed
    BY DEF Executed
  <1>5. s = "confirmed" => batch[l] \subseteq Executed
    BY DEF OwnBundle, TxFollowsLoop, Executed, Working
  <1>6. ConfirmedIsExecuted'
    BY <1>4, <1>5 DEF ConfirmedIsExecuted, SetStatus, TypeOK, StoreTypeOK
  <1> QED
    BY <1>1, <1>2, <1>3, <1>6

\* A step that leaves every loop, the bundles, the chain and the settled rows alone.
LEMMA LoopsUntouched ==
  ASSUME OutcomeInv, TypeOK', UNCHANGED <<loopVars, bstatus, tx, payload>>,
         \A r \in Ids : status'[r] = "confirmed" => status[r] = "confirmed"
  PROVE  OutcomeInv'
  <1> USE DEF OutcomeInv
  <1>1. (OwnBundle /\ TxFollowsLoop /\ RowFollowsLoop)'
    BY DEF OwnBundle, TxFollowsLoop, RowFollowsLoop, loopVars
  <1>2. ConfirmedIsExecuted'
    BY DEF ConfirmedIsExecuted, Executed
  <1> QED
    BY <1>1, <1>2

\* The chain decides on a transaction: nothing mined is forgotten.
LEMMA ChainDecides ==
  ASSUME OutcomeInv, TypeOK', NEW b \in Bundles, NEW s \in {"mined", "reverted"},
         tx[b] = "inflight", tx' = [tx EXCEPT ![b] = s],
         UNCHANGED <<status, loopVars, bstatus, payload>>
  PROVE  OutcomeInv'
  <1> USE DEF OutcomeInv
  <1>1. (OwnBundle /\ RowFollowsLoop)'
    BY DEF OwnBundle, RowFollowsLoop, loopVars
  <1>2. TxFollowsLoop'
    BY DEF TxFollowsLoop, TypeOK, loopVars, OwnBundle, Working
  <1>3. Executed \subseteq Executed'
    BY DEF Executed, TypeOK
  <1>4. ConfirmedIsExecuted'
    BY <1>3 DEF ConfirmedIsExecuted, TypeOK
  <1> QED
    BY <1>1, <1>2, <1>4

\* Some loops lose their locals, as when their process exits.
LEMMA LoopsEnd ==
  ASSUME OutcomeInv, TypeOK', NEW S \in SUBSET Loops,
         pc' = [l \in Loops |-> IF l \in S THEN "idle" ELSE pc[l]],
         batch' = [l \in Loops |-> IF l \in S THEN {} ELSE batch[l]],
         current' = [l \in Loops |-> IF l \in S THEN NoBundle ELSE current[l]],
         UNCHANGED <<status, bstatus, tx, payload>>
  PROVE  OutcomeInv'
  <1> USE DEF OutcomeInv
  <1>1. OwnBundle'
    BY BundlerAssumption DEF OwnBundle, TypeOK, Working
  <1>2. TxFollowsLoop'
    BY DEF TxFollowsLoop, TypeOK
  <1>3. RowFollowsLoop'
    BY DEF RowFollowsLoop, TypeOK
  <1>4. ConfirmedIsExecuted'
    BY OutcomesUntouched
  <1> QED
    BY <1>1, <1>2, <1>3, <1>4

LEMMA BundleCreated ==
  ASSUME OutcomeInv, TypeOK', NEW l \in Loops, CreateBundle(l)
  PROVE  OutcomeInv'
  <1> USE DEF OutcomeInv
  <1>1. CASE UNCHANGED <<current, tableVars>> /\ GoTo(l, "release")
    BY <1>1, LoopMoves DEF CreateBundle, chainVars, tableVars, Critical, Working
  <1>2. ASSUME NEW b \in Bundles, bstatus[b] = "absent",
               bstatus' = [bstatus EXCEPT ![b] = "pending"],
               \/ current' = [current EXCEPT ![l] = b] /\ GoTo(l, "submit")
               \/ GoTo(l, "release") /\ UNCHANGED current
        PROVE  OutcomeInv'
    <2> USE <1>2
    <2>0. pc[l] = "create" /\ UNCHANGED <<status, batch, tx, payload>>
      BY DEF CreateBundle, At, chainVars
    <2>1. \A m \in Loops : current[m] # b
      BY DEF OwnBundle
    <2>2. OwnBundle'
      BY <2>0, <2>1 DEF OwnBundle, GoTo, TypeOK, Working
    <2>3. TxFollowsLoop'
      BY <2>0, <2>1 DEF TxFollowsLoop, GoTo, TypeOK, OwnBundle, Working
    <2>4. RowFollowsLoop'
      BY <2>0, <2>1 DEF RowFollowsLoop, GoTo, TypeOK, OwnBundle, Working
    <2>5. ConfirmedIsExecuted'
      BY <2>0 DEF ConfirmedIsExecuted, Executed, TypeOK
    <2> QED
      BY <2>2, <2>3, <2>4, <2>5
  <1> QED
    BY <1>1, <1>2 DEF CreateBundle

LEMMA BundleSubmitted ==
  ASSUME OutcomeInv, TypeOK', NEW l \in Loops, SubmitBundle(l)
  PROVE  OutcomeInv'
  <1> USE DEF OutcomeInv
  <1>1. CASE UNCHANGED chainVars /\ (GoTo(l, "failBundle") \/ GoTo(l, "failTooLong"))
    BY <1>1, LoopMoves DEF SubmitBundle, Broadcast, At, chainVars, tableVars, Critical, Working
  <1>2. CASE /\ tx' = [tx EXCEPT ![current[l]] = "inflight"]
             /\ payload' = [payload EXCEPT ![current[l]] = batch[l]]
             /\ \E next \in {"markSubmitted", "failBundle", "failTooLong"} : GoTo(l, next)
    <2> USE <1>2
    <2> DEFINE b == current[l]
    <2>0. pc[l] = "submit" /\ UNCHANGED <<status, batch, current, bstatus>>
      BY DEF SubmitBundle, Broadcast, At, tableVars
    <2>1. /\ b \in Bundles /\ tx[b] = "none" /\ bstatus[b] = "pending"
          /\ \A m \in Loops : m # l => current[m] # b
      BY <2>0 DEF OwnBundle, TxFollowsLoop, RowFollowsLoop, Working
    <2>2. OwnBundle'
      BY <2>0, <2>1 DEF OwnBundle, GoTo, TypeOK, Working
    <2>3. TxFollowsLoop'
      BY <2>0, <2>1 DEF TxFollowsLoop, GoTo, TypeOK, OwnBundle, Working
    <2>4. RowFollowsLoop'
      BY <2>0, <2>1 DEF RowFollowsLoop, GoTo, TypeOK
    <2>5. Executed \subseteq Executed'
      BY <2>1 DEF Executed, TypeOK
    <2>6. ConfirmedIsExecuted'
      BY <2>0, <2>1, <2>5 DEF ConfirmedIsExecuted, TypeOK
    <2> QED
      BY <2>2, <2>3, <2>4, <2>6
  <1> QED
    BY <1>1, <1>2 DEF SubmitBundle, Broadcast, Catch, CatchShort, CatchLong

LEMMA OutcomeStep == OutcomeInv /\ [Next]_vars => OutcomeInv'
  <1> SUFFICES ASSUME OutcomeInv, [Next]_vars
               PROVE  OutcomeInv'
    OBVIOUS
  <1>0. TypeOK'
    BY TypeStep DEF OutcomeInv
  <1>1. ASSUME NEW p \in Procs, Start(p)
        PROVE  OutcomeInv'
    <2>1. PICK l \in Loops : pc[l] = "idle" /\ GoTo(l, "acquire")
      BY <1>1 DEF Start, At
    <2> QED
      BY <1>0, <1>1, <2>1, LoopMoves DEF Start, Working, storeVars, tableVars, chainVars
  <1>2. ASSUME NEW p \in Procs, Stop(p)
        PROVE  OutcomeInv'
    BY <1>0, <1>2, LoopsUntouched DEF Stop, storeVars, tableVars, chainVars
  <1>3. ASSUME NEW p \in Procs, Exit(p)
        PROVE  OutcomeInv'
    BY <1>0, <1>3, LoopsEnd DEF Exit, tableVars, chainVars
  <1>4. ASSUME NEW l \in Loops, Tick(l)
        PROVE  OutcomeInv'
    BY <1>0, <1>4, LoopMoves DEF Tick, Working, storeVars, tableVars, chainVars
  <1>5. ASSUME NEW l \in Loops, LoopStep(l)
        PROVE  OutcomeInv'
    <2>1. CASE AcquireBundleLock(l)
      BY <1>0, <2>1, LoopMoves
      DEF AcquireBundleLock, Working, Critical, tableVars, chainVars
    <2>2. CASE FetchPending(l)
      <3>1. pc[l] = "fetch" /\ (GoTo(l, "release") \/ GoTo(l, "create"))
        BY <2>2 DEF FetchPending, At
      <3>2. UNCHANGED <<status, current, bstatus, tx, payload>>
        BY <2>2 DEF FetchPending, tableVars, chainVars
      <3>3. \A m \in Loops : m # l => batch'[m] = batch[m]
        BY <2>2 DEF FetchPending, OutcomeInv, TypeOK
      <3>4. OwnBundle'
        BY <3>1, <3>2 DEF OutcomeInv, OwnBundle, GoTo, TypeOK, Working
      <3>5. TxFollowsLoop'
        BY <3>1, <3>2, <3>3 DEF OutcomeInv, TxFollowsLoop, GoTo, TypeOK
      <3>6. RowFollowsLoop'
        BY <3>1, <3>2 DEF OutcomeInv, RowFollowsLoop, GoTo, TypeOK
      <3>7. ConfirmedIsExecuted'
        BY <3>2, OutcomesUntouched DEF OutcomeInv
      <3> QED
        BY <1>0, <3>4, <3>5, <3>6, <3>7 DEF OutcomeInv
    <2>3. CASE CreateBundle(l)
      BY <1>0, <2>3, BundleCreated
    <2>4. CASE SubmitBundle(l)
      BY <1>0, <2>4, BundleSubmitted
    <2>5. CASE MarkSubmitted(l)
      BY <1>0, <2>5, BundleWritten, LoopMoves
      DEF MarkSubmitted, WriteBundle, At, Working, Critical, OpStatus, chainVars
    <2>6. CASE AwaitReceipt(l)
      BY <1>0, <2>6, LoopMoves
      DEF AwaitReceipt, Catch, CatchShort, CatchLong, At, Working, Critical, tableVars, chainVars
    <2>7. CASE ConfirmBundle(l)
      <3>1. tx[current[l]] = "mined"
        BY <2>7 DEF ConfirmBundle, WriteBundle, At, OutcomeInv, TxFollowsLoop
      <3> QED
        BY <1>0, <2>7, <3>1, BundleWritten, LoopMoves
        DEF ConfirmBundle, WriteBundle, At, Working, Critical, OpStatus, chainVars
    <2>8. CASE ConfirmOps(l)
      BY <1>0, <2>8, OpsWritten, LoopMoves
      DEF ConfirmOps, WriteOps, At, Working, Critical, OpStatus, tableVars, chainVars
    <2>9. CASE FailBundle(l)
      BY <1>0, <2>9, BundleWritten, LoopMoves
      DEF FailBundle, WriteBundle, At, Working, Critical, OpStatus, chainVars
    <2>13. CASE FailBundleTooLong(l)
      BY <1>0, <2>13, LoopMoves
      DEF FailBundleTooLong, Working, Critical, storeVars, tableVars, chainVars
    <2>10. CASE FailOps(l)
      BY <1>0, <2>10, OpsWritten, LoopMoves
      DEF FailOps, WriteOps, At, Working, Critical, OpStatus, tableVars, chainVars
    <2>11. CASE RemoveFailedOps(l)
      BY <1>0, <2>11, LoopMoves DEF RemoveFailedOps, Working, Critical, tableVars, chainVars
    <2>12. CASE ReleaseBundleLock(l)
      <3>1. /\ pc' = [m \in Loops |-> IF m \in {l} THEN "idle" ELSE pc[m]]
            /\ batch' = [m \in Loops |-> IF m \in {l} THEN {} ELSE batch[m]]
            /\ current' = [m \in Loops |-> IF m \in {l} THEN NoBundle ELSE current[m]]
        BY <2>12 DEF ReleaseBundleLock, GoTo, OutcomeInv, TypeOK
      <3> QED
        BY <1>0, <2>12, <3>1, LoopsEnd DEF ReleaseBundleLock, tableVars, chainVars
    <2> QED
      BY <1>5, <2>1, <2>2, <2>3, <2>4, <2>5, <2>6, <2>7, <2>8, <2>9, <2>10, <2>11, <2>12, <2>13
      DEF LoopStep
  <1>6. ASSUME NEW b \in Bundles, MineTx(b) \/ RevertTx(b)
        PROVE  OutcomeInv'
    BY <1>0, <1>6, ChainDecides DEF MineTx, RevertTx, storeVars, tableVars
  <1>7. CASE LockExpire
    BY <1>0, <1>7, LoopsUntouched DEF LockExpire, storeVars, tableVars, chainVars
  <1>8. ASSUME NEW r \in Ids, NEW h \in Hashes, Enqueue(r, h)
        PROVE  OutcomeInv'
    <2>1. UNCHANGED <<loopVars, bstatus, tx, payload>>
      BY <1>8 DEF Enqueue, bundlerVars, tableVars, chainVars
    <2>2. \A q \in Ids : status'[q] = "confirmed" => status[q] = "confirmed"
      BY <1>8 DEF Enqueue, InsertRow, OutcomeInv, TypeOK, StoreTypeOK
    <2> QED
      BY <1>0, <2>1, <2>2, LoopsUntouched
  <1>9. CASE UNCHANGED vars
    BY <1>0, <1>9, LoopsUntouched
    DEF vars, storeVars, bundlerVars, loopVars, tableVars, chainVars
  <1> QED
    BY <1>1, <1>2, <1>3, <1>4, <1>5, <1>6, <1>7, <1>8, <1>9 DEF Next, BundlerStep

\* With any failures, an expiring lock and overlapping loops, what the tables call
\* confirmed was executed on chain (BundlerService.ts:117-127).
THEOREM ConfirmedCorrect == Spec => []ConfirmedIsExecuted
  <1>1. OutcomeInv => ConfirmedIsExecuted
    BY DEF OutcomeInv
  <1> QED
    BY <1>1, OutcomeInit, OutcomeStep, PTL DEF Spec

-----------------------------------------------------------------------------
(* Bundles only go forward *)

LEMMA ProgressValues ==
  /\ Progress["absent"] = 0
  /\ Progress["pending"] = 1
  /\ Progress["submitted"] = 2
  /\ Progress["confirmed"] = 3
  /\ Progress["failed"] = 4
  BY DEF Progress

\* A write that takes a loop's bundle to s, where s is not behind.
LEMMA WriteGoesOn ==
  ASSUME OutcomeInv, NEW l \in Loops, NEW s \in OpStatus, NEW from, NEW next, NEW onError,
         WriteBundle(l, from, s, next, onError),
         current[l] \in Bundles => Progress[bstatus[current[l]]] <= Progress[s],
         NEW b \in Bundles
  PROVE  Progress[bstatus[b]] <= Progress[bstatus'[b]]
  <1>1. bstatus'[b] = bstatus[b] \/ (b = current[l] /\ bstatus'[b] = s)
    BY DEF WriteBundle, OutcomeInv, TypeOK
  <1>2. bstatus[b] \in OpStatus \cup {"absent"}
    BY DEF OutcomeInv, TypeOK
  <1>3. Progress[bstatus[b]] <= Progress[bstatus[b]]
    BY <1>2, ProgressValues DEF OpStatus
  <1> QED
    BY <1>1, <1>3

LEMMA BundleStepsOn ==
  ASSUME OutcomeInv, [Next]_vars, NEW b \in Bundles
  PROVE  Progress[bstatus[b]] <= Progress[bstatus'[b]]
  <1>0. bstatus[b] \in OpStatus \cup {"absent"}
    BY DEF OutcomeInv, TypeOK
  <1>1. CASE bstatus' = bstatus
    BY <1>0, <1>1, ProgressValues DEF OpStatus
  <1>2. ASSUME NEW l \in Loops, CreateBundle(l)
        PROVE  Progress[bstatus[b]] <= Progress[bstatus'[b]]
    <2>1. bstatus'[b] = bstatus[b] \/ (bstatus[b] = "absent" /\ bstatus'[b] = "pending")
      BY <1>2 DEF CreateBundle, tableVars, OutcomeInv, TypeOK
    <2> QED
      BY <1>0, <2>1, ProgressValues DEF OpStatus
  <1>3. ASSUME NEW l \in Loops, MarkSubmitted(l)
        PROVE  Progress[bstatus[b]] <= Progress[bstatus'[b]]
    <2>1. bstatus[current[l]] = "pending"
      BY <1>3 DEF MarkSubmitted, WriteBundle, At, OutcomeInv, RowFollowsLoop
    <2>2. Progress[bstatus[current[l]]] <= Progress["submitted"]
      BY <2>1, ProgressValues
    <2> QED
      BY <1>3, <2>2, WriteGoesOn DEF MarkSubmitted, OpStatus
  <1>4. ASSUME NEW l \in Loops, ConfirmBundle(l)
        PROVE  Progress[bstatus[b]] <= Progress[bstatus'[b]]
    <2>1. bstatus[current[l]] = "submitted"
      BY <1>4 DEF ConfirmBundle, WriteBundle, At, OutcomeInv, RowFollowsLoop
    <2>2. Progress[bstatus[current[l]]] <= Progress["confirmed"]
      BY <2>1, ProgressValues
    <2> QED
      BY <1>4, <2>2, WriteGoesOn DEF ConfirmBundle, OpStatus
  <1>5. ASSUME NEW l \in Loops, FailBundle(l)
        PROVE  Progress[bstatus[b]] <= Progress[bstatus'[b]]
    <2>1. current[l] \in Bundles => Progress[bstatus[current[l]]] <= Progress["failed"]
      BY ProgressValues DEF OutcomeInv, TypeOK, OpStatus
    <2> QED
      BY <1>5, <2>1, WriteGoesOn DEF FailBundle, OpStatus
  <1>6. \/ bstatus' = bstatus
        \/ \E l \in Loops : CreateBundle(l) \/ MarkSubmitted(l) \/ ConfirmBundle(l) \/ FailBundle(l)
    BY DEF Next, BundlerStep, LoopStep, vars, bundlerVars, tableVars, Start, Stop, Exit, Tick,
           AcquireBundleLock, FetchPending, SubmitBundle, AwaitReceipt, ConfirmOps,
           FailBundleTooLong, FailOps, WriteOps, RemoveFailedOps, ReleaseBundleLock, MineTx,
           RevertTx, LockExpire, Enqueue
  <1> QED
    BY <1>1, <1>2, <1>3, <1>4, <1>5, <1>6

\* No failure and no overlap takes a bundle's row back (BundlerService.ts:108-139).
THEOREM BundlesGoForward == Spec => BundleNeverGoesBack
  <1>1. OutcomeInv /\ [Next]_vars =>
            [\A b \in Bundles : Progress[bstatus[b]] <= Progress[bstatus'[b]]]_vars
    BY BundleStepsOn
  <1> QED
    BY <1>1, OutcomeInit, OutcomeStep, PTL DEF Spec, BundleNeverGoesBack

-----------------------------------------------------------------------------
(* The lock *)

\* Whoever is past the lock set the key that is there.
LockIsHeld == \A l \in Loops : pc[l] \in Critical => lock = l

LockInv == TypeOK /\ LockIsHeld

LEMMA LockInit == Init => LockInv
  BY TypeInit DEF Init, BundlerInit, LockInv, LockIsHeld, Critical

LEMMA LockStep ==
  ASSUME TtlOutlivesBundle, LockInv, [Next]_vars
  PROVE  LockInv'
  <1> USE DEF LockInv
  <1>0. TypeOK'
    BY TypeStep
  <1>1. ASSUME NEW p \in Procs, Start(p)
        PROVE  LockIsHeld'
    BY <1>1 DEF Start, GoTo, TypeOK, LockIsHeld, Critical
  <1>2. ASSUME NEW p \in Procs, Stop(p)
        PROVE  LockIsHeld'
    BY <1>2 DEF Stop, loopVars, LockIsHeld
  <1>3. ASSUME NEW p \in Procs, Exit(p)
        PROVE  LockIsHeld'
    BY <1>3 DEF Exit, LockIsHeld, Critical
  <1>4. ASSUME NEW l \in Loops, Tick(l)
        PROVE  LockIsHeld'
    BY <1>4 DEF Tick, GoTo, TypeOK, LockIsHeld, Critical
  <1>5. ASSUME NEW l \in Loops, AcquireBundleLock(l)
        PROVE  LockIsHeld'
    <2>1. lock = NoLoop => \A m \in Loops : pc[m] \notin Critical
      BY BundlerAssumption DEF LockIsHeld
    <2> QED
      BY <1>5, <2>1 DEF AcquireBundleLock, At, GoTo, TypeOK, LockIsHeld, Critical
  <1>6. ASSUME NEW l \in Loops, ReleaseBundleLock(l)
        PROVE  LockIsHeld'
    <2>1. \A m \in Loops : m # l => pc[m] \notin Critical
      BY <1>6 DEF ReleaseBundleLock, At, LockIsHeld, Critical
    <2> QED
      BY <1>6, <2>1 DEF ReleaseBundleLock, GoTo, TypeOK, LockIsHeld, Critical
  <1>7. ASSUME NEW l \in Loops, LoopStep(l), pc[l] \in Critical, lock' = lock
        PROVE  LockIsHeld'
    <2>1. \A m \in Loops : m # l => pc'[m] = pc[m]
      BY <1>7
      DEF LoopStep, AcquireBundleLock, FetchPending, CreateBundle, SubmitBundle, Catch,
          CatchShort, CatchLong, Broadcast, MarkSubmitted, AwaitReceipt, ConfirmBundle,
          ConfirmOps, FailBundle, FailBundleTooLong, FailOps, WriteBundle, WriteOps,
          RemoveFailedOps, ReleaseBundleLock, GoTo, TypeOK
    <2> QED
      BY <1>7, <2>1 DEF LockIsHeld
  <1>8. CASE LockExpire
    BY <1>0, <1>8 DEF LockExpire, TypeOK, LockIsHeld, loopVars
  <1>9. CASE UNCHANGED <<lock, pc>>
    BY <1>0, <1>9 DEF LockIsHeld
  <1>10. \/ \E p \in Procs : Start(p) \/ Stop(p) \/ Exit(p)
         \/ \E l \in Loops : Tick(l) \/ AcquireBundleLock(l) \/ ReleaseBundleLock(l)
         \/ \E l \in Loops : LoopStep(l) /\ pc[l] \in Critical /\ lock' = lock
         \/ LockExpire
         \/ UNCHANGED <<lock, pc>>
    BY DEF Next, BundlerStep, LoopStep, FetchPending, CreateBundle, SubmitBundle, Broadcast,
           MarkSubmitted, AwaitReceipt, ConfirmBundle, ConfirmOps, FailBundle, FailBundleTooLong,
           FailOps, WriteBundle, WriteOps, RemoveFailedOps, MineTx, RevertTx, Enqueue, At,
           Critical, vars, bundlerVars, loopVars
  <1> QED
    BY <1>0, <1>1, <1>2, <1>3, <1>4, <1>5, <1>6, <1>7, <1>8, <1>9, <1>10

\* If no loop outlives the lock's TTL, one loop at a time bundles, over all processes
\* and whatever fails: the DEL without an owner check never hits another's key
\* (BundlerService.ts:76-94 and 210-237).
THEOREM LockCorrect == TtlOutlivesBundle => (Spec => []MutualExclusion)
  <1> SUFFICES ASSUME TtlOutlivesBundle
               PROVE  Spec => []MutualExclusion
    OBVIOUS
  <1>1. LockInv /\ [Next]_vars => LockInv'
    BY LockStep
  <1>2. LockInv => MutualExclusion
    BY DEF LockInv, LockIsHeld, MutualExclusion
  <1> QED
    BY <1>1, <1>2, LockInit, PTL DEF Spec

-----------------------------------------------------------------------------
(* One nonce, one confirmation *)

Recorded == {r \in Ids : status[r] # "absent"}

\* What a loop works on and what a bundle carries are rows.
RowsOnly ==
    /\ \A l \in Loops : batch[l] \subseteq Recorded
    /\ \A b \in Bundles : payload[b] \subseteq Recorded

\* The chain has used no nonce twice.
NonceUsedOnce == \A r, q \in Executed : r # q => KeyOf[hash[r]] # KeyOf[hash[q]]

NonceInv == RowsOnly /\ NonceUsedOnce

LEMMA NonceInit == Init => NonceInv
  BY DEF Init, BundlerInit, NonceInv, RowsOnly, NonceUsedOnce, Executed

\* A row stays, with its hash: only Enqueue inserts, and only where there is none.
LEMMA RowsStay ==
  ASSUME TypeOK, RowsOnly, [Next]_vars
  PROVE  \A r \in Recorded : r \in Recorded' /\ hash'[r] = hash[r]
  <1>1. ASSUME NEW S \in SUBSET Ids, NEW s \in OpStatus, S \subseteq Recorded,
               SetStatus(S, s), UNCHANGED hash
        PROVE  \A r \in Recorded : r \in Recorded' /\ hash'[r] = hash[r]
    BY <1>1 DEF SetStatus, Recorded, OpStatus
  <1>2. ASSUME NEW l \in Loops, ConfirmOps(l) \/ FailOps(l)
        PROVE  \A r \in Recorded : r \in Recorded' /\ hash'[r] = hash[r]
    <2>1. batch[l] \subseteq Recorded /\ batch[l] \in SUBSET Ids
      BY DEF RowsOnly, TypeOK
    <2>2. UNCHANGED hash
      BY <1>2 DEF ConfirmOps, FailOps, WriteOps
    <2>3. UNCHANGED status \/ \E s \in OpStatus : SetStatus(batch[l], s)
      BY <1>2 DEF ConfirmOps, FailOps, WriteOps, OpStatus
    <2> QED
      BY <1>1, <2>1, <2>2, <2>3 DEF Recorded
  <1>3. ASSUME NEW r \in Ids, NEW h \in Hashes, Enqueue(r, h)
        PROVE  \A q \in Recorded : q \in Recorded' /\ hash'[q] = hash[q]
    BY <1>3 DEF Enqueue, InsertRow, Recorded, TypeOK, StoreTypeOK
  <1>4. CASE UNCHANGED <<hash, status>>
    BY <1>4 DEF Recorded
  <1>5. \/ \E l \in Loops : ConfirmOps(l) \/ FailOps(l)
        \/ \E r \in Ids, h \in Hashes : Enqueue(r, h)
        \/ UNCHANGED <<hash, status>>
    BY DEF Next, BundlerStep, LoopStep, Start, Stop, Exit, Tick, AcquireBundleLock, FetchPending,
           CreateBundle, SubmitBundle, MarkSubmitted, AwaitReceipt, ConfirmBundle, FailBundle,
           FailBundleTooLong, WriteBundle, RemoveFailedOps, ReleaseBundleLock, MineTx, RevertTx,
           LockExpire, vars, storeVars
  <1> QED
    BY <1>2, <1>3, <1>4, <1>5

\* A batch holds rows; a payload is a batch, or what it was.
LEMMA BatchesAreRows ==
  ASSUME TypeOK, RowsOnly, [Next]_vars
  PROVE  /\ \A l \in Loops : batch'[l] \subseteq Recorded
         /\ \A b \in Bundles : payload'[b] \subseteq Recorded
         /\ \A b \in Bundles : tx'[b] = "mined" => payload'[b] = payload[b]
  <1> DEFINE Goal == /\ \A l \in Loops : batch'[l] \subseteq Recorded
                     /\ \A b \in Bundles : payload'[b] \subseteq Recorded
                     /\ \A b \in Bundles : tx'[b] = "mined" => payload'[b] = payload[b]
  <1>1. ASSUME NEW l \in Loops, FetchPending(l)
        PROVE  Goal
    <2>1. UNCHANGED payload /\ \A m \in Loops : batch'[m] = batch[m] \/ batch'[m] \subseteq Pending
      BY <1>1 DEF FetchPending, IsOldestPending, chainVars, TypeOK
    <2> QED
      BY <2>1 DEF RowsOnly, Recorded, Pending
  <1>2. ASSUME NEW l \in Loops, SubmitBundle(l)
        PROVE  Goal
    <2>1. CASE Broadcast(l)
      BY <1>2, <2>1 DEF SubmitBundle, Broadcast, RowsOnly, TypeOK
    <2>2. CASE UNCHANGED chainVars
      BY <1>2, <2>2 DEF SubmitBundle, chainVars, RowsOnly
    <2> QED
      BY <1>2, <2>1, <2>2 DEF SubmitBundle
  <1>3. ASSUME UNCHANGED payload, \A l \in Loops : batch'[l] \in {batch[l], {}}
        PROVE  Goal
    BY <1>3 DEF RowsOnly
  <1>4. \/ \E l \in Loops : FetchPending(l) \/ SubmitBundle(l)
        \/ UNCHANGED payload /\ \A l \in Loops : batch'[l] \in {batch[l], {}}
    BY DEF Next, BundlerStep, LoopStep, Start, Stop, Exit, Tick, AcquireBundleLock, CreateBundle,
           MarkSubmitted, AwaitReceipt, ConfirmBundle, ConfirmOps, FailBundle, FailBundleTooLong,
           FailOps, WriteBundle, WriteOps, RemoveFailedOps, ReleaseBundleLock, MineTx, RevertTx,
           LockExpire, Enqueue, TypeOK, vars, bundlerVars, loopVars, chainVars
  <1> QED
    BY <1>1, <1>2, <1>3, <1>4

\* Only MineTx adds to what was executed.
LEMMA OnlyMineTx ==
  ASSUME TypeOK, [Next]_vars, NEW b \in Bundles, tx'[b] = "mined"
  PROVE  tx[b] = "mined" \/ MineTx(b)
  BY DEF Next, BundlerStep, LoopStep, Start, Stop, Exit, Tick, AcquireBundleLock, FetchPending,
         CreateBundle, SubmitBundle, Broadcast, MarkSubmitted, AwaitReceipt, ConfirmBundle,
         ConfirmOps, FailBundle, FailBundleTooLong, FailOps, WriteBundle, WriteOps,
         RemoveFailedOps, ReleaseBundleLock, MineTx, RevertTx, LockExpire, Enqueue, TypeOK, vars,
         bundlerVars, chainVars

LEMMA NonceStep == TypeOK /\ NonceInv /\ [Next]_vars => NonceInv'
  <1> SUFFICES ASSUME TypeOK, NonceInv, [Next]_vars
               PROVE  NonceInv'
    OBVIOUS
  <1> USE DEF NonceInv
  <1>1. RowsOnly'
    BY RowsStay, BatchesAreRows DEF RowsOnly
  <1>2. \A b \in Bundles : tx'[b] = "mined" =>
            payload'[b] = payload[b] /\ \A r \in payload[b] : hash'[r] = hash[r]
    BY RowsStay, BatchesAreRows DEF RowsOnly
  <1>3. ASSUME NEW b \in Bundles, MineTx(b)
        PROVE  NonceUsedOnce'
    <2>1. tx' = [tx EXCEPT ![b] = "mined"] /\ Mineable(b) /\ UNCHANGED <<hash, payload>>
      BY <1>3 DEF MineTx, storeVars
    <2>2. Executed' = Executed \cup payload[b]
      BY <1>3, <2>1 DEF Executed, MineTx, TypeOK
    <2> QED
      BY <2>1, <2>2 DEF NonceUsedOnce, Mineable
  <1>4. ASSUME \A b \in Bundles : ~MineTx(b)
        PROVE  NonceUsedOnce'
    <2>1. \A r \in Executed' : r \in Executed /\ hash'[r] = hash[r]
      BY <1>2, <1>4, OnlyMineTx DEF Executed
    <2> QED
      BY <2>1 DEF NonceUsedOnce
  <1> QED
    BY <1>1, <1>3, <1>4

\* Whatever fails and however loops overlap, no nonce is confirmed for two rows: the
\* chain uses it once, and what is confirmed was executed (BundlerService.ts:117-127).
THEOREM NonceCorrect == Spec => []NonceConfirmedOnce
  <1>1. OutcomeInv /\ NonceInv => NonceConfirmedOnce
    BY DEF OutcomeInv, ConfirmedIsExecuted, NonceInv, NonceUsedOnce, NonceConfirmedOnce
  <1>2. OutcomeInv => TypeOK
    BY DEF OutcomeInv
  <1> QED
    BY <1>1, <1>2, OutcomeInit, OutcomeStep, NonceInit, NonceStep, PTL DEF Spec

=============================================================================

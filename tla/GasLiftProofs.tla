--------------------------- MODULE GasLiftProofs ---------------------------
(* The two halves of the bundler keep out of each other's way: GasLift      *)
(* implements JsonRpc, and it implements BundlerService, for any number of  *)
(* processes, loops, clients, operations and failures.  The second part     *)
(* draws on it: what SettlementProofs and JsonRpcProofs show of a half is   *)
(* shown of the whole.                                                      *)
EXTENDS GasLift, TLAPS

-----------------------------------------------------------------------------
(* What the two mappings need to know of a state *)

RowStatus == {"absent", "pending", "submitted", "confirmed", "failed"}

CallSteps == {"idle", "find", "count", "conflict", "lookup", "evict", "simulate", "save",
              "addKeys", "clear"}

\* A request that is past Submit has its operation.
OpsAreKnown == \A c \in Clients : cpc[c] # "idle" /\ cpc[c] # "clear" => op[c] \in Hashes

\* A loop works on rows that are there.
BatchIsPresent == \A l \in Loops : \A r \in batch[l] : status[r] # "absent"

MeetInv ==
    /\ status \in [Ids -> RowStatus]
    /\ cpc \in [Clients -> CallSteps]
    /\ op \in [Clients -> Hashes \cup {NoHash}]
    /\ batch \in [Loops -> SUBSET Ids]
    /\ OpsAreKnown
    /\ BatchIsPresent

LEMMA MeetInit == Init => MeetInv
  <1> SUFFICES ASSUME Init PROVE MeetInv
    OBVIOUS
  <1>1. /\ status = [r \in Ids |-> "absent"]
        /\ cpc = [c \in Clients |-> "idle"]
        /\ op = [c \in Clients |-> NoHash]
        /\ batch = [l \in Loops |-> {}]
    BY DEF Init, Calls!RpcInit, Calls!Init, Calls!MempoolInit, Loop!Init, Loop!BundlerInit,
           Loop!StoreInit
  <1>2. status \in [Ids -> RowStatus]
    BY <1>1 DEF RowStatus
  <1>3. /\ cpc \in [Clients -> CallSteps]
        /\ op \in [Clients -> Hashes \cup {NoHash}]
        /\ batch \in [Loops -> SUBSET Ids]
    BY <1>1 DEF CallSteps
  <1>4. OpsAreKnown
    BY <1>1 DEF OpsAreKnown
  <1>5. BatchIsPresent
    BY <1>1 DEF BatchIsPresent
  <1> QED
    BY <1>2, <1>3, <1>4, <1>5 DEF MeetInv

-----------------------------------------------------------------------------
(* What a step of either half does to it *)

\* How a request moves on: it ends, begins, or keeps its operation.
Moves(c) ==
    \E s \in CallSteps :
        /\ cpc' = [cpc EXCEPT ![c] = s]
        /\ \/ s = "idle" /\ op' = [op EXCEPT ![c] = NoHash]
           \/ \E h \in Hashes : op' = [op EXCEPT ![c] = h]
           \/ op' = op /\ (s = "clear" \/ cpc[c] \notin {"idle", "clear"})

\* How it touches the table: not at all, or by a row of its own.
Inserts(c) ==
    \/ UNCHANGED <<hash, status>>
    \/ \E r \in Ids : Loop!InsertRow(r, op[c]) /\ op[c] \in Hashes

LEMMA RequestMoves ==
  ASSUME NEW c \in Clients, Calls!RequestStep(c)
  PROVE  Moves(c)
  <1>1. CASE Calls!Finish(c)
    BY <1>1 DEF Moves, CallSteps, Calls!Finish, Calls!CGo
  <1>2. ASSUME NEW s \in CallSteps, Calls!CGo(c, s), op' = op, cpc[c] \notin {"idle", "clear"}
        PROVE  Moves(c)
    BY <1>2 DEF Moves, Calls!CGo
  <1>3. Calls!FindExisting(c) => Moves(c)
    BY <1>1, <1>2
    DEF Calls!FindExisting, Calls!Refuse, Calls!Reject, Calls!Proceed, Calls!CAt,
        Calls!Counting, Calls!requestVars, CallSteps
  <1>4. Calls!CountMempool(c) => Moves(c)
    BY <1>1, <1>2
    DEF Calls!CountMempool, Calls!Refuse, Calls!Reject, Calls!Proceed, Calls!CAt,
        Calls!Counting, Calls!requestVars, CallSteps
  <1>5. Calls!CheckConflict(c) => Moves(c)
    BY <1>1, <1>2
    DEF Calls!CheckConflict, Calls!Reject, Calls!Proceed, Calls!CAt, Calls!requestVars, CallSteps
  <1>6. Calls!LookupRival(c) => Moves(c)
    BY <1>1, <1>2
    DEF Calls!LookupRival, Calls!Refuse, Calls!Reject, Calls!Proceed, Calls!CAt,
        Calls!requestVars, CallSteps
  <1>7. Calls!EvictRival(c) => Moves(c)
    BY <1>1, <1>2
    DEF Calls!EvictRival, Calls!Reject, Calls!Proceed, Calls!CAt, Calls!requestVars, CallSteps
  <1>8. Calls!SimulateValidation(c) => Moves(c)
    BY <1>1, <1>2
    DEF Calls!SimulateValidation, Calls!Refuse, Calls!Proceed, Calls!CAt, Calls!requestVars,
        CallSteps
  <1>9. Calls!SaveRow(c) => Moves(c)
    BY <1>1, <1>2 DEF Calls!SaveRow, Calls!Reject, Calls!CAt, Calls!requestVars, CallSteps
  <1>10. Calls!AddToMempool(c) \/ Calls!DeleteKeys(c) => Moves(c)
    BY <1>1 DEF Calls!AddToMempool, Calls!DeleteKeys
  <1> QED
    BY <1>3, <1>4, <1>5, <1>6, <1>7, <1>8, <1>9, <1>10 DEF Calls!RequestStep

LEMMA RequestInserts ==
  ASSUME MeetInv, NEW c \in Clients, Calls!RequestStep(c)
  PROVE  Inserts(c)
  <1>1. CASE Calls!SaveRow(c)
    <2>1. op[c] \in Hashes
      BY <1>1 DEF MeetInv, OpsAreKnown, Calls!SaveRow, Calls!CAt
    <2> QED
      BY <1>1, <2>1
      DEF Inserts, Calls!SaveRow, Calls!Reject, Calls!InsertRow, Loop!InsertRow
  <1>2. CASE ~Calls!SaveRow(c)
    BY <1>2
    DEF Inserts, Calls!RequestStep, Calls!FindExisting, Calls!CountMempool,
        Calls!CheckConflict, Calls!LookupRival, Calls!EvictRival, Calls!SimulateValidation,
        Calls!AddToMempool, Calls!DeleteKeys, Calls!Refuse, Calls!Reject, Calls!Proceed
  <1> QED
    BY <1>1, <1>2

\* A step of the calls, as the loops see it.
LEMMA CallsEffect ==
  ASSUME MeetInv, Calls!RpcStep
  PROVE  \/ UNCHANGED <<hash, status, cpc, op>>
         \/ \E c \in Clients : Moves(c) /\ Inserts(c)
  <1>1. ASSUME NEW c \in Clients, Calls!Send(c)
        PROVE  Moves(c) /\ Inserts(c)
    BY <1>1 DEF Calls!Send, Calls!Submit, Calls!CGo, Calls!storeVars, Moves, Inserts, CallSteps
  <1>2. ASSUME NEW c \in Clients, Calls!ListKeys(c)
        PROVE  Moves(c) /\ Inserts(c)
    BY <1>2 DEF Calls!ListKeys, Calls!CGo, Calls!storeVars, Moves, Inserts, CallSteps
  <1>3. ASSUME NEW c \in Clients, Calls!Serve(c)
        PROVE  Moves(c) /\ Inserts(c)
    BY <1>3, RequestMoves, RequestInserts DEF Calls!Serve
  <1>4. ASSUME UNCHANGED Calls!vars
        PROVE  UNCHANGED <<hash, status, cpc, op>>
    BY <1>4 DEF Calls!vars, Calls!storeVars, Calls!mempoolVars, Calls!requestVars
  <1>5. ASSUME NEW c \in Clients, Calls!Clear(c)
        PROVE  \/ UNCHANGED <<hash, status, cpc, op>>
               \/ Moves(c) /\ Inserts(c)
    BY <1>2, <1>4, <1>5 DEF Calls!Clear
  <1>6. ASSUME NEW c \in Clients, Calls!Get(c) \/ Calls!ReadCache(c) \/ Calls!ReadTable(c)
        PROVE  UNCHANGED <<hash, status, cpc, op>>
    BY <1>4, <1>6 DEF Calls!Get, Calls!ReadCache, Calls!ReadTable
  <1>7. ASSUME \/ \E h \in Hashes : Calls!ExpireCache(h)
               \/ \E k \in Keys : Calls!ExpireIndex(k)
        PROVE  UNCHANGED <<hash, status, cpc, op>>
    BY <1>7 DEF Calls!ExpireCache, Calls!ExpireIndex, Calls!mempoolVars, Calls!requestVars
  <1> QED
    BY <1>1, <1>3, <1>5, <1>6, <1>7 DEF Calls!RpcStep

\* A step of a loop, as the calls see it: rows stay rows, and at most the keys of a row
\* are dropped.
LEMMA LoopEffect ==
  ASSUME MeetInv, Loop!BundlerStep
  PROVE  /\ UNCHANGED hash
         /\ \/ UNCHANGED status
            \/ \E l \in Loops, s \in RowStatus \ {"absent"} : Loop!SetStatus(batch[l], s)
         /\ \/ UNCHANGED redisVars
            \/ \E r \in Ids : status[r] # "absent" /\ Loop!DropKeys(hash[r]) /\ UNCHANGED status
         /\ \/ UNCHANGED batch
            \/ \E l \in Loops, S \in SUBSET Ids :
                  /\ batch' = [batch EXCEPT ![l] = S]
                  /\ \A r \in S : status[r] # "absent"
                  /\ UNCHANGED status
  <1> DEFINE Goal == /\ UNCHANGED hash
                     /\ \/ UNCHANGED status
                        \/ \E l \in Loops, s \in RowStatus \ {"absent"} :
                              Loop!SetStatus(batch[l], s)
                     /\ \/ UNCHANGED redisVars
                        \/ \E r \in Ids : /\ status[r] # "absent" /\ Loop!DropKeys(hash[r])
                                          /\ UNCHANGED status
                     /\ \/ UNCHANGED batch
                        \/ \E l \in Loops, S \in SUBSET Ids :
                              /\ batch' = [batch EXCEPT ![l] = S]
                              /\ \A r \in S : status[r] # "absent"
                              /\ UNCHANGED status
  <1>1. ASSUME UNCHANGED <<hash, status, redisVars, batch>>
        PROVE  Goal
    BY <1>1
  <1>2. ASSUME NEW p \in Procs, Loop!Start(p) \/ Loop!Stop(p)
        PROVE  UNCHANGED <<hash, status, redisVars, batch>>
    BY <1>2 DEF Loop!Start, Loop!Stop, Loop!storeVars, Loop!redisVars, Loop!loopVars, redisVars
  <1>3. ASSUME NEW b \in Bundles, Loop!MineTx(b) \/ Loop!RevertTx(b)
        PROVE  UNCHANGED <<hash, status, redisVars, batch>>
    BY <1>3 DEF Loop!MineTx, Loop!RevertTx, Loop!storeVars, Loop!redisVars, Loop!loopVars,
                redisVars
  <1>4. ASSUME Loop!LockExpire
        PROVE  UNCHANGED <<hash, status, redisVars, batch>>
    BY <1>4 DEF Loop!LockExpire, Loop!storeVars, Loop!redisVars, Loop!loopVars, redisVars
  <1>5. ASSUME NEW l \in Loops, Loop!Tick(l) \/ Loop!AcquireBundleLock(l) \/ Loop!CreateBundle(l)
                                \/ Loop!SubmitBundle(l) \/ Loop!AwaitReceipt(l)
                                \/ Loop!FailBundleTooLong(l)
        PROVE  UNCHANGED <<hash, status, redisVars, batch>>
    BY <1>5 DEF Loop!Tick, Loop!AcquireBundleLock, Loop!CreateBundle, Loop!SubmitBundle,
                Loop!AwaitReceipt, Loop!FailBundleTooLong, Loop!storeVars, Loop!redisVars,
                Loop!loopVars, redisVars
  <1>6. ASSUME NEW l \in Loops, Loop!MarkSubmitted(l) \/ Loop!ConfirmBundle(l) \/ Loop!FailBundle(l)
        PROVE  UNCHANGED <<hash, status, redisVars, batch>>
    BY <1>6 DEF Loop!MarkSubmitted, Loop!ConfirmBundle, Loop!FailBundle, Loop!WriteBundle,
                Loop!redisVars, redisVars
  <1>7. ASSUME NEW l \in Loops, Loop!ConfirmOps(l) \/ Loop!FailOps(l)
        PROVE  Goal
    BY <1>7 DEF Loop!ConfirmOps, Loop!FailOps, Loop!WriteOps, Loop!redisVars, redisVars, RowStatus
  <1>8. ASSUME NEW l \in Loops, Loop!FetchPending(l)
        PROVE  Goal
    <2>1. UNCHANGED <<hash, status, redisVars>>
      BY <1>8 DEF Loop!FetchPending, Loop!redisVars, redisVars
    <2>2. \/ UNCHANGED batch
          \/ \E S \in SUBSET Ids : /\ batch' = [batch EXCEPT ![l] = S]
                                   /\ \A r \in S : status[r] # "absent"
      BY <1>8 DEF Loop!FetchPending, Loop!IsOldestPending, Loop!Pending
    <2> QED
      BY <2>1, <2>2
  <1>9. ASSUME NEW l \in Loops, Loop!ReleaseBundleLock(l)
        PROVE  Goal
    <2>1. UNCHANGED <<hash, status, redisVars>> /\ batch' = [batch EXCEPT ![l] = {}]
      BY <1>9 DEF Loop!ReleaseBundleLock, Loop!redisVars, redisVars
    <2> QED
      BY <2>1
  <1>10. ASSUME NEW l \in Loops, Loop!RemoveFailedOps(l)
         PROVE  Goal
    <2>1. UNCHANGED <<hash, status, batch>>
      BY <1>10 DEF Loop!RemoveFailedOps
    <2>2. \A r \in batch[l] : r \in Ids /\ status[r] # "absent"
      BY DEF MeetInv, BatchIsPresent
    <2>3. UNCHANGED redisVars \/ \E r \in batch[l] : Loop!DropKeys(hash[r])
      BY <1>10 DEF Loop!RemoveFailedOps, Loop!redisVars, redisVars
    <2> QED
      BY <2>1, <2>2, <2>3
  <1> HIDE DEF Goal
  <1>11. Goal
    BY <1>1, <1>2, <1>3, <1>4, <1>5, <1>6, <1>7, <1>8, <1>9, <1>10
    DEF Loop!BundlerStep, Loop!LoopStep
  <1> QED
    BY <1>11 DEF Goal

\* When a process exits, its calls and batches are forgotten and nothing else.
LEMMA ExitEffect ==
  ASSUME MeetInv, NEW p \in Procs, ProcessExits(p)
  PROVE  /\ UNCHANGED <<hash, status, redisVars>>
         /\ cpc' \in [Clients -> CallSteps] /\ op' \in [Clients -> Hashes \cup {NoHash}]
         /\ \A c \in Clients : cpc'[c] = "idle" \/ (cpc'[c] = cpc[c] /\ op'[c] = op[c])
         /\ batch' \in [Loops -> SUBSET Ids]
         /\ \A l \in Loops : batch'[l] \subseteq batch[l]
  <1>1. Calls!ServerExit({c \in Clients : ServedBy[c] = p})
    BY DEF ProcessExits, Calls!CallsVanish
  <1>2. UNCHANGED <<hash, status, redisVars>>
    BY <1>1 DEF Calls!ServerExit, Calls!redisVars, redisVars
  <1>3. /\ cpc' \in [Clients -> CallSteps]
        /\ op' \in [Clients -> Hashes \cup {NoHash}]
        /\ \A c \in Clients : cpc'[c] = "idle" \/ (cpc'[c] = cpc[c] /\ op'[c] = op[c])
    BY <1>1 DEF Calls!ServerExit, MeetInv, CallSteps
  <1>4. UNCHANGED batch \/ \E S \in SUBSET Loops :
                              batch' = [l \in Loops |-> IF l \in S THEN {} ELSE batch[l]]
    BY DEF ProcessExits, Loop!Exit, loopVars
  <1>5. batch' \in [Loops -> SUBSET Ids] /\ \A l \in Loops : batch'[l] \subseteq batch[l]
    BY <1>4 DEF MeetInv
  <1> QED
    BY <1>2, <1>3, <1>5

LEMMA RowsArePlaced ==
  ASSUME MeetInv, NEW c \in Clients, Inserts(c)
  PROVE  /\ status' \in [Ids -> RowStatus]
         /\ \A r \in Ids : status[r] # "absent" => status'[r] # "absent"
  BY DEF Inserts, Loop!InsertRow, MeetInv, RowStatus

LEMMA MeetStep == MeetInv /\ [Next]_vars => MeetInv'
  <1> SUFFICES ASSUME MeetInv, [Next]_vars PROVE MeetInv'
    OBVIOUS
  <1>1. CASE UNCHANGED vars
    BY <1>1 DEF vars, callVars, loopVars, MeetInv, OpsAreKnown, BatchIsPresent
  <1>2. CASE Calls!RpcStep /\ UNCHANGED loopVars
    <2>1. UNCHANGED batch
      BY <1>2 DEF loopVars
    <2>2. CASE UNCHANGED <<hash, status, cpc, op>>
      BY <2>1, <2>2 DEF MeetInv, OpsAreKnown, BatchIsPresent
    <2>3. ASSUME NEW c \in Clients, Moves(c), Inserts(c)
          PROVE  MeetInv'
      <3>1. cpc' \in [Clients -> CallSteps] /\ op' \in [Clients -> Hashes \cup {NoHash}]
        BY <2>3 DEF Moves, MeetInv
      <3>2. OpsAreKnown'
        BY <2>3 DEF Moves, MeetInv, OpsAreKnown
      <3>3. BatchIsPresent'
        BY <2>1, <2>3, RowsArePlaced DEF MeetInv, BatchIsPresent
      <3> QED
        BY <2>1, <2>3, <3>1, <3>2, <3>3, RowsArePlaced DEF MeetInv
    <2> QED
      BY <1>2, <2>2, <2>3, CallsEffect
  <1>3. CASE Loop!BundlerStep /\ UNCHANGED callVars
    <2>1. UNCHANGED <<cpc, op>>
      BY <1>3 DEF callVars
    <2>2. /\ status' \in [Ids -> RowStatus]
          /\ \A r \in Ids : status[r] # "absent" => status'[r] # "absent"
      BY <1>3, LoopEffect DEF Loop!SetStatus, MeetInv, RowStatus
    <2>3. batch' \in [Loops -> SUBSET Ids]
      BY <1>3, LoopEffect DEF MeetInv
    <2>4. BatchIsPresent'
      <3>1. CASE UNCHANGED batch
        BY <2>2, <3>1 DEF MeetInv, BatchIsPresent
      <3>2. ASSUME NEW l \in Loops, NEW S \in SUBSET Ids, batch' = [batch EXCEPT ![l] = S],
                   \A r \in S : status[r] # "absent", UNCHANGED status
            PROVE  BatchIsPresent'
        BY <3>2 DEF MeetInv, BatchIsPresent
      <3> QED
        BY <1>3, <3>1, <3>2, LoopEffect
    <2> QED
      BY <2>1, <2>2, <2>3, <2>4 DEF MeetInv, OpsAreKnown
  <1>4. ASSUME NEW p \in Procs, ProcessExits(p)
        PROVE  MeetInv'
    BY <1>4, ExitEffect DEF MeetInv, OpsAreKnown, BatchIsPresent
  <1> QED
    BY <1>1, <1>2, <1>3, <1>4 DEF Next

-----------------------------------------------------------------------------
(* The loops implement BundlerService, whatever the calls do *)

\* A step of the calls adds a row, or is none of the loops' business.
LEMMA CallsEnqueue ==
  ASSUME MeetInv, Calls!RpcStep, UNCHANGED loopVars
  PROVE  [Worker!Next]_(Worker!vars)
  <1>1. UNCHANGED Worker!bundlerVars /\ UNCHANGED faults
    BY DEF loopVars, Worker!bundlerVars, Worker!loopVars, Worker!tableVars, Worker!chainVars
  <1>2. ASSUME UNCHANGED <<hash, status>>
        PROVE  UNCHANGED Worker!vars
    BY <1>1, <1>2 DEF Worker!vars, Worker!storeVars
  <1>3. ASSUME NEW c \in Clients, NEW r \in Ids, Loop!InsertRow(r, op[c]), op[c] \in Hashes
        PROVE  Worker!Enqueue(r, op[c])
    BY <1>1, <1>3 DEF Loop!InsertRow, Worker!Enqueue, Worker!InsertRow, Worker!redisVars
  <1> QED
    BY <1>2, <1>3, CallsEffect DEF Inserts, Worker!Next

\* A loop does here what it does in BundlerService, whose model of the Redis keys is
\* constant: no step of a loop reads them.
LEMMA LoopsBundle ==
  ASSUME Loop!BundlerStep
  PROVE  Worker!BundlerStep
  <1>1. ASSUME NEW p \in Procs
        PROVE  (Loop!Start(p) => Worker!Start(p)) /\ (Loop!Stop(p) => Worker!Stop(p))
    BY DEF Loop!Start, Worker!Start, Loop!Stop, Worker!Stop, Loop!At, Worker!At, Loop!GoTo,
           Worker!GoTo, Loop!storeVars, Worker!storeVars, Loop!loopVars, Worker!loopVars,
           Loop!tableVars, Worker!tableVars, Loop!chainVars, Worker!chainVars
  <1>2. ASSUME NEW b \in Bundles
        PROVE  (Loop!MineTx(b) => Worker!MineTx(b)) /\ (Loop!RevertTx(b) => Worker!RevertTx(b))
    <2>1. Loop!Mineable(b) <=> Worker!Mineable(b)
      BY DEF Loop!Mineable, Worker!Mineable, Loop!Executed, Worker!Executed
    <2> QED
      BY <2>1
      DEF Loop!MineTx, Worker!MineTx, Loop!RevertTx, Worker!RevertTx, Loop!Fault, Worker!Fault,
          Loop!NoFault, Worker!NoFault, Loop!storeVars, Worker!storeVars, Worker!redisVars,
          Loop!loopVars, Worker!loopVars, Loop!tableVars, Worker!tableVars
  <1>3. Loop!LockExpire => Worker!LockExpire
    BY DEF Loop!LockExpire, Worker!LockExpire, Loop!Critical, Worker!Critical, Loop!storeVars,
           Worker!storeVars, Loop!loopVars, Worker!loopVars, Loop!tableVars, Worker!tableVars,
           Loop!chainVars, Worker!chainVars
  <1>4. ASSUME NEW l \in Loops, Loop!Tick(l) PROVE Worker!Tick(l)
    BY <1>4 DEF Loop!Tick, Worker!Tick, Loop!At, Worker!At, Loop!GoTo, Worker!GoTo,
                Loop!storeVars, Worker!storeVars, Loop!tableVars, Worker!tableVars,
                Loop!chainVars, Worker!chainVars
  <1>5. ASSUME NEW l \in Loops, Loop!AcquireBundleLock(l) PROVE Worker!AcquireBundleLock(l)
    BY <1>5
    DEF Loop!AcquireBundleLock, Worker!AcquireBundleLock, Loop!At, Worker!At, Loop!GoTo,
        Worker!GoTo, Loop!Fault, Worker!Fault, Loop!NoFault, Worker!NoFault,
        Loop!redisVars, Worker!redisVars, Loop!tableVars, Worker!tableVars,
        Loop!chainVars, Worker!chainVars
  <1>6. ASSUME NEW l \in Loops, Loop!FetchPending(l) PROVE Worker!FetchPending(l)
    <2>1. ASSUME NEW S \in SUBSET Ids
          PROVE  Loop!IsOldestPending(S, MaxOpsPerBundle)
                    <=> Worker!IsOldestPending(S, MaxOpsPerBundle)
      <3>1. \A T : Loop!Cardinality(T) = Worker!Cardinality(T)
        BY Zenon DEF Loop!Cardinality, Worker!Cardinality
      <3> QED
        BY <3>1 DEF Loop!IsOldestPending, Worker!IsOldestPending, Loop!Pending, Worker!Pending
    <2> QED
      BY <1>6, <2>1
      DEF Loop!FetchPending, Worker!FetchPending, Loop!At, Worker!At, Loop!GoTo, Worker!GoTo,
          Loop!Fault, Worker!Fault, Loop!NoFault, Worker!NoFault, Loop!redisVars,
          Worker!redisVars, Loop!tableVars, Worker!tableVars, Loop!chainVars, Worker!chainVars
  <1>7. ASSUME NEW l \in Loops, Loop!CreateBundle(l) PROVE Worker!CreateBundle(l)
    BY <1>7
    DEF Loop!CreateBundle, Worker!CreateBundle, Loop!At, Worker!At, Loop!GoTo,
        Worker!GoTo, Loop!Fault, Worker!Fault, Loop!NoFault, Worker!NoFault,
        Loop!redisVars, Worker!redisVars, Loop!tableVars, Worker!tableVars,
        Loop!chainVars, Worker!chainVars
  <1>8. ASSUME NEW l \in Loops, Loop!SubmitBundle(l) PROVE Worker!SubmitBundle(l)
    <2>1. Loop!Estimable(batch[l]) <=> Worker!Estimable(batch[l])
      BY Zenon
      DEF Loop!Estimable, Worker!Estimable, Loop!SumFunctionOnSet, Worker!SumFunctionOnSet,
          Loop!FoldFunctionOnSet, Worker!FoldFunctionOnSet, Loop!MapThenFoldSet,
          Worker!MapThenFoldSet
    <2> QED
      BY <1>8, <2>1
      DEF Loop!SubmitBundle, Worker!SubmitBundle, Loop!Broadcast, Worker!Broadcast,
          Loop!Catch, Worker!Catch, Loop!CatchShort, Worker!CatchShort, Loop!CatchLong,
          Worker!CatchLong, Loop!At, Worker!At, Loop!GoTo, Worker!GoTo, Loop!Fault,
          Worker!Fault, Loop!NoFault, Worker!NoFault, Loop!redisVars, Worker!redisVars,
          Loop!tableVars, Worker!tableVars, Loop!chainVars, Worker!chainVars
  <1>9. ASSUME NEW l \in Loops, Loop!AwaitReceipt(l) PROVE Worker!AwaitReceipt(l)
    BY <1>9
    DEF Loop!AwaitReceipt, Worker!AwaitReceipt, Loop!Catch, Worker!Catch, Loop!CatchShort,
        Worker!CatchShort, Loop!CatchLong, Worker!CatchLong, Loop!At, Worker!At, Loop!GoTo,
        Worker!GoTo, Loop!Fault, Worker!Fault, Loop!NoFault, Worker!NoFault,
        Loop!redisVars, Worker!redisVars, Loop!tableVars, Worker!tableVars,
        Loop!chainVars, Worker!chainVars
  <1>10. ASSUME NEW l \in Loops, Loop!RemoveFailedOps(l) PROVE Worker!RemoveFailedOps(l)
    BY <1>10
    DEF Loop!RemoveFailedOps, Worker!RemoveFailedOps, Loop!DropKeys, Worker!DropKeys,
        Loop!At, Worker!At, Loop!GoTo, Worker!GoTo, Loop!Fault, Worker!Fault,
        Loop!NoFault, Worker!NoFault, Loop!redisVars, Worker!redisVars, Loop!tableVars,
        Worker!tableVars, Loop!chainVars, Worker!chainVars
  <1>11. ASSUME NEW l \in Loops, Loop!ReleaseBundleLock(l) PROVE Worker!ReleaseBundleLock(l)
    BY <1>11
    DEF Loop!ReleaseBundleLock, Worker!ReleaseBundleLock, Loop!At, Worker!At, Loop!GoTo,
        Worker!GoTo, Loop!Fault, Worker!Fault, Loop!NoFault, Worker!NoFault,
        Loop!redisVars, Worker!redisVars, Loop!tableVars, Worker!tableVars,
        Loop!chainVars, Worker!chainVars
  <1>12. ASSUME NEW l \in Loops
        PROVE  /\ Loop!MarkSubmitted(l) => Worker!MarkSubmitted(l)
               /\ Loop!ConfirmBundle(l) => Worker!ConfirmBundle(l)
               /\ Loop!FailBundle(l) => Worker!FailBundle(l)
    BY DEF Loop!MarkSubmitted, Worker!MarkSubmitted, Loop!ConfirmBundle,
        Worker!ConfirmBundle, Loop!FailBundle, Worker!FailBundle, Loop!WriteBundle,
        Worker!WriteBundle, Loop!At, Worker!At, Loop!GoTo, Worker!GoTo, Loop!Fault,
        Worker!Fault, Loop!NoFault, Worker!NoFault, Loop!redisVars, Worker!redisVars,
        Loop!chainVars, Worker!chainVars
  <1>13. ASSUME NEW l \in Loops
        PROVE  /\ Loop!ConfirmOps(l) => Worker!ConfirmOps(l)
               /\ Loop!FailOps(l) => Worker!FailOps(l)
    BY DEF Loop!ConfirmOps, Worker!ConfirmOps, Loop!FailOps, Worker!FailOps, Loop!WriteOps,
        Worker!WriteOps, Loop!SetStatus, Worker!SetStatus, Loop!At, Worker!At,
        Loop!GoTo, Worker!GoTo, Loop!Fault, Worker!Fault, Loop!NoFault, Worker!NoFault,
        Loop!redisVars, Worker!redisVars, Loop!tableVars, Worker!tableVars,
        Loop!chainVars, Worker!chainVars
  <1>14. ASSUME NEW l \in Loops, Loop!FailBundleTooLong(l) PROVE Worker!FailBundleTooLong(l)
    BY <1>14
    DEF Loop!FailBundleTooLong, Worker!FailBundleTooLong, Loop!At, Worker!At, Loop!GoTo,
        Worker!GoTo, Loop!storeVars, Worker!storeVars, Loop!redisVars, Worker!redisVars,
        Loop!tableVars, Worker!tableVars, Loop!chainVars, Worker!chainVars
  <1> QED
    BY <1>1, <1>2, <1>3, <1>4, <1>5, <1>6, <1>7, <1>8, <1>9, <1>10, <1>11, <1>12, <1>13,
       <1>14
    DEF Loop!BundlerStep, Worker!BundlerStep, Loop!LoopStep, Worker!LoopStep

LEMMA BundlerNext == MeetInv /\ [Next]_vars => [Worker!Next]_(Worker!vars)
  <1> SUFFICES ASSUME MeetInv, [Next]_vars PROVE [Worker!Next]_(Worker!vars)
    OBVIOUS
  <1>1. ASSUME UNCHANGED <<hash, status, loopVars>>
        PROVE  UNCHANGED Worker!vars
    BY <1>1 DEF loopVars, Worker!vars, Worker!storeVars, Worker!bundlerVars, Worker!loopVars,
                Worker!tableVars, Worker!chainVars
  <1>2. CASE UNCHANGED vars
    BY <1>1, <1>2 DEF vars
  <1>3. CASE Calls!RpcStep /\ UNCHANGED loopVars
    BY <1>3, CallsEnqueue
  <1>4. CASE Loop!BundlerStep
    BY <1>4, LoopsBundle DEF Worker!Next
  <1>5. ASSUME NEW p \in Procs, ProcessExits(p)
        PROVE  [Worker!Next]_(Worker!vars)
    <2>1. CASE Loop!Exit(p)
      <3>1. Worker!Exit(p)
        BY <2>1 DEF Loop!Exit, Worker!Exit, Loop!At, Worker!At, Loop!Fault, Worker!Fault,
                    Loop!redisVars, Worker!redisVars, Loop!tableVars, Worker!tableVars,
                    Loop!chainVars, Worker!chainVars
      <3> QED
        BY <3>1 DEF Worker!Next
    <2>2. CASE UNCHANGED loopVars
      BY <1>1, <1>5, <2>2, ExitEffect
    <2> QED
      BY <1>5, <2>1, <2>2 DEF ProcessExits
  <1> QED
    BY <1>2, <1>3, <1>4, <1>5 DEF Next

\* Whatever the calls do, the bundle loops behave as BundlerService allows: its
\* theorems hold of the loops beside the calls (MempoolService.ts:33-90 against
\* BundlerService.ts:96-152).
THEOREM LoopsImplementBundler == Spec => ImplementsBundler
  <1>1. Init => Worker!Init
    BY DEF Init, Loop!Init, Worker!Init, Loop!StoreInit, Worker!StoreInit, Loop!BundlerInit,
           Worker!BundlerInit
  <1> QED
    BY <1>1, MeetInit, MeetStep, BundlerNext, PTL DEF Spec, ImplementsBundler, Worker!Spec

-----------------------------------------------------------------------------
(* The calls implement JsonRpc, whatever the loops do *)

LEMMA PresentStays == UNCHANGED status => UNCHANGED Present
  BY DEF Present

\* A loop changes the status of a row, never whether it is there.
LEMMA PresentIgnoresLoops ==
  ASSUME MeetInv, Loop!BundlerStep
  PROVE  UNCHANGED Present
  BY LoopEffect DEF MeetInv, BatchIsPresent, Present, RowStatus, Loop!SetStatus

\* A request does here what it does in JsonRpc, which sees of a row whether it is there.
LEMMA RequestsServe ==
  ASSUME MeetInv, NEW c \in Clients, Calls!RequestStep(c)
  PROVE  Service!RequestStep(c)
  <1>1. Calls!Finish(c) <=> Service!Finish(c)
    BY DEF Calls!Finish, Service!Finish, Calls!CGo, Service!CGo
  <1>2. (Calls!NoFault <=> Service!NoFault) /\ \A k : Calls!Fault(k) <=> Service!Fault(k)
    BY DEF Calls!NoFault, Service!NoFault, Calls!Fault, Service!Fault
  <1>3. \A k : Calls!Reject(c, k) => Service!Reject(c, k)
    BY <1>1, <1>2, PresentStays DEF Calls!Reject, Service!Reject, Calls!redisVars, Service!redisVars
  <1>4. \A s : Calls!Proceed(c, s) => Service!Proceed(c, s)
    BY <1>2, PresentStays
    DEF Calls!Proceed, Service!Proceed, Calls!CGo, Service!CGo, Calls!redisVars,
        Service!redisVars, Calls!requestVars, Service!requestVars
  <1>5. Calls!Refuse(c) => Service!Refuse(c)
    BY <1>1, <1>2, PresentStays DEF Calls!Refuse, Service!Refuse, Calls!redisVars, Service!redisVars
  <1>6. \A h : Calls!RowsOf(h) = Service!RowsOf(h)
    BY DEF Calls!RowsOf, Service!RowsOf
  <1>7. Calls!FindExisting(c) => Service!FindExisting(c)
    BY <1>3, <1>4, <1>5, <1>6
    DEF Calls!FindExisting, Service!FindExisting, Calls!CAt, Service!CAt,
        Calls!Counting, Service!Counting
  <1>8. Calls!CountMempool(c) => Service!CountMempool(c)
    <2>1. Calls!Cardinality(Calls!CachedHashes) = Service!Cardinality(Service!CachedHashes)
      BY Zenon DEF Calls!Cardinality, Service!Cardinality, Calls!CachedHashes, Service!CachedHashes
    <2> QED
      BY <1>3, <1>4, <1>5, <2>1
      DEF Calls!CountMempool, Service!CountMempool, Calls!CAt, Service!CAt,
        Calls!Counting, Service!Counting
  <1>9. Calls!CheckConflict(c) => Service!CheckConflict(c)
    BY <1>2, <1>3, <1>4, PresentStays
    DEF Calls!CheckConflict, Service!CheckConflict, Calls!CAt, Service!CAt, Calls!CGo,
        Service!CGo, Calls!redisVars, Service!redisVars
  <1>10. Calls!LookupRival(c) => Service!LookupRival(c)
    BY <1>3, <1>4, <1>5, <1>6
    DEF Calls!LookupRival, Service!LookupRival, Calls!CAt, Service!CAt, Calls!Replaces,
        Service!Replaces, Calls!SpellingOf, Service!SpellingOf
  <1>11. Calls!EvictRival(c) => Service!EvictRival(c)
    BY <1>1, <1>2, <1>3, <1>4, <1>6, PresentStays
    DEF Calls!EvictRival, Service!EvictRival, Calls!CAt, Service!CAt, Calls!DropKeys,
        Service!DropKeys
  <1>12. Calls!SimulateValidation(c) => Service!SimulateValidation(c)
    BY <1>4, <1>5 DEF Calls!SimulateValidation, Service!SimulateValidation, Calls!CAt, Service!CAt
  <1>13. Calls!SaveRow(c) => Service!SaveRow(c)
    <2>1. \A r \in Ids : Calls!InsertRow(r, op[c]) => Service!InsertRow(r, op[c])
      BY DEF Calls!InsertRow, Service!InsertRow, Present, MeetInv, RowStatus
    <2> QED
      BY <1>1, <1>2, <1>3, <2>1
      DEF Calls!SaveRow, Service!SaveRow, Calls!CAt, Service!CAt, Calls!CGo, Service!CGo,
        Calls!redisVars, Service!redisVars, Calls!requestVars, Service!requestVars
  <1>14. Calls!AddToMempool(c) => Service!AddToMempool(c)
    BY <1>1, <1>2, PresentStays
    DEF Calls!AddToMempool, Service!AddToMempool, Calls!CAt, Service!CAt, Calls!AddKeys,
        Service!AddKeys, Calls!redisVars, Service!redisVars
  <1>15. Calls!DeleteKeys(c) => Service!DeleteKeys(c)
    BY <1>1, <1>2, PresentStays
    DEF Calls!DeleteKeys, Service!DeleteKeys, Calls!CAt, Service!CAt
  <1> QED
    BY <1>7, <1>8, <1>9, <1>10, <1>11, <1>12, <1>13, <1>14, <1>15
    DEF Calls!RequestStep, Service!RequestStep

LEMMA CallsServe ==
  ASSUME MeetInv, Calls!RpcStep
  PROVE  Service!RpcStep
  <1>1. ASSUME UNCHANGED Calls!vars PROVE UNCHANGED Service!vars
    BY <1>1, PresentStays
    DEF Calls!vars, Service!vars, Calls!storeVars, Service!storeVars, Calls!mempoolVars,
        Service!mempoolVars, Calls!requestVars, Service!requestVars
  <1>2. \A c, h, at : Calls!Ask(c, h, at) => Service!Ask(c, h, at)
    BY DEF Calls!Ask, Service!Ask, Calls!Waiting, Service!Waiting
  <1>3. \A c, answer : Calls!Answer(c, answer) <=> Service!Answer(c, answer)
    BY DEF Calls!Answer, Service!Answer
  <1>4. \A h : Calls!RowsOf(h) = Service!RowsOf(h)
    BY DEF Calls!RowsOf, Service!RowsOf
  <1>5. ASSUME NEW c \in Clients, Calls!Send(c) PROVE Service!Send(c)
    <2>1. Service!Submit(c)
      BY <1>5, PresentStays
      DEF Calls!Send, Service!Send, Calls!Submit, Service!Submit, Calls!CAt, Service!CAt,
        Calls!CGo, Service!CGo, Calls!Spelling, Service!Spelling, Calls!storeVars,
        Service!storeVars
    <2> QED
      BY <1>2, <1>5, <2>1 DEF Calls!Send, Service!Send
  <1>6. ASSUME NEW c \in Clients, Calls!Clear(c) PROVE Service!Clear(c)
    <2>1. Calls!ListKeys(c) => Service!ListKeys(c)
      BY PresentStays
      DEF Calls!ListKeys, Service!ListKeys, Calls!CAt, Service!CAt, Calls!CGo,
        Service!CGo, Calls!storeVars, Service!storeVars, Calls!CachedHashes,
        Service!CachedHashes
    <2> QED
      BY <1>1, <1>2, <1>6, <2>1
      DEF Calls!Clear, Service!Clear, Calls!CachedHashes, Service!CachedHashes
  <1>7. ASSUME NEW c \in Clients, Calls!Serve(c) PROVE Service!Serve(c)
    <2>1. Calls!Outcome(c) = Service!Outcome(c)
      BY <1>4 DEF Calls!Outcome, Service!Outcome, Calls!CAt, Service!CAt
    <2> QED
      BY <1>3, <1>7, <2>1, RequestsServe
      DEF Calls!Serve, Service!Serve, Calls!rpcVars, Service!rpcVars
  <1>8. ASSUME NEW c \in Clients, Calls!Get(c) PROVE Service!Get(c)
    BY <1>1, <1>2, <1>8 DEF Calls!Get, Service!Get
  <1>10. ASSUME NEW c \in Clients, Calls!ReadCache(c) PROVE Service!ReadCache(c)
    BY <1>1, <1>3, <1>10 DEF Calls!ReadCache, Service!ReadCache
  <1>11. ASSUME NEW c \in Clients, Calls!ReadTable(c) PROVE Service!ReadTable(c)
    BY <1>1, <1>3, <1>4, <1>11 DEF Calls!ReadTable, Service!ReadTable
  <1>12. ASSUME NEW h \in Hashes, Calls!ExpireCache(h) PROVE Service!ExpireCache(h)
    BY <1>12, PresentStays
    DEF Calls!ExpireCache, Service!ExpireCache, Calls!mempoolVars, Service!mempoolVars,
        Calls!requestVars, Service!requestVars
  <1>13. ASSUME NEW k \in Keys, Calls!ExpireIndex(k) PROVE Service!ExpireIndex(k)
    BY <1>13, PresentStays
    DEF Calls!ExpireIndex, Service!ExpireIndex, Calls!mempoolVars, Service!mempoolVars,
        Calls!requestVars, Service!requestVars
  <1> QED
    BY <1>5, <1>6, <1>7, <1>8, <1>10, <1>11, <1>12, <1>13
    DEF Calls!RpcStep, Service!RpcStep, Calls!rpcVars, Service!rpcVars

\* A step of a loop drops the keys of a row, or is none of the calls' business.
LEMMA LoopsDropKeys ==
  ASSUME MeetInv, Loop!BundlerStep, UNCHANGED callVars
  PROVE  [Service!RpcNext]_<<Service!vars, Service!rpcVars>>
  <1>1. UNCHANGED Service!rpcVars /\ UNCHANGED Service!mempoolVars /\ UNCHANGED callFaults
    BY DEF callVars, Service!rpcVars, Service!mempoolVars, Service!requestVars
  <1>2. UNCHANGED hash /\ UNCHANGED Present
    BY LoopEffect, PresentIgnoresLoops
  <1>3. CASE UNCHANGED redisVars
    BY <1>1, <1>2, <1>3 DEF Service!vars, Service!storeVars, redisVars
  <1>4. ASSUME NEW r \in Ids, status[r] # "absent", Loop!DropKeys(hash[r])
        PROVE  Service!BundlerDropsKeys(r)
    BY <1>1, <1>2, <1>4 DEF Loop!DropKeys, Service!DropKeys, Service!BundlerDropsKeys, Present
  <1> QED
    BY <1>1, <1>3, <1>4, LoopEffect DEF Service!RpcNext

LEMMA RpcNextHere ==
  MeetInv /\ [Next]_vars => [Service!RpcNext]_<<Service!vars, Service!rpcVars>>
  <1> SUFFICES ASSUME MeetInv, [Next]_vars
               PROVE  [Service!RpcNext]_<<Service!vars, Service!rpcVars>>
    OBVIOUS
  <1>1. CASE UNCHANGED vars
    BY <1>1, PresentStays
    DEF vars, callVars, redisVars, Service!vars, Service!rpcVars, Service!storeVars,
        Service!mempoolVars, Service!requestVars
  <1>2. CASE Calls!RpcStep
    BY <1>2, CallsServe DEF Service!RpcNext
  <1>3. CASE Loop!BundlerStep /\ UNCHANGED callVars
    BY <1>3, LoopsDropKeys
  <1>4. ASSUME NEW p \in Procs, ProcessExits(p)
        PROVE  Service!RpcNext
    <2> DEFINE S == {c \in Clients : ServedBy[c] = p}
    <2>1. Service!CallsVanish(S)
      BY <1>4, PresentStays
      DEF ProcessExits, Calls!CallsVanish, Service!CallsVanish, Calls!ServerExit,
          Service!ServerExit, Calls!Fault, Service!Fault, Calls!NoCall, Service!NoCall,
          Calls!redisVars, Service!redisVars
    <2> QED
      BY <2>1 DEF Service!RpcNext
  <1> QED
    BY <1>1, <1>2, <1>3, <1>4 DEF Next

\* Whatever the loops do, the calls behave as JsonRpc allows: its theorems, and those of
\* MempoolService, hold of the calls beside the loops (BundlerService.ts:141-150 against
\* MempoolService.ts:33-72).
THEOREM CallsImplementJsonRpc == Spec => ImplementsJsonRpc
  <1>1. Init => Service!RpcInit
    BY DEF Init, Present, Calls!RpcInit, Service!RpcInit, Calls!Init, Service!Init,
           Calls!StoreInit, Service!StoreInit, Calls!MempoolInit, Service!MempoolInit,
           Calls!NoCall, Service!NoCall
  <1> QED
    BY <1>1, MeetInit, MeetStep, RpcNextHere, PTL DEF Spec, ImplementsJsonRpc, Service!RpcSpec

-----------------------------------------------------------------------------
(* What is proved of the halves holds of the whole.  The modules of their     *)
(* theorems are instantiated as the two mappings say; a definition has two    *)
(* names then, and the lemmas here say that they mean the same.               *)

LoopFacts == INSTANCE SettlementProofs
             WITH cache <- [h \in Hashes |-> "none"], index <- [k \in Keys |-> NoHash]

CallFacts == INSTANCE JsonRpcProofs
             WITH Faults <- CallFaults, MaxFaults <- MaxCallFaults, faults <- callFaults,
                  status <- Present

LEMMA LoopConstants ==
    /\ Ids \subseteq Nat /\ LoopFacts!IsFiniteSet(Ids)
    /\ KeyOf \in [Hashes -> Keys]
    /\ NoHash \notin Hashes
    /\ MaxFaults \in Nat
  <1>1. IsFiniteSet(Ids) <=> LoopFacts!IsFiniteSet(Ids)
    BY DEF IsFiniteSet, LoopFacts!IsFiniteSet
  <1> QED
    BY <1>1, StoreAssumption

LEMMA CallConstants ==
    /\ Ids \subseteq Nat /\ CallFacts!IsFiniteSet(Ids)
    /\ KeyOf \in [Hashes -> Keys]
    /\ NoHash \notin Hashes
    /\ MaxCallFaults \in Nat
    /\ CallFacts!IsFiniteSet(Clients) /\ Clients # {}
    /\ CallFacts!IsFiniteSet(Hashes)
    /\ MaxMempoolSize \in Nat \ {0}
    /\ ZeroNonce \subseteq Keys
    /\ Priority \in [Hashes -> Nat]
    /\ MaxFee \in [Hashes -> Nat]
  <1>1. \A S : IsFiniteSet(S) <=> CallFacts!IsFiniteSet(S)
    BY DEF IsFiniteSet, CallFacts!IsFiniteSet
  <1> QED
    BY <1>1, StoreAssumption, GasLiftAssumption, MempoolAssumption

LEMMA LoopsFollow == Spec => LoopFacts!Spec
  <1>1. Worker!Init => LoopFacts!Init
    BY
    DEF Worker!Init, LoopFacts!Init, Worker!StoreInit, LoopFacts!StoreInit, Worker!BundlerInit,
        LoopFacts!BundlerInit
  <1>2. UNCHANGED Worker!vars => UNCHANGED LoopFacts!vars
    BY
    DEF Worker!storeVars, LoopFacts!storeVars, Worker!redisVars, LoopFacts!redisVars,
        Worker!loopVars, LoopFacts!loopVars, Worker!tableVars, LoopFacts!tableVars,
        Worker!chainVars, LoopFacts!chainVars, Worker!bundlerVars, LoopFacts!bundlerVars,
        Worker!vars, LoopFacts!vars
  <1>3. Worker!Next => LoopFacts!Next
    BY
    DEF Worker!storeVars, LoopFacts!storeVars, Worker!redisVars, LoopFacts!redisVars,
        Worker!Settled, LoopFacts!Settled, Worker!StoreInit, LoopFacts!StoreInit, Worker!Fault,
        LoopFacts!Fault, Worker!NoFault, LoopFacts!NoFault, Worker!Pending, LoopFacts!Pending,
        Worker!IsOldestPending, LoopFacts!IsOldestPending, Worker!InsertRow, LoopFacts!InsertRow,
        Worker!SetStatus, LoopFacts!SetStatus, Worker!DropKeys, LoopFacts!DropKeys,
        Worker!loopVars, LoopFacts!loopVars, Worker!tableVars, LoopFacts!tableVars,
        Worker!chainVars, LoopFacts!chainVars, Worker!bundlerVars, LoopFacts!bundlerVars,
        Worker!vars, LoopFacts!vars, Worker!Critical, LoopFacts!Critical, Worker!BundlerInit,
        LoopFacts!BundlerInit, Worker!Init, LoopFacts!Init, Worker!GoTo, LoopFacts!GoTo,
        Worker!At, LoopFacts!At, Worker!Start, LoopFacts!Start, Worker!Tick, LoopFacts!Tick,
        Worker!Stop, LoopFacts!Stop, Worker!Exit, LoopFacts!Exit, Worker!AcquireBundleLock,
        LoopFacts!AcquireBundleLock, Worker!ReleaseBundleLock, LoopFacts!ReleaseBundleLock,
        Worker!LockExpire, LoopFacts!LockExpire, Worker!FetchPending, LoopFacts!FetchPending,
        Worker!CreateBundle, LoopFacts!CreateBundle, Worker!Broadcast, LoopFacts!Broadcast,
        Worker!Estimable, LoopFacts!Estimable, Worker!SumFunctionOnSet,
        LoopFacts!SumFunctionOnSet, Worker!FoldFunctionOnSet, LoopFacts!FoldFunctionOnSet,
        Worker!MapThenFoldSet, LoopFacts!MapThenFoldSet, Worker!Catch, LoopFacts!Catch,
        Worker!CatchShort, LoopFacts!CatchShort, Worker!CatchLong, LoopFacts!CatchLong,
        Worker!SubmitBundle, LoopFacts!SubmitBundle,
        Worker!WriteBundle, LoopFacts!WriteBundle, Worker!WriteOps, LoopFacts!WriteOps,
        Worker!MarkSubmitted, LoopFacts!MarkSubmitted, Worker!AwaitReceipt,
        LoopFacts!AwaitReceipt, Worker!ConfirmBundle, LoopFacts!ConfirmBundle, Worker!ConfirmOps,
        LoopFacts!ConfirmOps, Worker!FailBundle, LoopFacts!FailBundle,
        Worker!FailBundleTooLong, LoopFacts!FailBundleTooLong, Worker!FailOps,
        LoopFacts!FailOps, Worker!RemoveFailedOps, LoopFacts!RemoveFailedOps, Worker!Executed,
        LoopFacts!Executed, Worker!Mineable, LoopFacts!Mineable, Worker!MineTx, LoopFacts!MineTx,
        Worker!RevertTx, LoopFacts!RevertTx, Worker!Enqueue, LoopFacts!Enqueue, Worker!LoopStep,
        LoopFacts!LoopStep, Worker!BundlerStep, LoopFacts!BundlerStep, Worker!Next,
        LoopFacts!Next, Worker!Cardinality, LoopFacts!Cardinality
  <1>4. [Worker!Next]_(Worker!vars) => [LoopFacts!Next]_(LoopFacts!vars)
    BY <1>2, <1>3
  <1> QED
    BY <1>1, <1>4, LoopsImplementBundler, PTL DEF ImplementsBundler, Worker!Spec, LoopFacts!Spec

LEMMA CallsFollow == Spec => CallFacts!RpcSpec
  <1>1. Service!RpcInit => CallFacts!RpcInit
    BY
    DEF Service!StoreInit, CallFacts!StoreInit, Service!MempoolInit, CallFacts!MempoolInit,
        Service!Init, CallFacts!Init, Service!NoCall, CallFacts!NoCall, Service!RpcInit,
        CallFacts!RpcInit
  <1>2. UNCHANGED <<Service!vars, Service!rpcVars>>
          => UNCHANGED <<CallFacts!vars, CallFacts!rpcVars>>
    BY
    DEF Service!storeVars, CallFacts!storeVars, Service!redisVars, CallFacts!redisVars,
        Service!requestVars, CallFacts!requestVars, Service!mempoolVars, CallFacts!mempoolVars,
        Service!vars, CallFacts!vars, Service!rpcVars, CallFacts!rpcVars
  <1>3. Service!RpcNext => CallFacts!RpcNext
    BY
    DEF Service!storeVars, CallFacts!storeVars, Service!redisVars, CallFacts!redisVars,
        Service!Spelling, CallFacts!Spelling, Service!StoreInit, CallFacts!StoreInit,
        Service!Fault, CallFacts!Fault, Service!NoFault, CallFacts!NoFault, Service!RowsOf,
        CallFacts!RowsOf, Service!InsertRow, CallFacts!InsertRow, Service!CachedHashes,
        CallFacts!CachedHashes, Service!AddKeys, CallFacts!AddKeys, Service!DropKeys,
        CallFacts!DropKeys, Service!requestVars, CallFacts!requestVars, Service!mempoolVars,
        CallFacts!mempoolVars, Service!vars, CallFacts!vars, Service!Counting, CallFacts!Counting,
        Service!Admitted, CallFacts!Admitted, Service!MempoolInit, CallFacts!MempoolInit,
        Service!Init, CallFacts!Init, Service!CAt, CallFacts!CAt, Service!CGo, CallFacts!CGo,
        Service!Finish, CallFacts!Finish, Service!Reject, CallFacts!Reject, Service!Proceed,
        CallFacts!Proceed, Service!Refuse, CallFacts!Refuse, Service!Submit, CallFacts!Submit,
        Service!FindExisting, CallFacts!FindExisting, Service!CountMempool,
        CallFacts!CountMempool, Service!CheckConflict, CallFacts!CheckConflict,
        Service!SpellingOf, CallFacts!SpellingOf, Service!Replaces, CallFacts!Replaces,
        Service!LookupRival, CallFacts!LookupRival, Service!EvictRival, CallFacts!EvictRival,
        Service!SimulateValidation, CallFacts!SimulateValidation, Service!SaveRow,
        CallFacts!SaveRow, Service!AddToMempool, CallFacts!AddToMempool, Service!ListKeys,
        CallFacts!ListKeys, Service!DeleteKeys, CallFacts!DeleteKeys, Service!ServerExit,
        CallFacts!ServerExit, Service!ExpireCache, CallFacts!ExpireCache, Service!ExpireIndex,
        CallFacts!ExpireIndex, Service!BundlerDropsKeys, CallFacts!BundlerDropsKeys,
        Service!RequestStep, CallFacts!RequestStep, Service!MempoolStep, CallFacts!MempoolStep,
        Service!rpcVars, CallFacts!rpcVars, Service!Answers, CallFacts!Answers, Service!Waiting,
        CallFacts!Waiting, Service!NoCall, CallFacts!NoCall, Service!RpcInit, CallFacts!RpcInit,
        Service!Ask, CallFacts!Ask, Service!Answer, CallFacts!Answer, Service!Send,
        CallFacts!Send, Service!Clear, CallFacts!Clear, Service!Outcome, CallFacts!Outcome,
        Service!Serve, CallFacts!Serve, Service!Get, CallFacts!Get, Service!ReadCache,
        CallFacts!ReadCache, Service!ReadTable, CallFacts!ReadTable, Service!CallsVanish,
        CallFacts!CallsVanish, Service!RpcStep, CallFacts!RpcStep, Service!RpcNext,
        CallFacts!RpcNext, Service!Cardinality, CallFacts!Cardinality
  <1>4. [Service!RpcNext]_<<Service!vars, Service!rpcVars>>
          => [CallFacts!RpcNext]_<<CallFacts!vars, CallFacts!rpcVars>>
    BY <1>2, <1>3
  <1> QED
    BY <1>1, <1>4, CallsImplementJsonRpc, PTL
    DEF ImplementsJsonRpc, Service!RpcSpec, CallFacts!RpcSpec

\* Every variable keeps its type in the whole system: of each half the mapping tells its
\* own variables, of the shared ones the loops tell the table's and the calls the keys'
\* (UserOperation.ts:19-62, MempoolService.ts:120-165).
THEOREM TypeCorrect == Spec => []TypeOK
  <1>1. Spec => []LoopFacts!TypeOK
    BY LoopsFollow, LoopFacts!TypeCorrect, LoopConstants, BundlerAssumption, PTL
  <1>2. Spec => []CallFacts!RpcTypeOK
    BY CallsFollow, CallFacts!RpcTypeCorrect, CallConstants, PTL
  <1>3. LoopFacts!TypeOK /\ CallFacts!RpcTypeOK => TypeOK
    <2>1. LoopFacts!TypeOK /\ CallFacts!RpcTypeOK => Loop!TypeOK
      BY DEF LoopFacts!TypeOK, LoopFacts!StoreTypeOK, LoopFacts!OpStatus, LoopFacts!Critical,
             CallFacts!RpcTypeOK, CallFacts!TypeOK, CallFacts!StoreTypeOK, CallFacts!Spelling,
             Loop!TypeOK, Loop!StoreTypeOK, Loop!OpStatus, Loop!Critical, Loop!Spelling
    <2>2. LoopFacts!TypeOK /\ CallFacts!RpcTypeOK => Calls!RpcTypeOK
      BY DEF LoopFacts!TypeOK, LoopFacts!StoreTypeOK, LoopFacts!OpStatus,
             CallFacts!RpcTypeOK, CallFacts!TypeOK, CallFacts!StoreTypeOK, CallFacts!Spelling,
             CallFacts!Admitted, CallFacts!Counting, CallFacts!Waiting, CallFacts!Answers,
             Calls!RpcTypeOK, Calls!TypeOK, Calls!StoreTypeOK, Calls!Spelling, Calls!OpStatus,
             Calls!Admitted, Calls!Counting, Calls!Waiting, Calls!Answers
    <2> QED
      BY <2>1, <2>2 DEF TypeOK
  <1> QED
    BY <1>1, <1>2, <1>3, PTL

-----------------------------------------------------------------------------
(* Loops beside calls *)

\* Whatever calls are served meanwhile, what is recorded as confirmed was executed, a
\* nonce is confirmed once, and no bundle goes back (BundlerService.ts:96-152 beside
\* MempoolService.ts:33-90).
THEOREM OutcomesHold ==
    Spec => /\ []Loop!ConfirmedIsExecuted
            /\ []Loop!NonceConfirmedOnce
            /\ Loop!BundleNeverGoesBack
  <1>1. Spec => []Loop!ConfirmedIsExecuted
    <2>1. LoopFacts!ConfirmedIsExecuted => Loop!ConfirmedIsExecuted
      BY DEF LoopFacts!ConfirmedIsExecuted, Loop!ConfirmedIsExecuted, LoopFacts!Executed,
             Loop!Executed
    <2> QED
      BY <2>1, LoopsFollow, LoopFacts!ConfirmedCorrect, LoopConstants, BundlerAssumption, PTL
  <1>2. Spec => []Loop!NonceConfirmedOnce
    <2>1. LoopFacts!NonceConfirmedOnce => Loop!NonceConfirmedOnce
      BY DEF LoopFacts!NonceConfirmedOnce, Loop!NonceConfirmedOnce
    <2> QED
      BY <2>1, LoopsFollow, LoopFacts!NonceCorrect, LoopConstants, BundlerAssumption, PTL
  <1>3. Spec => Loop!BundleNeverGoesBack
    <2> DEFINE Goes == \A b \in Bundles :
                          Loop!Progress[bstatus[b]] <= Loop!Progress[bstatus'[b]]
               Went == \A b \in Bundles :
                          LoopFacts!Progress[bstatus[b]] <= LoopFacts!Progress[bstatus'[b]]
    <2>1. TypeOK /\ UNCHANGED LoopFacts!vars => Goes
      <3> SUFFICES ASSUME TypeOK, UNCHANGED LoopFacts!vars, NEW b \in Bundles
                   PROVE  Loop!Progress[bstatus[b]] <= Loop!Progress[bstatus'[b]]
        OBVIOUS
      <3>1. bstatus' = bstatus
        BY DEF LoopFacts!vars, LoopFacts!bundlerVars, LoopFacts!tableVars
      <3>2. bstatus[b] \in Loop!OpStatus \cup {"absent"}
        BY DEF TypeOK, Loop!TypeOK
      <3>3. Loop!Progress[bstatus[b]] \in Nat
        BY <3>2 DEF Loop!Progress, Loop!OpStatus
      <3> QED
        BY <3>1, <3>3
    <2>2. Went => Goes
      BY DEF Loop!Progress, LoopFacts!Progress
    <2>3. TypeOK /\ [Went]_(LoopFacts!vars) => [Goes]_(Loop!vars)
      BY <2>1, <2>2
    <2>4. Spec => [][Went]_(LoopFacts!vars)
      BY LoopsFollow, LoopFacts!BundlesGoForward, LoopConstants, BundlerAssumption, PTL
      DEF LoopFacts!BundleNeverGoesBack
    <2>5. Spec => [][Goes]_(Loop!vars)
      BY <2>3, <2>4, TypeCorrect, PTL
    <2> QED
      BY <2>5 DEF Loop!BundleNeverGoesBack
  <1> QED
    BY <1>1, <1>2, <1>3, PTL

\* As long as no loop outlives its lock, one loop at a time is past it, however many
\* calls are served (BundlerService.ts:78-90).
THEOREM LockHolds == TtlOutlivesBundle => (Spec => []Loop!MutualExclusion)
  <1>1. LoopFacts!MutualExclusion => Loop!MutualExclusion
    BY DEF LoopFacts!MutualExclusion, Loop!MutualExclusion, LoopFacts!Critical, Loop!Critical
  <1> QED
    BY <1>1, LoopsFollow, LoopFacts!LockCorrect, LoopConstants, BundlerAssumption, PTL

\* As long as moreover the database answers the loops, whatever fails for the calls: the
\* tables agree, what is settled stays settled, an operation has one transaction that has
\* not reverted and one more per failure at most, and the whole bundler implements
\* Settlement (BundlerService.ts:96-152).
THEOREM SettlementHolds ==
    TtlOutlivesBundle /\ "db" \notin Faults =>
        (Spec => /\ []Loop!TablesAgree
                 /\ Loop!SettledIsFinal
                 /\ []Loop!ResentPerFailure
                 /\ Loop!ImplementsSettlement)
  <1> SUFFICES ASSUME TtlOutlivesBundle, "db" \notin Faults
               PROVE  Spec => /\ []Loop!TablesAgree
                              /\ Loop!SettledIsFinal
                              /\ []Loop!ResentPerFailure
                              /\ Loop!ImplementsSettlement
    OBVIOUS
  <1>1. LoopFacts!Premise
    BY DEF LoopFacts!Premise
  <1>2. Spec => []Loop!TablesAgree
    <2>1. LoopFacts!TablesAgree => Loop!TablesAgree
      BY DEF LoopFacts!TablesAgree, Loop!TablesAgree, LoopFacts!Settled, Loop!Settled
    <2> QED
      BY <1>1, <2>1, LoopsFollow, LoopFacts!TablesCorrect, LoopConstants, BundlerAssumption, PTL
  <1>3. Spec => Loop!SettledIsFinal
    <2> DEFINE Final == /\ \A r \in Ids : status[r] \in Loop!Settled => status'[r] = status[r]
                        /\ \A b \in Bundles :
                              bstatus[b] \in Loop!Settled => bstatus'[b] = bstatus[b]
    <2>1. /\ \A r \in Ids : status[r] \in LoopFacts!Settled => status'[r] = status[r]
          /\ \A b \in Bundles : bstatus[b] \in LoopFacts!Settled => bstatus'[b] = bstatus[b]
          => Final
      BY DEF Loop!Settled, LoopFacts!Settled
    <2>2. UNCHANGED LoopFacts!vars => Final
      BY DEF LoopFacts!vars, LoopFacts!bundlerVars, LoopFacts!tableVars, LoopFacts!storeVars
    <2>3. Spec => LoopFacts!SettledIsFinal
      BY <1>1, LoopsFollow, LoopFacts!FinalCorrect, LoopConstants, BundlerAssumption, PTL
    <2> QED
      BY <2>1, <2>2, <2>3, PTL DEF LoopFacts!SettledIsFinal, Loop!SettledIsFinal
  <1>4. Spec => []Loop!ResentPerFailure
    <2>1. LoopFacts!ResentPerFailure => Loop!ResentPerFailure
      <3>1. \A S : Loop!Cardinality(S) = LoopFacts!Cardinality(S)
        BY Zenon DEF Loop!Cardinality, LoopFacts!Cardinality
      <3> QED
        BY <3>1 DEF LoopFacts!ResentPerFailure, Loop!ResentPerFailure
    <2> QED
      BY <1>1, <2>1, LoopsFollow, LoopFacts!ResentCorrect, LoopConstants, BundlerAssumption, PTL
  <1>5. Spec => Loop!ImplementsSettlement
    <2>1. LoopFacts!Outcome!Init => Loop!Outcome!Init
      BY DEF LoopFacts!Outcome!Init, Loop!Outcome!Init, LoopFacts!Executed, Loop!Executed
    <2>2. LoopFacts!OutcomeLost <=> Loop!OutcomeLost
      BY DEF LoopFacts!OutcomeLost, Loop!OutcomeLost, LoopFacts!Stranded, Loop!Stranded,
             LoopFacts!Unfinished, Loop!Unfinished, LoopFacts!Driven, Loop!Driven,
             LoopFacts!Critical, Loop!Critical
    <2>3. LoopFacts!Executed = Loop!Executed
      BY DEF LoopFacts!Executed, Loop!Executed
    <2>4. LoopFacts!Executed' = Loop!Executed'
      BY DEF LoopFacts!Executed, Loop!Executed
    <2>5. LoopFacts!Outcome!Next => Loop!Outcome!Next
      BY <2>2, <2>3, <2>4
      DEF LoopFacts!Outcome!Next, Loop!Outcome!Next, LoopFacts!Outcome!Arrive,
          Loop!Outcome!Arrive, LoopFacts!Outcome!Execute, Loop!Outcome!Execute,
          LoopFacts!Outcome!Confirm, Loop!Outcome!Confirm, LoopFacts!Outcome!Fail,
          Loop!Outcome!Fail, LoopFacts!Outcome!Record, Loop!Outcome!Record,
          LoopFacts!Outcome!Pending, Loop!Outcome!Pending
    <2>6. UNCHANGED LoopFacts!Outcome!svars => UNCHANGED Loop!Outcome!svars
      BY <2>3, <2>4 DEF LoopFacts!Outcome!svars, Loop!Outcome!svars
    <2>7. Spec => LoopFacts!ImplementsSettlement
      BY <1>1, LoopsFollow, LoopFacts!SettlementCorrect, LoopConstants, BundlerAssumption, PTL
    <2> QED
      BY <2>1, <2>5, <2>6, <2>7, PTL
      DEF LoopFacts!ImplementsSettlement, Loop!ImplementsSettlement, LoopFacts!Outcome!Spec,
          Loop!Outcome!Spec
  <1> QED
    BY <1>2, <1>3, <1>4, <1>5, PTL

\* As long as moreover no process exits and no answer of the node is lost to a loop,
\* nothing the chain executed is recorded as failed (BundlerService.ts:133-152).
THEOREM TruthHolds ==
    TtlOutlivesBundle /\ Faults \cap {"db", "crash", "lostAck"} = {} =>
        (Spec => []Loop!FailedWasNotExecuted)
  <1>1. TtlOutlivesBundle /\ Faults \cap {"db", "crash", "lostAck"} = {} => LoopFacts!Calm
    BY DEF LoopFacts!Calm, LoopFacts!Premise
  <1>2. LoopFacts!FailedWasNotExecuted => Loop!FailedWasNotExecuted
    BY DEF LoopFacts!FailedWasNotExecuted, Loop!FailedWasNotExecuted, LoopFacts!Executed,
           Loop!Executed
  <1> QED
    BY <1>1, <1>2, LoopsFollow, LoopFacts!FailedCorrect, LoopConstants, BundlerAssumption, PTL

-----------------------------------------------------------------------------
(* Calls beside loops *)

\* Whatever the loops do to rows and keys meanwhile, what an answer has shown to exist is
\* found from then on and never refused, Redis knows no more than the table, and its
\* size and the rows of an operation are bounded (MempoolService.ts:33-104 beside
\* BundlerService.ts:96-152).
THEOREM AnswersHold ==
    Spec => /\ []Calls!SeenStaysFound
            /\ []Calls!SeenIsNeverRefused
            /\ []Calls!RedisIsBacked
            /\ []Calls!DuplicatesAreBounded
            /\ []Calls!OvershootIsBounded
  <1>1. Spec => []Calls!SeenStaysFound
    <2>1. CallFacts!SeenStaysFound => Calls!SeenStaysFound
      BY DEF CallFacts!SeenStaysFound, Calls!SeenStaysFound
    <2> QED
      BY <2>1, CallsFollow, CallFacts!SeenFoundCorrect, CallConstants, PTL
  <1>2. Spec => []Calls!SeenIsNeverRefused
    <2>1. CallFacts!SeenIsNeverRefused => Calls!SeenIsNeverRefused
      BY DEF CallFacts!SeenIsNeverRefused, Calls!SeenIsNeverRefused
    <2> QED
      BY <2>1, CallsFollow, CallFacts!ResendCorrect, CallConstants, PTL
  <1>3. Spec => CallFacts!Spec
    BY CallsFollow, CallFacts!CallsImplementMempool, CallConstants, PTL
  <1>4. \A h : CallFacts!RowsOf(h) = Calls!RowsOf(h)
    BY DEF CallFacts!RowsOf, Calls!RowsOf
  <1>5. CallFacts!CachedHashes = Calls!CachedHashes
    BY DEF CallFacts!CachedHashes, Calls!CachedHashes
  <1>6. \A S : CallFacts!Cardinality(S) = Calls!Cardinality(S)
    BY Zenon DEF CallFacts!Cardinality, Calls!Cardinality
  <1>7. Spec => []Calls!RedisIsBacked
    <2>1. CallFacts!RedisIsBacked => Calls!RedisIsBacked
      BY <1>4, <1>5 DEF CallFacts!RedisIsBacked, Calls!RedisIsBacked
    <2> QED
      BY <1>3, <2>1, CallFacts!RedisBackedCorrect, CallConstants, PTL
  <1>8. Spec => []Calls!DuplicatesAreBounded
    <2>1. CallFacts!DuplicatesAreBounded => Calls!DuplicatesAreBounded
      BY <1>4, <1>6 DEF CallFacts!DuplicatesAreBounded, Calls!DuplicatesAreBounded
    <2> QED
      BY <1>3, <2>1, CallFacts!DuplicatesCorrect, CallConstants, PTL
  <1>9. Spec => []Calls!OvershootIsBounded
    <2>1. CallFacts!OvershootIsBounded => Calls!OvershootIsBounded
      BY <1>5, <1>6 DEF CallFacts!OvershootIsBounded, Calls!OvershootIsBounded
    <2> QED
      BY <1>3, <2>1, CallFacts!OvershootCorrect, CallConstants, PTL
  <1> QED
    BY <1>1, <1>2, <1>7, <1>8, <1>9, PTL

=============================================================================

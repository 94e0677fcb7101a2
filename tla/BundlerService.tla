--------------------------- MODULE BundlerService ---------------------------
(***************************************************************************)
(* BundlerService.ts: every process runs a timer whose ticks start a       *)
(* bundleLoop.  A loop takes the Redis lock "bundle:lock", reads the       *)
(* oldest pending user operations, records a bundle, submits it to the     *)
(* EntryPoint, waits for the transaction and writes the outcome back; each *)
(* await of the code is the end of one action here.  Nothing stops a timer *)
(* from starting a loop while an earlier one of the same process is still  *)
(* waiting, and stop() ends the timer, not the loops.                      *)
(*                                                                         *)
(* The lock expires after BUNDLE_LOCK_TTL.  TtlOutlivesBundle says whether *)
(* a run assumes that a loop always finishes sooner; the code does not     *)
(* enforce it (tx.wait is given no timeout).                               *)
(*                                                                         *)
(* Kinds of failure (Faults):                                              *)
(*   "crash"    a process exits between two steps                          *)
(*   "db"       a Postgres call rejects, its write done or not             *)
(*   "redis"    a Redis call rejects, its write done or not                *)
(*   "rpc"      the Ethereum node refuses before the broadcast             *)
(*   "lostAck"  the node's answer is lost after the broadcast              *)
(*   "revert"   a transaction reverts though its nonces were fresh         *)
(***************************************************************************)
EXTENDS Store, Functions

CONSTANTS
    Procs,              \* bundler processes sharing Redis and Postgres
    Loops,              \* invocations of bundleLoop that may overlap (a bound)
    Owner,              \* the process a loop runs in
    Bundles,            \* primary keys of the bundles table (a bound)
    NoLoop, NoBundle,
    MaxOpsPerBundle,    \* MAX_OPS_PER_BUNDLE
    Gas,                \* the gas limits of an operation, added up
    MaxSafeGas,         \* the largest sum that toNumber converts: 2^53 - 1
    TtlOutlivesBundle   \* no loop outlives BUNDLE_LOCK_TTL

ASSUME BundlerAssumption ==
    /\ Owner \in [Loops -> Procs]
    /\ NoLoop \notin Loops
    /\ NoBundle \notin Bundles
    /\ MaxOpsPerBundle \in Nat \ {0}
    /\ Gas \in [Hashes -> Nat]
    /\ MaxSafeGas \in Nat
    /\ TtlOutlivesBundle \in BOOLEAN

VARIABLES
    running,    \* isRunning of each process
    lock,       \* the loop that set "bundle:lock", NoLoop when the key is absent
    pc,         \* the await a loop is at
    batch,      \* pendingOps of a loop, as row ids
    current,    \* bundle.id of a loop
    bundleOf,   \* the bundleId column of the user operations
    bstatus,    \* the status column of the bundles ("absent": no such row)
    tx,         \* what the chain knows of a bundle's transaction
    payload     \* the rows a bundle's transaction carries

loopVars == <<pc, batch, current>>
tableVars == <<bundleOf, bstatus>>
chainVars == <<tx, payload>>
bundlerVars == <<running, lock, loopVars, tableVars, chainVars>>
vars == <<storeVars, bundlerVars>>

\* A loop in one of these has taken the lock and not yet released it.
Critical == {"fetch", "create", "submit", "markSubmitted", "wait", "confirmBundle",
             "confirmOps", "failBundle", "failTooLong", "failOps", "removeOps", "release"}

TypeOK ==
    /\ StoreTypeOK
    /\ running \in [Procs -> BOOLEAN]
    /\ lock \in Loops \cup {NoLoop}
    /\ pc \in [Loops -> Critical \cup {"idle", "acquire"}]
    /\ batch \in [Loops -> SUBSET Ids]
    /\ current \in [Loops -> Bundles \cup {NoBundle}]
    /\ bundleOf \in [Ids -> Bundles \cup {NoBundle}]
    /\ bstatus \in [Bundles -> OpStatus \cup {"absent"}]
    /\ tx \in [Bundles -> {"none", "inflight", "mined", "reverted"}]
    /\ payload \in [Bundles -> SUBSET Ids]

BundlerInit ==
    /\ running = [p \in Procs |-> FALSE]
    /\ lock = NoLoop
    /\ pc = [l \in Loops |-> "idle"]
    /\ batch = [l \in Loops |-> {}]
    /\ current = [l \in Loops |-> NoBundle]
    /\ bundleOf = [r \in Ids |-> NoBundle]
    /\ bstatus = [b \in Bundles |-> "absent"]
    /\ tx = [b \in Bundles |-> "none"]
    /\ payload = [b \in Bundles |-> {}]

Init == StoreInit /\ BundlerInit

-----------------------------------------------------------------------------
(* The timer *)

GoTo(l, step) == pc' = [pc EXCEPT ![l] = step]
At(l, step) == pc[l] = step

\* start(): the flag, the timer and a first loop, all before the first await.
Start(p) ==
    /\ ~running[p]
    /\ running' = [running EXCEPT ![p] = TRUE]
    /\ \E l \in Loops : Owner[l] = p /\ At(l, "idle") /\ GoTo(l, "acquire")
    /\ UNCHANGED <<storeVars, lock, batch, current, tableVars, chainVars>>

\* The timer fires.
Tick(l) ==
    /\ running[Owner[l]]
    /\ At(l, "idle")
    /\ GoTo(l, "acquire")
    /\ UNCHANGED <<storeVars, running, lock, batch, current, tableVars, chainVars>>

\* stop(): the timer is cleared; loops that are under way go on.
Stop(p) ==
    /\ running[p]
    /\ running' = [running EXCEPT ![p] = FALSE]
    /\ UNCHANGED <<storeVars, lock, loopVars, tableVars, chainVars>>

\* The process exits: index.ts does so on SIGTERM and SIGINT, without a stop().
Exit(p) ==
    LET mine == {l \in Loops : Owner[l] = p} IN
    /\ running[p] \/ \E l \in mine : ~At(l, "idle")
    /\ Fault("crash")
    /\ running' = [running EXCEPT ![p] = FALSE]
    /\ pc' = [l \in Loops |-> IF l \in mine THEN "idle" ELSE pc[l]]
    /\ batch' = [l \in Loops |-> IF l \in mine THEN {} ELSE batch[l]]
    /\ current' = [l \in Loops |-> IF l \in mine THEN NoBundle ELSE current[l]]
    /\ UNCHANGED <<hash, status, redisVars, lock, tableVars, chainVars>>

-----------------------------------------------------------------------------
(* bundleLoop and the lock *)

\* Mutant: SET without NX takes the key whoever holds it.
AcquireWithoutNX(l) ==
    /\ At(l, "acquire")
    /\ lock' = l
    /\ GoTo(l, "fetch")
    /\ NoFault
    /\ UNCHANGED <<hash, status, redisVars, running, batch, current, tableVars, chainVars>>

\* SET NX EX.  A rejected call counts as "not acquired", whether or not Redis
\* had set the key.
AcquireBundleLock(l) ==
    /\ At(l, "acquire")
    /\ \/ lock = NoLoop /\ lock' = l /\ GoTo(l, "fetch") /\ NoFault
       \/ lock # NoLoop /\ GoTo(l, "idle") /\ NoFault /\ UNCHANGED lock
       \/ /\ Fault("redis")
          /\ lock' \in {lock, IF lock = NoLoop THEN l ELSE lock}
          /\ GoTo(l, "idle")
    /\ UNCHANGED <<hash, status, redisVars, running, batch, current, tableVars, chainVars>>

\* DEL: whoever set the key.  A rejected call is logged and forgotten.
ReleaseBundleLock(l) ==
    /\ At(l, "release")
    /\ \/ lock' = NoLoop /\ NoFault
       \/ Fault("redis") /\ lock' \in {lock, NoLoop}
    /\ GoTo(l, "idle")
    /\ batch' = [batch EXCEPT ![l] = {}]
    /\ current' = [current EXCEPT ![l] = NoBundle]
    /\ UNCHANGED <<hash, status, redisVars, running, tableVars, chainVars>>


\* The key's TTL runs out.
LockExpire ==
    /\ lock # NoLoop
    /\ TtlOutlivesBundle => pc[lock] \notin Critical
    /\ lock' = NoLoop
    /\ UNCHANGED <<storeVars, running, loopVars, tableVars, chainVars>>

-----------------------------------------------------------------------------
(* createAndSubmitBundle *)

FetchPending(l) ==
    /\ At(l, "fetch")
    /\ \/ \E S \in SUBSET Ids :
            /\ IsOldestPending(S, MaxOpsPerBundle)
            /\ batch' = [batch EXCEPT ![l] = S]
            /\ GoTo(l, IF S = {} THEN "release" ELSE "create")
            /\ NoFault
       \/ Fault("db") /\ GoTo(l, "release") /\ UNCHANGED batch
    /\ UNCHANGED <<hash, status, redisVars, running, lock, current, tableVars, chainVars>>

\* Mutant: the bundle is saved without linking its rows.
CreateBundleUnlinked(l) ==
    /\ At(l, "create")
    /\ \E b \in Bundles :
         /\ bstatus[b] = "absent"
         /\ bstatus' = [bstatus EXCEPT ![b] = "pending"]
         /\ current' = [current EXCEPT ![l] = b]
    /\ GoTo(l, "submit")
    /\ UNCHANGED <<storeVars, running, lock, batch, bundleOf, chainVars>>

\* createBundle: a pending bundle, and the bundleId of its rows, whatever bundle they
\* belonged to.  It is outside the try block: an error goes to the release.  The rows
\* are read and saved again in one step here; only a loop that settled one of them in
\* between, under a lock that has expired, would find its status written back.
CreateBundle(l) ==
    /\ At(l, "create")
    /\ \/ \E b \in Bundles :
            /\ bstatus[b] = "absent"
            /\ bstatus' = [bstatus EXCEPT ![b] = "pending"]
            /\ bundleOf' = [r \in Ids |-> IF r \in batch[l] THEN b ELSE bundleOf[r]]
            /\ \/ current' = [current EXCEPT ![l] = b] /\ GoTo(l, "submit") /\ NoFault
               \/ Fault("db") /\ GoTo(l, "release") /\ UNCHANGED current
       \/ Fault("db") /\ GoTo(l, "release") /\ UNCHANGED <<current, tableVars>>
    /\ UNCHANGED <<hash, status, redisVars, running, lock, batch, chainVars>>

\* handleOps: one transaction for the whole batch.
Broadcast(l) ==
    /\ tx' = [tx EXCEPT ![current[l]] = "inflight"]
    /\ payload' = [payload EXCEPT ![current[l]] = batch[l]]

\* The catch block records the message of the error in bundles.error, a varchar(255).
\* The database's own messages and that of toNumber fit; that of a transaction which
\* reverted, with the transaction and its receipt in it, never does; those of the
\* node's refusals and of answers that are lost may or may not.
CatchShort(l) == GoTo(l, "failBundle")
CatchLong(l) == GoTo(l, "failTooLong")
Catch(l) == CatchShort(l) \/ CatchLong(l)

\* Mutant: a submission error is not caught.
SubmitBundleUncaught(l) ==
    /\ At(l, "submit")
    /\ \/ /\ Broadcast(l)
          /\ GoTo(l, "markSubmitted")
          /\ NoFault
       \/ GoTo(l, "release") /\ Fault("rpc") /\ UNCHANGED chainVars
    /\ UNCHANGED <<hash, status, redisVars, running, lock, batch, current, tableVars>>

\* estimateBundleGas adds up the gas limits of the batch and converts the sum with
\* toNumber, which throws beyond 2^53.
Estimable(S) == SumFunctionOnSet([r \in S |-> Gas[hash[r]]], S) <= MaxSafeGas

\* submitBundle: an error before the broadcast, an error after it, or a hash.
SubmitBundle(l) ==
    /\ At(l, "submit")
    /\ \/ /\ Estimable(batch[l])
          /\ Broadcast(l)
          /\ \/ GoTo(l, "markSubmitted") /\ NoFault
             \/ Catch(l) /\ Fault("lostAck")
       \/ Estimable(batch[l]) /\ Catch(l) /\ Fault("rpc") /\ UNCHANGED chainVars
       \/ ~Estimable(batch[l]) /\ CatchShort(l) /\ NoFault /\ UNCHANGED chainVars
    /\ UNCHANGED <<hash, status, redisVars, running, lock, batch, current, tableVars>>

\* updateStatus of the bundles table: an UPDATE and a SELECT, so a rejected call
\* may have written.
WriteBundle(l, from, s, next, onError) ==
    /\ At(l, from)
    /\ \/ bstatus' = [bstatus EXCEPT ![current[l]] = s] /\ GoTo(l, next) /\ NoFault
       \/ /\ Fault("db")
          /\ UNCHANGED bstatus \/ bstatus' = [bstatus EXCEPT ![current[l]] = s]
          /\ GoTo(l, onError)
    /\ UNCHANGED <<hash, status, redisVars, running, lock, batch, current, bundleOf, chainVars>>

\* One UPDATE of the batch's rows.
WriteOps(l, from, s, next, onError) ==
    /\ At(l, from)
    /\ \/ SetStatus(batch[l], s) /\ GoTo(l, next) /\ NoFault
       \/ /\ Fault("db")
          /\ UNCHANGED status \/ SetStatus(batch[l], s)
          /\ GoTo(l, onError)
    /\ UNCHANGED <<hash, redisVars, running, lock, batch, current, tableVars, chainVars>>

\* Mutant: the receipt is not waited for.
MarkSubmittedNoWait(l) ==
    WriteBundle(l, "markSubmitted", "submitted", "confirmBundle", "failBundle")

MarkSubmitted(l) == WriteBundle(l, "markSubmitted", "submitted", "wait", "failBundle")

\* Mutant: the status of the receipt is not looked at.
AwaitAnyReceipt(l) ==
    /\ At(l, "wait")
    /\ tx[current[l]] \in {"mined", "reverted"}
    /\ GoTo(l, "confirmBundle")
    /\ UNCHANGED <<storeVars, running, lock, batch, current, tableVars, chainVars>>

\* tx.wait: resolves when the transaction is mined, rejects when it reverts or
\* the node is lost.
AwaitReceipt(l) ==
    /\ At(l, "wait")
    /\ \/ tx[current[l]] = "mined" /\ GoTo(l, "confirmBundle") /\ NoFault
       \/ tx[current[l]] = "reverted" /\ CatchLong(l) /\ NoFault
       \/ Catch(l) /\ Fault("lostAck")
    /\ UNCHANGED <<hash, status, redisVars, running, lock, batch, current, tableVars, chainVars>>

ConfirmBundle(l) == WriteBundle(l, "confirmBundle", "confirmed", "confirmOps", "failBundle")
ConfirmOps(l) == WriteOps(l, "confirmOps", "confirmed", "release", "failBundle")

\* Mutant: the bundle is put back for another attempt.
FailBundleToPending(l) == WriteBundle(l, "failBundle", "pending", "failOps", "release")

\* The catch block; an error of its own leaves for the release.  Postgres rejects every
\* UPDATE whose message is too long: the bundle and its rows stay as they are.
FailBundleTooLong(l) ==
    /\ At(l, "failTooLong")
    /\ GoTo(l, "release")
    /\ UNCHANGED <<storeVars, running, lock, batch, current, tableVars, chainVars>>

FailBundle(l) == WriteBundle(l, "failBundle", "failed", "failOps", "release")
FailOps(l) == WriteOps(l, "failOps", "failed", "removeOps", "release")

\* Mutant: the update goes by the row's id and to a status outside the enum.
RemoveToUnknownStatus(l) == WriteOps(l, "removeOps", "removed", "release", "release")

\* Mutant: the operations are deleted.
RemoveDeletesRows(l) == WriteOps(l, "removeOps", "absent", "release", "release")

\* The loop over removeUserOperation.  Its first call deletes the keys of the
\* oldest operation and then throws: the update it makes is by hash where the
\* key is a uuid, and to a status the enum does not have.
RemoveFailedOps(l) ==
    /\ At(l, "removeOps")
    /\ \E first \in batch[l] :
         /\ \A r \in batch[l] : first <= r
         /\ \/ DropKeys(hash[first]) /\ NoFault
            \/ DropKeys(hash[first]) /\ Fault("redis")
            \/ UNCHANGED redisVars /\ (Fault("redis") \/ Fault("db"))
    /\ GoTo(l, "release")
    /\ UNCHANGED <<hash, status, running, lock, batch, current, tableVars, chainVars>>

-----------------------------------------------------------------------------
(* The chain and the mempool, as this service meets them *)

\* Rows whose user operation was executed on chain as part of a bundle.
Executed == UNION {payload[b] : b \in {c \in Bundles : tx[c] = "mined"}}

\* handleOps reverts as a whole when a nonce is used, on chain or twice in it.
Mineable(b) ==
    LET key(r) == KeyOf[hash[r]] IN
    /\ \A r \in payload[b], q \in Executed : key(r) # key(q)
    /\ \A r, q \in payload[b] : r # q => key(r) # key(q)

MineTx(b) ==
    /\ tx[b] = "inflight"
    /\ Mineable(b)
    /\ tx' = [tx EXCEPT ![b] = "mined"]
    /\ UNCHANGED <<storeVars, running, lock, loopVars, tableVars, payload>>

RevertTx(b) ==
    /\ tx[b] = "inflight"
    /\ IF Mineable(b) THEN Fault("revert") ELSE NoFault
    /\ tx' = [tx EXCEPT ![b] = "reverted"]
    /\ UNCHANGED <<hash, status, redisVars, running, lock, loopVars, tableVars, payload>>

\* addUserOperation of the mempool, as far as the bundler sees it.  The Redis keys
\* that go with a row are left out: the bundler deletes some and reads none.
Enqueue(r, h) ==
    /\ InsertRow(r, h)
    /\ UNCHANGED <<redisVars, faults, bundlerVars>>

-----------------------------------------------------------------------------
LoopStep(l) ==
    \/ AcquireBundleLock(l)
    \/ FetchPending(l)
    \/ CreateBundle(l)
    \/ SubmitBundle(l)
    \/ MarkSubmitted(l)
    \/ AwaitReceipt(l)
    \/ ConfirmBundle(l)
    \/ ConfirmOps(l)
    \/ FailBundle(l)
    \/ FailBundleTooLong(l)
    \/ FailOps(l)
    \/ RemoveFailedOps(l)
    \/ ReleaseBundleLock(l)

BundlerStep ==
    \/ \E p \in Procs : Start(p) \/ Stop(p)
    \/ \E l \in Loops : Tick(l) \/ LoopStep(l)
    \/ \E b \in Bundles : MineTx(b) \/ RevertTx(b)
    \/ LockExpire

Next ==
    \/ BundlerStep
    \/ \E p \in Procs : Exit(p)
    \/ \E r \in Ids, h \in Hashes : Enqueue(r, h)

Spec == Init /\ [][Next]_vars

\* The timer keeps firing, an await settles once what it waits for is there, the
\* key's TTL runs out and the chain decides on what it was sent.
Fairness ==
    /\ \A l \in Loops : WF_vars(Tick(l)) /\ WF_vars(LoopStep(l))
    /\ \A b \in Bundles : WF_vars(MineTx(b) \/ RevertTx(b))
    /\ WF_vars(LockExpire)

FairSpec == Spec /\ Fairness

-----------------------------------------------------------------------------
(* Properties *)

\* A user operation recorded as confirmed was executed on chain, and a bundle
\* recorded as confirmed was mined (BundlerService.ts:117-127), whatever fails and
\* however loops overlap.
ConfirmedIsExecuted ==
    /\ \A r \in Ids : status[r] = "confirmed" => r \in Executed
    /\ \A b \in Bundles : bstatus[b] = "confirmed" => tx[b] = "mined"

\* One nonce is confirmed once: though an operation that overlapping requests sent
\* twice, or its replacement, has a row of its own, no two rows of one sender and nonce
\* are both recorded as confirmed (MempoolService.ts:41-56 lets them in,
\* BundlerService.ts:117-127 settles them).
NonceConfirmedOnce ==
    \A r, q \in Ids :
        status[r] = "confirmed" /\ status[q] = "confirmed" /\ r # q =>
            KeyOf[hash[r]] # KeyOf[hash[q]]

Progress == [absent |-> 0, pending |-> 1, submitted |-> 2, confirmed |-> 3, failed |-> 4]

\* No step takes a bundle back: with any failures and overlapping loops each bundle
\* row is written by the one loop that created it (BundlerService.ts:108-139).
BundleNeverGoesBack ==
    [][\A b \in Bundles : Progress[bstatus[b]] <= Progress[bstatus'[b]]]_vars

\* At most one loop, over all processes, is between taking the lock and releasing
\* it (BundlerService.ts:78-90).
MutualExclusion ==
    \A l, m \in Loops : pc[l] \in Critical /\ pc[m] \in Critical => l = m

\* A settled row points at the bundle that settled it: the tables agree although
\* they are written by two calls and createBundle moves rows between bundles.
TablesAgree ==
    \A r \in Ids : status[r] \in Settled =>
        bundleOf[r] # NoBundle /\ bstatus[bundleOf[r]] = status[r]

\* What was settled stays settled: no loop rewrites the outcome another wrote.
SettledIsFinal ==
    [][/\ \A r \in Ids : status[r] \in Settled => status'[r] = status[r]
       /\ \A b \in Bundles : bstatus[b] \in Settled => bstatus'[b] = bstatus[b]]_vars

\* A user operation has one transaction at a time that the chain runs or may yet run,
\* and one more for each failure at most: no loop sends again what another has sent and
\* not seen revert (BundlerService.ts:76-152).
ResentPerFailure ==
    \A r \in Ids :
        Cardinality({b \in Bundles : r \in payload[b] /\ tx[b] # "reverted"}) <= 1 + faults

\* A bundle some loop is working on, and one that nobody will take to its end.
Driven(b) == \E l \in Loops : current[l] = b /\ pc[l] \in Critical \ {"release"}

Unfinished(b) ==
    \/ bstatus[b] \in {"pending", "submitted"}
    \/ \E r \in payload[b] : status[r] = "pending"

Stranded(b) == Unfinished(b) /\ ~Driven(b)

\* Without a database failure a bundle is left behind open, or with operations it sent
\* still pending, in two ways only: the loop's process exits, or the message of the error
\* does not fit its column (BundlerService.ts:96-152, Bundle.ts:29).
OnlyExitOrLongErrorStrands ==
    [][(\E b \in Bundles : ~Stranded(b) /\ Stranded(b)') =>
          \/ \E p \in Procs : Exit(p)
          \/ \E l \in Loops : FailBundleTooLong(l)]_vars

\* The chain has, or may yet, run a bundle that is recorded as failed or stranded.
OutcomeLost ==
    \E b \in Bundles : tx[b] \in {"inflight", "mined"} /\ (bstatus[b] = "failed" \/ Stranded(b))

\* The bundler implements Settlement as long as no loop outlives its lock and the
\* database answers: outcomes are final and at most one per operation is "executed",
\* and only a lost one can be recorded untruly.
Outcome == INSTANCE Settlement WITH executed <- Executed, lost <- OutcomeLost
ImplementsSettlement == Outcome!Spec

\* Nothing the chain executed is recorded as failed.  The catch block of
\* createAndSubmitBundle is there to "Handle errors during bundle submission"
\* (BundlerService.ts:134).
FailedWasNotExecuted ==
    \A r \in Ids : status[r] = "failed" => r \notin Executed

\* A pending row that can no longer be mined, alone or with another: its nonce is used,
\* or another pending row has it too.  A batch with such a row reverts, and is sent again
\* on every tick.
Jammed ==
    LET key(r) == KeyOf[hash[r]] IN
    \E r \in Pending, q \in Pending \cup Executed :
        key(r) = key(q) /\ (r # q \/ r \in Executed)


=============================================================================

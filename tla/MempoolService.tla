--------------------------- MODULE MempoolService ---------------------------
(***************************************************************************)
(* MempoolService.ts: addUserOperation as a sequence of awaited calls to   *)
(* Postgres, Redis and the EntryPoint, run by several clients at once with *)
(* nothing to serialise them, and clearMempool.  One action per await; the *)
(* checks that follow an await belong to its action.  removeUserOperation  *)
(* and validateReplaceUserOp run inside an add that replaces an operation. *)
(*                                                                         *)
(* Kinds of failure (Faults):                                              *)
(*   "crash"   a server exits and the requests it was serving with it      *)
(*   "db"      a Postgres call rejects, its write done or not              *)
(*   "redis"   a Redis call rejects, its write done or not                 *)
(*   "expiry"  MEMPOOL_TTL runs out for a key                              *)
(***************************************************************************)
EXTENDS Store

CONSTANTS
    Clients,            \* requests that may be under way at once (a bound)
    MaxMempoolSize,     \* MAX_MEMPOOL_SIZE
    ZeroNonce,          \* the keys whose nonce is 0
    Priority,           \* maxPriorityFeePerGas of each operation
    MaxFee              \* maxFeePerGas of each operation

ASSUME MempoolAssumption ==
    /\ IsFiniteSet(Clients) /\ Clients # {}
    /\ IsFiniteSet(Hashes)
    /\ MaxMempoolSize \in Nat \ {0}
    /\ ZeroNonce \subseteq Keys
    /\ Priority \in [Hashes -> Nat]
    /\ MaxFee \in [Hashes -> Nat]

VARIABLES
    cpc,        \* the await a request is at
    op,         \* the hash of the operation a request adds
    spelling,   \* how the request spells its nonce
    rival,      \* the hash the request found under its sender and nonce
    doomed      \* the hashes whose keys clearMempool is about to delete

requestVars == <<op, spelling, rival, doomed>>
mempoolVars == <<cpc, requestVars>>
vars == <<storeVars, mempoolVars>>

\* The request was found new and well formed but has not yet counted the mempool.
Counting == "count"

\* The request has passed the check of the mempool's size.
Admitted == {"conflict", "lookup", "evict", "simulate", "save", "addKeys"}

TypeOK ==
    /\ StoreTypeOK
    /\ cpc \in [Clients -> Admitted \cup {"idle", "find", Counting, "clear"}]
    /\ op \in [Clients -> Hashes \cup {NoHash}]
    /\ spelling \in [Clients -> Spelling]
    /\ rival \in [Clients -> Hashes \cup {NoHash}]
    /\ doomed \in [Clients -> SUBSET Hashes]

MempoolInit ==
    /\ cpc = [c \in Clients |-> "idle"]
    /\ op = [c \in Clients |-> NoHash]
    /\ spelling = [c \in Clients |-> "number"]
    /\ rival = [c \in Clients |-> NoHash]
    /\ doomed = [c \in Clients |-> {}]

Init == StoreInit /\ MempoolInit

-----------------------------------------------------------------------------
CAt(c, step) == cpc[c] = step
CGo(c, step) == cpc' = [cpc EXCEPT ![c] = step]

\* The request is over, answered or rejected: its locals are gone.
Finish(c) ==
    /\ CGo(c, "idle")
    /\ op' = [op EXCEPT ![c] = NoHash]
    /\ spelling' = [spelling EXCEPT ![c] = "number"]
    /\ rival' = [rival EXCEPT ![c] = NoHash]
    /\ doomed' = [doomed EXCEPT ![c] = {}]

\* The same for an await that rejects with nothing written.
Reject(c, kind) == Fault(kind) /\ Finish(c) /\ UNCHANGED <<hash, status, redisVars>>

Proceed(c, step) ==
    CGo(c, step) /\ NoFault /\ UNCHANGED <<hash, status, redisVars, requestVars>>

Refuse(c) == NoFault /\ Finish(c) /\ UNCHANGED <<hash, status, redisVars>>

\* eth_sendUserOperation: the hash is computed before the first await.
Submit(c) ==
    /\ CAt(c, "idle")
    /\ \E h \in Hashes : op' = [op EXCEPT ![c] = h]
    /\ \E s \in Spelling : spelling' = [spelling EXCEPT ![c] = s]
    /\ CGo(c, "find")
    /\ UNCHANGED <<storeVars, rival, doomed>>

\* Mutant: an operation is new unless it is cached.
FindCached(c) ==
    /\ CAt(c, "find")
    /\ IF cache[op[c]] # "none" THEN Refuse(c) ELSE Proceed(c, Counting)

\* findByHash, then the checks of validateUserOperation that need no await.  An
\* operation that is in the table, whatever became of it, is the answer; a nonce
\* that is the number 0 counts as missing.
FindExisting(c) ==
    LET known == RowsOf(op[c]) # {}
        nonceMissing == KeyOf[op[c]] \in ZeroNonce /\ spelling[c] = "number"
    IN
    /\ CAt(c, "find")
    /\ \/ (known \/ nonceMissing) /\ Refuse(c)
       \/ ~known /\ ~nonceMissing /\ Proceed(c, Counting)
       \/ Reject(c, "db")

\* Mutant: the limit is compared with >.
CountMempoolOffByOne(c) ==
    /\ CAt(c, Counting)
    /\ \/ Cardinality(CachedHashes) > MaxMempoolSize /\ Refuse(c)
       \/ Cardinality(CachedHashes) <= MaxMempoolSize /\ Proceed(c, "conflict")

\* getMempoolSize counts the cached operations.
CountMempool(c) ==
    /\ CAt(c, Counting)
    /\ \/ Cardinality(CachedHashes) >= MaxMempoolSize /\ Refuse(c)
       \/ Cardinality(CachedHashes) < MaxMempoolSize /\ Proceed(c, "conflict")
       \/ Reject(c, "redis")

\* The hash under the operation's sender and nonce, if any.
CheckConflict(c) ==
    LET found == index[KeyOf[op[c]]] IN
    /\ CAt(c, "conflict")
    /\ \/ found = NoHash /\ Proceed(c, "simulate")
       \/ /\ found # NoHash
          /\ rival' = [rival EXCEPT ![c] = found]
          /\ CGo(c, "lookup")
          /\ NoFault
          /\ UNCHANGED <<hash, status, redisVars, op, spelling, doomed>>
       \/ Reject(c, "redis")

\* getUserOperation spells the nonce as the cached copy does; a bigint column
\* comes back from Postgres as a string.
SpellingOf(h) == IF cache[h] # "none" THEN cache[h] ELSE "string"

\* validateReplaceUserOp: the nonces are compared with !==, and the tenth is
\* computed on integers.
Replaces(h, s, old) ==
    /\ KeyOf[h] = KeyOf[old]
    /\ s = SpellingOf(old)
    /\ Priority[h] >= (Priority[old] * 110) \div 100
    /\ MaxFee[h] >= MaxFee[old]

\* getUserOperation of the rival, then the checks of validateReplaceUserOp.
LookupRival(c) ==
    LET gone == cache[rival[c]] = "none" /\ RowsOf(rival[c]) = {}
        replaces == Replaces(op[c], spelling[c], rival[c])
    IN
    /\ CAt(c, "lookup")
    /\ \/ gone /\ Proceed(c, "simulate")
       \/ ~gone /\ replaces /\ Proceed(c, "evict")
       \/ ~gone /\ ~replaces /\ Refuse(c)
       \/ Reject(c, "redis") \/ Reject(c, "db")

\* Mutant: the update of the table goes through, to a status outside the enum.
EvictRivalToRemoved(c) ==
    /\ CAt(c, "evict")
    /\ DropKeys(rival[c])
    /\ SetStatus(RowsOf(rival[c]), "removed")
    /\ CGo(c, "simulate")
    /\ UNCHANGED <<hash, faults, requestVars>>

\* removeUserOperation of the rival: its keys are deleted, then the update of the
\* table throws (it is by hash where the key is a uuid, and to a status the enum
\* does not have), and with it the add.
EvictRival(c) ==
    LET gone == cache[rival[c]] = "none" /\ RowsOf(rival[c]) = {} IN
    /\ CAt(c, "evict")
    /\ \/ gone /\ Proceed(c, "simulate")
       \/ /\ ~gone
          /\ DropKeys(rival[c])
          /\ NoFault \/ Fault("redis")
          /\ Finish(c)
          /\ UNCHANGED <<hash, status>>
       \/ Reject(c, "redis") \/ Reject(c, "db")

\* Mutant: the keys are added before the row is saved.
SimulateThenAddKeys(c) ==
    /\ CAt(c, "simulate")
    /\ AddKeys(op[c], spelling[c])
    /\ CGo(c, "save")
    /\ UNCHANGED <<hash, status, faults, requestVars>>

\* entryPointService.simulateValidation accepts or rejects.
SimulateValidation(c) ==
    /\ CAt(c, "simulate")
    /\ Proceed(c, "save") \/ Refuse(c)

\* create: nothing in the schema makes the hash unique.
SaveRow(c) ==
    /\ CAt(c, "save")
    /\ \/ /\ \E r \in Ids : InsertRow(r, op[c])
          /\ \/ CGo(c, "addKeys") /\ NoFault /\ UNCHANGED requestVars
             \/ Finish(c) /\ Fault("db")
          /\ UNCHANGED redisVars
       \/ Reject(c, "db")

\* addToMempool; a pipeline that breaks off has run none, one or both commands.
AddToMempool(c) ==
    /\ CAt(c, "addKeys")
    /\ \/ AddKeys(op[c], spelling[c]) /\ (NoFault \/ Fault("redis"))
       \/ cache' = [cache EXCEPT ![op[c]] = spelling[c]] /\ UNCHANGED index /\ Fault("redis")
       \/ UNCHANGED redisVars /\ Fault("redis")
    /\ Finish(c)
    /\ UNCHANGED <<hash, status>>

\* clearMempool: the names of the cached operations, then one DEL of them all.
ListKeys(c) ==
    /\ CAt(c, "idle")
    /\ CachedHashes # {}
    /\ doomed' = [doomed EXCEPT ![c] = CachedHashes]
    /\ CGo(c, "clear")
    /\ UNCHANGED <<storeVars, op, spelling, rival>>

DeleteKeys(c) ==
    LET cleared == [h \in Hashes |-> IF h \in doomed[c] THEN "none" ELSE cache[h]] IN
    /\ CAt(c, "clear")
    /\ \/ cache' = cleared /\ NoFault
       \/ cache' \in {cache, cleared} /\ Fault("redis")
    /\ Finish(c)
    /\ UNCHANGED <<hash, status, index>>

-----------------------------------------------------------------------------
(* The server, the keys' TTL and the bundler, as this service meets them *)

\* A server exits: the requests S it was serving are never answered.
ServerExit(S) ==
    /\ Fault("crash")
    /\ cpc' = [c \in Clients |-> IF c \in S THEN "idle" ELSE cpc[c]]
    /\ op' = [c \in Clients |-> IF c \in S THEN NoHash ELSE op[c]]
    /\ spelling' = [c \in Clients |-> IF c \in S THEN "number" ELSE spelling[c]]
    /\ rival' = [c \in Clients |-> IF c \in S THEN NoHash ELSE rival[c]]
    /\ doomed' = [c \in Clients |-> IF c \in S THEN {} ELSE doomed[c]]
    /\ UNCHANGED <<hash, status, redisVars>>

ExpireCache(h) ==
    /\ "expiry" \in Faults
    /\ cache[h] # "none"
    /\ cache' = [cache EXCEPT ![h] = "none"]
    /\ UNCHANGED <<hash, status, index, faults, mempoolVars>>

\* The index key is set after the copy it belongs to, with the same TTL.
ExpireIndex(k) ==
    /\ "expiry" \in Faults
    /\ index[k] # NoHash
    /\ cache[index[k]] = "none"
    /\ index' = [index EXCEPT ![k] = NoHash]
    /\ UNCHANGED <<hash, status, cache, faults, mempoolVars>>

\* What the bundler may do to this service: drop the keys of an operation that has a
\* row.  What it writes into the status column is not seen here, where rows are looked
\* up by hash alone.
BundlerDropsKeys(r) ==
    /\ status[r] # "absent"
    /\ DropKeys(hash[r])
    /\ UNCHANGED <<hash, status, faults, mempoolVars>>

-----------------------------------------------------------------------------
RequestStep(c) ==
    \/ FindExisting(c)
    \/ CountMempool(c)
    \/ CheckConflict(c)
    \/ LookupRival(c)
    \/ EvictRival(c)
    \/ SimulateValidation(c)
    \/ SaveRow(c)
    \/ AddToMempool(c)
    \/ DeleteKeys(c)

MempoolStep ==
    \/ \E c \in Clients : Submit(c) \/ ListKeys(c) \/ RequestStep(c)
    \/ \E S \in SUBSET Clients : ServerExit(S)
    \/ \E h \in Hashes : ExpireCache(h)
    \/ \E k \in Keys : ExpireIndex(k)

Next ==
    \/ MempoolStep
    \/ \E r \in Ids : BundlerDropsKeys(r)

Spec == Init /\ [][Next]_vars

-----------------------------------------------------------------------------
(* Properties *)

\* What Redis knows, Postgres knows: an operation is cached, or found under its
\* sender and nonce, only if it has a row, and the index never leads to an operation
\* of another sender or nonce.  addUserOperation writes the two stores one after the
\* other (MempoolService.ts:51-59) and removal writes only one of them.
RedisIsBacked ==
    /\ \A h \in CachedHashes : RowsOf(h) # {}
    /\ \A k \in Keys : index[k] # NoHash => KeyOf[index[k]] = k /\ RowsOf(index[k]) # {}

\* The mempool's size is checked long before the operation is added
\* (MempoolService.ts:208-209 and 59): requests that overlap overshoot the limit, but
\* by less than there are requests.
OvershootIsBounded ==
    Cardinality(CachedHashes) <= MaxMempoolSize + Cardinality(Clients) - 1

\* The look-up by hash and the insert are far apart as well (MempoolService.ts:41 and
\* 51): overlapping requests may give one operation several rows, but no more than
\* there are requests, however often it is sent again.
DuplicatesAreBounded ==
    \A h \in Hashes : Cardinality(RowsOf(h)) <= Cardinality(Clients)

\* An operation replaced by one with the same sender and nonce is no longer pending
\* beside it ("Verify the old operation was removed",
\* mempool.service.test.ts:92-94).
NoPendingRivals ==
    \A r, q \in Pending : r # q => KeyOf[hash[r]] # KeyOf[hash[q]]

=============================================================================

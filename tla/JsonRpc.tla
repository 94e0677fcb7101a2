------------------------------ MODULE JsonRpc ------------------------------
(***************************************************************************)
(* jsonrpc.ts: the calls of the JSON-RPC endpoint that reach the mempool,  *)
(* from the request to its answer.  Each call keeps its own request of     *)
(* MempoolService; the calls of a batch run side by side (Promise.all) and *)
(* an error of one becomes its own answer, so a batch is calls that        *)
(* overlap.  eth_chainId, eth_supportedEntryPoints, the gas estimate and   *)
(* eth_bundler_getStatus change nothing and are left out, as are malformed *)
(* requests, which are answered before the first await.                    *)
(*                                                                         *)
(* A look-up that a store rejects changes nothing and is not counted among *)
(* the failures.  The import of config that the file lacks is assumed.     *)
(***************************************************************************)
EXTENDS MempoolService

VARIABLES
    call,   \* what a client asked last, and how far its answer is
    seen    \* the operations some answer has shown to exist (no variable of the code)

rpcVars == <<call, seen>>

\* An error is a refusal, or the failure of a store.
Answers == {"result", "notFound", "refused", "failed"}

\* Where an unanswered call is: in addUserOperation or clearMempool, or at one of the
\* two look-ups of getUserOperation.
Waiting == {"served", "cache", "table"}

NoCall == [of |-> NoHash, known |-> FALSE, at |-> "none"]

RpcTypeOK ==
    /\ TypeOK
    /\ call \in [Clients -> [of : Hashes \cup {NoHash}, known : BOOLEAN,
                             at : Waiting \cup Answers \cup {"none"}]]
    /\ seen \subseteq Hashes

RpcInit ==
    /\ Init
    /\ call = [c \in Clients |-> NoCall]
    /\ seen = {}

-----------------------------------------------------------------------------
\* A new call; "known" notes whether its operation has been seen before.
Ask(c, h, at) ==
    /\ call[c].at \notin Waiting
    /\ call' = [call EXCEPT ![c] = [of |-> h, known |-> h \in seen, at |-> at]]
    /\ UNCHANGED seen

\* handleSingleRequest answers: with the result, or with what was thrown.
Answer(c, answer) ==
    /\ call' = [call EXCEPT ![c] = [of |-> NoHash, known |-> call[c].known, at |-> answer]]
    /\ seen' = IF answer = "result" /\ call[c].of # NoHash
               THEN seen \cup {call[c].of} ELSE seen

\* eth_sendUserOperation.
Send(c) == Submit(c) /\ Ask(c, op'[c], "served")

\* eth_bundler_clearMempool: with nothing cached it has nothing to delete.
Clear(c) ==
    \/ ListKeys(c) /\ Ask(c, NoHash, "served")
    \/ /\ CachedHashes = {}
       /\ Ask(c, NoHash, "result")
       /\ UNCHANGED vars

\* What the end of a request means to its caller: an operation that was there, or has
\* its row and its keys, is answered with its hash.
Outcome(c) ==
    LET kept == \/ CAt(c, "clear") \/ CAt(c, "addKeys")
                \/ CAt(c, "find") /\ RowsOf(op[c]) # {}
    IN  IF faults' # faults THEN "failed" ELSE IF kept THEN "result" ELSE "refused"

\* A step of addUserOperation or clearMempool; the last one answers the call.
Serve(c) ==
    /\ call[c].at = "served"
    /\ RequestStep(c)
    /\ IF cpc'[c] = "idle" THEN Answer(c, Outcome(c)) ELSE UNCHANGED rpcVars

\* eth_getUserOperationByHash, and eth_getUserOperationReceipt, which asks the same: the
\* cached copy says "pending" for ever and no row is given a transactionHash, so that the
\* receipt of an operation that was found is null, whatever became of it.
Get(c) ==
    /\ \E h \in Hashes : Ask(c, h, "cache")
    /\ UNCHANGED vars

\* Mutant: what is not cached does not exist.
ReadCacheOnly(c) ==
    /\ call[c].at = "cache"
    /\ Answer(c, IF cache[call[c].of] # "none" THEN "result" ELSE "notFound")
    /\ UNCHANGED vars

\* getUserOperation: the Redis copy, if there is one ...
ReadCache(c) ==
    /\ call[c].at = "cache"
    /\ \/ cache[call[c].of] # "none" /\ Answer(c, "result")
       \/ /\ cache[call[c].of] = "none"
          /\ call' = [call EXCEPT ![c].at = "table"]
          /\ UNCHANGED seen
       \/ "redis" \in Faults /\ Answer(c, "failed")
    /\ UNCHANGED vars

\* ... and the table if there is none.
ReadTable(c) ==
    /\ call[c].at = "table"
    /\ \/ Answer(c, IF RowsOf(call[c].of) # {} THEN "result" ELSE "notFound")
       \/ "db" \in Faults /\ Answer(c, "failed")
    /\ UNCHANGED vars

\* A server exits, and the calls S it was serving with it.
CallsVanish(S) ==
    /\ ServerExit(S)
    /\ call' = [c \in Clients |-> IF c \in S THEN NoCall ELSE call[c]]
    /\ UNCHANGED seen

-----------------------------------------------------------------------------
RpcStep ==
    \/ \E c \in Clients :
          Send(c) \/ Clear(c) \/ Serve(c) \/ Get(c) \/ ReadCache(c) \/ ReadTable(c)
    \/ \E h \in Hashes : ExpireCache(h) /\ UNCHANGED rpcVars
    \/ \E k \in Keys : ExpireIndex(k) /\ UNCHANGED rpcVars

RpcNext ==
    \/ RpcStep
    \/ \E S \in SUBSET Clients : CallsVanish(S)
    \/ \E r \in Ids : BundlerDropsKeys(r) /\ UNCHANGED rpcVars

RpcSpec == RpcInit /\ [][RpcNext]_<<vars, rpcVars>>

-----------------------------------------------------------------------------
(* Properties *)

\* What a client has been told of is found from then on: no later look-up, whatever
\* it races with in Redis (expiry, clearMempool, the bundler's removal, a crash), is
\* answered "User operation not found" (MempoolService.ts:92-104, jsonrpc.ts:295-299).
\* For an operation that was replaced or removed it holds against the intention:
\* removeUserOperation throws before it changes the row (MempoolService.ts:81), where
\* mempool.service.test.ts:92-94 and 175-177 expect it to be found no more.
SeenStaysFound == \A c \in Clients : call[c].known => call[c].at # "notFound"

\* Sending again what was accepted is safe: an operation that was seen is never
\* refused, be the mempool full or its nonce taken; only a failing store can deny the
\* answer (MempoolService.ts:40-45).
SeenIsNeverRefused == \A c \in Clients : call[c].known => call[c].at # "refused"

=============================================================================

------------------------------- MODULE Store -------------------------------
(***************************************************************************)
(* The state every bundler process shares: the table of user operations in *)
(* Postgres (UserOperationRepository, entity UserOperation) and the two    *)
(* families of Redis keys the mempool keeps beside it (MempoolService,     *)
(* "mempool:<hash>" and "sender_nonce:<sender>:<nonce>").                  *)
(*                                                                         *)
(* A row is known by a number of Ids.  The numbers follow submittedAt, the *)
(* column every query orders by; rows may be committed in another order,   *)
(* because submittedAt is read before the insert is sent.  Hashes are the  *)
(* identities of the user operations and Keys their (sender, nonce) pairs. *)
(*                                                                         *)
(* What may go wrong is a choice of the run: Faults names the kinds of     *)
(* failure that may strike and MaxFaults bounds how many do.               *)
(***************************************************************************)
EXTENDS Naturals, FiniteSets

CONSTANTS
    Ids,        \* primary keys of the table, ordered by submittedAt
    Hashes,     \* user operation hashes
    Keys,       \* (sender, nonce) pairs
    KeyOf,      \* the pair a hash was computed from
    NoHash,     \* an absent Redis value
    Faults,     \* the kinds of failure that may happen
    MaxFaults   \* how many failures may happen

ASSUME StoreAssumption ==
    /\ Ids \subseteq Nat /\ IsFiniteSet(Ids)
    /\ KeyOf \in [Hashes -> Keys]
    /\ NoHash \notin Hashes
    /\ MaxFaults \in Nat

VARIABLES
    hash,       \* Ids -> the hash column (NoHash: no such row)
    status,     \* Ids -> the status column ("absent": no such row)
    cache,      \* Hashes -> how the JSON under "mempool:<hash>" spells the nonce
    index,      \* Keys -> the hash under "sender_nonce:<sender>:<nonce>"
    faults      \* how many failures have happened

storeVars == <<hash, status, cache, index, faults>>
redisVars == <<cache, index>>

\* The enum of the status column.
OpStatus == {"pending", "submitted", "confirmed", "failed"}

\* The bundler is done with a row in one of these.
Settled == {"confirmed", "failed"}

\* A cached copy spells the nonce as the client did: a JSON number or a string.
Spelling == {"number", "string"}

StoreTypeOK ==
    /\ hash \in [Ids -> Hashes \cup {NoHash}]
    /\ status \in [Ids -> OpStatus \cup {"absent"}]
    /\ cache \in [Hashes -> Spelling \cup {"none"}]
    /\ index \in [Keys -> Hashes \cup {NoHash}]
    /\ faults \in 0 .. MaxFaults

StoreInit ==
    /\ hash = [r \in Ids |-> NoHash]
    /\ status = [r \in Ids |-> "absent"]
    /\ cache = [h \in Hashes |-> "none"]
    /\ index = [k \in Keys |-> NoHash]
    /\ faults = 0

-----------------------------------------------------------------------------
(* Failures *)

\* One failure of kind k, out of the run's budget.
Fault(k) ==
    /\ k \in Faults
    /\ faults < MaxFaults
    /\ faults' = faults + 1

NoFault == UNCHANGED faults

-----------------------------------------------------------------------------
(* The table of user operations *)

RowsOf(h) == {r \in Ids : hash[r] = h}

\* Mutant: failed rows are picked up again.
PendingOrFailed == {r \in Ids : status[r] \in {"pending", "failed"}}

Pending == {r \in Ids : status[r] = "pending"}

\* getPendingUserOperations: the limit oldest pending rows.
IsOldestPending(S, limit) ==
    /\ S \subseteq Pending
    /\ \A r \in S, q \in Pending \ S : r < q
    /\ IF Cardinality(Pending) <= limit THEN S = Pending
                                        ELSE Cardinality(S) = limit

\* create: a new pending row, under an id nobody has used.
InsertRow(r, h) ==
    /\ status[r] = "absent"
    /\ hash' = [hash EXCEPT ![r] = h]
    /\ status' = [status EXCEPT ![r] = "pending"]

\* One UPDATE over the rows of S: all of them or none.
SetStatus(S, s) ==
    status' = [r \in Ids |-> IF r \in S THEN s ELSE status[r]]

-----------------------------------------------------------------------------
(* The Redis keys *)

CachedHashes == {h \in Hashes : cache[h] # "none"}

\* addToMempool: both keys, in one pipeline.
AddKeys(h, spelling) ==
    /\ cache' = [cache EXCEPT ![h] = spelling]
    /\ index' = [index EXCEPT ![KeyOf[h]] = h]

\* removeFromMempool: both keys, in one pipeline.  The index key is deleted
\* whatever hash it holds.
DropKeys(h) ==
    /\ cache' = [cache EXCEPT ![h] = "none"]
    /\ index' = [index EXCEPT ![KeyOf[h]] = NoHash]

=============================================================================

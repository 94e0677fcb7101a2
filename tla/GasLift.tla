------------------------------ MODULE GasLift ------------------------------
(***************************************************************************)
(* The bundler as a whole: processes that share Postgres and Redis, each   *)
(* serving JSON-RPC calls (JsonRpc, MempoolService) and running bundle     *)
(* loops (BundlerService).  The two halves meet only in the Store: an      *)
(* operation a call has saved is bundled by a loop, and a loop that failed *)
(* deletes the keys of an operation some call may be adding again.  A      *)
(* process that exits takes its calls and its loops with it.               *)
(*                                                                         *)
(* Each half has its own budget of failures: Store's for the loops,        *)
(* CallFaults and MaxCallFaults for the calls.                             *)
(***************************************************************************)
EXTENDS Store

CONSTANTS
    Clients, MaxMempoolSize, ZeroNonce, Priority, MaxFee,
    Procs, Loops, Owner, Bundles, NoLoop, NoBundle, MaxOpsPerBundle, Gas,
    MaxSafeGas, TtlOutlivesBundle,
    ServedBy,           \* the process a client's calls reach
    CallFaults,         \* the kinds of failure a call may meet
    MaxCallFaults       \* how many of them may happen

VARIABLES
    cpc, op, spelling, rival, doomed, call, seen, callFaults,
    running, lock, pc, batch, current, bundleOf, bstatus, tx, payload

Calls == INSTANCE JsonRpc
         WITH Faults <- CallFaults, MaxFaults <- MaxCallFaults, faults <- callFaults

Loop == INSTANCE BundlerService

ASSUME GasLiftAssumption ==
    /\ ServedBy \in [Clients -> Procs]
    /\ MaxCallFaults \in Nat

\* What the two halves assume of their own constants.
ASSUME BundlerAssumption ==
    /\ Owner \in [Loops -> Procs]
    /\ NoLoop \notin Loops
    /\ NoBundle \notin Bundles
    /\ MaxOpsPerBundle \in Nat \ {0}
    /\ Gas \in [Hashes -> Nat]
    /\ MaxSafeGas \in Nat
    /\ TtlOutlivesBundle \in BOOLEAN

ASSUME MempoolAssumption ==
    /\ IsFiniteSet(Clients) /\ Clients # {}
    /\ IsFiniteSet(Hashes)
    /\ MaxMempoolSize \in Nat \ {0}
    /\ ZeroNonce \subseteq Keys
    /\ Priority \in [Hashes -> Nat]
    /\ MaxFee \in [Hashes -> Nat]

callVars == <<cpc, op, spelling, rival, doomed, call, seen, callFaults>>
loopVars == <<faults, running, lock, pc, batch, current, bundleOf, bstatus, tx, payload>>
vars == <<hash, status, redisVars, callVars, loopVars>>

TypeOK == Calls!RpcTypeOK /\ Loop!TypeOK

Init == Calls!RpcInit /\ Loop!Init

-----------------------------------------------------------------------------
\* A process exits with the calls it serves and the loops it runs.  One whose timer is
\* stopped and whose loops are over has only calls to lose.
ProcessExits(p) ==
    /\ Calls!CallsVanish({c \in Clients : ServedBy[c] = p})
    /\ \/ Loop!Exit(p)
       \/ /\ ~running[p]
          /\ \A l \in Loops : Owner[l] = p => pc[l] = "idle"
          /\ UNCHANGED loopVars

Next ==
    \/ Calls!RpcStep /\ UNCHANGED loopVars
    \/ Loop!BundlerStep /\ UNCHANGED callVars
    \/ \E p \in Procs : ProcessExits(p)

Spec == Init /\ [][Next]_vars

-----------------------------------------------------------------------------
(* Properties *)

\* What the calls can tell of a row: whether it is there.
Present == [r \in Ids |-> IF status[r] = "absent" THEN "absent" ELSE "pending"]

\* The loops do to the calls no more than JsonRpc allows them, which is to drop the keys
\* of an operation that has a row: what holds of JsonRpc holds of its calls here
\* (BundlerService.ts:141-150 against MempoolService.ts:33-72).
Service == INSTANCE JsonRpc
           WITH Faults <- CallFaults, MaxFaults <- MaxCallFaults, faults <- callFaults,
                status <- Present
ImplementsJsonRpc == Service!RpcSpec

\* The calls do to the loops no more than BundlerService allows them, which is to add
\* pending rows: what holds of BundlerService holds of the loops here
\* (MempoolService.ts:33-90 against BundlerService.ts:96-152).
Worker == INSTANCE BundlerService
          WITH cache <- [h \in Hashes |-> "none"], index <- [k \in Keys |-> NoHash]
ImplementsBundler == Worker!Spec

=============================================================================

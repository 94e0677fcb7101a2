----------------------------- MODULE Settlement -----------------------------
(***************************************************************************)
(* What the bundler promises for the user operations it is given: each one *)
(* is executed on chain at most once, it is recorded as confirmed only     *)
(* after that, and what was recorded stays.  It is recorded as failed only *)
(* if it was never executed, and executed only while it is pending, unless *)
(* the bundler has lost track of what became of some transaction.  Nothing *)
(* is said of bundles, locks or calls.                                     *)
(***************************************************************************)
CONSTANT Ids

VARIABLES
    status,     \* what the table records of a user operation
    executed,   \* the user operations the chain has executed
    lost        \* the outcome of some transaction is not known (any step may change it)

svars == <<status, executed>>

Pending == {r \in Ids : status[r] = "pending"}

Record(S, s) == status' = [r \in Ids |-> IF r \in S THEN s ELSE status[r]]

Init ==
    /\ status = [r \in Ids |-> "absent"]
    /\ executed = {}

Arrive(r) ==
    /\ status[r] = "absent"
    /\ Record({r}, "pending")
    /\ UNCHANGED executed

\* The chain executes a bundle of operations, none of them again.
Execute(S) ==
    /\ S \cap executed = {}
    /\ S \subseteq Pending \/ lost
    /\ executed' = executed \cup S
    /\ UNCHANGED status

Confirm(S) ==
    /\ S \subseteq Pending \cap executed
    /\ Record(S, "confirmed")
    /\ UNCHANGED executed

Fail(S) ==
    /\ S \subseteq Pending
    /\ S \cap executed = {} \/ lost
    /\ Record(S, "failed")
    /\ UNCHANGED executed

Next ==
    \/ \E r \in Ids : Arrive(r)
    \/ \E S \in SUBSET Ids : Execute(S) \/ Confirm(S) \/ Fail(S)

Spec == Init /\ [][Next]_svars

=============================================================================

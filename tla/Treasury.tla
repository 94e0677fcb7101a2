------------------------------ MODULE Treasury ------------------------------
(***************************************************************************)
(* Treasury.sol: the budgets dApps deposit, per token, and the charges the *)
(* authorised paymasters pull from them.  Each action is one successful    *)
(* call; a require that fails reverts it, which is no step.  The contract  *)
(* owns tokens (held) beside what its ledger says (balances), and a pull   *)
(* moves the ledger only.                                                  *)
(*                                                                         *)
(* Amounts are uint256 and their arithmetic is checked: an overflow is a   *)
(* revert.  MaxHeld keeps TLC's amounts small.                             *)
(***************************************************************************)
EXTENDS Integers, FiniteSets, Functions

CONSTANTS
    DApps,          \* dApp ids other than bytes32(0)
    Tokens,         \* token addresses; address(0), which is ETH, may be one
    Paymasters,     \* addresses the owner may authorise
    Amounts,        \* what one call deposits, withdraws or sends
    MaxHeld         \* how much of a token the contract may own (a bound)

ASSUME TreasuryAssumption ==
    /\ IsFiniteSet(DApps)
    /\ Amounts \subseteq Nat
    /\ MaxHeld \in Nat

VARIABLES
    balances,       \* balances[dAppId][token]
    authorized,     \* authorizedPaymasters
    held,           \* how much of each token the contract owns
    collected       \* how much was pulled so far (not in the contract)

treasuryVars == <<balances, authorized, held, collected>>

Budgets == DApps \X Tokens

TreasuryTypeOK ==
    /\ balances \in [Budgets -> Nat]
    /\ authorized \subseteq Paymasters
    /\ held \in [Tokens -> Nat]
    /\ collected \in [Budgets -> Nat]

TreasuryInit ==
    /\ balances = [b \in Budgets |-> 0]
    /\ authorized = {}
    /\ held = [t \in Tokens |-> 0]
    /\ collected = [b \in Budgets |-> 0]

-----------------------------------------------------------------------------
SetPaymaster(p, isAuthorized) ==
    /\ authorized' = IF isAuthorized THEN authorized \cup {p} ELSE authorized \ {p}
    /\ UNCHANGED <<balances, held, collected>>

\* Tokens that reach the contract: with a deposit, or sent to it (receive,
\* fallback, an ERC-20 transfer).
TakeIn(t, amount) ==
    /\ amount > 0
    /\ held[t] + amount <= MaxHeld
    /\ held' = [held EXCEPT ![t] = @ + amount]

Send(t, amount) == TakeIn(t, amount) /\ UNCHANGED <<balances, authorized, collected>>

Deposit(d, t, amount) ==
    /\ TakeIn(t, amount)
    /\ balances' = [balances EXCEPT ![<<d, t>>] = @ + amount]
    /\ UNCHANGED <<authorized, collected>>

\* Mutant: the budget's balance is not compared.
WithdrawUnchecked(d, t, amount) ==
    /\ amount > 0
    /\ held[t] >= amount
    /\ balances' = [balances EXCEPT ![<<d, t>>] = @ - amount]
    /\ held' = [held EXCEPT ![t] = @ - amount]
    /\ UNCHANGED <<authorized, collected>>

\* Mutant: the ledger is left alone by a withdrawal.
WithdrawKeepsLedger(d, t, amount) ==
    /\ amount > 0
    /\ balances[<<d, t>>] >= amount
    /\ held[t] >= amount
    /\ held' = [held EXCEPT ![t] = @ - amount]
    /\ UNCHANGED <<balances, authorized, collected>>

\* By the owner, to any recipient.
Withdraw(d, t, amount) ==
    /\ amount > 0
    /\ balances[<<d, t>>] >= amount
    /\ held[t] >= amount
    /\ balances' = [balances EXCEPT ![<<d, t>>] = @ - amount]
    /\ held' = [held EXCEPT ![t] = @ - amount]
    /\ UNCHANGED <<authorized, collected>>

CanPull(p, d, t, amount) ==
    /\ p \in authorized
    /\ amount > 0
    /\ balances[<<d, t>>] >= amount

Pull(p, d, t, amount) ==
    /\ CanPull(p, d, t, amount)
    /\ balances' = [balances EXCEPT ![<<d, t>>] = @ - amount]
    /\ collected' = [collected EXCEPT ![<<d, t>>] = @ + amount]
    /\ UNCHANGED <<authorized, held>>

TreasuryCall ==
    \/ \E p \in Paymasters, isAuthorized \in BOOLEAN : SetPaymaster(p, isAuthorized)
    \/ \E t \in Tokens, amount \in Amounts : Send(t, amount)
    \/ \E d \in DApps, t \in Tokens, amount \in Amounts :
          Deposit(d, t, amount) \/ Withdraw(d, t, amount)

-----------------------------------------------------------------------------
(* Properties *)

\* The contract owns what its ledger promises and, beside it, everything that was
\* pulled: a pull pays nobody (Treasury.sol:98-108), and no later call gives those
\* tokens away.
TreasuryIsSolvent ==
    \A t \in Tokens :
        LET ofToken(f) == SumFunctionOnSet(f, DApps \X {t}) IN
        held[t] >= ofToken(balances) + ofToken(collected)

=============================================================================

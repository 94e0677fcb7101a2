----------------------------- MODULE Paymaster -----------------------------
(***************************************************************************)
(* UniversalPaymaster.sol with the Treasury it charges and the EntryPoint  *)
(* that calls it.  A bundle is one transaction of the EntryPoint: every    *)
(* operation is validated, then each one is executed and charged, and an   *)
(* error takes the whole transaction back to where it began.  The steps of *)
(* that transaction are actions here, with nothing else between them.      *)
(*                                                                         *)
(* The EntryPoint is not part of the repository.  It is modelled as the    *)
(* contract meets it: it takes the highest cost of an operation from the   *)
(* paymaster's deposit before validatePaymasterUserOp, calls postOp after  *)
(* the operation's own call, calls it a second time with that call undone  *)
(* if the first postOp reverts, and returns what was not used.             *)
(***************************************************************************)
EXTENDS Treasury, Sequences

CONSTANTS
    This,               \* the address of the paymaster
    FeePercent,         \* FEE_PERCENT
    FeeDenominator,     \* FEE_DENOMINATOR
    Scale,              \* PRICE_DENOMINATOR * 1e8
    Feeds,              \* price feeds that a token may be given
    NoFeed,             \* address(0)
    Prices,             \* what the price feeds may answer
    MaxCost,            \* highest cost of one operation (a bound)
    PostOpGas,          \* highest cost of the postOp call itself
    MaxOps,             \* operations in one bundle (a bound)
    MaxEther,           \* ether in the paymaster or its deposit (a bound)
    NoSnapshot

ASSUME PaymasterAssumption ==
    /\ This \in Paymasters
    /\ FeePercent \in Nat
    /\ FeeDenominator \in Nat \ {0}
    /\ Scale \in Nat
    /\ NoFeed \notin Feeds
    /\ Prices \subseteq Int /\ Prices # {}
    /\ MaxCost \in Nat /\ PostOpGas \in Nat /\ MaxOps \in Nat /\ MaxEther \in Nat

VARIABLES
    whitelisted,    \* whitelistedTokens
    priceFeeds,     \* the price feed of each token
    price,          \* what each feed answers
    ether,          \* the paymaster's own ether
    deposit,        \* its deposit at the EntryPoint
    phase,          \* where the EntryPoint is in a bundle
    ops,            \* the bundle
    next,           \* the operation it is at
    begin,          \* the contracts when the transaction began, or NoSnapshot
    undo,           \* the contracts before the operation's own call, or NoSnapshot
    chargedBy       \* history: the feed each operation was charged by

adminVars == <<whitelisted, priceFeeds>>
gasVars == <<ether, deposit>>
txVars == <<phase, ops, next, begin, undo, chargedBy>>
vars == <<treasuryVars, adminVars, price, gasVars, txVars>>

\* An operation names the budget it is paid from and what it may cost.
UserOp == [dAppId : DApps, token : Tokens, maxCost : 1 .. MaxCost]

\* The state a revert restores.
Contracts ==
    [balances |-> balances, authorized |-> authorized, held |-> held,
     collected |-> collected, whitelisted |-> whitelisted, priceFeeds |-> priceFeeds,
     ether |-> ether, deposit |-> deposit]

Restore(c) ==
    /\ balances' = c.balances
    /\ authorized' = c.authorized
    /\ held' = c.held
    /\ collected' = c.collected
    /\ whitelisted' = c.whitelisted
    /\ priceFeeds' = c.priceFeeds
    /\ ether' = c.ether
    /\ deposit' = c.deposit

TypeOK ==
    /\ TreasuryTypeOK
    /\ whitelisted \subseteq Tokens
    /\ priceFeeds \in [Tokens -> Feeds \cup {NoFeed}]
    /\ price \in [Feeds -> Prices]
    /\ ether \in Nat
    /\ deposit \in Nat
    /\ phase \in {"none", "validation", "call", "postOp", "postOpReverted", "charged"}
    /\ ops \in Seq(UserOp)
    /\ next \in 1 .. MaxOps + 1
    /\ chargedBy \in [1 .. MaxOps -> Feeds \cup {NoFeed}]

Nobody == [i \in 1 .. MaxOps |-> NoFeed]

Init ==
    /\ TreasuryInit
    /\ whitelisted = {}
    /\ priceFeeds = [t \in Tokens |-> NoFeed]
    /\ price \in [Feeds -> Prices]
    /\ ether = 0
    /\ deposit = 0
    /\ phase = "none"
    /\ ops = <<>>
    /\ next = 1
    /\ begin = NoSnapshot
    /\ undo = NoSnapshot
    /\ chargedBy = Nobody

-----------------------------------------------------------------------------
(* getTokenCost and what an operation is charged *)

HasPrice(t) ==
    /\ t \in whitelisted
    /\ priceFeeds[t] # NoFeed
    /\ price[priceFeeds[t]] > 0

TokenCost(feed, ethAmount) == (ethAmount * Scale) \div price[feed]

TotalCharge(feed, ethAmount) ==
    LET cost == TokenCost(feed, ethAmount) IN cost + (cost * FeePercent) \div FeeDenominator

-----------------------------------------------------------------------------
(* Calls outside a bundle, each a transaction of its own *)

WhitelistToken(t, whitelist) ==
    /\ whitelisted' = IF whitelist THEN whitelisted \cup {t} ELSE whitelisted \ {t}
    /\ UNCHANGED priceFeeds

\* Any feed in the place of the one before; address(0) is none.
SetPriceFeed(t, feed) ==
    /\ t \in whitelisted
    /\ priceFeeds' = [priceFeeds EXCEPT ![t] = feed]
    /\ UNCHANGED whitelisted

Configure ==
    \/ /\ TreasuryCall
       /\ UNCHANGED adminVars
    \/ /\ \E t \in Tokens : \/ \E on \in BOOLEAN : WhitelistToken(t, on)
                           \/ \E feed \in Feeds \cup {NoFeed} : SetPriceFeed(t, feed)
       /\ UNCHANGED treasuryVars

\* Every call on the two ledgers and the token list.
AdminCall ==
    /\ phase = "none"
    /\ Configure
    /\ UNCHANGED <<price, gasVars, txVars>>

\* receive()
ReceiveEther ==
    /\ phase = "none"
    /\ ether < MaxEther
    /\ ether' = ether + 1
    /\ UNCHANGED <<treasuryVars, adminVars, price, deposit, txVars>>

\* deposit(): the ether sent along goes to the EntryPoint.
DepositEther ==
    /\ phase = "none"
    /\ deposit < MaxEther
    /\ deposit' = deposit + 1
    /\ UNCHANGED <<treasuryVars, adminVars, price, ether, txVars>>

\* withdraw(): the EntryPoint pays the owner, and the paymaster's own ether is
\* compared but not spent.
WithdrawEther(amount) ==
    /\ phase = "none"
    /\ amount <= deposit
    /\ amount <= ether
    /\ deposit' = deposit - amount
    /\ UNCHANGED <<treasuryVars, adminVars, price, ether, txVars>>

\* A feed is updated, by a transaction of its own.
PriceChanges ==
    /\ phase = "none"
    /\ \E feed \in Feeds, p \in Prices : price' = [price EXCEPT ![feed] = p]
    /\ UNCHANGED <<treasuryVars, adminVars, gasVars, txVars>>

-----------------------------------------------------------------------------
(* A bundle *)

EndTransaction ==
    /\ phase' = "none"
    /\ ops' = <<>>
    /\ next' = 1
    /\ begin' = NoSnapshot
    /\ undo' = NoSnapshot
    /\ chargedBy' = Nobody

\* The operation at next is charged: on to the one after it.
NextOp ==
    /\ phase' = IF next = Len(ops) THEN "charged" ELSE "call"
    /\ next' = next + 1
    /\ undo' = NoSnapshot
    /\ chargedBy' = [chargedBy EXCEPT ![next] = priceFeeds[ops[next].token]]
    /\ UNCHANGED <<ops, begin>>

HandleOps ==
    /\ phase = "none"
    /\ \E n \in 1 .. MaxOps : \E bundle \in [1 .. n -> UserOp] : ops' = bundle
    /\ phase' = "validation"
    /\ next' = 1
    /\ begin' = Contracts
    /\ UNCHANGED <<treasuryVars, adminVars, price, gasVars, undo, chargedBy>>

RevertBundle ==
    /\ Restore(begin)
    /\ EndTransaction
    /\ UNCHANGED price

\* validatePaymasterUserOp: a look at the budget that reserves nothing.
IsValid(op) ==
    /\ HasPrice(op.token)
    /\ balances[<<op.dAppId, op.token>>] >= TokenCost(priceFeeds[op.token], op.maxCost)

ValidatePaymasterUserOp ==
    LET op == ops[next]
        last == next = Len(ops)
    IN
    /\ phase = "validation"
    /\ deposit >= op.maxCost
    /\ IsValid(op)
    /\ deposit' = deposit - op.maxCost
    /\ phase' = IF last THEN "call" ELSE phase
    /\ next' = IF last THEN 1 ELSE next + 1
    /\ UNCHANGED <<treasuryVars, adminVars, price, ether, ops, begin, undo, chargedBy>>

RefuseOp ==
    /\ phase = "validation"
    /\ deposit < ops[next].maxCost \/ ~IsValid(ops[next])
    /\ RevertBundle

\* The operation's own call: nothing that matters here, or whatever its sender may
\* ask of the two ledgers, the token list and the price feeds; the sender may be the
\* contracts' owner.  The feeds themselves answer the same throughout a transaction,
\* and ether is not moved.
CallOp ==
    /\ phase = "call"
    /\ undo' = Contracts
    /\ phase' = "postOp"
    /\ Configure \/ UNCHANGED <<treasuryVars, adminVars>>
    /\ UNCHANGED <<price, gasVars, ops, next, begin, chargedBy>>

\* What an operation is charged where the token has a price.
Charge(op, cost) == TotalCharge(priceFeeds[op.token], cost)

\* postOp goes through at a cost of actualGasCost.
CanPost(op, actualGasCost) ==
    /\ HasPrice(op.token)
    /\ CanPull(This, op.dAppId, op.token, Charge(op, actualGasCost))
    /\ ether >= actualGasCost

\* Mutant: postOp does not pay the EntryPoint back.
PostOpKeepsEther ==
    LET op == ops[next] IN
    /\ phase \in {"postOp", "postOpReverted"}
    /\ \E actualGasCost \in 1 .. op.maxCost :
         /\ CanPost(op, actualGasCost)
         /\ Pull(This, op.dAppId, op.token, Charge(op, actualGasCost))
         /\ deposit' = deposit + (op.maxCost - actualGasCost)
    /\ NextOp
    /\ UNCHANGED <<adminVars, price, ether>>

\* Mutant: a payment to the EntryPoint that fails does not take the pull back.
PostOpPullStays ==
    LET op == ops[next] IN
    /\ phase \in {"postOp", "postOpReverted"}
    /\ \E actualGasCost \in 1 .. op.maxCost :
         /\ Pull(This, op.dAppId, op.token, Charge(op, actualGasCost))
         /\ \/ /\ ether >= actualGasCost
               /\ ether' = ether - actualGasCost
               /\ deposit' = deposit + op.maxCost
               /\ NextOp
            \/ /\ ether < actualGasCost
               /\ phase' = "postOpReverted"
               /\ UNCHANGED <<gasVars, ops, next, begin, undo, chargedBy>>
    /\ UNCHANGED <<adminVars, price>>

\* postOp, and what the EntryPoint does with the rest of the prefund.  The gas of
\* postOp itself is paid on top of the cost that postOp is told.
PostOp ==
    LET op == ops[next] IN
    /\ phase \in {"postOp", "postOpReverted"}
    /\ \E actualGasCost \in 1 .. op.maxCost, gas \in 0 .. PostOpGas :
         /\ actualGasCost + gas <= op.maxCost
         /\ CanPost(op, actualGasCost)
         /\ Pull(This, op.dAppId, op.token, Charge(op, actualGasCost))
         /\ ether' = ether - actualGasCost
         /\ deposit' = deposit + actualGasCost + (op.maxCost - actualGasCost - gas)
    /\ NextOp
    /\ UNCHANGED <<adminVars, price>>

\* The first postOp reverts: the operation's own call is undone with it.
PostOpReverts ==
    /\ phase = "postOp"
    /\ \E actualGasCost \in 1 .. ops[next].maxCost : ~CanPost(ops[next], actualGasCost)
    /\ Restore(undo)
    /\ phase' = "postOpReverted"
    /\ undo' = NoSnapshot
    /\ UNCHANGED <<price, ops, next, begin, chargedBy>>

\* The second one reverts: there is no third.
BundleReverts ==
    /\ phase = "postOpReverted"
    /\ \E actualGasCost \in 1 .. ops[next].maxCost : ~CanPost(ops[next], actualGasCost)
    /\ RevertBundle

Commit ==
    /\ phase = "charged"
    /\ EndTransaction
    /\ UNCHANGED <<treasuryVars, adminVars, price, gasVars>>

-----------------------------------------------------------------------------
Next ==
    \/ AdminCall
    \/ ReceiveEther
    \/ DepositEther
    \/ \E amount \in 1 .. MaxEther : WithdrawEther(amount)
    \/ PriceChanges
    \/ HandleOps
    \/ ValidatePaymasterUserOp
    \/ RefuseOp
    \/ CallOp
    \/ PostOp
    \/ PostOpReverts
    \/ BundleReverts
    \/ Commit

Spec == Init /\ [][Next]_vars

-----------------------------------------------------------------------------
(* Properties *)

\* The operations of the bundle that have been charged, and those prepaid but not
\* yet charged.
Charged == IF phase \in {"none", "validation"} THEN {} ELSE 1 .. next - 1
Prepaid == IF phase = "validation" THEN 1 .. next - 1 ELSE DOMAIN ops \ Charged

CostOf(S) == SumFunctionOnSet([i \in S |-> ops[i].maxCost], S)

\* A budget is charged for the operations it sponsors, each at most once and for no
\* more than its highest cost and the fee at the price of the feed the token then has,
\* although postOp may run twice for one operation and an operation's call may set
\* another feed (UniversalPaymaster.sol:80-84, 138-158; postOp ignores its mode).
NeverOvercharged ==
    phase # "none" =>
        \A d \in DApps, t \in Tokens :
            LET mine == {i \in Charged : ops[i].dAppId = d /\ ops[i].token = t}
                highest == [i \in mine |-> TotalCharge(chargedBy[i], ops[i].maxCost)]
            IN  collected[<<d, t>>] <= begin.collected[<<d, t>>] + SumFunctionOnSet(highest, mine)

\* A bundle takes nothing from the deposit but the gas of the postOp calls: what the
\* EntryPoint took ahead is returned, and what was used postOp pays back
\* (UniversalPaymaster.sol:156-157).
DepositIsReplenished ==
    phase # "none" =>
        deposit + CostOf(Prepaid) + Cardinality(Charged) * PostOpGas >= begin.deposit

\* When the validation of a bundle is over, the budget of each operation covers what
\* the operation may be charged: validatePaymasterUserOp is to "Check if dApp has
\* sufficient balance" (UniversalPaymaster.sol:130).
ValidatedIsCovered ==
    phase = "call" /\ next = 1 =>
        \A i \in DOMAIN ops :
            balances[<<ops[i].dAppId, ops[i].token>>] >= Charge(ops[i], ops[i].maxCost)

=============================================================================

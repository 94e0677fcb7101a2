-------------------------- MODULE PaymasterProofs --------------------------
(* What holds of Paymaster for any budgets, tokens, prices and bundles.     *)
EXTENDS Paymaster, SumProofs, TLAPS

FeedOrNone == Feeds \cup {NoFeed}

LedgerTypeOK ==
    TreasuryTypeOK /\ whitelisted \subseteq Tokens /\ priceFeeds \in [Tokens -> FeedOrNone]

Snapshots ==
    [balances : [Budgets -> Nat], authorized : SUBSET Paymasters, held : [Tokens -> Nat],
     collected : [Budgets -> Nat], whitelisted : SUBSET Tokens,
     priceFeeds : [Tokens -> FeedOrNone], ether : Nat, deposit : Nat]

\* A bundle has where to revert to, and the EntryPoint is at one of its operations.
BundleInv ==
    /\ TypeOK
    /\ phase # "none" => begin \in Snapshots
    /\ phase = "postOp" => undo \in Snapshots
    /\ Len(ops) <= MaxOps
    /\ phase \in {"validation", "call", "postOp", "postOpReverted"} => next <= Len(ops)

LEMMA BundleInit == Init => BundleInv
  <1> SUFFICES ASSUME Init
               PROVE  BundleInv
    OBVIOUS
  <1>1. TreasuryTypeOK
    BY DEF Init, TreasuryInit, TreasuryTypeOK
  <1>2. ops \in Seq(UserOp) /\ Len(ops) = 0
    BY DEF Init
  <1> QED
    BY <1>1, <1>2, PaymasterAssumption DEF Init, Nobody, BundleInv, TypeOK

LEMMA ContractsType == TypeOK => Contracts \in Snapshots
  BY DEF TypeOK, TreasuryTypeOK, Contracts, Snapshots, FeedOrNone

LEMMA RestoreType ==
  ASSUME NEW c \in Snapshots, Restore(c)
  PROVE  LedgerTypeOK' /\ ether' \in Nat /\ deposit' \in Nat
  BY DEF Snapshots, Restore, LedgerTypeOK, TreasuryTypeOK

LEMMA TakeInType ==
  ASSUME TreasuryTypeOK, NEW t \in Tokens, NEW amount \in Amounts, TakeIn(t, amount)
  PROVE  held' \in [Tokens -> Nat]
  BY TreasuryAssumption DEF TakeIn, TreasuryTypeOK

LEMMA TreasuryCallType ==
  ASSUME TreasuryTypeOK, TreasuryCall
  PROVE  TreasuryTypeOK'
  <1>1. ASSUME NEW p \in Paymasters, NEW on \in BOOLEAN, SetPaymaster(p, on)
        PROVE  TreasuryTypeOK'
    BY <1>1 DEF SetPaymaster, TreasuryTypeOK
  <1>2. ASSUME NEW t \in Tokens, NEW amount \in Amounts, Send(t, amount)
        PROVE  TreasuryTypeOK'
    BY <1>2, TakeInType DEF Send, TreasuryTypeOK
  <1>3. ASSUME NEW d \in DApps, NEW t \in Tokens, NEW amount \in Amounts, Deposit(d, t, amount)
        PROVE  TreasuryTypeOK'
    <2>1. balances' \in [Budgets -> Nat]
      BY <1>3, TreasuryAssumption DEF Deposit, TreasuryTypeOK, Budgets
    <2> QED
      BY <1>3, <2>1, TakeInType DEF Deposit, TreasuryTypeOK
  <1>4. ASSUME NEW d \in DApps, NEW t \in Tokens, NEW amount \in Amounts, Withdraw(d, t, amount)
        PROVE  TreasuryTypeOK'
    BY <1>4, TreasuryAssumption DEF Withdraw, TreasuryTypeOK, Budgets
  <1> QED
    BY <1>1, <1>2, <1>3, <1>4 DEF TreasuryCall

LEMMA ConfigureType ==
  ASSUME LedgerTypeOK, Configure
  PROVE  LedgerTypeOK'
  <1>1. CASE TreasuryCall /\ UNCHANGED adminVars
    BY <1>1, TreasuryCallType DEF LedgerTypeOK, adminVars
  <1>2. ASSUME NEW t \in Tokens, NEW on \in BOOLEAN, WhitelistToken(t, on),
               UNCHANGED treasuryVars
        PROVE  LedgerTypeOK'
    BY <1>2 DEF WhitelistToken, LedgerTypeOK, TreasuryTypeOK, treasuryVars
  <1>3. ASSUME NEW t \in Tokens, NEW feed \in FeedOrNone, SetPriceFeed(t, feed),
               UNCHANGED treasuryVars
        PROVE  LedgerTypeOK'
    BY <1>3 DEF SetPriceFeed, LedgerTypeOK, TreasuryTypeOK, treasuryVars
  <1> QED
    BY <1>1, <1>2, <1>3 DEF Configure, FeedOrNone

\* What an operation costs is an integer where its token has a price.
LEMMA ChargeType ==
  ASSUME TypeOK, NEW op \in UserOp, HasPrice(op.token), NEW cost \in Nat
  PROVE  Charge(op, cost) \in Int /\ priceFeeds[op.token] \in Feeds
  <1> DEFINE feed == priceFeeds[op.token]
  <1>1. op.token \in Tokens
    BY DEF UserOp
  <1>2. feed \in Feeds /\ price[feed] \in Int /\ price[feed] > 0
    BY <1>1, PaymasterAssumption DEF TypeOK, HasPrice
  <1> HIDE DEF feed
  <1>3. cost * Scale \in Int
    BY PaymasterAssumption
  <1>4. TokenCost(feed, cost) \in Int
    BY <1>2, <1>3 DEF TokenCost
  <1>5. TokenCost(feed, cost) * FeePercent \in Int
    BY <1>4, PaymasterAssumption
  <1>6. (TokenCost(feed, cost) * FeePercent) \div FeeDenominator \in Int
    BY <1>5, PaymasterAssumption
  <1>7. TotalCharge(feed, cost) \in Int
    BY <1>4, <1>6 DEF TotalCharge
  <1> QED
    BY <1>2, <1>7 DEF feed, Charge

LEMMA PullType ==
  ASSUME TreasuryTypeOK, NEW p, NEW d \in DApps, NEW t \in Tokens, NEW amount \in Int,
         Pull(p, d, t, amount)
  PROVE  TreasuryTypeOK'
  <1>1. <<d, t>> \in Budgets
    BY DEF Budgets
  <1>2. balances' \in [Budgets -> Nat]
    <2>1. balances[<<d, t>>] \in Nat /\ balances[<<d, t>>] - amount \in Nat
      BY <1>1 DEF Pull, CanPull, TreasuryTypeOK
    <2> QED
      BY <1>1, <2>1 DEF Pull, TreasuryTypeOK
  <1>3. collected' \in [Budgets -> Nat]
    <2>1. collected[<<d, t>>] + amount \in Nat
      BY <1>1 DEF Pull, CanPull, TreasuryTypeOK
    <2> QED
      BY <1>1, <2>1 DEF Pull, TreasuryTypeOK
  <1> QED
    BY <1>2, <1>3 DEF Pull, TreasuryTypeOK

LEMMA PostOpType ==
  ASSUME BundleInv, PostOp
  PROVE  BundleInv'
  <1> DEFINE op == ops[next]
  <1>1. op \in UserOp /\ next \in 1 .. Len(ops) /\ Len(ops) \in Nat
    BY DEF PostOp, BundleInv, TypeOK
  <1>2. op.dAppId \in DApps /\ op.token \in Tokens /\ op.maxCost \in Nat
    BY <1>1, PaymasterAssumption DEF UserOp
  <1>3. PICK cost \in 1 .. op.maxCost, gas \in 0 .. PostOpGas :
           /\ cost + gas <= op.maxCost
           /\ CanPost(op, cost)
           /\ Pull(This, op.dAppId, op.token, Charge(op, cost))
           /\ ether' = ether - cost
           /\ deposit' = deposit + cost + (op.maxCost - cost - gas)
    BY DEF PostOp
  <1>4. Charge(op, cost) \in Int
    BY <1>1, <1>2, <1>3, ChargeType DEF CanPost, BundleInv
  <1>5. TreasuryTypeOK'
    BY <1>2, <1>3, <1>4, PullType DEF BundleInv, TypeOK
  <1>6. ether' \in Nat /\ deposit' \in Nat
    BY <1>2, <1>3, PaymasterAssumption DEF CanPost, BundleInv, TypeOK
  <1>7. NextOp /\ UNCHANGED <<adminVars, price>>
    BY DEF PostOp
  <1>8. phase # "none"
    BY DEF PostOp
  <1>9. chargedBy' \in [1 .. MaxOps -> Feeds \cup {NoFeed}]
    BY <1>2, <1>7 DEF NextOp, BundleInv, TypeOK
  <1> QED
    BY <1>1, <1>5, <1>6, <1>7, <1>8, <1>9, PaymasterAssumption
    DEF NextOp, adminVars, BundleInv, TypeOK

LEMMA RevertType ==
  ASSUME BundleInv, phase # "none", RevertBundle
  PROVE  BundleInv'
  <1>1. LedgerTypeOK' /\ ether' \in Nat /\ deposit' \in Nat
    BY RestoreType DEF RevertBundle, BundleInv
  <1>2. ops' = <<>> /\ <<>> \in Seq(UserOp) /\ Len(<<>>) = 0
    BY DEF RevertBundle, EndTransaction
  <1> QED
    BY <1>1, <1>2, PaymasterAssumption
    DEF RevertBundle, EndTransaction, Nobody, LedgerTypeOK, FeedOrNone, BundleInv, TypeOK

LEMMA BundleStep ==
  ASSUME BundleInv, [Next]_vars
  PROVE  BundleInv'
  <1>1. CASE UNCHANGED vars
    BY <1>1 DEF vars, treasuryVars, adminVars, gasVars, txVars, BundleInv, TypeOK, TreasuryTypeOK
  <1>2. CASE AdminCall
    BY <1>2, ConfigureType
    DEF AdminCall, LedgerTypeOK, FeedOrNone, gasVars, txVars, BundleInv, TypeOK
  <1>3. CASE ReceiveEther \/ DepositEther
    BY <1>3 DEF ReceiveEther, DepositEther, treasuryVars, adminVars, txVars, BundleInv, TypeOK,
                TreasuryTypeOK
  <1>4. ASSUME NEW amount \in 1 .. MaxEther, WithdrawEther(amount)
        PROVE  BundleInv'
    BY <1>4 DEF WithdrawEther, treasuryVars, adminVars, txVars, BundleInv, TypeOK, TreasuryTypeOK
  <1>5. CASE PriceChanges
    BY <1>5 DEF PriceChanges, treasuryVars, adminVars, gasVars, txVars, BundleInv, TypeOK,
                TreasuryTypeOK
  <1>6. CASE HandleOps
    <2>1. PICK n \in 1 .. MaxOps : ops' \in [1 .. n -> UserOp]
      BY <1>6 DEF HandleOps
    <2>2. ops' \in Seq(UserOp) /\ Len(ops') = n
      BY <2>1, PaymasterAssumption
    <2> QED
      BY <1>6, <2>1, <2>2, ContractsType, PaymasterAssumption
      DEF HandleOps, treasuryVars, adminVars, gasVars, BundleInv, TypeOK, TreasuryTypeOK
  <1>7. CASE ValidatePaymasterUserOp
    <2>1. ops[next] \in UserOp /\ next \in 1 .. Len(ops) /\ Len(ops) \in Nat
      BY <1>7 DEF ValidatePaymasterUserOp, BundleInv, TypeOK
    <2>2. deposit' \in Nat
      BY <1>7, <2>1, PaymasterAssumption DEF ValidatePaymasterUserOp, UserOp, BundleInv, TypeOK
    <2> QED
      BY <1>7, <2>1, <2>2, PaymasterAssumption
      DEF ValidatePaymasterUserOp, treasuryVars, adminVars, BundleInv, TypeOK, TreasuryTypeOK
  <1>8. CASE RefuseOp \/ BundleReverts
    BY <1>8, RevertType DEF RefuseOp, BundleReverts
  <1>9. CASE CallOp
    <2>1. LedgerTypeOK'
      BY <1>9, ConfigureType
      DEF CallOp, LedgerTypeOK, FeedOrNone, BundleInv, TypeOK, TreasuryTypeOK, treasuryVars,
          adminVars
    <2> QED
      BY <1>9, <2>1, ContractsType
      DEF CallOp, gasVars, LedgerTypeOK, FeedOrNone, BundleInv, TypeOK
  <1>10. CASE PostOp
    BY <1>10, PostOpType
  <1>11. CASE PostOpReverts
    BY <1>11, RestoreType DEF PostOpReverts, LedgerTypeOK, FeedOrNone, BundleInv, TypeOK
  <1>12. CASE Commit
    <2>1. ops' = <<>> /\ <<>> \in Seq(UserOp) /\ Len(<<>>) = 0
      BY <1>12 DEF Commit, EndTransaction
    <2> QED
      BY <1>12, <2>1, PaymasterAssumption
      DEF Commit, EndTransaction, Nobody, treasuryVars, adminVars, gasVars, BundleInv, TypeOK,
          TreasuryTypeOK
  <1> QED
    BY <1>1, <1>2, <1>3, <1>4, <1>5, <1>6, <1>7, <1>8, <1>9, <1>10, <1>11, <1>12 DEF Next

\* Every variable keeps its type: no budget, no deposit and no ether ever goes below
\* zero, for any prices and fees and through reverts (Treasury.sol:76-108,
\* UniversalPaymaster.sol:104-158).
THEOREM TypeCorrect == Spec => []TypeOK
  <1>1. BundleInv => TypeOK
    BY DEF BundleInv
  <1> QED
    BY <1>1, BundleInit, BundleStep, PTL DEF Spec

-----------------------------------------------------------------------------
(* The treasury owns what it promises.  A revert goes back to a snapshot, so *)
(* the snapshots have to be solvent as well.                                 *)

OfToken(f, t) == SumFunctionOnSet(f, DApps \X {t})

IsSolvent(c) == \A t \in Tokens : c.held[t] >= OfToken(c.balances, t) + OfToken(c.collected, t)

SolvencyInv ==
    /\ BundleInv
    /\ TreasuryIsSolvent
    /\ phase # "none" => IsSolvent(begin)
    /\ phase = "postOp" => IsSolvent(undo)

LEMMA CurrentOp ==
  ASSUME BundleInv, phase \in {"validation", "call", "postOp", "postOpReverted"}
  PROVE  /\ next \in DOMAIN ops
         /\ ops[next].dAppId \in DApps
         /\ ops[next].token \in Tokens
         /\ ops[next].maxCost \in Nat
  <1>1. ops[next] \in UserOp /\ next \in 1 .. Len(ops) /\ Len(ops) \in Nat
    BY DEF BundleInv, TypeOK
  <1> QED
    BY <1>1, PaymasterAssumption DEF UserOp, BundleInv, TypeOK

LEMMA BudgetsOfToken ==
  ASSUME NEW t \in Tokens
  PROVE  IsFiniteSet(DApps \X {t}) /\ DApps \X {t} \subseteq Budgets
  <1>1. IsFiniteSet({t})
    BY FS_Singleton
  <1> QED
    BY <1>1, FS_Product, TreasuryAssumption DEF Budgets

LEMMA OfTokenType ==
  ASSUME NEW f \in [Budgets -> Nat], NEW t \in Tokens
  PROVE  OfToken(f, t) \in Nat
  <1>1. \A b \in DApps \X {t} : f[b] \in Nat
    BY BudgetsOfToken
  <1> QED
    BY <1>1, BudgetsOfToken, SumType DEF OfToken

\* One budget changes: the sum of its token changes by as much, the others stay.
LEMMA OfTokenChange ==
  ASSUME NEW f \in [Budgets -> Nat], NEW g \in [Budgets -> Nat],
         NEW d \in DApps, NEW t \in Tokens, NEW u \in Tokens,
         \A b \in Budgets : b # <<d, t>> => g[b] = f[b]
  PROVE  /\ u = t => OfToken(g, u) - g[<<d, t>>] = OfToken(f, u) - f[<<d, t>>]
         /\ u # t => OfToken(g, u) = OfToken(f, u)
  <1>1. CASE u = t
    <2>1. \A b \in DApps \X {t} : f[b] \in Nat /\ g[b] \in Nat
      BY BudgetsOfToken
    <2>2. <<d, t>> \in DApps \X {t} /\ \A b \in (DApps \X {t}) \ {<<d, t>>} : g[b] = f[b]
      BY BudgetsOfToken
    <2>3. SumFunctionOnSet(g, DApps \X {t}) - g[<<d, t>>]
            = SumFunctionOnSet(f, DApps \X {t}) - f[<<d, t>>]
      <3> DEFINE S == DApps \X {t}
                 b == <<d, t>>
      <3>1. IsFiniteSet(S)
        BY BudgetsOfToken
      <3>2. b \in S /\ \A y \in S \ {b} : g[y] = f[y]
        BY <2>2
      <3>3. \A y \in S : f[y] \in Nat /\ g[y] \in Nat
        BY <2>1
      <3> HIDE DEF S, b
      <3>4. SumFunctionOnSet(g, S) - g[b] = SumFunctionOnSet(f, S) - f[b]
        BY <3>1, <3>2, <3>3, SumChange
      <3> QED
        BY <3>4 DEF S, b
    <2> QED
      BY <1>1, <2>3 DEF OfToken
  <1>2. CASE u # t
    <2>1. \A b \in DApps \X {u} : b \in Budgets /\ b # <<d, t>>
      BY <1>2 DEF Budgets
    <2>2. \A b \in DApps \X {u} : f[b] \in Nat /\ g[b] = f[b]
      BY <2>1
    <2> QED
      BY <1>2, <2>2, BudgetsOfToken, SumSame DEF OfToken
  <1> QED
    BY <1>1, <1>2

LEMMA SolventNow == TreasuryIsSolvent <=> IsSolvent(Contracts)
  BY DEF TreasuryIsSolvent, IsSolvent, OfToken, Contracts

\* Tokens that reach the contract, with the ledger as it is.
LEMMA TakeInSolvent ==
  ASSUME TreasuryTypeOK, IsSolvent(Contracts), NEW t \in Tokens, NEW amount \in Amounts,
         TakeIn(t, amount), UNCHANGED <<balances, collected>>
  PROVE  IsSolvent(Contracts)'
  <1> SUFFICES ASSUME NEW u \in Tokens
               PROVE  held'[u] >= OfToken(balances, u) + OfToken(collected, u)
    BY DEF IsSolvent, Contracts, OfToken
  <1>1. held[u] >= OfToken(balances, u) + OfToken(collected, u)
    BY DEF IsSolvent, Contracts
  <1>2. OfToken(balances, u) \in Nat /\ OfToken(collected, u) \in Nat
    BY OfTokenType DEF TreasuryTypeOK
  <1>3. held'[u] >= held[u] /\ held[u] \in Nat /\ held'[u] \in Nat
    BY TreasuryAssumption DEF TakeIn, TreasuryTypeOK
  <1> QED
    BY <1>1, <1>2, <1>3

\* A budget and what is owned of its token move by the same amount.
LEMMA LedgerSolvent ==
  ASSUME TreasuryTypeOK, TreasuryTypeOK', IsSolvent(Contracts),
         NEW d \in DApps, NEW t \in Tokens, NEW delta \in Int,
         balances' = [balances EXCEPT ![<<d, t>>] = @ + delta],
         held' = [held EXCEPT ![t] = @ + delta],
         collected' = collected
  PROVE  IsSolvent(Contracts)'
  <1> SUFFICES ASSUME NEW u \in Tokens
               PROVE  held'[u] >= OfToken(balances', u) + OfToken(collected, u)
    BY DEF IsSolvent, Contracts, OfToken
  <1>1. held[u] >= OfToken(balances, u) + OfToken(collected, u)
    BY DEF IsSolvent, Contracts
  <1>2. balances \in [Budgets -> Nat] /\ balances' \in [Budgets -> Nat]
    BY DEF TreasuryTypeOK
  <1>3. /\ OfToken(balances, u) \in Nat
        /\ OfToken(balances', u) \in Nat
        /\ OfToken(collected, u) \in Nat
    BY <1>2, OfTokenType DEF TreasuryTypeOK
  <1>4. /\ <<d, t>> \in Budgets
        /\ balances[<<d, t>>] \in Nat
        /\ balances'[<<d, t>>] = balances[<<d, t>>] + delta
        /\ \A b \in Budgets : b # <<d, t>> => balances'[b] = balances[b]
    BY <1>2 DEF Budgets
  <1>5. /\ u = t => /\ OfToken(balances', u) - balances'[<<d, t>>]
                         = OfToken(balances, u) - balances[<<d, t>>]
        /\ u # t => OfToken(balances', u) = OfToken(balances, u)
    BY <1>2, <1>4, OfTokenChange
  <1>6. /\ held[u] \in Nat
        /\ u = t => held'[u] = held[u] + delta
        /\ u # t => held'[u] = held[u]
    BY DEF TreasuryTypeOK
  <1> QED
    BY <1>1, <1>3, <1>4, <1>5, <1>6

LEMMA PullSolvent ==
  ASSUME TreasuryTypeOK, IsSolvent(Contracts), NEW p, NEW d \in DApps, NEW t \in Tokens,
         NEW amount \in Int, Pull(p, d, t, amount)
  PROVE  IsSolvent(Contracts)'
  <1> SUFFICES ASSUME NEW u \in Tokens
               PROVE  held[u] >= OfToken(balances', u) + OfToken(collected', u)
    BY DEF IsSolvent, Contracts, OfToken, Pull
  <1>1. held[u] >= OfToken(balances, u) + OfToken(collected, u) /\ held[u] \in Nat
    BY DEF IsSolvent, Contracts, TreasuryTypeOK
  <1>2. TreasuryTypeOK'
    BY PullType
  <1>3. /\ balances \in [Budgets -> Nat] /\ balances' \in [Budgets -> Nat]
        /\ collected \in [Budgets -> Nat] /\ collected' \in [Budgets -> Nat]
    BY <1>2 DEF TreasuryTypeOK
  <1>4. /\ OfToken(balances, u) \in Nat /\ OfToken(balances', u) \in Nat
        /\ OfToken(collected, u) \in Nat /\ OfToken(collected', u) \in Nat
    BY <1>3, OfTokenType
  <1>5. <<d, t>> \in Budgets
    BY DEF Budgets
  <1>6. /\ balances'[<<d, t>>] = balances[<<d, t>>] - amount
        /\ collected'[<<d, t>>] = collected[<<d, t>>] + amount
        /\ \A b \in Budgets : b # <<d, t>> => balances'[b] = balances[b]
        /\ \A b \in Budgets : b # <<d, t>> => collected'[b] = collected[b]
    BY <1>3, <1>5 DEF Pull
  <1>7. /\ u = t => /\ OfToken(balances', u) - balances'[<<d, t>>]
                         = OfToken(balances, u) - balances[<<d, t>>]
        /\ u # t => OfToken(balances', u) = OfToken(balances, u)
    BY <1>3, <1>6, OfTokenChange
  <1>8. /\ u = t => /\ OfToken(collected', u) - collected'[<<d, t>>]
                         = OfToken(collected, u) - collected[<<d, t>>]
        /\ u # t => OfToken(collected', u) = OfToken(collected, u)
    BY <1>3, <1>6, OfTokenChange
  <1>9. balances[<<d, t>>] \in Nat /\ collected[<<d, t>>] \in Nat
    BY <1>3, <1>5
  <1> QED
    BY <1>1, <1>4, <1>6, <1>7, <1>8, <1>9

LEMMA TreasuryCallSolvent ==
  ASSUME TreasuryTypeOK, IsSolvent(Contracts), TreasuryCall
  PROVE  IsSolvent(Contracts)'
  <1>1. ASSUME NEW p \in Paymasters, NEW on \in BOOLEAN, SetPaymaster(p, on)
        PROVE  IsSolvent(Contracts)'
    BY <1>1 DEF SetPaymaster, IsSolvent, Contracts, OfToken
  <1>2. ASSUME NEW t \in Tokens, NEW amount \in Amounts, Send(t, amount)
        PROVE  IsSolvent(Contracts)'
    BY <1>2, TakeInSolvent DEF Send
  <1>3. ASSUME NEW d \in DApps, NEW t \in Tokens, NEW amount \in Amounts, Deposit(d, t, amount)
        PROVE  IsSolvent(Contracts)'
    <2>1. TreasuryTypeOK'
      BY <1>3, TreasuryCallType DEF TreasuryCall
    <2>2. amount \in Int
      BY TreasuryAssumption
    <2> QED
      BY <1>3, <2>1, <2>2, LedgerSolvent DEF Deposit, TakeIn
  <1>4. ASSUME NEW d \in DApps, NEW t \in Tokens, NEW amount \in Amounts, Withdraw(d, t, amount)
        PROVE  IsSolvent(Contracts)'
    <2>1. TreasuryTypeOK'
      BY <1>4, TreasuryCallType DEF TreasuryCall
    <2>2. -amount \in Int
      BY TreasuryAssumption
    <2>3. /\ balances[<<d, t>>] - amount = balances[<<d, t>>] + (-amount)
          /\ held[t] - amount = held[t] + (-amount)
      BY TreasuryAssumption DEF TreasuryTypeOK, Budgets
    <2>4. /\ balances' = [balances EXCEPT ![<<d, t>>] = @ + (-amount)]
          /\ held' = [held EXCEPT ![t] = @ + (-amount)]
      BY <1>4, <2>3 DEF Withdraw
    <2> QED
      BY <1>4, <2>1, <2>2, <2>4, LedgerSolvent DEF Withdraw
  <1> QED
    BY <1>1, <1>2, <1>3, <1>4 DEF TreasuryCall

LEMMA ConfigureSolvent ==
  ASSUME TreasuryTypeOK, IsSolvent(Contracts), Configure
  PROVE  IsSolvent(Contracts)'
  <1>1. CASE UNCHANGED treasuryVars
    BY <1>1 DEF treasuryVars, IsSolvent, Contracts, OfToken
  <1> QED
    BY <1>1, TreasuryCallSolvent DEF Configure

LEMMA RestoreSolvent ==
  ASSUME NEW c, IsSolvent(c), Restore(c)
  PROVE  IsSolvent(Contracts)'
  BY DEF IsSolvent, Restore, Contracts, OfToken

LEMMA SolvencyInit == Init => SolvencyInv
  <1> SUFFICES ASSUME Init
               PROVE  SolvencyInv
    OBVIOUS
  <1>1. BundleInv
    BY BundleInit
  <1>2. ASSUME NEW t \in Tokens
        PROVE  OfToken(balances, t) = 0 /\ OfToken(collected, t) = 0 /\ held[t] = 0
    <2> DEFINE S == DApps \X {t}
               zero == [b \in Budgets |-> 0]
    <2>1. IsFiniteSet(S) /\ \A b \in S : zero[b] = 0
      BY BudgetsOfToken
    <2>2. SumFunctionOnSet(zero, S) = 0
      <3>1. Units(zero, S) = {}
        BY <2>1 DEF Units
      <3> HIDE DEF S, zero
      <3>2. SumFunctionOnSet(zero, S) = Cardinality(Units(zero, S))
        BY <2>1, SumCounts
      <3> QED
        BY <3>1, <3>2, FS_EmptySet
    <2> QED
      BY <2>2 DEF Init, TreasuryInit, OfToken
  <1>3. IsSolvent(Contracts)
    BY <1>2 DEF IsSolvent, Contracts
  <1> QED
    BY <1>1, <1>3, SolventNow DEF Init, SolvencyInv

LEMMA SolvencyStep ==
  ASSUME SolvencyInv, [Next]_vars
  PROVE  SolvencyInv'
  <1>1. BundleInv'
    BY BundleStep DEF SolvencyInv
  <1>2. TreasuryTypeOK /\ IsSolvent(Contracts)
    BY SolventNow DEF SolvencyInv, BundleInv, TypeOK
  <1>3. TreasuryIsSolvent' <=> IsSolvent(Contracts)'
    BY DEF TreasuryIsSolvent, IsSolvent, OfToken, Contracts
  <1>4. UNCHANGED treasuryVars => IsSolvent(Contracts)'
    BY <1>2 DEF treasuryVars, IsSolvent, Contracts, OfToken
  <1>5. begin' = begin => (IsSolvent(begin) => IsSolvent(begin)')
    BY DEF IsSolvent, OfToken
  <1>6. undo' = undo => (IsSolvent(undo) => IsSolvent(undo)')
    BY DEF IsSolvent, OfToken
  <1>7. CASE UNCHANGED vars
    BY <1>1, <1>3, <1>4, <1>5, <1>6, <1>7 DEF vars, txVars, SolvencyInv
  <1>8. CASE AdminCall
    BY <1>1, <1>2, <1>3, <1>8, ConfigureSolvent DEF AdminCall, txVars, SolvencyInv
  <1>9. ASSUME \/ ReceiveEther \/ DepositEther \/ PriceChanges
               \/ \E amount \in 1 .. MaxEther : WithdrawEther(amount)
        PROVE  SolvencyInv'
    BY <1>1, <1>3, <1>4, <1>9
    DEF ReceiveEther, DepositEther, PriceChanges, WithdrawEther, txVars, SolvencyInv
  <1>10. CASE HandleOps
    <2>1. IsSolvent(begin)'
      BY <1>2, <1>10 DEF HandleOps, IsSolvent, OfToken, Contracts
    <2> QED
      BY <1>1, <1>3, <1>4, <1>10, <2>1 DEF HandleOps, SolvencyInv
  <1>11. CASE ValidatePaymasterUserOp
    BY <1>1, <1>3, <1>4, <1>5, <1>11 DEF ValidatePaymasterUserOp, SolvencyInv
  <1>12. CASE RefuseOp \/ BundleReverts
    <2>1. phase # "none" /\ phase' = "none" /\ Restore(begin)
      BY <1>12 DEF RefuseOp, BundleReverts, RevertBundle, EndTransaction
    <2>2. IsSolvent(begin)
      BY <2>1 DEF SolvencyInv
    <2>3. IsSolvent(Contracts)'
      BY <2>1, <2>2, RestoreSolvent
    <2> QED
      BY <1>1, <1>3, <2>1, <2>3 DEF SolvencyInv
  <1>13. CASE CallOp
    <2>1. IsSolvent(Contracts)'
      BY <1>2, <1>4, <1>13, ConfigureSolvent DEF CallOp
    <2>2. IsSolvent(undo)'
      BY <1>2, <1>13 DEF CallOp, IsSolvent, OfToken, Contracts
    <2> QED
      BY <1>1, <1>3, <1>5, <1>13, <2>1, <2>2 DEF CallOp, SolvencyInv
  <1>14. CASE PostOp
    <2> DEFINE op == ops[next]
    <2>1. op.dAppId \in DApps /\ op.token \in Tokens /\ op.maxCost \in Nat
      BY <1>14, CurrentOp DEF PostOp, SolvencyInv
    <2>2. PICK cost \in 1 .. op.maxCost :
             CanPost(op, cost) /\ Pull(This, op.dAppId, op.token, Charge(op, cost))
      BY <1>14 DEF PostOp
    <2>3. Charge(op, cost) \in Int
      <3>1. op \in UserOp /\ TypeOK
        BY <1>14, CurrentOp DEF PostOp, SolvencyInv, BundleInv, TypeOK
      <3>2. cost \in Nat /\ HasPrice(op.token)
        BY <2>1, <2>2 DEF CanPost
      <3> HIDE DEF op
      <3> QED
        BY <3>1, <3>2, ChargeType
    <2>4. IsSolvent(Contracts)'
      BY <1>2, <2>1, <2>2, <2>3, PullSolvent
    <2> QED
      BY <1>1, <1>3, <1>5, <1>14, <2>4 DEF PostOp, NextOp, SolvencyInv
  <1>15. CASE PostOpReverts
    <2>1. IsSolvent(Contracts)'
      BY <1>15, RestoreSolvent DEF PostOpReverts, SolvencyInv
    <2> QED
      BY <1>1, <1>3, <1>5, <1>15, <2>1 DEF PostOpReverts, SolvencyInv
  <1>16. CASE Commit
    BY <1>1, <1>3, <1>4, <1>16 DEF Commit, EndTransaction, SolvencyInv
  <1> QED
    BY <1>7, <1>8, <1>9, <1>10, <1>11, <1>12, <1>13, <1>14, <1>15, <1>16 DEF Next

\* For any number of dApps, tokens and paymasters, the treasury owns what its budgets
\* hold and what was pulled from them, in the middle of a bundle and after every
\* revert as well (Treasury.sol:56-108).
THEOREM SolvencyCorrect == Spec => []TreasuryIsSolvent
  <1>1. SolvencyInv => TreasuryIsSolvent
    BY DEF SolvencyInv
  <1> QED
    BY <1>1, SolvencyInit, SolvencyStep, PTL DEF Spec

-----------------------------------------------------------------------------
(* The deposit is replenished.  An operation moves from those to be prepaid, *)
(* which have taken their highest cost from the deposit, to those charged,   *)
(* which have given it back but for the gas of postOp.                       *)

Cost(o, S) == SumFunctionOnSet([i \in S |-> o[i].maxCost], S)

DepositInv ==
    /\ BundleInv
    /\ DepositIsReplenished
    /\ phase = "postOp" => undo.deposit = deposit

LEMMA OpsType ==
  ASSUME NEW o \in Seq(UserOp)
  PROVE  /\ DOMAIN o = 1 .. Len(o)
         /\ IsFiniteSet(DOMAIN o)
         /\ \A i \in DOMAIN o :
                o[i].dAppId \in DApps /\ o[i].token \in Tokens /\ o[i].maxCost \in Nat
  <1>1. DOMAIN o = 1 .. Len(o) /\ Len(o) \in Nat
    OBVIOUS
  <1>2. IsFiniteSet(1 .. Len(o))
    BY <1>1, FS_Interval
  <1>3. \A i \in DOMAIN o : o[i] \in UserOp
    OBVIOUS
  <1>4. \A op \in UserOp : op.dAppId \in DApps /\ op.token \in Tokens /\ op.maxCost \in Nat
    BY PaymasterAssumption DEF UserOp
  <1> QED
    BY <1>1, <1>2, <1>3, <1>4

LEMMA CostType ==
  ASSUME NEW o \in Seq(UserOp), NEW S, S \subseteq DOMAIN o
  PROVE  IsFiniteSet(S) /\ Cost(o, S) \in Nat
  <1>1. IsFiniteSet(S)
    BY OpsType, FS_Subset
  <1> DEFINE f == [i \in S |-> o[i].maxCost]
  <1>2. \A i \in S : f[i] \in Nat
    BY OpsType
  <1>3. SumFunctionOnSet(f, S) \in Nat
    <2> HIDE DEF f
    <2> QED
      BY <1>1, <1>2, SumType
  <1> QED
    BY <1>1, <1>3 DEF Cost

LEMMA CostGrows ==
  ASSUME NEW o \in Seq(UserOp), NEW S, S \subseteq DOMAIN o, NEW x \in DOMAIN o, x \notin S
  PROVE  Cost(o, S \cup {x}) = o[x].maxCost + Cost(o, S)
  <1> DEFINE f == [i \in S |-> o[i].maxCost]
             g == [i \in S \cup {x} |-> o[i].maxCost]
  <1>1. g[x] = o[x].maxCost /\ g[x] \in Nat
    BY OpsType
  <1>2. \A i \in S : f[i] \in Nat /\ g[i] = f[i]
    BY OpsType
  <1>3. IsFiniteSet(S)
    BY CostType
  <1>4. SumFunctionOnSet(g, S \cup {x}) = g[x] + SumFunctionOnSet(f, S)
    <2> HIDE DEF f, g
    <2> QED
      BY <1>1, <1>2, <1>3, SumGrow
  <1> QED
    BY <1>1, <1>4 DEF Cost

LEMMA ReturnsRest ==
  ASSUME NEW before \in Nat, NEW max \in Nat, NEW rest \in Nat, NEW spent \in Nat,
         NEW gasLimit \in Nat, NEW started \in Nat, NEW cost \in 1 .. max,
         NEW gas \in 0 .. gasLimit, NEW after, after = before + cost + (max - cost - gas),
         before + (max + rest) + spent >= started
  PROVE  after + rest + (spent + gasLimit) >= started
  OBVIOUS

LEMMA FirstFew == ASSUME NEW n \in Nat PROVE Cardinality(1 .. n) = n
  BY FS_Interval

LEMMA DepositInit == Init => DepositInv
  BY BundleInit DEF Init, DepositInv, DepositIsReplenished

LEMMA DepositStep ==
  ASSUME DepositInv, [Next]_vars
  PROVE  DepositInv'
  <1>1. BundleInv /\ BundleInv' /\ ops \in Seq(UserOp) /\ deposit \in Nat
    BY BundleStep DEF DepositInv, BundleInv, TypeOK
  <1>2. phase # "none" => begin.deposit \in Nat
    BY <1>1 DEF BundleInv, Snapshots
  <1>3. CASE UNCHANGED vars
    BY <1>1, <1>3
    DEF vars, txVars, gasVars, DepositInv, DepositIsReplenished, Prepaid, Charged, CostOf
  <1>4. ASSUME \/ AdminCall \/ ReceiveEther \/ DepositEther \/ PriceChanges
               \/ \E amount \in 1 .. MaxEther : WithdrawEther(amount)
        PROVE  DepositInv'
    BY <1>1, <1>4
    DEF AdminCall, ReceiveEther, DepositEther, PriceChanges, WithdrawEther, txVars, DepositInv,
        DepositIsReplenished
  <1>5. CASE HandleOps
    <2>1. phase' = "validation" /\ next' = 1 /\ begin'.deposit = deposit' /\ deposit' = deposit
      BY <1>5 DEF HandleOps, Contracts, gasVars
    <2>2. Prepaid' = {} /\ Charged' = {}
      BY <2>1 DEF Prepaid, Charged
    <2>3. CostOf(Prepaid)' = 0
      <3>1. CostOf(Prepaid)' = SumFunctionOnSet([i \in {} |-> ops'[i].maxCost], {})
        BY <2>2 DEF CostOf
      <3> QED
        BY <3>1, SumOfNone
    <2>4. Cardinality(Charged)' = 0
      BY <2>2, FS_EmptySet
    <2>5. DepositIsReplenished'
      BY <1>1, <2>1, <2>3, <2>4, PaymasterAssumption DEF DepositIsReplenished
    <2> QED
      BY <1>1, <2>1, <2>5 DEF DepositInv
  <1>6. CASE ValidatePaymasterUserOp
    <2> DEFINE op == ops[next]
    <2>1. /\ phase = "validation"
          /\ deposit' = deposit - op.maxCost
          /\ ops' = ops /\ begin' = begin
          /\ phase' \in {"validation", "call"}
          /\ phase' = "validation" => next' = next + 1
          /\ phase' = "call" => next = Len(ops) /\ next' = 1
      BY <1>6 DEF ValidatePaymasterUserOp
    <2>2. next \in DOMAIN ops /\ op.maxCost \in Nat /\ DOMAIN ops = 1 .. Len(ops)
      BY <1>1, <2>1, CurrentOp
    <2>3. Prepaid = 1 .. next - 1 /\ Charged = {} /\ Charged' = {}
      BY <2>1 DEF Prepaid, Charged
    <2>4. Prepaid' = Prepaid \cup {next}
      BY <2>1, <2>2, <2>3 DEF Prepaid
    <2>5. Prepaid \subseteq DOMAIN ops /\ next \notin Prepaid
      BY <2>2, <2>3
    <2>6. CostOf(Prepaid)' = op.maxCost + CostOf(Prepaid) /\ CostOf(Prepaid) \in Nat
      <3>1. CostOf(Prepaid) = Cost(ops, Prepaid)
        BY DEF CostOf, Cost
      <3>2. CostOf(Prepaid)' = Cost(ops, Prepaid \cup {next})
        BY <2>1, <2>4 DEF CostOf, Cost
      <3> QED
        BY <1>1, <2>2, <2>5, <3>1, <3>2, CostGrows, CostType
    <2>7. Cardinality(Charged) = 0 /\ Cardinality(Charged') = 0
      BY <2>3, FS_EmptySet
    <2>8. DepositIsReplenished'
      BY <1>1, <1>2, <2>1, <2>2, <2>6, <2>7, PaymasterAssumption
      DEF DepositIsReplenished, DepositInv
    <2> QED
      BY <1>1, <2>1, <2>8 DEF DepositInv
  <1>7. CASE RefuseOp \/ BundleReverts \/ Commit
    BY <1>1, <1>7
    DEF RefuseOp, BundleReverts, Commit, RevertBundle, EndTransaction, DepositInv,
        DepositIsReplenished
  <1>8. ASSUME CallOp \/ PostOpReverts
        PROVE  DepositInv'
    <2>1. /\ phase \in {"call", "postOp"} /\ phase' \in {"postOp", "postOpReverted"}
          /\ ops' = ops /\ next' = next /\ begin' = begin
      BY <1>8 DEF CallOp, PostOpReverts
    <2>2. deposit' = deposit /\ (phase' = "postOp" => undo'.deposit = deposit')
      BY <1>8 DEF CallOp, PostOpReverts, Restore, Contracts, gasVars, DepositInv
    <2>3. Prepaid' = Prepaid /\ Charged' = Charged
      BY <2>1 DEF Prepaid, Charged
    <2> QED
      BY <1>1, <2>1, <2>2, <2>3 DEF DepositInv, DepositIsReplenished, CostOf
  <1>9. CASE PostOp
    <2> DEFINE op == ops[next]
    <2>1. PICK cost \in 1 .. op.maxCost, gas \in 0 .. PostOpGas :
             /\ cost + gas <= op.maxCost
             /\ deposit' = deposit + cost + (op.maxCost - cost - gas)
      BY <1>9 DEF PostOp
    <2>2. /\ phase \in {"postOp", "postOpReverted"} /\ phase' \in {"call", "charged"}
          /\ ops' = ops /\ next' = next + 1 /\ begin' = begin
      BY <1>9 DEF PostOp, NextOp
    <2>3. next \in DOMAIN ops /\ op.maxCost \in Nat /\ DOMAIN ops = 1 .. Len(ops)
      BY <1>1, <2>2, CurrentOp
    <2>4. Charged = 1 .. next - 1 /\ Charged' = 1 .. next
      BY <2>2, <2>3 DEF Charged
    <2>5. Prepaid = DOMAIN ops \ (1 .. next - 1) /\ Prepaid' = DOMAIN ops \ (1 .. next)
      BY <2>2, <2>4 DEF Prepaid
    <2>6. Prepaid' \subseteq DOMAIN ops /\ next \notin Prepaid' /\ Prepaid = Prepaid' \cup {next}
      BY <2>3, <2>5
    <2>7. CostOf(Prepaid) = op.maxCost + CostOf(Prepaid)' /\ CostOf(Prepaid)' \in Nat
      <3>1. CostOf(Prepaid) = Cost(ops, Prepaid)
        BY DEF CostOf, Cost
      <3>2. CostOf(Prepaid)' = Cost(ops, Prepaid')
        BY <2>2 DEF CostOf, Cost
      <3> QED
        BY <1>1, <2>3, <2>6, <3>1, <3>2, CostGrows, CostType
    <2>8. Cardinality(Charged) = next - 1 /\ Cardinality(Charged') = next
      BY <2>3, <2>4, FirstFew
    <2>9. next * PostOpGas = (next - 1) * PostOpGas + PostOpGas
      BY <2>3, PaymasterAssumption
    <2>10. (next - 1) * PostOpGas \in Nat /\ PostOpGas \in Nat
      BY <2>3, PaymasterAssumption
    <2>11. deposit + (op.maxCost + CostOf(Prepaid)') + (next - 1) * PostOpGas >= begin.deposit
      BY <2>2, <2>7, <2>8 DEF DepositInv, DepositIsReplenished
    <2>12. begin.deposit \in Nat
      BY <1>2, <2>2
    <2>13. deposit' + CostOf(Prepaid)' + ((next - 1) * PostOpGas + PostOpGas) >= begin.deposit
      BY <1>1, <2>1, <2>3, <2>7, <2>10, <2>11, <2>12, ReturnsRest
    <2>14. DepositIsReplenished'
      BY <2>2, <2>8, <2>9, <2>13 DEF DepositIsReplenished
    <2> QED
      BY <1>1, <2>2, <2>14 DEF DepositInv
  <1> QED
    BY <1>3, <1>4, <1>5, <1>6, <1>7, <1>8, <1>9 DEF Next

\* For any bundle, at any point of it, what is missing of the deposit is what the
\* operations still to be charged have prepaid, and the gas of the postOp calls
\* (UniversalPaymaster.sol:156-157).
THEOREM DepositCorrect == Spec => []DepositIsReplenished
  <1>1. DepositInv => DepositIsReplenished
    BY DEF DepositInv
  <1> QED
    BY <1>1, DepositInit, DepositStep, PTL DEF Spec

-----------------------------------------------------------------------------
(* No budget is overcharged *)

LEMMA DivMonotone ==
  ASSUME NEW a \in Int, NEW b \in Int, NEW n \in Nat \ {0}, a <= b
  PROVE  a \div n <= b \div n
  <1> DEFINE p == a \div n
             q == b \div n
  <1>1. /\ p \in Int /\ q \in Int
        /\ n * p <= a /\ a < n * (p + 1)
        /\ n * q <= b /\ b < n * (q + 1)
    OBVIOUS
  <1> HIDE DEF p, q
  <1>2. n * p < n * (q + 1)
    <2> DEFINE x == n * p
               y == n * (q + 1)
    <2>1. x \in Int /\ y \in Int /\ x <= a /\ b < y
      BY <1>1
    <2> HIDE DEF x, y
    <2>2. x < y
      BY <2>1
    <2> QED
      BY <2>2 DEF x, y
  <1>3. p < q + 1
    BY <1>1, <1>2
  <1>4. p <= q
    BY <1>1, <1>3
  <1> QED
    BY <1>4 DEF p, q

LEMMA TimesMonotone ==
  ASSUME NEW a \in Int, NEW b \in Int, NEW k \in Nat, a <= b
  PROVE  a * k \in Int /\ b * k \in Int /\ a * k <= b * k
  OBVIOUS

\* A higher cost is not charged less.
LEMMA ChargeMonotone ==
  ASSUME TypeOK, NEW feed \in Feeds, price[feed] > 0,
         NEW low \in Nat, NEW high \in Nat, low <= high
  PROVE  /\ TotalCharge(feed, low) \in Nat
         /\ TotalCharge(feed, high) \in Nat
         /\ TotalCharge(feed, low) <= TotalCharge(feed, high)
  <1>1. price[feed] \in Nat \ {0}
    <2>1. price[feed] \in Int
      BY PaymasterAssumption DEF TypeOK
    <2> QED
      BY <2>1
  <1>2. ASSUME NEW a \in Int, NEW b \in Int, 0 <= a, a <= b
        PROVE  /\ a \div price[feed] \in Int /\ b \div price[feed] \in Int
               /\ 0 <= a \div price[feed] /\ a \div price[feed] <= b \div price[feed]
    <2>1. 0 \div price[feed] = 0
      BY <1>1
    <2>2. a \div price[feed] \in Int /\ b \div price[feed] \in Int
      BY <1>1
    <2> QED
      BY <1>1, <1>2, <2>1, <2>2, DivMonotone
  <1>3. ASSUME NEW a \in Int, NEW b \in Int, 0 <= a, a <= b
        PROVE  /\ a \div FeeDenominator \in Int /\ b \div FeeDenominator \in Int
               /\ 0 <= a \div FeeDenominator /\ a \div FeeDenominator <= b \div FeeDenominator
    <2>1. 0 \div FeeDenominator = 0
      BY PaymasterAssumption
    <2>2. a \div FeeDenominator \in Int /\ b \div FeeDenominator \in Int
      BY PaymasterAssumption
    <2> QED
      BY <1>3, <2>1, <2>2, DivMonotone, PaymasterAssumption
  <1>4. /\ low * Scale \in Int /\ high * Scale \in Int
        /\ 0 <= low * Scale /\ low * Scale <= high * Scale
    BY TimesMonotone, PaymasterAssumption
  <1> DEFINE c == TokenCost(feed, low)
             d == TokenCost(feed, high)
  <1>5. c \in Int /\ d \in Int /\ 0 <= c /\ c <= d
    BY <1>2, <1>4 DEF TokenCost
  <1>6. /\ TotalCharge(feed, low) = c + (c * FeePercent) \div FeeDenominator
        /\ TotalCharge(feed, high) = d + (d * FeePercent) \div FeeDenominator
    BY DEF TotalCharge
  <1> HIDE DEF c, d
  <1>7. /\ c * FeePercent \in Int /\ d * FeePercent \in Int
        /\ 0 <= c * FeePercent /\ c * FeePercent <= d * FeePercent
    BY <1>5, TimesMonotone, PaymasterAssumption
  <1>8. /\ (c * FeePercent) \div FeeDenominator \in Int
        /\ (d * FeePercent) \div FeeDenominator \in Int
        /\ 0 <= (c * FeePercent) \div FeeDenominator
        /\ (c * FeePercent) \div FeeDenominator <= (d * FeePercent) \div FeeDenominator
    BY <1>3, <1>7
  <1> QED
    BY <1>5, <1>6, <1>8

-----------------------------------------------------------------------------
(* Among the operations charged, those of a budget, and what they may have paid *)
OfBudget(d, t) == {i \in Charged : ops[i].dAppId = d /\ ops[i].token = t}
Most(i) == TotalCharge(chargedBy[i], ops[i].maxCost)
Highest(d, t) == SumFunctionOnSet([i \in OfBudget(d, t) |-> Most(i)], OfBudget(d, t))

ChargeInv ==
    /\ BundleInv
    /\ NeverOvercharged
    /\ phase = "postOp" => undo.collected = collected
    /\ \A i \in Charged : chargedBy[i] \in Feeds /\ price[chargedBy[i]] > 0

LEMMA OverchargeMeans ==
  NeverOvercharged <=>
    (phase # "none" =>
        \A d \in DApps, t \in Tokens :
            collected[<<d, t>>] <= begin.collected[<<d, t>>] + Highest(d, t))
  BY DEF NeverOvercharged, Highest, Most, OfBudget

LEMMA ChargedIsPrefix ==
  ASSUME BundleInv, phase \in {"call", "postOp", "postOpReverted"}
  PROVE  Charged = 1 .. next - 1 /\ Charged \subseteq DOMAIN ops /\ IsFiniteSet(Charged)
  <1>1. Charged = 1 .. next - 1
    BY DEF Charged
  <1>2. next \in 1 .. Len(ops) /\ ops \in Seq(UserOp) /\ next <= Len(ops) /\ Len(ops) \in Nat
    BY CurrentOp, OpsType DEF BundleInv, TypeOK
  <1>3. Charged \subseteq DOMAIN ops
    BY <1>1, <1>2
  <1> QED
    BY <1>1, <1>2, <1>3, OpsType, FS_Subset

\* What the operations of a budget may have paid so far.
LEMMA HighestValues ==
  ASSUME ChargeInv, phase \in {"call", "postOp", "postOpReverted"},
         NEW d \in DApps, NEW t \in Tokens
  PROVE  /\ OfBudget(d, t) \subseteq Charged
         /\ IsFiniteSet(OfBudget(d, t))
         /\ \A i \in OfBudget(d, t) : Most(i) \in Nat
         /\ Highest(d, t) \in Nat
  <1>1. OfBudget(d, t) \subseteq Charged
    BY DEF OfBudget
  <1>2. Charged \subseteq DOMAIN ops /\ IsFiniteSet(Charged)
    BY ChargedIsPrefix DEF ChargeInv
  <1>3. IsFiniteSet(OfBudget(d, t))
    BY <1>1, <1>2, FS_Subset
  <1>4. ASSUME NEW i \in OfBudget(d, t)
        PROVE  Most(i) \in Nat
    <2>1. ops[i].maxCost \in Nat
      BY <1>1, <1>2, OpsType DEF ChargeInv, BundleInv, TypeOK
    <2>2. chargedBy[i] \in Feeds /\ price[chargedBy[i]] > 0
      BY <1>1 DEF ChargeInv
    <2> QED
      BY <2>1, <2>2, ChargeMonotone DEF Most, ChargeInv, BundleInv
  <1>5. Highest(d, t) \in Nat
    <2> DEFINE S == OfBudget(d, t)
               f == [i \in S |-> Most(i)]
    <2>1. IsFiniteSet(S) /\ \A i \in S : f[i] \in Nat
      BY <1>3, <1>4
    <2>2. Highest(d, t) = SumFunctionOnSet(f, S)
      BY DEF Highest
    <2> HIDE DEF S, f
    <2> QED
      BY <2>1, <2>2, SumType
  <1> QED
    BY <1>1, <1>3, <1>4, <1>5

LEMMA ChargeInit == Init => ChargeInv
  BY BundleInit DEF Init, ChargeInv, NeverOvercharged, Charged

\* A step that leaves the bundle's charges and the budgets' as they are.
LEMMA ChargesStay ==
  ASSUME ChargeInv, BundleInv', phase # "none", Charged' = Charged, collected' = collected,
         ops' = ops, begin' = begin, price' = price, chargedBy' = chargedBy,
         phase' = "postOp" => undo'.collected = collected'
  PROVE  ChargeInv'
  <1>1. ASSUME NEW d \in DApps, NEW t \in Tokens
        PROVE  Highest(d, t)' = Highest(d, t)
    BY DEF Highest, Most, OfBudget, TotalCharge, TokenCost
  <1>2. NeverOvercharged'
    BY <1>1, OverchargeMeans DEF ChargeInv, NeverOvercharged, TotalCharge, TokenCost
  <1> QED
    BY <1>2 DEF ChargeInv

\* The operation at hand is charged: one operation more for its budget, none for the
\* others.
LEMMA PostOpCharges ==
  ASSUME ChargeInv, BundleInv', PostOp
  PROVE  ChargeInv'
  <1> DEFINE op == ops[next]
             feed == priceFeeds[op.token]
  <1>1. PICK cost \in 1 .. op.maxCost :
           CanPost(op, cost) /\ Pull(This, op.dAppId, op.token, Charge(op, cost))
    BY DEF PostOp
  <1>2. /\ phase \in {"postOp", "postOpReverted"} /\ phase' \in {"call", "charged"}
        /\ ops' = ops /\ next' = next + 1 /\ begin' = begin /\ price' = price
        /\ chargedBy' = [chargedBy EXCEPT ![next] = feed]
    BY DEF PostOp, NextOp
  <1>3. next \in DOMAIN ops /\ op.dAppId \in DApps /\ op.token \in Tokens /\ op.maxCost \in Nat
    BY <1>2, CurrentOp DEF ChargeInv
  <1>4. next \in Nat \ {0} /\ next \in 1 .. MaxOps
    BY <1>3, OpsType, PaymasterAssumption DEF ChargeInv, BundleInv, TypeOK
  <1>5. Charged = 1 .. next - 1 /\ Charged' = Charged \cup {next} /\ next \notin Charged
    BY <1>2, <1>4 DEF Charged
  <1>6. feed \in Feeds /\ price[feed] > 0
    <2>1. op \in UserOp /\ TypeOK
      BY <1>2, <1>3 DEF ChargeInv, BundleInv, TypeOK
    <2>2. cost \in Nat /\ HasPrice(op.token)
      BY <1>1, <1>3 DEF CanPost
    <2> QED
      BY <1>1, <1>3, <2>1, <2>2 DEF HasPrice, TypeOK
  <1>7. chargedBy'[next] = feed /\ \A i \in Charged : chargedBy'[i] = chargedBy[i]
    BY <1>2, <1>4, <1>5 DEF ChargeInv, BundleInv, TypeOK
  <1>8. \A i \in Charged' : chargedBy'[i] \in Feeds /\ price'[chargedBy'[i]] > 0
    BY <1>2, <1>5, <1>6, <1>7 DEF ChargeInv
  <1>9. /\ TotalCharge(feed, cost) \in Nat
        /\ TotalCharge(feed, op.maxCost) \in Nat
        /\ TotalCharge(feed, cost) <= TotalCharge(feed, op.maxCost)
    <2>1. cost \in Nat /\ cost <= op.maxCost
      BY <1>3
    <2>2. TypeOK
      BY DEF ChargeInv, BundleInv
    <2> HIDE DEF op, feed
    <2> QED
      BY <1>3, <1>6, <2>1, <2>2, ChargeMonotone
  <1>10. \A i \in Charged' :
            Most(i)' = IF i = next THEN TotalCharge(feed, op.maxCost) ELSE Most(i)
    BY <1>2, <1>5, <1>7 DEF Most, TotalCharge, TokenCost
  <1>11. ASSUME NEW d \in DApps, NEW t \in Tokens
         PROVE  collected'[<<d, t>>] <= begin'.collected[<<d, t>>] + Highest(d, t)'
    <2>1. collected[<<d, t>>] <= begin.collected[<<d, t>>] + Highest(d, t)
      BY <1>2, OverchargeMeans DEF ChargeInv
    <2>2. <<d, t>> \in Budgets /\ <<op.dAppId, op.token>> \in Budgets
      BY <1>3 DEF Budgets
    <2>3. /\ begin.collected[<<d, t>>] \in Nat
          /\ collected \in [Budgets -> Nat]
      BY <1>2, <2>2 DEF ChargeInv, BundleInv, TypeOK, TreasuryTypeOK, Snapshots
    <2>4. /\ IsFiniteSet(OfBudget(d, t))
          /\ \A i \in OfBudget(d, t) : Most(i) \in Nat
          /\ Highest(d, t) \in Nat
          /\ OfBudget(d, t) \subseteq Charged
      BY <1>2, HighestValues
    <2>5. collected' = [collected EXCEPT
                          ![<<op.dAppId, op.token>>] = @ + TotalCharge(feed, cost)]
      BY <1>1 DEF Pull, Charge
    <2>6. CASE op.dAppId = d /\ op.token = t
      <3>1. OfBudget(d, t)' = OfBudget(d, t) \cup {next} /\ next \notin OfBudget(d, t)
        BY <1>2, <1>5, <2>6 DEF OfBudget
      <3> DEFINE S == OfBudget(d, t)
                 f == [i \in S |-> Most(i)]
                 g == [i \in S \cup {next} |-> Most(i)']
      <3>2. g[next] = TotalCharge(feed, op.maxCost) /\ g[next] \in Nat
        BY <1>5, <1>9, <1>10
      <3>3. \A i \in S : f[i] \in Nat /\ g[i] = f[i]
        BY <1>5, <1>10, <2>4
      <3>4. SumFunctionOnSet(g, S \cup {next}) = g[next] + SumFunctionOnSet(f, S)
        <4>1. IsFiniteSet(S) /\ next \notin S
          BY <2>4, <3>1
        <4> HIDE DEF S, f, g
        <4> QED
          BY <3>2, <3>3, <4>1, SumGrow
      <3>5. Highest(d, t) = SumFunctionOnSet(f, S)
        BY DEF Highest
      <3>6. Highest(d, t)' = SumFunctionOnSet(g, S \cup {next})
        BY <3>1 DEF Highest
      <3>7. Highest(d, t)' = TotalCharge(feed, op.maxCost) + Highest(d, t)
        BY <3>2, <3>4, <3>5, <3>6
      <3>8. collected'[<<d, t>>] = collected[<<d, t>>] + TotalCharge(feed, cost)
        BY <2>2, <2>3, <2>5, <2>6
      <3>9. collected[<<d, t>>] \in Nat
        BY <2>2, <2>3
      <3> HIDE DEF op, feed
      <3> QED
        BY <1>2, <1>9, <2>1, <2>3, <2>4, <3>7, <3>8, <3>9
    <2>7. CASE ~(op.dAppId = d /\ op.token = t)
      <3>1. OfBudget(d, t)' = OfBudget(d, t)
        BY <1>2, <1>5, <2>7 DEF OfBudget
      <3>2. Highest(d, t)' = Highest(d, t)
        <4> DEFINE S == OfBudget(d, t)
        <4>1. [i \in S |-> Most(i)'] = [i \in S |-> Most(i)]
          BY <1>5, <1>10, <2>4
        <4> QED
          BY <3>1, <4>1 DEF Highest
      <3>3. collected'[<<d, t>>] = collected[<<d, t>>]
        BY <2>2, <2>3, <2>5, <2>7
      <3> QED
        BY <1>2, <2>1, <3>2, <3>3
    <2> QED
      BY <2>6, <2>7
  <1>12. NeverOvercharged'
    <2>1. NeverOvercharged' <=>
            (phase' # "none" =>
                \A d \in DApps, t \in Tokens :
                    collected'[<<d, t>>] <= begin'.collected[<<d, t>>] + Highest(d, t)')
      BY DEF NeverOvercharged, Highest, Most, OfBudget, TotalCharge, TokenCost
    <2> QED
      BY <1>11, <2>1
  <1> QED
    BY <1>2, <1>8, <1>12 DEF ChargeInv

LEMMA ConfigureKeepsCollected == Configure => collected' = collected
  BY DEF Configure, TreasuryCall, SetPaymaster, Send, Deposit, Withdraw, treasuryVars

LEMMA ChargeStep ==
  ASSUME ChargeInv, [Next]_vars
  PROVE  ChargeInv'
  <1>1. BundleInv /\ BundleInv'
    BY BundleStep DEF ChargeInv
  <1>2. ASSUME phase' = "none"
        PROVE  ChargeInv'
    BY <1>1, <1>2 DEF ChargeInv, NeverOvercharged, Charged
  <1>3. CASE UNCHANGED vars
    <2>1. Charged' = Charged
      BY <1>3 DEF vars, txVars, Charged
    <2> QED
      BY <1>1, <1>2, <1>3, <2>1, ChargesStay DEF vars, treasuryVars, txVars, ChargeInv
  <1>4. ASSUME \/ AdminCall \/ ReceiveEther \/ DepositEther \/ PriceChanges
               \/ \E amount \in 1 .. MaxEther : WithdrawEther(amount)
               \/ RefuseOp \/ BundleReverts \/ Commit
        PROVE  phase' = "none"
    BY <1>4
    DEF AdminCall, ReceiveEther, DepositEther, PriceChanges, WithdrawEther, RefuseOp,
        BundleReverts, Commit, RevertBundle, EndTransaction, txVars
  <1>5. CASE HandleOps
    <2>1. phase' = "validation" /\ begin'.collected = collected' /\ collected' = collected
      BY <1>5 DEF HandleOps, Contracts, treasuryVars
    <2>2. Charged' = {}
      BY <2>1 DEF Charged
    <2>3. ASSUME NEW d \in DApps, NEW t \in Tokens
          PROVE  Highest(d, t)' = 0
      <3>1. OfBudget(d, t)' = {}
        BY <2>2 DEF OfBudget
      <3>2. Highest(d, t)'
              = SumFunctionOnSet([i \in {} |-> Most(i)'], {})
        BY <3>1 DEF Highest
      <3> QED
        BY <3>2, SumOfNone
    <2>4. \A b \in Budgets : collected'[b] \in Nat /\ begin'.collected[b] = collected'[b]
      BY <1>1, <2>1 DEF BundleInv, TypeOK, TreasuryTypeOK
    <2>5. NeverOvercharged'
      <3>1. NeverOvercharged' <=>
              (phase' # "none" =>
                  \A d \in DApps, t \in Tokens :
                      collected'[<<d, t>>] <= begin'.collected[<<d, t>>] + Highest(d, t)')
        BY DEF NeverOvercharged, Highest, Most, OfBudget, TotalCharge, TokenCost
      <3> QED
        BY <2>3, <2>4, <3>1 DEF Budgets
    <2> QED
      BY <1>1, <2>1, <2>2, <2>5 DEF ChargeInv
  <1>6. CASE ValidatePaymasterUserOp
    <2>1. phase = "validation" /\ phase' \in {"validation", "call"}
      BY <1>6 DEF ValidatePaymasterUserOp
    <2>2. Charged = {} /\ Charged' = {}
      BY <1>6, <2>1 DEF Charged, ValidatePaymasterUserOp
    <2> QED
      BY <1>1, <1>6, <2>1, <2>2, ChargesStay DEF ValidatePaymasterUserOp, treasuryVars
  <1>7. CASE CallOp
    <2>1. Charged' = Charged
      BY <1>7 DEF CallOp, Charged
    <2>2. collected' = collected
      BY <1>7, ConfigureKeepsCollected DEF CallOp, treasuryVars
    <2> QED
      BY <1>1, <1>7, <2>1, <2>2, ChargesStay DEF CallOp, Contracts
  <1>8. CASE PostOp
    BY <1>1, <1>8, PostOpCharges
  <1>9. CASE PostOpReverts
    <2>1. Charged' = Charged
      BY <1>9 DEF PostOpReverts, Charged
    <2>2. collected' = collected
      BY <1>9 DEF PostOpReverts, Restore, ChargeInv
    <2> QED
      BY <1>1, <1>9, <2>1, <2>2, ChargesStay DEF PostOpReverts
  <1> QED
    BY <1>2, <1>3, <1>4, <1>5, <1>6, <1>7, <1>8, <1>9 DEF Next

\* For any prices, feeds, fee and bundle, a budget is charged once at most for an operation
\* it sponsors, and no more than the operation's highest cost and the fee at the price of
\* the feed that is set by then, whatever operations call, setPriceFeed included, and
\* however often postOp runs (UniversalPaymaster.sol:80-84, 138-158).
THEOREM ChargeCorrect == Spec => []NeverOvercharged
  <1>1. ChargeInv => NeverOvercharged
    BY DEF ChargeInv
  <1> QED
    BY <1>1, ChargeInit, ChargeStep, PTL DEF Spec

=============================================================================

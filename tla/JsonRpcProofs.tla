--------------------------- MODULE JsonRpcProofs ---------------------------
(* What a client may conclude from its answers, for any number of clients   *)
(* and operations, for any failures and any expiry of the Redis keys.       *)
EXTENDS JsonRpc, MempoolProofs

allVars == <<vars, rpcVars>>

-----------------------------------------------------------------------------
(* Calls drive MempoolService and nothing else *)

LEMMA CallsAreRequests == [RpcNext]_allVars => [Next]_vars
  <1> SUFFICES ASSUME [RpcNext]_allVars PROVE [Next]_vars
    OBVIOUS
  <1>1. CASE UNCHANGED allVars
    BY <1>1 DEF allVars
  <1>2. ASSUME NEW c \in Clients,
               Send(c) \/ Clear(c) \/ Serve(c) \/ Get(c) \/ ReadCache(c) \/ ReadTable(c)
        PROVE  [Next]_vars
    BY <1>2 DEF Send, Clear, Serve, Get, ReadCache, ReadTable, Next, MempoolStep
  <1>3. ASSUME NEW S \in SUBSET Clients, CallsVanish(S)
        PROVE  [Next]_vars
    BY <1>3 DEF CallsVanish, Next, MempoolStep
  <1> QED
    BY <1>1, <1>2, <1>3 DEF RpcNext, RpcStep, Next, MempoolStep

\* Every behaviour of the calls is one of MempoolService.
THEOREM CallsImplementMempool == RpcSpec => Spec
  <1>1. RpcInit => Init
    BY DEF RpcInit
  <1> QED
    BY <1>1, CallsAreRequests, PTL DEF RpcSpec, Spec, allVars

-----------------------------------------------------------------------------
(* Types *)

CallOK ==
    /\ call \in [Clients -> [of : Hashes \cup {NoHash}, known : BOOLEAN,
                             at : Waiting \cup Answers \cup {"none"}]]
    /\ seen \subseteq Hashes

LEMMA AskType ==
  ASSUME CallOK, NEW c \in Clients, NEW h \in Hashes \cup {NoHash},
         NEW at \in Waiting \cup Answers, Ask(c, h, at)
  PROVE  CallOK'
  BY DEF Ask, CallOK

LEMMA AnswerType ==
  ASSUME CallOK, NEW c \in Clients, NEW answer \in Answers, Answer(c, answer)
  PROVE  CallOK'
  <1>1. call[c].of \in Hashes \cup {NoHash} /\ call[c].known \in BOOLEAN
    BY DEF CallOK
  <1>2. seen' \subseteq Hashes
    BY <1>1 DEF Answer, CallOK
  <1> QED
    BY <1>1, <1>2 DEF Answer, CallOK

LEMMA VanishType ==
  ASSUME CallOK, NEW S \in SUBSET Clients, CallsVanish(S)
  PROVE  CallOK'
  BY DEF CallsVanish, NoCall, CallOK

-----------------------------------------------------------------------------
(* What was seen stays *)

\* What was seen has a row; a call knows of nothing else; the request that serves a call
\* is about the operation the call names, and gets no further than the look-up by hash
\* if that operation was seen.
SeenHaveRows == \A h \in seen : RowsOf(h) # {}

CallsKnow == \A c \in Clients : call[c].known /\ call[c].at \in Waiting => call[c].of \in seen

CallsMatch ==
    \A c \in Clients : call[c].at = "served" =>
        \/ cpc[c] \in Adding /\ call[c].of = op[c]
        \/ cpc[c] = "clear" /\ call[c].of = NoHash

KnownEndsEarly ==
    \A c \in Clients : call[c].at = "served" /\ call[c].known => cpc[c] = "find"

LooksUp == \A c \in Clients : call[c].at \in {"cache", "table"} => call[c].of \in Hashes

SeenInv ==
    /\ BackedInv /\ CallOK
    /\ SeenHaveRows /\ CallsKnow /\ CallsMatch /\ KnownEndsEarly /\ LooksUp
    /\ SeenStaysFound /\ SeenIsNeverRefused

LEMMA SeenInit == RpcInit => SeenInv
  <1> SUFFICES ASSUME RpcInit PROVE SeenInv
    OBVIOUS
  <1>1. BackedInv
    BY BackedInit DEF RpcInit
  <1>2. CallOK
    BY DEF RpcInit, NoCall, CallOK
  <1>3. /\ SeenHaveRows /\ CallsKnow /\ CallsMatch /\ KnownEndsEarly /\ LooksUp
        /\ SeenStaysFound /\ SeenIsNeverRefused
    BY DEF RpcInit, NoCall, SeenHaveRows, CallsKnow, CallsMatch, KnownEndsEarly, LooksUp,
           SeenStaysFound, SeenIsNeverRefused, Waiting
  <1> QED
    BY <1>1, <1>2, <1>3 DEF SeenInv

\* No step of any request takes a row away.
LEMMA RowsPersist ==
  ASSUME BackedInv, [Next]_vars
  PROVE  RowsStay
  <1>1. CASE UNCHANGED hash
    BY <1>1 DEF RowsStay
  <1>2. ASSUME NEW c \in Clients, SaveRow(c)
        PROVE  RowsStay
    BY <1>2 DEF SaveRow, InsertRow, Reject, BackedInv, RowsAreWhole, RowsStay, TypeOK, StoreTypeOK
  <1>3. UNCHANGED hash \/ \E c \in Clients : SaveRow(c)
    BY DEF Next, MempoolStep, RequestStep, FindExisting, CountMempool, CheckConflict,
           LookupRival, EvictRival, SimulateValidation, AddToMempool, DeleteKeys, Submit,
           ListKeys, ServerExit, ExpireCache, ExpireIndex, BundlerDropsKeys, Proceed, Refuse,
           Reject, vars, storeVars
  <1> QED
    BY <1>1, <1>2, <1>3

\* What has a row has it after any step.
LEMMA SeenPersist ==
  ASSUME SeenInv, [Next]_vars, NEW h \in Hashes, RowsOf(h) # {}
  PROVE  RowsOf(h)' # {}
  BY RowsPersist, RowsRemain DEF SeenInv, RowsOf, NewRowsOf

\* A step that changes no call.
LEMMA CallsUntouched ==
  ASSUME SeenInv, BackedInv', [Next]_vars, UNCHANGED <<rpcVars, cpc, op>>
  PROVE  SeenInv'
  <1> USE DEF SeenInv
  <1>1. SeenHaveRows'
    BY SeenPersist DEF SeenHaveRows, CallOK, rpcVars
  <1> QED
    BY <1>1 DEF CallOK, CallsKnow, CallsMatch, KnownEndsEarly, LooksUp, SeenStaysFound,
                SeenIsNeverRefused, rpcVars

\* A new call.
LEMMA CallBegins ==
  ASSUME SeenInv, BackedInv', [Next]_vars, NEW c \in Clients,
         NEW h \in Hashes \cup {NoHash}, NEW at \in Waiting \cup {"result"}, Ask(c, h, at),
         \A d \in Clients : d # c => cpc'[d] = cpc[d] /\ op'[d] = op[d],
         at = "served" => \/ cpc'[c] = "find" /\ op'[c] = h
                          \/ cpc'[c] = "clear" /\ h = NoHash,
         at \in {"cache", "table"} => h \in Hashes
  PROVE  SeenInv'
  <1> USE DEF SeenInv
  <1>1. SeenHaveRows'
    BY SeenPersist DEF SeenHaveRows, CallOK, Ask
  <1>2. CallOK'
    BY AskType DEF Answers
  <1>3. call'[c].of = h /\ call'[c].at = at /\ (call'[c].known <=> h \in seen)
    BY DEF Ask, CallOK
  <1>4. \A d \in Clients : d # c => call'[d] = call[d]
    BY DEF Ask, CallOK
  <1>5. seen' = seen
    BY DEF Ask
  <1>6. CallsKnow'
    <2> SUFFICES ASSUME NEW d \in Clients, call'[d].known, call'[d].at \in Waiting
                 PROVE  call'[d].of \in seen'
      BY DEF CallsKnow
    <2>1. CASE d = c
      BY <1>3, <1>5, <2>1
    <2>2. CASE d # c
      BY <1>4, <1>5, <2>2 DEF CallsKnow
    <2> QED
      BY <2>1, <2>2
  <1>7. CallsMatch'
    <2> SUFFICES ASSUME NEW d \in Clients, call'[d].at = "served"
                 PROVE  \/ cpc'[d] \in Adding /\ call'[d].of = op'[d]
                        \/ cpc'[d] = "clear" /\ call'[d].of = NoHash
      BY DEF CallsMatch
    <2>1. CASE d = c
      BY <1>3, <2>1 DEF Adding
    <2>2. CASE d # c
      BY <1>4, <2>2 DEF CallsMatch
    <2> QED
      BY <2>1, <2>2
  <1>10. KnownEndsEarly'
    <2> SUFFICES ASSUME NEW d \in Clients, call'[d].at = "served", call'[d].known
                 PROVE  cpc'[d] = "find"
      BY DEF KnownEndsEarly
    <2>1. CASE d = c
      BY <1>3, <2>1, StoreAssumption DEF CallOK
    <2>2. CASE d # c
      BY <1>4, <2>2 DEF KnownEndsEarly
    <2> QED
      BY <2>1, <2>2
  <1>8. LooksUp'
    BY <1>3, <1>4 DEF LooksUp
  <1>9. (SeenStaysFound /\ SeenIsNeverRefused)'
    BY <1>3, <1>4 DEF SeenStaysFound, SeenIsNeverRefused, Waiting
  <1> QED
    BY <1>1, <1>2, <1>6, <1>7, <1>8, <1>9, <1>10

\* An answer that tells of nothing without a row, and denies nothing that was seen.
LEMMA CallEnds ==
  ASSUME SeenInv, BackedInv', [Next]_vars, NEW c \in Clients, NEW answer \in Answers,
         Answer(c, answer),
         \A d \in Clients : d # c => cpc'[d] = cpc[d] /\ op'[d] = op[d],
         answer = "result" /\ call[c].of # NoHash => RowsOf(call[c].of) # {},
         call[c].known => answer \notin {"notFound", "refused"}
  PROVE  SeenInv'
  <1> USE DEF SeenInv
  <1>1. call[c].of \in Hashes \cup {NoHash}
    BY DEF CallOK
  <1>2. SeenHaveRows'
    BY <1>1, SeenPersist DEF SeenHaveRows, CallOK, Answer
  <1>3. CallOK'
    BY AnswerType
  <1>4. /\ call'[c] = [of |-> NoHash, known |-> call[c].known, at |-> answer]
        /\ \A d \in Clients : d # c => call'[d] = call[d]
        /\ seen \subseteq seen'
    BY DEF Answer, CallOK
  <1>5. \A d \in Clients : call'[d].at \in Waiting => d # c
    BY <1>4 DEF Answers, Waiting
  <1>7. CallsKnow'
    BY <1>4, <1>5 DEF CallsKnow
  <1>8. CallsMatch' /\ KnownEndsEarly' /\ LooksUp'
    BY <1>4, <1>5 DEF CallsMatch, KnownEndsEarly, LooksUp, Waiting
  <1>6. (SeenStaysFound /\ SeenIsNeverRefused)'
    BY <1>4 DEF SeenStaysFound, SeenIsNeverRefused
  <1> QED
    BY <1>2, <1>3, <1>6, <1>7, <1>8

\* The request behind a call moves only its own locals.
LEMMA RequestIsOwn ==
  ASSUME BackedInv, NEW c \in Clients, RequestStep(c) \/ Submit(c) \/ ListKeys(c),
         NEW d \in Clients, d # c
  PROVE  cpc'[d] = cpc[d] /\ op'[d] = op[d]
  BY DEF RequestStep, FindExisting, CountMempool, CheckConflict, LookupRival, EvictRival,
         SimulateValidation, SaveRow, AddToMempool, DeleteKeys, Submit, ListKeys, Proceed,
         Refuse, Reject, Finish, CGo, requestVars, BackedInv, TypeOK

\* A request that goes on is about the same operation and is past its look-up.
LEMMA RequestGoesOn ==
  ASSUME BackedInv, NEW c \in Clients, RequestStep(c), cpc'[c] # "idle"
  PROVE  cpc[c] \in Adding /\ cpc'[c] \in Adding /\ op'[c] = op[c]
  BY DEF RequestStep, FindExisting, CountMempool, CheckConflict, LookupRival, EvictRival,
         SimulateValidation, SaveRow, AddToMempool, DeleteKeys, Proceed, Refuse, Reject,
         Finish, CGo, CAt, requestVars, BackedInv, TypeOK, Adding, Unsaved, Counting

LEMMA ServeStep ==
  ASSUME SeenInv, BackedInv', [Next]_vars, NEW c \in Clients, Serve(c)
  PROVE  SeenInv'
  <1> USE DEF SeenInv
  <1>1. RequestStep(c) /\ call[c].at = "served"
    BY DEF Serve
  <1>2. \A d \in Clients : d # c => cpc'[d] = cpc[d] /\ op'[d] = op[d]
    BY <1>1, RequestIsOwn
  <1>3. call[c].known => cpc[c] = "find" /\ op[c] = call[c].of /\ RowsOf(op[c]) # {}
    <2> SUFFICES ASSUME call[c].known
                 PROVE  cpc[c] = "find" /\ op[c] = call[c].of /\ RowsOf(op[c]) # {}
      OBVIOUS
    <2>1. cpc[c] = "find" /\ call[c].of \in seen
      BY <1>1 DEF KnownEndsEarly, CallsKnow, Waiting
    <2>2. op[c] = call[c].of
      BY <1>1, <2>1 DEF CallsMatch
    <2> QED
      BY <2>1, <2>2 DEF SeenHaveRows
  <1>4. CASE cpc'[c] = "idle"
    <2>1. Answer(c, Outcome(c)) /\ Outcome(c) \in {"failed", "result", "refused"}
      BY <1>4 DEF Serve, Outcome
    <2>2. ASSUME Outcome(c) = "result", call[c].of # NoHash
          PROVE  RowsOf(call[c].of) # {}
      <3>1. cpc[c] \in {"clear", "addKeys"} \/ (cpc[c] = "find" /\ RowsOf(op[c]) # {})
        BY <2>2 DEF Outcome, CAt
      <3>2. call[c].of \in Hashes /\ NoHash \notin Hashes
        BY <2>2, StoreAssumption DEF CallOK
      <3>3. cpc[c] \in Adding /\ call[c].of = op[c]
        BY <1>1, <2>2 DEF CallsMatch
      <3>4. cpc[c] # "clear"
        BY <3>3 DEF Adding, Unsaved, Counting
      <3> QED
        BY <3>1, <3>3, <3>4 DEF SavedFirst, BackedInv
    <2>3. call[c].known => Outcome(c) # "refused"
      BY <1>3 DEF Outcome, CAt
    <2> QED
      BY <1>2, <2>1, <2>2, <2>3, CallEnds DEF Answers
  <1>5. CASE cpc'[c] # "idle"
    <2>1. UNCHANGED rpcVars
      BY <1>5 DEF Serve
    <2>2. cpc[c] \in Adding /\ cpc'[c] \in Adding /\ op'[c] = op[c]
      BY <1>1, <1>5, RequestGoesOn
    <2>3. ~call[c].known
      <3> SUFFICES ASSUME call[c].known PROVE FALSE
        OBVIOUS
      <3>1. FindExisting(c)
        BY <1>1, <1>3
        DEF RequestStep, CountMempool, CheckConflict, LookupRival, EvictRival,
            SimulateValidation, SaveRow, AddToMempool, DeleteKeys, CAt, Counting
      <3>2. cpc'[c] = "idle"
        BY <1>3, <3>1 DEF FindExisting, Refuse, Reject, Finish, CGo, BackedInv, TypeOK
      <3> QED
        BY <1>5, <3>2
    <2>4. SeenHaveRows'
      BY <2>1, SeenPersist DEF SeenHaveRows, CallOK, rpcVars
    <2>5. CallsMatch'
      <3> SUFFICES ASSUME NEW d \in Clients, call[d].at = "served"
                   PROVE  \/ cpc'[d] \in Adding /\ call[d].of = op'[d]
                          \/ cpc'[d] = "clear" /\ call[d].of = NoHash
        BY <2>1 DEF CallsMatch, rpcVars
      <3>1. CASE d = c
        BY <2>2, <3>1 DEF CallsMatch, Adding, Unsaved, Counting
      <3>2. CASE d # c
        BY <1>2, <3>2 DEF CallsMatch
      <3> QED
        BY <3>1, <3>2
    <2>6. KnownEndsEarly'
      BY <1>2, <2>1, <2>3 DEF KnownEndsEarly, rpcVars
    <2> QED
      BY <2>1, <2>4, <2>5, <2>6
      DEF CallOK, CallsKnow, LooksUp, SeenStaysFound, SeenIsNeverRefused, rpcVars
  <1> QED
    BY <1>4, <1>5

LEMMA LookUpStep ==
  ASSUME SeenInv, BackedInv', [Next]_vars, NEW c \in Clients, ReadCache(c) \/ ReadTable(c)
  PROVE  SeenInv'
  <1> USE DEF SeenInv
  <1>1. UNCHANGED vars /\ call[c].at \in {"cache", "table"} /\ call[c].of \in Hashes
    BY DEF ReadCache, ReadTable, LooksUp
  <1>2. call[c].known => RowsOf(call[c].of) # {}
    BY <1>1 DEF CallsKnow, SeenHaveRows, Waiting
  <1>3. UNCHANGED <<cpc, op>>
    BY <1>1 DEF vars, mempoolVars, requestVars
  <1>5. CASE cache[call[c].of] # "none" /\ Answer(c, "result")
    <2>1. RowsOf(call[c].of) # {}
      BY <1>1, <1>5 DEF BackedInv, RedisIsBacked, CachedHashes
    <2> QED
      BY <1>3, <1>5, <2>1, CallEnds DEF Answers
  <1>6. CASE call' = [call EXCEPT ![c].at = "table"] /\ UNCHANGED seen
    <2>1. SeenHaveRows'
      BY <1>6, SeenPersist DEF SeenHaveRows, CallOK
    <2>2. CallOK'
      BY <1>6 DEF CallOK, Waiting
    <2>3. /\ call'[c].at = "table" /\ call'[c].of = call[c].of /\ call'[c].known = call[c].known
          /\ \A d \in Clients : d # c => call'[d] = call[d]
      BY <1>6 DEF CallOK
    <2>4. CallsKnow' /\ LooksUp'
      BY <1>1, <1>6, <2>3 DEF CallsKnow, LooksUp, Waiting
    <2>5. CallsMatch' /\ KnownEndsEarly' /\ (SeenStaysFound /\ SeenIsNeverRefused)'
      BY <1>3, <2>3 DEF CallsMatch, KnownEndsEarly, SeenStaysFound, SeenIsNeverRefused
    <2> QED
      BY <2>1, <2>2, <2>4, <2>5
  <1>7. CASE Answer(c, "failed")
    BY <1>3, <1>7, CallEnds DEF Answers
  <1>8. CASE Answer(c, IF RowsOf(call[c].of) # {} THEN "result" ELSE "notFound")
    <2>1. CASE RowsOf(call[c].of) # {}
      BY <1>3, <1>8, <2>1, CallEnds DEF Answers
    <2>2. CASE RowsOf(call[c].of) = {}
      BY <1>2, <1>3, <1>8, <2>2, CallEnds DEF Answers
    <2> QED
      BY <2>1, <2>2
  <1> QED
    BY <1>5, <1>6, <1>7, <1>8 DEF ReadCache, ReadTable

LEMMA SeenStep == SeenInv /\ [RpcNext]_allVars => SeenInv'
  <1> SUFFICES ASSUME SeenInv, [RpcNext]_allVars
               PROVE  SeenInv'
    OBVIOUS
  <1>0. [Next]_vars /\ BackedInv /\ BackedInv'
    BY CallsAreRequests, BackedStep DEF SeenInv
  <1>1. ASSUME NEW c \in Clients, Send(c)
        PROVE  SeenInv'
    <2>1. Submit(c) /\ Ask(c, op'[c], "served")
      BY <1>1 DEF Send
    <2>2. cpc'[c] = "find" /\ op'[c] \in Hashes
      BY <1>0, <2>1 DEF Submit, CGo, BackedInv, TypeOK
    <2>3. \A d \in Clients : d # c => cpc'[d] = cpc[d] /\ op'[d] = op[d]
      BY <1>0, <2>1, RequestIsOwn
    <2> QED
      BY <1>0, <2>1, <2>2, <2>3, CallBegins DEF Waiting
  <1>2. ASSUME NEW c \in Clients, Clear(c)
        PROVE  SeenInv'
    <2>1. CASE ListKeys(c) /\ Ask(c, NoHash, "served")
      <3>1. cpc'[c] = "clear"
        BY <1>0, <2>1 DEF ListKeys, CGo, BackedInv, TypeOK
      <3>2. \A d \in Clients : d # c => cpc'[d] = cpc[d] /\ op'[d] = op[d]
        BY <1>0, <2>1, RequestIsOwn
      <3> QED
        BY <1>0, <2>1, <3>1, <3>2, CallBegins DEF Waiting
    <2>2. CASE Ask(c, NoHash, "result") /\ UNCHANGED vars
      BY <1>0, <2>2, CallBegins DEF vars, mempoolVars, requestVars
    <2> QED
      BY <1>2, <2>1, <2>2 DEF Clear
  <1>3. ASSUME NEW c \in Clients, Serve(c)
        PROVE  SeenInv'
    BY <1>0, <1>3, ServeStep
  <1>4. ASSUME NEW c \in Clients, Get(c)
        PROVE  SeenInv'
    BY <1>0, <1>4, CallBegins DEF Get, Waiting, vars, mempoolVars, requestVars
  <1>5. ASSUME NEW c \in Clients, ReadCache(c) \/ ReadTable(c)
        PROVE  SeenInv'
    BY <1>0, <1>5, LookUpStep
  <1>6. ASSUME NEW S \in SUBSET Clients, CallsVanish(S)
        PROVE  SeenInv'
    <2>1. CallOK'
      BY <1>6, VanishType DEF SeenInv
    <2>2. SeenHaveRows'
      BY <1>0, <1>6, SeenPersist DEF SeenInv, SeenHaveRows, CallOK, CallsVanish
    <2>3. \A d \in Clients : \/ call'[d] = NoCall
                             \/ /\ call'[d] = call[d]
                                /\ cpc'[d] = cpc[d] /\ op'[d] = op[d]
      BY <1>6 DEF CallsVanish, ServerExit
    <2>4. seen' = seen
      BY <1>6 DEF CallsVanish
    <2>5. (CallsKnow /\ LooksUp /\ SeenStaysFound /\ SeenIsNeverRefused)'
      BY <2>3, <2>4
      DEF SeenInv, CallsKnow, LooksUp, SeenStaysFound, SeenIsNeverRefused, NoCall, Waiting
    <2>6. CallsMatch' /\ KnownEndsEarly'
      BY <2>3 DEF SeenInv, CallsMatch, KnownEndsEarly, NoCall
    <2> QED
      BY <1>0, <2>1, <2>2, <2>5, <2>6 DEF SeenInv
  <1>7. ASSUME UNCHANGED <<rpcVars, mempoolVars>>
        PROVE  SeenInv'
    BY <1>0, <1>7, CallsUntouched DEF mempoolVars, requestVars
  <1> QED
    BY <1>1, <1>2, <1>3, <1>4, <1>5, <1>6, <1>7
    DEF RpcNext, RpcStep, ExpireCache, ExpireIndex, BundlerDropsKeys, allVars, vars

\* Every variable of the calls and of their requests keeps its type.
THEOREM RpcTypeCorrect == RpcSpec => []RpcTypeOK
  <1>1. SeenInv => RpcTypeOK
    BY DEF SeenInv, BackedInv, CallOK, RpcTypeOK
  <1> QED
    BY <1>1, SeenInit, SeenStep, PTL DEF RpcSpec, allVars

\* Once an answer has shown that an operation exists, no later look-up denies it,
\* whatever happens to its Redis keys meanwhile (MempoolService.ts:92-104).
THEOREM SeenFoundCorrect == RpcSpec => []SeenStaysFound
  <1>1. SeenInv => SeenStaysFound
    BY DEF SeenInv
  <1> QED
    BY <1>1, SeenInit, SeenStep, PTL DEF RpcSpec, allVars

\* Sending an operation again after an answer that showed it is never refused
\* (MempoolService.ts:40-45).
THEOREM ResendCorrect == RpcSpec => []SeenIsNeverRefused
  <1>1. SeenInv => SeenIsNeverRefused
    BY DEF SeenInv
  <1> QED
    BY <1>1, SeenInit, SeenStep, PTL DEF RpcSpec, allVars

=============================================================================

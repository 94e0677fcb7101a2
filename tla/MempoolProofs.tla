--------------------------- MODULE MempoolProofs ---------------------------
(* What holds of MempoolService for any number of overlapping requests and  *)
(* user operations, for any failures and any expiry of the Redis keys.      *)
EXTENDS MempoolService, FiniteSetTheorems, TLAPS

\* The awaits of an addUserOperation that has looked for its hash in vain and has not
\* saved its row.
Unsaved == {Counting, "conflict", "lookup", "evict", "simulate", "save"}

\* All awaits of an addUserOperation.
Adding == Unsaved \cup {"find", "addKeys"}

\* The locals a request has at an await.
RequestsHaveLocals ==
    /\ \A c \in Clients : cpc[c] \in Adding => op[c] \in Hashes
    /\ \A c \in Clients : cpc[c] \in {"lookup", "evict"} => rival[c] \in Hashes

\* A row is absent in all its columns.
RowsAreWhole == \A r \in Ids : status[r] = "absent" <=> hash[r] = NoHash

\* A request whose keys come next has its row.
SavedFirst == \A c \in Clients : cpc[c] = "addKeys" => RowsOf(op[c]) # {}

BackedInv == TypeOK /\ RequestsHaveLocals /\ RowsAreWhole /\ SavedFirst /\ RedisIsBacked

-----------------------------------------------------------------------------
(* Type correctness, with the locals *)

LocalsInv == TypeOK /\ RequestsHaveLocals

LEMMA LocalsInit == Init => LocalsInv
  BY StoreAssumption
  DEF Init, StoreInit, MempoolInit, LocalsInv, TypeOK, StoreTypeOK, RequestsHaveLocals,
      Spelling, Admitted, Counting, Adding, Unsaved

LEMMA FaultType ==
  ASSUME TypeOK, NEW k, Fault(k) \/ NoFault
  PROVE  faults' \in 0 .. MaxFaults
  BY StoreAssumption DEF Fault, NoFault, TypeOK, StoreTypeOK

\* The Redis keys of one operation keep their type.
LEMMA KeysType ==
  ASSUME TypeOK, NEW h \in Hashes, NEW s \in Spelling, DropKeys(h) \/ AddKeys(h, s)
  PROVE  /\ cache' \in [Hashes -> Spelling \cup {"none"}]
         /\ index' \in [Keys -> Hashes \cup {NoHash}]
  BY StoreAssumption DEF DropKeys, AddKeys, TypeOK, StoreTypeOK

\* The end of a request leaves every request with its locals.
LEMMA FinishLocals ==
  ASSUME LocalsInv, StoreTypeOK', NEW c \in Clients, Finish(c)
  PROVE  LocalsInv'
  BY DEF LocalsInv, Finish, CGo, TypeOK, RequestsHaveLocals, Adding, Unsaved, Counting,
         Admitted, Spelling

LEMMA RejectLocals ==
  ASSUME LocalsInv, NEW c \in Clients, NEW kind, Reject(c, kind)
  PROVE  LocalsInv'
  <1>1. faults' \in 0 .. MaxFaults
    BY FaultType DEF Reject, LocalsInv
  <1>2. StoreTypeOK'
    BY <1>1 DEF Reject, redisVars, LocalsInv, TypeOK, StoreTypeOK
  <1> QED
    BY <1>2, FinishLocals DEF Reject

LEMMA RefuseLocals ==
  ASSUME LocalsInv, NEW c \in Clients, Refuse(c)
  PROVE  LocalsInv'
  <1>1. StoreTypeOK'
    BY DEF Refuse, NoFault, redisVars, LocalsInv, TypeOK, StoreTypeOK
  <1> QED
    BY <1>1, FinishLocals DEF Refuse

LEMMA ProceedLocals ==
  ASSUME LocalsInv, NEW c \in Clients, NEW step \in Admitted \cup {Counting}, Proceed(c, step),
         cpc[c] \in Adding, step \in {"lookup", "evict"} => rival[c] \in Hashes
  PROVE  LocalsInv'
  BY DEF LocalsInv, Proceed, CGo, NoFault, redisVars, requestVars, TypeOK, StoreTypeOK,
         RequestsHaveLocals, Adding, Unsaved, Counting, Admitted

LEMMA LocalsRequestStep ==
  ASSUME LocalsInv, NEW c \in Clients, RequestStep(c)
  PROVE  LocalsInv'
  <1> USE DEF LocalsInv
  <1>1. CASE FindExisting(c)
    BY <1>1, RefuseLocals, ProceedLocals, RejectLocals
    DEF FindExisting, CAt, Adding, Unsaved, Counting
  <1>2. CASE CountMempool(c)
    BY <1>2, RefuseLocals, ProceedLocals, RejectLocals
    DEF CountMempool, CAt, Adding, Unsaved, Counting, Admitted
  <1>3. CASE CheckConflict(c)
    <2>1. CASE Proceed(c, "simulate") \/ Reject(c, "redis")
      BY <1>3, <2>1, ProceedLocals, RejectLocals
      DEF CheckConflict, CAt, Adding, Unsaved, Admitted
    <2>2. CASE /\ rival' = [rival EXCEPT ![c] = index[KeyOf[op[c]]]]
               /\ index[KeyOf[op[c]]] # NoHash
               /\ CGo(c, "lookup")
               /\ NoFault
               /\ UNCHANGED <<hash, status, redisVars, op, spelling, doomed>>
      <3>1. op[c] \in Hashes
        BY <1>3 DEF CheckConflict, CAt, RequestsHaveLocals, Adding, Unsaved
      <3>2. index[KeyOf[op[c]]] \in Hashes
        BY <2>2, <3>1, StoreAssumption DEF TypeOK, StoreTypeOK
      <3>3. TypeOK'
        BY <2>2, <3>2 DEF CGo, NoFault, redisVars, TypeOK, StoreTypeOK, Admitted
      <3>4. RequestsHaveLocals'
        BY <2>2, <3>1, <3>2 DEF CGo, TypeOK, RequestsHaveLocals
      <3> QED
        BY <3>3, <3>4
    <2> QED
      BY <1>3, <2>1, <2>2 DEF CheckConflict
  <1>4. CASE LookupRival(c)
    <2>1. cpc[c] = "lookup" /\ rival[c] \in Hashes
      BY <1>4 DEF LookupRival, CAt, RequestsHaveLocals
    <2> QED
      BY <1>4, <2>1, RefuseLocals, ProceedLocals, RejectLocals
      DEF LookupRival, Adding, Unsaved, Admitted
  <1>5. CASE EvictRival(c)
    <2>1. cpc[c] = "evict" /\ rival[c] \in Hashes
      BY <1>5 DEF EvictRival, CAt, RequestsHaveLocals
    <2>2. CASE Proceed(c, "simulate") \/ Reject(c, "redis") \/ Reject(c, "db")
      BY <2>1, <2>2, ProceedLocals, RejectLocals DEF Adding, Unsaved, Admitted
    <2>3. CASE /\ DropKeys(rival[c])
               /\ NoFault \/ Fault("redis")
               /\ Finish(c)
               /\ UNCHANGED <<hash, status>>
      <3>1. /\ cache' \in [Hashes -> Spelling \cup {"none"}]
            /\ index' \in [Keys -> Hashes \cup {NoHash}]
        BY <2>1, <2>3, KeysType DEF Spelling
      <3>2. faults' \in 0 .. MaxFaults
        BY <2>3, FaultType
      <3>3. StoreTypeOK'
        BY <2>3, <3>1, <3>2 DEF TypeOK, StoreTypeOK
      <3> QED
        BY <2>3, <3>3, FinishLocals
    <2> QED
      BY <1>5, <2>2, <2>3 DEF EvictRival
  <1>6. CASE SimulateValidation(c)
    BY <1>6, RefuseLocals, ProceedLocals
    DEF SimulateValidation, CAt, Adding, Unsaved, Admitted
  <1>7. CASE SaveRow(c)
    <2>1. cpc[c] = "save" /\ op[c] \in Hashes
      BY <1>7 DEF SaveRow, CAt, RequestsHaveLocals, Adding, Unsaved
    <2>2. CASE Reject(c, "db")
      BY <2>2, RejectLocals
    <2>3. ASSUME NEW r \in Ids, InsertRow(r, op[c]), UNCHANGED redisVars,
                 \/ CGo(c, "addKeys") /\ NoFault /\ UNCHANGED requestVars
                 \/ Finish(c) /\ Fault("db")
          PROVE  LocalsInv'
      <3>1. faults' \in 0 .. MaxFaults
        BY <2>3, FaultType
      <3>2. StoreTypeOK'
        BY <2>1, <2>3, <3>1 DEF InsertRow, redisVars, TypeOK, StoreTypeOK, OpStatus
      <3>3. CASE Finish(c)
        BY <3>2, <3>3, FinishLocals
      <3>4. CASE CGo(c, "addKeys") /\ UNCHANGED requestVars
        BY <2>1, <3>2, <3>4 DEF CGo, requestVars, TypeOK, RequestsHaveLocals, Admitted
      <3> QED
        BY <2>3, <3>3, <3>4
    <2> QED
      BY <1>7, <2>2, <2>3 DEF SaveRow
  <1>8. CASE AddToMempool(c)
    <2>1. op[c] \in Hashes /\ spelling[c] \in Spelling
      BY <1>8 DEF AddToMempool, CAt, RequestsHaveLocals, Adding, TypeOK
    <2>2. faults' \in 0 .. MaxFaults
      BY <1>8, FaultType DEF AddToMempool
    <2>3. /\ cache' \in [Hashes -> Spelling \cup {"none"}]
          /\ index' \in [Keys -> Hashes \cup {NoHash}]
      BY <1>8, <2>1, KeysType DEF AddToMempool, redisVars, TypeOK, StoreTypeOK
    <2>4. StoreTypeOK'
      BY <1>8, <2>2, <2>3 DEF AddToMempool, TypeOK, StoreTypeOK
    <2> QED
      BY <1>8, <2>4, FinishLocals DEF AddToMempool
  <1>9. CASE DeleteKeys(c)
    <2>1. faults' \in 0 .. MaxFaults
      BY <1>9, FaultType DEF DeleteKeys
    <2>2. cache' \in [Hashes -> Spelling \cup {"none"}]
      BY <1>9 DEF DeleteKeys, TypeOK, StoreTypeOK
    <2>3. StoreTypeOK'
      BY <1>9, <2>1, <2>2 DEF DeleteKeys, TypeOK, StoreTypeOK
    <2> QED
      BY <1>9, <2>3, FinishLocals DEF DeleteKeys
  <1> QED
    BY <1>1, <1>2, <1>3, <1>4, <1>5, <1>6, <1>7, <1>8, <1>9 DEF RequestStep

LEMMA LocalsStep == LocalsInv /\ [Next]_vars => LocalsInv'
  <1> SUFFICES ASSUME LocalsInv, [Next]_vars
               PROVE  LocalsInv'
    OBVIOUS
  <1> USE DEF LocalsInv
  <1>1. ASSUME NEW c \in Clients, Submit(c)
        PROVE  LocalsInv'
    BY <1>1 DEF Submit, CAt, CGo, storeVars, TypeOK, StoreTypeOK, RequestsHaveLocals, Admitted
  <1>2. ASSUME NEW c \in Clients, ListKeys(c)
        PROVE  LocalsInv'
    BY <1>2 DEF ListKeys, CAt, CGo, storeVars, CachedHashes, TypeOK, StoreTypeOK,
                RequestsHaveLocals, Adding, Unsaved, Counting
  <1>3. ASSUME NEW c \in Clients, RequestStep(c)
        PROVE  LocalsInv'
    BY <1>3, LocalsRequestStep
  <1>4. ASSUME NEW S \in SUBSET Clients, ServerExit(S)
        PROVE  LocalsInv'
    <2>1. faults' \in 0 .. MaxFaults
      BY <1>4, FaultType DEF ServerExit
    <2> QED
      BY <1>4, <2>1 DEF ServerExit, redisVars, TypeOK, StoreTypeOK, RequestsHaveLocals,
                        Adding, Unsaved, Counting, Spelling
  <1>5. ASSUME NEW h \in Hashes, ExpireCache(h)
        PROVE  LocalsInv'
    BY <1>5 DEF ExpireCache, mempoolVars, requestVars, TypeOK, StoreTypeOK, RequestsHaveLocals
  <1>6. ASSUME NEW k \in Keys, ExpireIndex(k)
        PROVE  LocalsInv'
    BY <1>6 DEF ExpireIndex, mempoolVars, requestVars, TypeOK, StoreTypeOK, RequestsHaveLocals
  <1>8. ASSUME NEW r \in Ids, BundlerDropsKeys(r)
        PROVE  LocalsInv'
    BY <1>8 DEF BundlerDropsKeys, DropKeys, mempoolVars, requestVars, TypeOK, StoreTypeOK,
                RequestsHaveLocals
  <1>9. CASE UNCHANGED vars
    BY <1>9 DEF vars, storeVars, mempoolVars, requestVars, TypeOK, StoreTypeOK,
                RequestsHaveLocals
  <1> QED
    BY <1>1, <1>2, <1>3, <1>4, <1>5, <1>6, <1>8, <1>9 DEF Next, MempoolStep

\* Every variable keeps its type: the status column keeps to its enum, although
\* removeUserOperation tries to leave it (MempoolService.ts:81).
THEOREM TypeCorrect == Spec => []TypeOK
  <1>1. LocalsInv => TypeOK
    BY DEF LocalsInv
  <1> QED
    BY <1>1, LocalsInit, LocalsStep, PTL DEF Spec

-----------------------------------------------------------------------------
(* What Redis knows, Postgres knows *)

\* Rows are never deleted and never change their hash.
RowsStay == \A r \in Ids : hash[r] # NoHash => hash'[r] = hash[r]

\* The rows of a hash after the step.
NewRowsOf(h) == {r \in Ids : hash'[r] = h}

LEMMA RowsRemain ==
  ASSUME RowsStay, NEW h \in Hashes
  PROVE  RowsOf(h) \subseteq NewRowsOf(h)
  BY StoreAssumption DEF RowsStay, RowsOf, NewRowsOf

\* A step that adds no key and lets a request go on to its keys only with its row.
LEMMA BackedKept ==
  ASSUME BackedInv, LocalsInv', RowsStay, RowsAreWhole',
         \A h \in Hashes : cache'[h] # "none" => cache[h] # "none",
         \A k \in Keys : index'[k] \in {index[k], NoHash},
         \A c \in Clients : cpc'[c] = "addKeys" =>
             \/ cpc[c] = "addKeys" /\ op'[c] = op[c]
             \/ NewRowsOf(op'[c]) # {}
  PROVE  BackedInv'
  <1> USE DEF BackedInv
  <1>1. \A h \in Hashes : RowsOf(h) # {} => NewRowsOf(h) # {}
    BY RowsRemain
  <1>2. SavedFirst'
    <2> SUFFICES ASSUME NEW c \in Clients, cpc'[c] = "addKeys"
                 PROVE  NewRowsOf(op'[c]) # {}
      BY DEF SavedFirst, RowsOf, NewRowsOf
    <2>1. CASE NewRowsOf(op'[c]) # {}
      BY <2>1
    <2>2. CASE cpc[c] = "addKeys" /\ op'[c] = op[c]
      <3>1. op[c] \in Hashes /\ RowsOf(op[c]) # {}
        BY <2>2 DEF SavedFirst, RequestsHaveLocals, Adding
      <3> QED
        BY <1>1, <2>2, <3>1
    <2> QED
      BY <2>1, <2>2
  <1>3. \A h \in Hashes : cache'[h] # "none" => NewRowsOf(h) # {}
    BY <1>1 DEF RedisIsBacked, CachedHashes
  <1>4. ASSUME NEW k \in Keys, index'[k] # NoHash
        PROVE  KeyOf[index'[k]] = k /\ NewRowsOf(index'[k]) # {}
    <2>1. index'[k] = index[k] /\ index[k] \in Hashes
      BY <1>4 DEF TypeOK, StoreTypeOK
    <2>2. KeyOf[index[k]] = k /\ RowsOf(index[k]) # {}
      BY <1>4, <2>1 DEF RedisIsBacked
    <2> QED
      BY <1>1, <2>1, <2>2
  <1>5. RedisIsBacked'
    BY <1>3, <1>4 DEF RedisIsBacked, CachedHashes, RowsOf, NewRowsOf
  <1> QED
    BY <1>2, <1>5 DEF LocalsInv

\* A step that leaves the table alone.
LEMMA TableUntouched ==
  ASSUME BackedInv, UNCHANGED <<hash, status>>
  PROVE  RowsStay /\ RowsAreWhole'
  BY DEF BackedInv, RowsStay, RowsAreWhole

\* The keys of an operation that has its row.
LEMMA BackedAdd ==
  ASSUME BackedInv, LocalsInv', NEW c \in Clients, AddToMempool(c)
  PROVE  BackedInv'
  <1> USE DEF BackedInv
  <1>1. op[c] \in Hashes /\ RowsOf(op[c]) # {} /\ spelling[c] \in Spelling
    BY DEF AddToMempool, CAt, SavedFirst, RequestsHaveLocals, Adding, TypeOK
  <1>2. \A h : NewRowsOf(h) = RowsOf(h)
    BY DEF AddToMempool, RowsOf, NewRowsOf
  <1>3. \A h \in Hashes : cache'[h] # "none" => cache[h] # "none" \/ h = op[c]
    BY DEF AddToMempool, AddKeys, redisVars, TypeOK, StoreTypeOK
  <1>4. \A k \in Keys : index'[k] = index[k] \/ (index'[k] = op[c] /\ k = KeyOf[op[c]])
    BY DEF AddToMempool, AddKeys, redisVars, TypeOK, StoreTypeOK
  <1>5. RedisIsBacked'
    <2>1. \A h \in Hashes : cache'[h] # "none" => NewRowsOf(h) # {}
      BY <1>1, <1>2, <1>3 DEF RedisIsBacked, CachedHashes
    <2>2. \A k \in Keys : index'[k] # NoHash =>
              KeyOf[index'[k]] = k /\ NewRowsOf(index'[k]) # {}
      BY <1>1, <1>2, <1>4 DEF RedisIsBacked
    <2> QED
      BY <2>1, <2>2 DEF RedisIsBacked, CachedHashes, RowsOf, NewRowsOf
  <1>6. SavedFirst'
    BY DEF AddToMempool, Finish, CGo, SavedFirst, TypeOK, RowsOf
  <1>7. RowsAreWhole'
    BY TableUntouched DEF AddToMempool
  <1> QED
    BY <1>5, <1>6, <1>7 DEF LocalsInv

\* A new row: the request goes on to its keys, or is over.
LEMMA BackedSave ==
  ASSUME BackedInv, LocalsInv', NEW c \in Clients, SaveRow(c)
  PROVE  BackedInv'
  <1> USE DEF BackedInv
  <1>1. CASE Reject(c, "db")
    <2>1. \A d \in Clients : cpc'[d] = "addKeys" => cpc[d] = "addKeys" /\ op'[d] = op[d]
      BY <1>1 DEF Reject, Finish, CGo, TypeOK
    <2> QED
      BY <1>1, <2>1, TableUntouched, BackedKept DEF Reject, redisVars
  <1>2. ASSUME NEW r \in Ids, InsertRow(r, op[c]), UNCHANGED redisVars,
               \/ CGo(c, "addKeys") /\ UNCHANGED requestVars
               \/ Finish(c)
        PROVE  BackedInv'
    <2>1. op[c] \in Hashes
      BY DEF SaveRow, CAt, RequestsHaveLocals, Adding, Unsaved
    <2>2. RowsStay /\ RowsAreWhole'
      BY <1>2, <2>1, StoreAssumption
      DEF InsertRow, RowsStay, RowsAreWhole, TypeOK, StoreTypeOK
    <2>3. r \in NewRowsOf(op[c])
      BY <1>2 DEF InsertRow, NewRowsOf, TypeOK, StoreTypeOK
    <2>4. \A d \in Clients : cpc'[d] = "addKeys" =>
              \/ cpc[d] = "addKeys" /\ op'[d] = op[d]
              \/ NewRowsOf(op'[d]) # {}
      <3> SUFFICES ASSUME NEW d \in Clients, cpc'[d] = "addKeys"
                   PROVE  \/ cpc[d] = "addKeys" /\ op'[d] = op[d]
                          \/ NewRowsOf(op'[d]) # {}
        OBVIOUS
      <3>1. CASE Finish(c)
        BY <3>1 DEF Finish, CGo, TypeOK
      <3>2. CASE CGo(c, "addKeys") /\ UNCHANGED requestVars
        BY <2>3, <3>2 DEF CGo, requestVars, TypeOK
      <3> QED
        BY <1>2, <3>1, <3>2
    <2> QED
      BY <1>2, <2>2, <2>4, BackedKept DEF redisVars
  <1> QED
    BY <1>1, <1>2 DEF SaveRow

\* What a step other than those two may do to the keys and to the requests.
KeysOnlyGo ==
    /\ \A h \in Hashes : cache'[h] # "none" => cache[h] # "none"
    /\ \A k \in Keys : index'[k] \in {index[k], NoHash}
    /\ \A c \in Clients : cpc'[c] = "addKeys" => cpc[c] = "addKeys" /\ op'[c] = op[c]

LEMMA KeysDropped ==
  ASSUME TypeOK, NEW h, DropKeys(h)
  PROVE  /\ \A g \in Hashes : cache'[g] # "none" => cache[g] # "none"
         /\ \A k \in Keys : index'[k] \in {index[k], NoHash}
  BY DEF DropKeys, TypeOK, StoreTypeOK

LEMMA RequestKeysOnlyGo ==
  ASSUME BackedInv, NEW c \in Clients, RequestStep(c), ~SaveRow(c), ~AddToMempool(c)
  PROVE  KeysOnlyGo /\ UNCHANGED <<hash, status>>
  <1> USE DEF BackedInv
  <1>1. CASE Refuse(c) \/ (\E kind : Reject(c, kind))
    BY <1>1 DEF Refuse, Reject, Finish, CGo, redisVars, KeysOnlyGo, TypeOK
  <1>2. ASSUME NEW step \in {Counting} \cup (Admitted \ {"addKeys"}), Proceed(c, step)
        PROVE  KeysOnlyGo /\ UNCHANGED <<hash, status>>
    BY <1>2 DEF Proceed, CGo, redisVars, requestVars, KeysOnlyGo, TypeOK, Counting, Admitted
  <1>3. CASE FindExisting(c)
    BY <1>1, <1>2, <1>3 DEF FindExisting
  <1>4. CASE CountMempool(c)
    BY <1>1, <1>2, <1>4 DEF CountMempool, Admitted
  <1>5. CASE CheckConflict(c)
    <2>1. CASE Proceed(c, "simulate") \/ Reject(c, "redis")
      BY <1>1, <1>2, <2>1 DEF Admitted
    <2>2. CASE CGo(c, "lookup") /\ UNCHANGED <<hash, status, redisVars, op>>
      BY <2>2 DEF CGo, redisVars, KeysOnlyGo, TypeOK
    <2> QED
      BY <1>5, <2>1, <2>2 DEF CheckConflict
  <1>6. CASE LookupRival(c)
    BY <1>1, <1>2, <1>6 DEF LookupRival, Admitted
  <1>7. CASE EvictRival(c)
    <2>1. CASE Proceed(c, "simulate") \/ Reject(c, "redis") \/ Reject(c, "db")
      BY <1>1, <1>2, <2>1 DEF Admitted
    <2>2. CASE DropKeys(rival[c]) /\ Finish(c) /\ UNCHANGED <<hash, status>>
      BY <2>2, KeysDropped DEF Finish, CGo, KeysOnlyGo, TypeOK
    <2> QED
      BY <1>7, <2>1, <2>2 DEF EvictRival
  <1>8. CASE SimulateValidation(c)
    BY <1>1, <1>2, <1>8 DEF SimulateValidation, Admitted
  <1>9. CASE DeleteKeys(c)
    BY <1>9 DEF DeleteKeys, Finish, CGo, KeysOnlyGo, TypeOK, StoreTypeOK
  <1> QED
    BY <1>3, <1>4, <1>5, <1>6, <1>7, <1>8, <1>9 DEF RequestStep

LEMMA BackedInit == Init => BackedInv
  <1> SUFFICES ASSUME Init PROVE BackedInv
    OBVIOUS
  <1>1. LocalsInv
    BY LocalsInit
  <1>2. RowsAreWhole /\ SavedFirst
    BY DEF Init, StoreInit, MempoolInit, RowsAreWhole, SavedFirst
  <1>3. RedisIsBacked
    BY DEF Init, StoreInit, RedisIsBacked, CachedHashes
  <1> QED
    BY <1>1, <1>2, <1>3 DEF BackedInv, LocalsInv

LEMMA BackedStep == BackedInv /\ [Next]_vars => BackedInv'
  <1> SUFFICES ASSUME BackedInv, [Next]_vars
               PROVE  BackedInv'
    OBVIOUS
  <1> USE DEF BackedInv
  <1>0. LocalsInv'
    BY LocalsStep DEF LocalsInv
  <1>1. ASSUME KeysOnlyGo, UNCHANGED <<hash, status>>
        PROVE  BackedInv'
    BY <1>0, <1>1, TableUntouched, BackedKept DEF KeysOnlyGo
  <1>2. ASSUME NEW c \in Clients, Submit(c) \/ ListKeys(c)
        PROVE  BackedInv'
    BY <1>1, <1>2 DEF Submit, ListKeys, CGo, storeVars, KeysOnlyGo, TypeOK
  <1>3. ASSUME NEW c \in Clients, RequestStep(c)
        PROVE  BackedInv'
    BY <1>0, <1>1, <1>3, BackedSave, BackedAdd, RequestKeysOnlyGo
  <1>4. ASSUME NEW S \in SUBSET Clients, ServerExit(S)
        PROVE  BackedInv'
    BY <1>1, <1>4 DEF ServerExit, redisVars, KeysOnlyGo, TypeOK
  <1>5. ASSUME NEW h \in Hashes, ExpireCache(h)
        PROVE  BackedInv'
    BY <1>1, <1>5 DEF ExpireCache, mempoolVars, requestVars, KeysOnlyGo, TypeOK, StoreTypeOK
  <1>6. ASSUME NEW k \in Keys, ExpireIndex(k)
        PROVE  BackedInv'
    BY <1>1, <1>6 DEF ExpireIndex, mempoolVars, requestVars, KeysOnlyGo, TypeOK, StoreTypeOK
  <1>8. ASSUME NEW r \in Ids, BundlerDropsKeys(r)
        PROVE  BackedInv'
    BY <1>1, <1>8, KeysDropped DEF BundlerDropsKeys, mempoolVars, requestVars, KeysOnlyGo
  <1>9. CASE UNCHANGED vars
    BY <1>1, <1>9 DEF vars, storeVars, mempoolVars, requestVars, KeysOnlyGo
  <1> QED
    BY <1>2, <1>3, <1>4, <1>5, <1>6, <1>8, <1>9 DEF Next, MempoolStep

\* However requests overlap and fail, whatever expires and whatever is removed, Redis
\* never knows an operation that Postgres does not (MempoolService.ts:51-59).
THEOREM RedisBackedCorrect == Spec => []RedisIsBacked
  <1>1. BackedInv => RedisIsBacked
    BY DEF BackedInv
  <1> QED
    BY <1>1, BackedInit, BackedStep, PTL DEF Spec

-----------------------------------------------------------------------------
(* Overlapping requests: how many rows, how many cached operations *)

\* The requests that may yet give h a row.
InFlight(h) == {c \in Clients : cpc[c] \in Unsaved /\ op[c] = h}

\* A row takes the place of the request that saved it, and a request gets as far as
\* saving only if there was no row: the sum never passes the number of requests.
RowsAndRequests ==
    \A h \in Hashes : Cardinality(RowsOf(h)) + Cardinality(InFlight(h)) <= Cardinality(Clients)

DuplicatesInv == BackedInv /\ RowsAndRequests

\* The requests that may yet cache an operation.
AdmittedRequests == {c \in Clients : cpc[c] \in Admitted}

\* The last request to pass the check of the size found the mempool short of its limit.
CachedAndRequests ==
    Cardinality(CachedHashes) + Cardinality(AdmittedRequests)
        <= MaxMempoolSize + Cardinality(Clients) - 1

SizeInv == LocalsInv /\ CachedAndRequests

LEMMA Counts ==
  ASSUME NEW S \in SUBSET Clients
  PROVE  /\ IsFiniteSet(S) /\ Cardinality(S) \in Nat
         /\ Cardinality(Clients) \in Nat /\ Cardinality(S) <= Cardinality(Clients)
  BY MempoolAssumption, FS_Subset, FS_CardinalityType

LEMMA RowCounts ==
  ASSUME NEW S \in SUBSET Ids
  PROVE  IsFiniteSet(S) /\ Cardinality(S) \in Nat
  BY StoreAssumption, FS_Subset, FS_CardinalityType

LEMMA HashCounts ==
  ASSUME NEW S \in SUBSET Hashes
  PROVE  IsFiniteSet(S) /\ Cardinality(S) \in Nat
  BY MempoolAssumption, FS_Subset, FS_CardinalityType

LEMMA CountInit == Init => RowsAndRequests /\ CachedAndRequests
  <1> SUFFICES ASSUME Init PROVE RowsAndRequests /\ CachedAndRequests
    OBVIOUS
  <1>1. \A h \in Hashes : RowsOf(h) = {} /\ InFlight(h) = {}
    BY StoreAssumption
    DEF Init, StoreInit, MempoolInit, RowsOf, InFlight, Unsaved, Counting
  <1>2. CachedHashes = {} /\ AdmittedRequests = {}
    BY DEF Init, StoreInit, MempoolInit, CachedHashes, AdmittedRequests, Admitted
  <1>3. Cardinality({}) = 0
    BY FS_EmptySet
  <1>4. Cardinality(Clients) \in Nat /\ Cardinality(Clients) # 0
    BY MempoolAssumption, FS_EmptySet, FS_CardinalityType
  <1>5. RowsAndRequests
    BY <1>1, <1>3, <1>4 DEF RowsAndRequests
  <1>6. CachedAndRequests
    BY <1>2, <1>3, <1>4, MempoolAssumption DEF CachedAndRequests
  <1> QED
    BY <1>5, <1>6

\* What most steps do to the requests.
NoneStarts == \A c \in Clients : cpc'[c] \in Unsaved => cpc[c] \in Unsaved /\ op'[c] = op[c]
NoneAdmitted == \A c \in Clients : cpc'[c] \in Admitted => cpc[c] \in Admitted

LEMMA DuplicatesKept ==
  ASSUME DuplicatesInv, BackedInv', NoneStarts, UNCHANGED hash
  PROVE  DuplicatesInv'
  <1> SUFFICES ASSUME NEW h \in Hashes
               PROVE  Cardinality(RowsOf(h))' + Cardinality(InFlight(h))' <= Cardinality(Clients)
    BY DEF DuplicatesInv, RowsAndRequests
  <1>1. RowsOf(h)' = RowsOf(h)
    BY DEF RowsOf
  <1>2. InFlight(h)' \subseteq InFlight(h)
    BY DEF InFlight, NoneStarts
  <1>3. InFlight(h) \in SUBSET Clients /\ RowsOf(h) \in SUBSET Ids
    BY DEF InFlight, RowsOf
  <1>4. Cardinality(InFlight(h)') <= Cardinality(InFlight(h))
    BY <1>2, <1>3, Counts, FS_Subset
  <1>5. Cardinality(InFlight(h)') \in Nat
    BY <1>2, <1>3, Counts
  <1> QED
    BY <1>1, <1>3, <1>4, <1>5, Counts, RowCounts DEF DuplicatesInv, RowsAndRequests

\* A request that found no row: only its own hash gains one in flight.
LEMMA DuplicatesFind ==
  ASSUME DuplicatesInv, BackedInv', NEW c \in Clients, FindExisting(c), Proceed(c, Counting)
  PROVE  DuplicatesInv'
  <1> USE DEF DuplicatesInv, BackedInv
  <1> SUFFICES ASSUME NEW h \in Hashes
               PROVE  Cardinality(RowsOf(h))' + Cardinality(InFlight(h))' <= Cardinality(Clients)
    BY DEF RowsAndRequests
  <1>1. RowsOf(h)' = RowsOf(h)
    BY DEF Proceed, RowsOf
  <1>2. CASE h = op[c]
    <2>1. RowsOf(h) = {}
      BY <1>2 DEF FindExisting, Proceed, Refuse, Reject, Finish, CGo, TypeOK, Counting
    <2>2. InFlight(h)' \in SUBSET Clients
      BY DEF InFlight
    <2>3. Cardinality(RowsOf(h)) = 0
      BY <2>1, FS_EmptySet
    <2>4. Cardinality(InFlight(h)') <= Cardinality(Clients) /\ Cardinality(InFlight(h)') \in Nat
      BY <2>2, Counts
    <2> QED
      BY <1>1, <2>3, <2>4
  <1>3. CASE h # op[c]
    <2>1. InFlight(h)' = InFlight(h)
      BY <1>3 DEF Proceed, CGo, requestVars, InFlight, TypeOK
    <2> QED
      BY <1>1, <2>1 DEF RowsAndRequests
  <1> QED
    BY <1>2, <1>3

\* A request that saves its row is in flight no longer.
LEMMA DuplicatesSave ==
  ASSUME DuplicatesInv, BackedInv', NEW c \in Clients, SaveRow(c),
         NEW r \in Ids, InsertRow(r, op[c])
  PROVE  DuplicatesInv'
  <1> USE DEF DuplicatesInv, BackedInv
  <1> SUFFICES ASSUME NEW h \in Hashes
               PROVE  Cardinality(RowsOf(h))' + Cardinality(InFlight(h))' <= Cardinality(Clients)
    BY DEF RowsAndRequests
  <1>0. cpc[c] = "save" /\ op[c] \in Hashes
    BY DEF SaveRow, CAt, RequestsHaveLocals, Adding, Unsaved
  <1>1. hash[r] = NoHash
    BY DEF InsertRow, RowsAreWhole
  <1>2. /\ cpc'[c] \in {"addKeys", "idle"}
        /\ \A d \in Clients \ {c} : cpc'[d] = cpc[d] /\ op'[d] = op[d]
    BY DEF SaveRow, Reject, Finish, CGo, requestVars, TypeOK
  <1>3. InFlight(h)' = InFlight(h) \ {c}
    BY <1>2 DEF InFlight, Unsaved, Counting
  <1>4. InFlight(h) \in SUBSET Clients /\ RowsOf(h) \in SUBSET Ids
    BY DEF InFlight, RowsOf
  <1>5. CASE h = op[c]
    <2>1. RowsOf(h)' = RowsOf(h) \cup {r}
      BY <1>5 DEF InsertRow, RowsOf, TypeOK, StoreTypeOK
    <2>2. c \in InFlight(h)
      BY <1>0, <1>5 DEF InFlight, Unsaved
    <2>3. Cardinality(RowsOf(h)') <= Cardinality(RowsOf(h)) + 1 /\ Cardinality(RowsOf(h)') \in Nat
      BY <1>4, <2>1, RowCounts, FS_AddElement
    <2>4. Cardinality(InFlight(h)') = Cardinality(InFlight(h)) - 1
      BY <1>3, <1>4, <2>2, Counts, FS_RemoveElement
    <2> QED
      BY <1>4, <2>3, <2>4, Counts, RowCounts DEF RowsAndRequests
  <1>6. CASE h # op[c]
    <2>1. RowsOf(h)' = RowsOf(h)
      BY <1>1, <1>6, StoreAssumption DEF InsertRow, RowsOf, TypeOK, StoreTypeOK
    <2>2. Cardinality(InFlight(h)') <= Cardinality(InFlight(h)) /\ Cardinality(InFlight(h)') \in Nat
      BY <1>3, <1>4, Counts, FS_Subset
    <2> QED
      BY <1>4, <2>1, <2>2, Counts, RowCounts DEF RowsAndRequests
  <1> QED
    BY <1>5, <1>6

\* The other steps of a request start nothing.
LEMMA RequestNoneStarts ==
  ASSUME BackedInv, NEW c \in Clients, RequestStep(c),
         ~(FindExisting(c) /\ Proceed(c, Counting)),
         ~(\E r \in Ids : SaveRow(c) /\ InsertRow(r, op[c]))
  PROVE  NoneStarts /\ UNCHANGED hash
  <1> USE DEF BackedInv
  <1>1. CASE Refuse(c) \/ (\E kind : Reject(c, kind))
    BY <1>1 DEF Refuse, Reject, Finish, CGo, NoneStarts, TypeOK, Unsaved, Counting
  <1>2. ASSUME NEW step, Proceed(c, step), cpc[c] \in Unsaved
        PROVE  NoneStarts /\ UNCHANGED hash
    BY <1>2 DEF Proceed, CGo, requestVars, NoneStarts, TypeOK
  <1>3. CASE FindExisting(c)
    BY <1>1, <1>3 DEF FindExisting
  <1>4. CASE CountMempool(c)
    BY <1>1, <1>2, <1>4 DEF CountMempool, CAt, Unsaved
  <1>5. CASE CheckConflict(c)
    <2>0. cpc[c] \in Unsaved
      BY <1>5 DEF CheckConflict, CAt, Unsaved
    <2>1. CASE Proceed(c, "simulate") \/ Reject(c, "redis")
      BY <1>1, <1>2, <2>0, <2>1
    <2>2. CASE CGo(c, "lookup") /\ UNCHANGED <<hash, op>>
      BY <2>0, <2>2 DEF CGo, NoneStarts, TypeOK
    <2> QED
      BY <1>5, <2>1, <2>2 DEF CheckConflict
  <1>6. CASE LookupRival(c)
    BY <1>1, <1>2, <1>6 DEF LookupRival, CAt, Unsaved
  <1>7. CASE EvictRival(c)
    <2>1. CASE Proceed(c, "simulate") \/ Reject(c, "redis") \/ Reject(c, "db")
      BY <1>1, <1>2, <1>7, <2>1 DEF EvictRival, CAt, Unsaved
    <2>2. CASE Finish(c) /\ UNCHANGED hash
      BY <2>2 DEF Finish, CGo, NoneStarts, TypeOK, Unsaved, Counting
    <2> QED
      BY <1>7, <2>1, <2>2 DEF EvictRival
  <1>8. CASE SimulateValidation(c)
    BY <1>1, <1>2, <1>8 DEF SimulateValidation, CAt, Unsaved
  <1>9. CASE SaveRow(c)
    BY <1>1, <1>9 DEF SaveRow
  <1>10. CASE AddToMempool(c) \/ DeleteKeys(c)
    BY <1>10 DEF AddToMempool, DeleteKeys, Finish, CGo, NoneStarts, TypeOK, Unsaved, Counting
  <1> QED
    BY <1>3, <1>4, <1>5, <1>6, <1>7, <1>8, <1>9, <1>10 DEF RequestStep

LEMMA DuplicatesStep == DuplicatesInv /\ [Next]_vars => DuplicatesInv'
  <1> SUFFICES ASSUME DuplicatesInv, [Next]_vars
               PROVE  DuplicatesInv'
    OBVIOUS
  <1>0. BackedInv /\ BackedInv'
    BY BackedStep DEF DuplicatesInv
  <1>1. ASSUME NoneStarts, UNCHANGED hash
        PROVE  DuplicatesInv'
    BY <1>0, <1>1, DuplicatesKept
  <1>2. ASSUME NEW c \in Clients, Submit(c) \/ ListKeys(c)
        PROVE  DuplicatesInv'
    BY <1>0, <1>1, <1>2
    DEF Submit, ListKeys, CGo, storeVars, NoneStarts, BackedInv, TypeOK, Unsaved, Counting
  <1>3. ASSUME NEW c \in Clients, RequestStep(c)
        PROVE  DuplicatesInv'
    BY <1>0, <1>1, <1>3, RequestNoneStarts, DuplicatesFind, DuplicatesSave
  <1>4. ASSUME NEW S \in SUBSET Clients, ServerExit(S)
        PROVE  DuplicatesInv'
    BY <1>0, <1>1, <1>4
    DEF ServerExit, NoneStarts, BackedInv, TypeOK, Unsaved, Counting
  <1>5. CASE UNCHANGED <<hash, mempoolVars>>
    BY <1>1, <1>5 DEF mempoolVars, requestVars, NoneStarts
  <1> QED
    BY <1>2, <1>3, <1>4, <1>5
    DEF Next, MempoolStep, ExpireCache, ExpireIndex, BundlerDropsKeys, vars,
        storeVars

\* No operation ever has more rows than there are overlapping requests; with one
\* request at a time none is added twice (MempoolService.ts:41-56).
THEOREM DuplicatesCorrect == Spec => []DuplicatesAreBounded
  <1>1. Init => DuplicatesInv
    BY BackedInit, CountInit DEF DuplicatesInv
  <1>2. DuplicatesInv => DuplicatesAreBounded
    <2> SUFFICES ASSUME DuplicatesInv, NEW h \in Hashes
                 PROVE  Cardinality(RowsOf(h)) <= Cardinality(Clients)
      BY DEF DuplicatesAreBounded
    <2>1. InFlight(h) \in SUBSET Clients /\ RowsOf(h) \in SUBSET Ids
      BY DEF InFlight, RowsOf
    <2> QED
      BY <2>1, Counts, RowCounts DEF DuplicatesInv, RowsAndRequests
  <1> QED
    BY <1>1, <1>2, DuplicatesStep, PTL DEF Spec

-----------------------------------------------------------------------------
(* The size of the mempool *)

LEMMA SizeKept ==
  ASSUME SizeInv, LocalsInv', NoneAdmitted, CachedHashes' \subseteq CachedHashes
  PROVE  SizeInv'
  <1>1. AdmittedRequests' \subseteq AdmittedRequests
    BY DEF AdmittedRequests, NoneAdmitted
  <1>2. AdmittedRequests \in SUBSET Clients /\ CachedHashes \in SUBSET Hashes
    BY DEF AdmittedRequests, CachedHashes
  <1>3. /\ Cardinality(AdmittedRequests') <= Cardinality(AdmittedRequests)
        /\ Cardinality(CachedHashes') <= Cardinality(CachedHashes)
    BY <1>1, <1>2, Counts, HashCounts, FS_Subset
  <1>4. /\ Cardinality(AdmittedRequests') \in Nat /\ Cardinality(AdmittedRequests) \in Nat
        /\ Cardinality(CachedHashes') \in Nat /\ Cardinality(CachedHashes) \in Nat
        /\ Cardinality(Clients) \in Nat
    BY <1>1, <1>2, Counts, HashCounts
  <1> QED
    BY <1>3, <1>4, MempoolAssumption DEF SizeInv, CachedAndRequests

\* The request that counts the mempool and finds room.
LEMMA SizeCounted ==
  ASSUME SizeInv, LocalsInv', NEW c \in Clients, CountMempool(c), Proceed(c, "conflict")
  PROVE  SizeInv'
  <1> USE DEF SizeInv, LocalsInv
  <1>1. Cardinality(CachedHashes) < MaxMempoolSize
    BY DEF CountMempool, Proceed, Refuse, Reject, Finish, CGo, TypeOK
  <1>2. CachedHashes' = CachedHashes
    BY DEF Proceed, redisVars, CachedHashes
  <1>3. AdmittedRequests' \in SUBSET Clients /\ CachedHashes \in SUBSET Hashes
    BY DEF AdmittedRequests, CachedHashes
  <1>4. /\ Cardinality(AdmittedRequests') <= Cardinality(Clients)
        /\ Cardinality(AdmittedRequests') \in Nat /\ Cardinality(Clients) \in Nat
        /\ Cardinality(CachedHashes) \in Nat
    BY <1>3, Counts, HashCounts
  <1> QED
    BY <1>1, <1>2, <1>4, MempoolAssumption DEF CachedAndRequests

\* The request that caches its operation.
LEMMA SizeAdded ==
  ASSUME SizeInv, LocalsInv', NEW c \in Clients, AddToMempool(c)
  PROVE  SizeInv'
  <1> USE DEF SizeInv, LocalsInv
  <1>0. cpc[c] = "addKeys" /\ op[c] \in Hashes
    BY DEF AddToMempool, CAt, RequestsHaveLocals, Adding
  <1>1. CachedHashes' \subseteq CachedHashes \cup {op[c]}
    BY DEF AddToMempool, AddKeys, redisVars, CachedHashes, TypeOK, StoreTypeOK
  <1>2. AdmittedRequests' = AdmittedRequests \ {c} /\ c \in AdmittedRequests
    BY <1>0 DEF AddToMempool, Finish, CGo, AdmittedRequests, Admitted, TypeOK
  <1>3. AdmittedRequests \in SUBSET Clients /\ CachedHashes \in SUBSET Hashes
    BY DEF AdmittedRequests, CachedHashes
  <1>4. Cardinality(AdmittedRequests') = Cardinality(AdmittedRequests) - 1
    BY <1>2, <1>3, Counts, FS_RemoveElement
  <1>5. /\ IsFiniteSet(CachedHashes \cup {op[c]})
        /\ Cardinality(CachedHashes \cup {op[c]}) <= Cardinality(CachedHashes) + 1
    BY <1>3, HashCounts, FS_AddElement
  <1>6. Cardinality(CachedHashes') <= Cardinality(CachedHashes \cup {op[c]})
    BY <1>1, <1>5, FS_Subset
  <1>7. /\ Cardinality(AdmittedRequests) \in Nat /\ Cardinality(Clients) \in Nat
        /\ Cardinality(CachedHashes) \in Nat /\ Cardinality(CachedHashes') \in Nat
        /\ Cardinality(CachedHashes \cup {op[c]}) \in Nat
    BY <1>0, <1>1, <1>3, Counts, HashCounts
  <1> QED
    BY <1>4, <1>5, <1>6, <1>7, MempoolAssumption DEF CachedAndRequests

\* The other steps of a request admit nothing and cache nothing.
LEMMA RequestNoneAdmitted ==
  ASSUME LocalsInv, NEW c \in Clients, RequestStep(c), ~AddToMempool(c),
         ~(CountMempool(c) /\ Proceed(c, "conflict"))
  PROVE  NoneAdmitted /\ CachedHashes' \subseteq CachedHashes
  <1> USE DEF LocalsInv
  <1>1. CASE Refuse(c) \/ (\E kind : Reject(c, kind))
    BY <1>1 DEF Refuse, Reject, Finish, CGo, redisVars, NoneAdmitted, CachedHashes, TypeOK, Admitted
  <1>2. ASSUME NEW step, Proceed(c, step), cpc[c] \in Admitted \/ step \notin Admitted
        PROVE  NoneAdmitted /\ CachedHashes' \subseteq CachedHashes
    BY <1>2 DEF Proceed, CGo, redisVars, NoneAdmitted, CachedHashes, TypeOK
  <1>3. CASE FindExisting(c)
    BY <1>1, <1>2, <1>3 DEF FindExisting, Counting, Admitted
  <1>4. CASE CountMempool(c)
    BY <1>1, <1>4 DEF CountMempool
  <1>5. CASE CheckConflict(c)
    <2>0. cpc[c] \in Admitted
      BY <1>5 DEF CheckConflict, CAt, Admitted
    <2>1. CASE Proceed(c, "simulate") \/ Reject(c, "redis")
      BY <1>1, <1>2, <2>0, <2>1
    <2>2. CASE CGo(c, "lookup") /\ UNCHANGED redisVars
      BY <2>0, <2>2 DEF CGo, redisVars, NoneAdmitted, CachedHashes, TypeOK
    <2> QED
      BY <1>5, <2>1, <2>2 DEF CheckConflict
  <1>6. CASE LookupRival(c)
    BY <1>1, <1>2, <1>6 DEF LookupRival, CAt, Admitted
  <1>7. CASE EvictRival(c)
    <2>1. CASE Proceed(c, "simulate") \/ Reject(c, "redis") \/ Reject(c, "db")
      BY <1>1, <1>2, <1>7, <2>1 DEF EvictRival, CAt, Admitted
    <2>2. CASE Finish(c) /\ DropKeys(rival[c])
      BY <2>2, KeysDropped DEF Finish, CGo, NoneAdmitted, CachedHashes, TypeOK, Admitted
    <2> QED
      BY <1>7, <2>1, <2>2 DEF EvictRival
  <1>8. CASE SimulateValidation(c)
    BY <1>1, <1>2, <1>8 DEF SimulateValidation, CAt, Admitted
  <1>9. CASE SaveRow(c)
    <2>1. cpc[c] \in Admitted
      BY <1>9 DEF SaveRow, CAt, Admitted
    <2> QED
      BY <1>1, <1>9, <2>1
      DEF SaveRow, Finish, CGo, redisVars, NoneAdmitted, CachedHashes, TypeOK, Admitted
  <1>10. CASE DeleteKeys(c)
    BY <1>10 DEF DeleteKeys, Finish, CGo, NoneAdmitted, CachedHashes, TypeOK, StoreTypeOK, Admitted
  <1> QED
    BY <1>3, <1>4, <1>5, <1>6, <1>7, <1>8, <1>9, <1>10 DEF RequestStep

LEMMA SizeStep == SizeInv /\ [Next]_vars => SizeInv'
  <1> SUFFICES ASSUME SizeInv, [Next]_vars
               PROVE  SizeInv'
    OBVIOUS
  <1>0. LocalsInv /\ LocalsInv'
    BY LocalsStep DEF SizeInv
  <1>1. ASSUME NoneAdmitted, CachedHashes' \subseteq CachedHashes
        PROVE  SizeInv'
    BY <1>0, <1>1, SizeKept
  <1>2. ASSUME NEW c \in Clients, Submit(c) \/ ListKeys(c)
        PROVE  SizeInv'
    BY <1>0, <1>1, <1>2
    DEF Submit, ListKeys, CGo, storeVars, NoneAdmitted, CachedHashes, LocalsInv, TypeOK, Admitted
  <1>3. ASSUME NEW c \in Clients, RequestStep(c)
        PROVE  SizeInv'
    BY <1>0, <1>1, <1>3, RequestNoneAdmitted, SizeCounted, SizeAdded
  <1>4. ASSUME NEW S \in SUBSET Clients, ServerExit(S)
        PROVE  SizeInv'
    BY <1>0, <1>1, <1>4
    DEF ServerExit, redisVars, NoneAdmitted, CachedHashes, LocalsInv, TypeOK, Admitted
  <1>5. ASSUME NEW h, DropKeys(h), UNCHANGED mempoolVars
        PROVE  SizeInv'
    BY <1>0, <1>1, <1>5, KeysDropped
    DEF mempoolVars, NoneAdmitted, CachedHashes, LocalsInv
  <1>6. ASSUME NEW h \in Hashes, ExpireCache(h)
        PROVE  SizeInv'
    BY <1>0, <1>1, <1>6
    DEF ExpireCache, mempoolVars, NoneAdmitted, CachedHashes, LocalsInv, TypeOK, StoreTypeOK
  <1>7. CASE UNCHANGED <<cache, mempoolVars>>
    BY <1>1, <1>7 DEF mempoolVars, NoneAdmitted, CachedHashes
  <1> QED
    BY <1>2, <1>3, <1>4, <1>5, <1>6, <1>7
    DEF Next, MempoolStep, ExpireIndex, BundlerDropsKeys, vars, storeVars, redisVars

\* The mempool never holds MAX_MEMPOOL_SIZE operations and as many more as there are
\* overlapping requests (MempoolService.ts:208-211).
THEOREM OvershootCorrect == Spec => []OvershootIsBounded
  <1>1. Init => SizeInv
    BY LocalsInit, CountInit DEF SizeInv
  <1>2. SizeInv => OvershootIsBounded
    <2>1. AdmittedRequests \in SUBSET Clients /\ CachedHashes \in SUBSET Hashes
      BY DEF AdmittedRequests, CachedHashes
    <2> QED
      BY <2>1, Counts, HashCounts, MempoolAssumption
      DEF SizeInv, CachedAndRequests, OvershootIsBounded
  <1> QED
    BY <1>1, <1>2, SizeStep, PTL DEF Spec

=============================================================================

---------------------------- MODULE ServerProofs ----------------------------
(* What holds of Server for any number of requests and any order of the     *)
(* start, the shutdowns and the health checks.                              *)
EXTENDS Server, TLAPS

-----------------------------------------------------------------------------
(* Health checks *)

\* The step of HealthService each action of Server takes, if any.
LEMMA HealthCases ==
  ASSUME [Next]_vars
  PROVE  \/ UNCHANGED healthVars
         \/ StartChecks
         \/ \E c \in Callers : Probe(c)
         \/ Interval
         \/ TimePasses
         \/ \E c \in Clients : GetStatus(c)
  BY DEF Next, vars, StartStep, ConnectRedis, InitializeDatabase, StartHealth,
         HealthStarted, Listen, StartFails, ShutdownStep, StopBundler, DestroyDatabase,
         DisconnectRedis, ShutdownFails, HealthStep, Request, RedisEvent, SignalHook,
         SignalExit, Killed, ExceptionHook, ExceptionExit

\* A probe follows its checks: past the database Redis has been missed.
RedisMissed == \A c \in Callers :
    check[c].step \notin {"none", "database"} => "redis" \in check[c].failed

HealthInv ==
    /\ HealthTypeOK
    /\ OneCheckAtATime
    /\ RedisMissed
    /\ VerdictFitsChecks
    /\ checkInterval => lastStatus # NoStatus

LEMMA HealthInit_Inv == HealthInit => HealthInv
  <1> SUFFICES ASSUME HealthInit
               PROVE  HealthInv
    OBVIOUS
  <1>1. \A c \in Callers : check[c].step = "none"
    BY DEF HealthInit, Resting
  <1>2. Resting \in [step : Steps \cup {"none"}, verdict : Verdicts, failed : SUBSET Probes]
    BY DEF Resting, Verdicts
  <1>3. HealthTypeOK
    <2>1. check \in [Callers -> [step : Steps \cup {"none"}, verdict : Verdicts,
                                 failed : SUBSET Probes]]
      BY <1>2 DEF HealthInit
    <2>2. answer \in [Clients -> Statuses \cup {NoStatus}]
      BY DEF HealthInit
    <2>3. lastAge \in 0 .. MaxAge
      BY HealthAssumption DEF HealthInit
    <2> QED
      BY <2>1, <2>2, <2>3 DEF HealthInit, HealthTypeOK
  <1>4. OneCheckAtATime /\ RedisMissed
    BY <1>1 DEF HealthInit, OneCheckAtATime, Idle, RedisMissed
  <1> QED
    BY <1>3, <1>4 DEF HealthInit, HealthInv, VerdictFitsChecks

\* Entering checkHealth: the caller probes, or nobody's check moves.
LEMMA EnterKeeps ==
  ASSUME HealthInv, NEW c \in Callers, CheckHealth(c)
  PROVE  /\ isChecking' \in BOOLEAN
         /\ check' \in [Callers -> [step : Steps \cup {"none"}, verdict : Verdicts,
                                    failed : SUBSET Probes]]
         /\ answer' \in [Clients -> Statuses \cup {NoStatus}]
         /\ OneCheckAtATime'
         /\ RedisMissed'
  <1>1. CASE isChecking
    <2>1. (IF lastStatus # NoStatus THEN lastStatus ELSE DefaultStatus("degraded")) \in Statuses
      BY DEF HealthInv, HealthTypeOK, DefaultStatus, Statuses, Verdicts
    <2>2. answer' \in [Clients -> Statuses \cup {NoStatus}]
      BY <1>1, <2>1 DEF CheckHealth, Answer, HealthInv, HealthTypeOK
    <2> QED
      BY <1>1, <2>2 DEF CheckHealth, HealthInv, HealthTypeOK, OneCheckAtATime, Idle, RedisMissed
  <1>2. CASE ~isChecking
    <2>1. check' = [check EXCEPT ![c] = [Resting EXCEPT !.step = "database"]]
          /\ isChecking' = TRUE /\ UNCHANGED answer
      BY <1>2 DEF CheckHealth
    <2>2. [Resting EXCEPT !.step = "database"]
            = [step |-> "database", verdict |-> "healthy", failed |-> {}]
      BY DEF Resting
    <2>3. \A d \in Callers : check[d].step = "none"
      BY <1>2 DEF HealthInv, OneCheckAtATime, Idle
    <2>4. /\ check'[c].step = "database"
          /\ \A d \in Callers : d # c => check'[d].step = "none"
      BY <2>1, <2>2, <2>3 DEF HealthInv, HealthTypeOK
    <2>5. check' \in [Callers -> [step : Steps \cup {"none"}, verdict : Verdicts,
                                  failed : SUBSET Probes]]
      BY <2>1, <2>2 DEF HealthInv, HealthTypeOK, Steps, Probes, Verdicts
    <2>6. OneCheckAtATime'
      BY <2>1, <2>4 DEF OneCheckAtATime, Idle
    <2>7. RedisMissed'
      BY <2>4 DEF RedisMissed
    <2> QED
      BY <2>1, <2>5, <2>6, <2>7 DEF HealthInv, HealthTypeOK
  <1> QED
    BY <1>1, <1>2 DEF HealthInv, HealthTypeOK

\* A probe in the middle of a check: only that check moves, to a later probe.
LEMMA MiddleKeeps ==
  ASSUME HealthInv, NEW c \in Callers,
         NEW bad \in SUBSET Probes, NEW last \in Probes,
         NEW next \in Steps \ {"database"},
         check[c].step # "none",
         check[c].step = "database" => "redis" \in bad,
         check' = [check EXCEPT ![c] = After(c, bad, last, next)],
         UNCHANGED <<isChecking, checkInterval, lastStatus, lastAge, answer>>
  PROVE  HealthInv'
  <1>1. check[c] \in [step : Steps \cup {"none"}, verdict : Verdicts, failed : SUBSET Probes]
    BY DEF HealthInv, HealthTypeOK
  <1>2. After(c, bad, last, next) \in [step : Steps \cup {"none"}, verdict : Verdicts,
                                       failed : SUBSET Probes]
    BY <1>1 DEF After, Blame, Verdicts
  <1>3. After(c, bad, last, next).step = next /\ next # "none"
    BY DEF After, Steps, Probes
  <1>4. "redis" \in After(c, bad, last, next).failed
    BY DEF After, HealthInv, RedisMissed
  <1>5. check' \in [Callers -> [step : Steps \cup {"none"}, verdict : Verdicts,
                                failed : SUBSET Probes]]
    BY <1>2 DEF HealthInv, HealthTypeOK
  <1>6. \A d \in Callers : check'[d] = IF d = c THEN After(c, bad, last, next) ELSE check[d]
    BY DEF HealthInv, HealthTypeOK
  <1>7. \A d \in Callers : check'[d].step = "none" <=> check[d].step = "none"
    BY <1>3, <1>6
  <1>8. OneCheckAtATime'
    BY <1>7 DEF HealthInv, OneCheckAtATime, Idle
  <1>9. RedisMissed'
    BY <1>4, <1>6 DEF HealthInv, RedisMissed
  <1> QED
    BY <1>5, <1>8, <1>9 DEF HealthInv, HealthTypeOK, VerdictFitsChecks, NoStatus

\* The normalised verdict of a check that missed Redis fits its checks.
LEMMA FinalFits ==
  ASSUME NEW failed \in SUBSET Probes, "redis" \in failed, NEW verdict \in Verdicts
  PROVE  LET status == [verdict |-> FinalVerdict(verdict, failed), failed |-> failed]
         IN  status \in Statuses /\ Consistent(status) /\ status # NoStatus
  BY DEF FinalVerdict, Statuses, Verdicts, Consistent, NoStatus

LEMMA ProbeKeeps ==
  ASSUME HealthInv, NEW c \in Callers, Probe(c)
  PROVE  HealthInv'
  <1>1. CASE ProbeDatabase(c)
    <2>1. PICK bad \in {{}, {"database"}} :
             check' = [check EXCEPT ![c] = After(c, bad \cup {"redis"}, "redis", "ethereum")]
      BY <1>1 DEF ProbeDatabase
    <2>2. bad \cup {"redis"} \in SUBSET Probes
      BY DEF Probes
    <2> QED
      BY <1>1, <2>1, <2>2, MiddleKeeps DEF ProbeDatabase, Steps, Probes
  <1>2. CASE ProbeEthereum(c)
    <2>1. PICK bad \in {{}, {"ethereum"}} :
             check' = [check EXCEPT ![c] = After(c, bad, "ethereum", "bundlerBalance")]
      BY <1>2 DEF ProbeEthereum
    <2> QED
      BY <1>2, <2>1, MiddleKeeps DEF ProbeEthereum, Steps, Probes
  <1>3. CASE ProbeBalance(c)
    <2>1. PICK bad \in {{}, {"bundlerBalance"}} :
             check' = [check EXCEPT ![c] = After(c, bad, "bundlerBalance", "entryPointStatus")]
      BY <1>3 DEF ProbeBalance
    <2> QED
      BY <1>3, <2>1, MiddleKeeps DEF ProbeBalance, Steps, Probes
  <1>4. CASE ProbeEntryPoint(c)
    <2>1. PICK bad \in {{}, {"entryPointStatus"}} :
             Publish(c, After(c, bad, "entryPointStatus", "none"))
      BY <1>4 DEF ProbeEntryPoint
    <2> DEFINE done == After(c, bad, "entryPointStatus", "none")
               status == [verdict |-> FinalVerdict(done.verdict, done.failed),
                          failed |-> done.failed]
    <2>2. check[c] \in [step : Steps \cup {"none"}, verdict : Verdicts, failed : SUBSET Probes]
      BY DEF HealthInv, HealthTypeOK
    <2>3. done.verdict \in Verdicts /\ done.failed \in SUBSET Probes
      BY <2>2 DEF After, Blame, Verdicts, Probes
    <2>4. "redis" \in done.failed
      BY <1>4 DEF ProbeEntryPoint, After, HealthInv, RedisMissed
    <2>5. status \in Statuses /\ Consistent(status) /\ status # NoStatus
      BY <2>3, <2>4, FinalFits
    <2>6. lastStatus' = status /\ lastAge' = 0 /\ isChecking' = FALSE /\ Answer(c, status)
      BY <2>1 DEF Publish
    <2>7. check' = [check EXCEPT ![c] = Resting]
      BY <1>4 DEF ProbeEntryPoint
    <2>8. \A d \in Callers : check'[d] = IF d = c THEN Resting ELSE check[d]
      BY <2>7 DEF HealthInv, HealthTypeOK
    <2>9. \A d \in Callers : check'[d].step = "none"
      BY <1>4, <2>8 DEF ProbeEntryPoint, HealthInv, OneCheckAtATime, Idle, Resting
    <2>10. HealthTypeOK'
      <3>1. check' \in [Callers -> [step : Steps \cup {"none"}, verdict : Verdicts,
                                    failed : SUBSET Probes]]
        BY <2>7 DEF HealthInv, HealthTypeOK, Resting, Verdicts
      <3>2. answer' \in [Clients -> Statuses \cup {NoStatus}]
        BY <2>5, <2>6 DEF Answer, HealthInv, HealthTypeOK
      <3>3. checkInterval' \in BOOLEAN
        BY <1>4 DEF ProbeEntryPoint
      <3>4. lastAge' \in 0 .. MaxAge
        BY <2>6, HealthAssumption
      <3> QED
        BY <2>5, <2>6, <3>1, <3>2, <3>3, <3>4 DEF HealthTypeOK
    <2>11. OneCheckAtATime' /\ RedisMissed'
      BY <2>6, <2>9 DEF OneCheckAtATime, Idle, RedisMissed
    <2>12. VerdictFitsChecks' /\ lastStatus' # NoStatus
      BY <2>5, <2>6 DEF VerdictFitsChecks, NoStatus
    <2> QED
      BY <2>10, <2>11, <2>12 DEF HealthInv, NoStatus
  <1> QED
    BY <1>1, <1>2, <1>3, <1>4 DEF Probe

LEMMA HealthStep_Inv == HealthInv /\ [Next]_vars => HealthInv'
  <1> SUFFICES ASSUME HealthInv, [Next]_vars
               PROVE  HealthInv'
    OBVIOUS
  <1>1. CASE UNCHANGED healthVars
    BY <1>1 DEF healthVars, HealthInv, HealthTypeOK, OneCheckAtATime, Idle, RedisMissed,
                VerdictFitsChecks, NoStatus
  <1>2. ASSUME NEW c \in Callers, CheckHealth(c), UNCHANGED checkInterval
        PROVE  HealthInv'
    <2>1. UNCHANGED <<lastStatus, lastAge>>
      BY <1>2 DEF CheckHealth
    <2> QED
      BY <1>2, <2>1, EnterKeeps DEF HealthInv, HealthTypeOK, VerdictFitsChecks, NoStatus
  <1>3. CASE StartChecks \/ Interval
    BY <1>2, <1>3 DEF StartChecks, Interval, Callers
  <1>4. ASSUME NEW c \in Callers, Probe(c)
        PROVE  HealthInv'
    BY <1>4, ProbeKeeps
  <1>5. CASE TimePasses
    <2>1. lastAge' \in 0 .. MaxAge
      BY <1>5, HealthAssumption DEF TimePasses, HealthInv, HealthTypeOK
    <2> QED
      BY <1>5, <2>1 DEF TimePasses, HealthInv, HealthTypeOK, OneCheckAtATime, Idle,
                        RedisMissed, VerdictFitsChecks, NoStatus
  <1>6. ASSUME NEW c \in Clients, GetStatus(c)
        PROVE  HealthInv'
    <2>1. CASE /\ Recent /\ Answer(c, lastStatus)
               /\ UNCHANGED <<isChecking, lastStatus, lastAge, check>>
      <3>1. answer' \in [Clients -> Statuses \cup {NoStatus}]
        BY <2>1 DEF Answer, HealthInv, HealthTypeOK
      <3> QED
        BY <1>6, <2>1, <3>1 DEF GetStatus, HealthInv, HealthTypeOK, OneCheckAtATime, Idle,
                                RedisMissed, VerdictFitsChecks, NoStatus
    <2>2. CASE CheckHealth(c)
      BY <1>2, <1>6, <2>2 DEF GetStatus, Callers
    <2> QED
      BY <1>6, <2>1, <2>2 DEF GetStatus
  <1> QED
    BY <1>1, <1>3, <1>4, <1>5, <1>6, HealthCases

-----------------------------------------------------------------------------
(* The life of the process *)

LifeTypeOK ==
    /\ launcher \in Launchers
    /\ boot \in {"redis", "database", "health", "checking", "listen", "up", "failed"}
    /\ isConnected \in BOOLEAN
    /\ isInitialized \in BOOLEAN
    /\ listening \in BOOLEAN
    /\ hooks \in BOOLEAN
    /\ isRunning \in BOOLEAN
    /\ isShuttingDown \in BOOLEAN
    /\ down \in [Calls -> {"none", "close", "destroy", "disconnect"}]
    /\ exit \in {"no", "zero", "one", "killed"}

\* No shutdown before the start has ended, well or not; a shutdown that has
\* reached the database has stopped the bundler, and nothing starts it again.
LifeInv ==
    /\ LifeTypeOK
    /\ boot \notin {"up", "failed"} => \A w \in Calls : down[w] = "none"
    /\ hooks => boot = "up"
    /\ listening => boot = "up"
    /\ isRunning => boot = "up" /\ isInitialized
    /\ \A w \in Calls : down[w] \in {"destroy", "disconnect"} => ~isRunning
    /\ boot \in {"health", "checking", "listen"} => isInitialized
    /\ boot \in {"listen", "up"} => checkInterval

LEMMA LifeInit == Init => LifeInv
  BY DEF Init, LifeInv, LifeTypeOK

LEMMA LifeStep == LifeInv /\ [Next]_vars => LifeInv'
  <1> SUFFICES ASSUME LifeInv, [Next]_vars
               PROVE  LifeInv'
    OBVIOUS
  <1> USE DEF LifeInv, LifeTypeOK, healthVars
  <1>1. CASE UNCHANGED vars
    BY <1>1 DEF vars, serverVars, bootVars, downVars
  <1>2. CASE ConnectRedis \/ InitializeDatabase \/ HealthStarted \/ Listen
    <2>1. CASE ConnectRedis
      BY <2>1 DEF ConnectRedis, downVars
    <2>2. CASE InitializeDatabase
      BY <2>2 DEF InitializeDatabase, downVars
    <2>3. CASE HealthStarted
      BY <2>3 DEF HealthStarted, downVars
    <2>4. CASE Listen
      BY <2>4 DEF Listen, downVars
    <2> QED
      BY <1>2, <2>1, <2>2, <2>3, <2>4
  <1>3. CASE StartHealth
    BY <1>3 DEF StartHealth, StartChecks, downVars
  <1>4. CASE StartFails
    BY <1>4 DEF StartFails, Shutdown, Calls
  <1>5. ASSUME NEW w \in Calls, ShutdownStep(w)
        PROVE  LifeInv'
    <2>1. CASE StopBundler(w)
      BY <1>5, <2>1 DEF StopBundler
    <2>2. CASE DestroyDatabase(w)
      BY <1>5, <2>2 DEF DestroyDatabase
    <2>3. CASE DisconnectRedis(w)
      BY <1>5, <2>3 DEF DisconnectRedis, Exit, bootVars
    <2>4. CASE ShutdownFails(w)
      BY <1>5, <2>4 DEF ShutdownFails, Exit, bootVars
    <2> QED
      BY <1>5, <2>1, <2>2, <2>3, <2>4 DEF ShutdownStep
  <1>6. CASE HealthStep
    <2>1. checkInterval => checkInterval'
      BY <1>6 DEF HealthStep, Probe, ProbeDatabase, ProbeEthereum, ProbeBalance,
                  ProbeEntryPoint, Interval, TimePasses
    <2> QED
      BY <1>6, <2>1 DEF HealthStep, serverVars, bootVars, downVars
  <1>7. ASSUME NEW c \in Clients, Request(c)
        PROVE  LifeInv'
    BY <1>7 DEF Request, GetStatus, serverVars, bootVars, downVars
  <1>8. CASE RedisEvent \/ SignalExit \/ Killed \/ ExceptionExit
    <2>1. CASE RedisEvent
      BY <2>1 DEF RedisEvent, bootVars, downVars
    <2>2. CASE SignalExit
      BY <2>2 DEF SignalExit, Exit, bootVars
    <2>3. CASE Killed
      BY <2>3 DEF Killed, Exit, bootVars
    <2>4. CASE ExceptionExit
      BY <2>4 DEF ExceptionExit, Exit, bootVars
    <2> QED
      BY <1>8, <2>1, <2>2, <2>3, <2>4
  <1>9. CASE SignalHook
    BY <1>9 DEF SignalHook, Shutdown, Calls
  <1>10. CASE ExceptionHook
    BY <1>10 DEF ExceptionHook, Shutdown, Calls
  <1> QED
    BY <1>1, <1>2, <1>3, <1>4, <1>5, <1>6, <1>7, <1>8, <1>9, <1>10 DEF Next, StartStep

\* A shutdown that is past the database has closed it, and so has one that ended well.
GraceInv ==
    /\ \A w \in Calls : down[w] = "disconnect" => ~isInitialized
    /\ launcher = "embedded" /\ exit = "zero" => ~isRunning /\ ~isInitialized /\ ~isConnected

LEMMA GraceStep ==
  ASSUME LifeInv, GraceInv, [Next]_vars
  PROVE  GraceInv'
  <1> USE DEF GraceInv
  <1>1. CASE UNCHANGED <<launcher, isConnected, isInitialized, isRunning, down, exit>>
    BY <1>1
  <1>2. CASE exit = "no"
    <2>1. CASE StartStep
      <3>1. CASE StartFails
        BY <1>2, <3>1 DEF StartFails, Shutdown, LifeInv, LifeTypeOK, Calls
      <3>2. CASE ~StartFails
        <4>1. \/ ~isInitialized' \/ isInitialized' = isInitialized
              \/ \A w \in Calls : down[w] = "none"
          BY <2>1, <3>2 DEF StartStep, ConnectRedis, InitializeDatabase, StartHealth,
                            HealthStarted, Listen, LifeInv
        <4>2. UNCHANGED <<down, exit>>
          BY <2>1, <3>2 DEF StartStep, ConnectRedis, InitializeDatabase, StartHealth,
                            HealthStarted, Listen, downVars
        <4> QED
          BY <1>2, <4>1, <4>2
      <3> QED
        BY <3>1, <3>2
    <2>2. ASSUME NEW w \in Calls, ShutdownStep(w)
          PROVE  GraceInv'
      <3>1. CASE StopBundler(w)
        BY <1>2, <3>1 DEF StopBundler, LifeInv, LifeTypeOK
      <3>2. CASE DestroyDatabase(w)
        BY <1>2, <3>2 DEF DestroyDatabase, LifeInv, LifeTypeOK
      <3>3. CASE DisconnectRedis(w)
        BY <3>3 DEF DisconnectRedis, Exit, bootVars, LifeInv
      <3>4. CASE ShutdownFails(w)
        BY <3>4 DEF ShutdownFails, Exit, bootVars
      <3> QED
        BY <2>2, <3>1, <3>2, <3>3, <3>4 DEF ShutdownStep
    <2>3. CASE RedisEvent
      BY <1>2, <2>3 DEF RedisEvent, bootVars, downVars
    <2>4. CASE SignalHook \/ ExceptionHook
      BY <1>2, <2>4 DEF SignalHook, ExceptionHook, Shutdown, LifeInv, LifeTypeOK, Calls
    <2>5. CASE SignalExit \/ Killed \/ ExceptionExit
      BY <2>5 DEF SignalExit, Killed, ExceptionExit, Exit, bootVars
    <2>6. CASE HealthStep \/ \E c \in Clients : Request(c)
      BY <1>1, <2>6 DEF HealthStep, Request, serverVars, bootVars, downVars
    <2> QED
      BY <1>1, <2>1, <2>2, <2>3, <2>4, <2>5, <2>6
      DEF Next, vars, serverVars, bootVars, downVars
  <1> QED
    BY <1>1, <1>2 DEF Next, Alive, vars, serverVars, bootVars, downVars

-----------------------------------------------------------------------------
(* Theorems *)

\* A client is answered while the server listens, which is after the first
\* check: the status it gets is the one a check has left.
LEMMA AnswerStep ==
  ASSUME HealthInv, HealthInv', LifeInv, [Next]_vars, ClientsSeeCheckedStatus
  PROVE  ClientsSeeCheckedStatus'
  <1> DEFINE Kept == \A d \in Clients : answer'[d] = answer[d] \/ answer'[d] = lastStatus'
  <1>1. ASSUME NEW c \in Callers, NEW s, Answer(c, s), s = lastStatus'
        PROVE  Kept
    BY <1>1 DEF Answer, HealthInv, HealthTypeOK
  <1>2. Kept
    <2>1. CASE UNCHANGED answer
      BY <2>1
    <2>2. ASSUME NEW c \in {"start", "timer"}, CheckHealth(c)
          PROVE  Kept
      <3>1. c \notin Clients
        BY HealthAssumption
      <3> QED
        BY <2>2, <3>1 DEF CheckHealth, Answer
    <2>3. ASSUME NEW c \in Callers, Probe(c)
          PROVE  Kept
      <3>1. CASE ProbeEntryPoint(c)
        BY <1>1, <3>1 DEF ProbeEntryPoint, Publish
      <3> QED
        BY <2>3, <3>1 DEF Probe, ProbeDatabase, ProbeEthereum, ProbeBalance
    <2>4. ASSUME NEW c \in Clients, Request(c)
          PROVE  Kept
      <3>1. lastStatus # NoStatus
        BY <2>4 DEF Request, LifeInv, HealthInv
      <3>2. CASE Answer(c, lastStatus) /\ UNCHANGED lastStatus
        BY <1>1, <3>2 DEF Callers
      <3> QED
        BY <2>4, <3>1, <3>2 DEF Request, GetStatus, CheckHealth
    <2> QED
      BY <2>1, <2>2, <2>3, <2>4
      DEF Next, vars, healthVars, StartStep, ConnectRedis, InitializeDatabase, StartHealth,
          StartChecks, HealthStarted, Listen, StartFails, ShutdownStep, StopBundler,
          DestroyDatabase, DisconnectRedis, ShutdownFails, HealthStep, Interval, TimePasses,
          RedisEvent, SignalHook, SignalExit, Killed, ExceptionHook, ExceptionExit
  <1> QED
    BY <1>2 DEF ClientsSeeCheckedStatus, HealthInv, VerdictFitsChecks

\* Every variable keeps its type, for any number of requests.
THEOREM TypeCorrect == Spec => []TypeOK
  <1>1. Init => HealthInv /\ LifeInv
    BY HealthInit_Inv, LifeInit DEF Init
  <1>2. HealthInv /\ LifeInv => TypeOK
    BY DEF HealthInv, LifeInv, LifeTypeOK, TypeOK
  <1> QED
    BY <1>1, <1>2, HealthStep_Inv, LifeStep, PTL DEF Spec

\* At most one check probes, however many callers there are.
THEOREM OneCheckCorrect == Spec => []OneCheckAtATime
  <1>1. Init => HealthInv
    BY HealthInit_Inv DEF Init
  <1>2. HealthInv => OneCheckAtATime
    BY DEF HealthInv
  <1> QED
    BY <1>1, <1>2, HealthStep_Inv, PTL DEF Spec

\* No request is ever told a status that no check has found.
THEOREM AnswersCorrect == Spec => []ClientsSeeCheckedStatus
  <1>1. Init => HealthInv /\ LifeInv /\ ClientsSeeCheckedStatus
    BY HealthInit_Inv, LifeInit DEF Init, HealthInit, ClientsSeeCheckedStatus
  <1>2. HealthInv /\ LifeInv /\ ClientsSeeCheckedStatus /\ [Next]_vars
           => (HealthInv /\ LifeInv /\ ClientsSeeCheckedStatus)'
    BY HealthStep_Inv, LifeStep, AnswerStep
  <1> QED
    BY <1>1, <1>2, PTL DEF Spec

\* The bundler never runs on a closed database, in any order of events.
THEOREM DatabaseCorrect == Spec => []BundlerHasDatabase
  <1>1. LifeInv => BundlerHasDatabase
    BY DEF LifeInv, BundlerHasDatabase
  <1> QED
    BY <1>1, LifeInit, LifeStep, PTL DEF Spec

\* The status that is kept tells of its checks what they found, though each failing
\* check overwrites the verdict of the one before (HealthService.ts:93-190).
THEOREM VerdictCorrect == Spec => []VerdictFitsChecks
  <1>1. Init => HealthInv
    BY HealthInit_Inv DEF Init
  <1>2. HealthInv => VerdictFitsChecks
    BY DEF HealthInv
  <1> QED
    BY <1>1, <1>2, HealthStep_Inv, PTL DEF Spec

\* Where the hooks of server.ts get the signal, an exit with code zero leaves nothing
\* open, whatever other call of shutdown() runs beside.
THEOREM GraceCorrect == Spec => []HooksExitGracefully
  <1>1. Init => LifeInv /\ GraceInv
    BY LifeInit DEF Init, GraceInv
  <1>2. LifeInv /\ GraceInv /\ [Next]_vars => (LifeInv /\ GraceInv)'
    BY LifeStep, GraceStep
  <1>3. GraceInv => HooksExitGracefully
    BY DEF GraceInv, HooksExitGracefully, GracefulExit
  <1> QED
    BY <1>1, <1>2, <1>3, PTL DEF Spec

=============================================================================

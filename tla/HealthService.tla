---------------------------- MODULE HealthService ----------------------------
(***************************************************************************)
(* HealthService.ts: one object that probes the database, Redis, the node, *)
(* the signer's balance and the EntryPoint, one await after the other, and *)
(* keeps the last result.  The start-up, the interval timer and any number *)
(* of requests to /health call it at the same time; isChecking keeps all   *)
(* but one of them from probing.  An action ends where the code awaits.    *)
(*                                                                         *)
(* The module has no Next of its own: Server composes it with the process  *)
(* around it.                                                              *)
(***************************************************************************)
EXTENDS Naturals

CONSTANTS
    Clients,    \* requests to /health and /ready that may overlap (a bound)
    MaxAge      \* the age of a status is counted up to here, in halves of
                \* healthCheck.intervalMs

ASSUME HealthAssumption ==
    /\ Clients \cap {"start", "timer"} = {}
    /\ MaxAge \in Nat \ {0}

VARIABLES
    isChecking,
    checkInterval,  \* the timer has been set
    lastStatus,     \* NoStatus until a check has ended
    lastAge,        \* the time since lastCheck
    check,          \* the invocation of checkHealth each caller is in
    answer          \* what a request was last answered

healthVars == <<isChecking, checkInterval, lastStatus, lastAge, check, answer>>

Callers == Clients \cup {"start", "timer"}
Probes == {"database", "redis", "ethereum", "bundlerBalance", "entryPointStatus"}
Verdicts == {"healthy", "degraded", "unhealthy"}
Steps == Probes \ {"redis"}

\* A status: the verdict and the checks that are false.
Statuses == [verdict : Verdicts, failed : SUBSET Probes]
NoStatus == [verdict |-> "none", failed |-> {}]
DefaultStatus(v) == [verdict |-> v, failed |-> Probes]

Resting == [step |-> "none", verdict |-> "healthy", failed |-> {}]

HealthTypeOK ==
    /\ isChecking \in BOOLEAN
    /\ checkInterval \in BOOLEAN
    /\ lastStatus \in Statuses \cup {NoStatus}
    /\ lastAge \in 0..MaxAge
    /\ check \in [Callers -> [step : Steps \cup {"none"}, verdict : Verdicts,
                              failed : SUBSET Probes]]
    /\ answer \in [Clients -> Statuses \cup {NoStatus}]

HealthInit ==
    /\ isChecking = FALSE
    /\ checkInterval = FALSE
    /\ lastStatus = NoStatus
    /\ lastAge = MaxAge
    /\ check = [c \in Callers |-> Resting]
    /\ answer = [c \in Clients |-> NoStatus]

Idle(c) == check[c].step = "none"

\* What request c is told; the start-up and the timer drop the result.
Answer(c, status) ==
    answer' = IF c \in Clients THEN [answer EXCEPT ![c] = status] ELSE answer

-----------------------------------------------------------------------------
(* checkHealth *)

\* Mutant: the guard on isChecking is dropped.
CheckUnguarded(c) ==
    /\ Idle(c)
    /\ isChecking' = TRUE
    /\ check' = [check EXCEPT ![c] = [Resting EXCEPT !.step = "database"]]
    /\ UNCHANGED <<lastStatus, lastAge, answer>>

\* While somebody probes, the caller gets the last status at once, whatever
\* its age.
CheckHealth(c) ==
    /\ Idle(c)
    /\ \/ /\ isChecking
          /\ Answer(c, IF lastStatus # NoStatus THEN lastStatus
                       ELSE DefaultStatus("degraded"))
          /\ UNCHANGED <<isChecking, check>>
       \/ /\ ~isChecking
          /\ isChecking' = TRUE
          /\ check' = [check EXCEPT ![c] = [Resting EXCEPT !.step = "database"]]
          /\ UNCHANGED answer
    /\ UNCHANGED <<lastStatus, lastAge>>

\* Mutant: the name of the failing check is stored as the verdict.
BlameByName(p) == p

\* The verdict the catch block of a check assigns, over whatever was there.
Blame(p) == IF p \in {"ethereum", "entryPointStatus"} THEN "unhealthy" ELSE "degraded"

\* The invocation of c after the checks in `bad' failed: the verdict is the
\* one the last of them, `last', assigned.
After(c, bad, last, next) ==
    [step |-> next,
     verdict |-> IF bad = {} THEN check[c].verdict ELSE Blame(last),
     failed |-> check[c].failed \cup bad]

\* The database answers or not.  redisService has no method ping: the call
\* throws without an await, is caught, and the check of Redis always fails.
ProbeDatabase(c) ==
    /\ check[c].step = "database"
    /\ \E bad \in {{}, {"database"}} :
          check' = [check EXCEPT ![c] = After(c, bad \cup {"redis"}, "redis", "ethereum")]
    /\ UNCHANGED <<isChecking, checkInterval, lastStatus, lastAge, answer>>

ProbeEthereum(c) ==
    /\ check[c].step = "ethereum"
    /\ \E bad \in {{}, {"ethereum"}} :
          check' = [check EXCEPT ![c] = After(c, bad, "ethereum", "bundlerBalance")]
    /\ UNCHANGED <<isChecking, checkInterval, lastStatus, lastAge, answer>>

\* A balance below the minimum and a failing call count alike.
ProbeBalance(c) ==
    /\ check[c].step = "bundlerBalance"
    /\ \E bad \in {{}, {"bundlerBalance"}} :
          check' = [check EXCEPT ![c] = After(c, bad, "bundlerBalance", "entryPointStatus")]
    /\ UNCHANGED <<isChecking, checkInterval, lastStatus, lastAge, answer>>

\* Mutant: the verdict the catch blocks left behind is kept.
VerdictOfLastFailure(verdict, failed) == verdict

\* "Update status based on checks".
FinalVerdict(verdict, failed) ==
    IF failed \cap {"ethereum", "entryPointStatus"} # {} THEN "unhealthy"
    ELSE IF failed \cap {"database", "redis", "bundlerBalance"} # {} THEN "degraded"
    ELSE verdict

\* Mutant: the early exit of the check leaves isChecking set.
PublishStillChecking(c, done) ==
    LET status == [verdict |-> FinalVerdict(done.verdict, done.failed),
                   failed |-> done.failed] IN
    /\ lastStatus' = status
    /\ lastAge' = 0
    /\ Answer(c, status)
    /\ UNCHANGED isChecking

\* The end of a check: the result is kept and the finally block runs.
Publish(c, done) ==
    LET status == [verdict |-> FinalVerdict(done.verdict, done.failed),
                   failed |-> done.failed] IN
    /\ lastStatus' = status
    /\ lastAge' = 0
    /\ isChecking' = FALSE
    /\ Answer(c, status)

\* The last probe; start() goes on to set the timer.
ProbeEntryPoint(c) ==
    /\ check[c].step = "entryPointStatus"
    /\ \E bad \in {{}, {"entryPointStatus"}} :
          Publish(c, After(c, bad, "entryPointStatus", "none"))
    /\ check' = [check EXCEPT ![c] = Resting]
    /\ checkInterval' = (checkInterval \/ c = "start")

Probe(c) ==
    \/ ProbeDatabase(c)
    \/ ProbeEthereum(c)
    \/ ProbeBalance(c)
    \/ ProbeEntryPoint(c)

-----------------------------------------------------------------------------
(* Its callers *)

\* start(), called once by the server: the first check precedes the timer.
StartChecks ==
    /\ ~checkInterval
    /\ CheckHealth("start")
    /\ UNCHANGED checkInterval

\* The timer fires.
Interval ==
    /\ checkInterval
    /\ CheckHealth("timer")
    /\ UNCHANGED checkInterval

\* A status is recent for half of intervalMs.
Recent == lastStatus # NoStatus /\ lastAge = 0

\* GET /health and GET /ready.
GetStatus(c) ==
    /\ Idle(c)
    /\ \/ /\ Recent
          /\ Answer(c, lastStatus)
          /\ UNCHANGED <<isChecking, lastStatus, lastAge, check>>
       \/ ~Recent /\ CheckHealth(c)
    /\ UNCHANGED checkInterval

\* Half of intervalMs passes.
TimePasses ==
    /\ lastAge < MaxAge
    /\ lastAge' = lastAge + 1
    /\ UNCHANGED <<isChecking, checkInterval, lastStatus, check, answer>>

-----------------------------------------------------------------------------
(* Properties *)

\* Whoever calls checkHealth, and in whatever order, one invocation probes at
\* a time, and isChecking is set exactly while it does: a second one would
\* publish its older result over a newer one.
OneCheckAtATime ==
    /\ \A c, d \in Callers : ~Idle(c) /\ ~Idle(d) => c = d
    /\ isChecking <=> \E c \in Callers : ~Idle(c)

\* The verdict fits the checks beside it.
Consistent(status) ==
    /\ status.verdict = "unhealthy" <=> status.failed \cap {"ethereum", "entryPointStatus"} # {}
    /\ status.verdict = "healthy" <=> status.failed = {}

\* The five checks overwrite each other's verdict in the order they fail: a
\* low balance must not turn the "unhealthy" of a dead node into "degraded".
\* The status that is kept agrees with all of its checks.
VerdictFitsChecks == lastStatus # NoStatus => Consistent(lastStatus)

=============================================================================

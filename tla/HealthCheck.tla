---------------------------- MODULE HealthCheck ----------------------------
(***************************************************************************)
(* RunService.healthCheck: read docker-compose.yml, look at the             *)
(* certificates, then poll (module Poll) with a check of every service:     *)
(* `docker ps` is read once, then, all at the same time, the ports of every *)
(* container that it lists are tried, and behind an open port of a REST     *)
(* gateway its /node/health. The network comes up meanwhile.                *)
(***************************************************************************)
EXTENDS Poll

CONSTANTS
    Services,   \* the services of docker-compose.yml
    Ports,      \* the ports they expose
    ServiceOf,  \* ServiceOf[p]: the service that exposes p
    Gateways    \* the services that are REST gateways

ASSUME HealthAssumption ==
    /\ ServiceOf \in [Ports -> Services]
    /\ Gateways \subseteq Services

VARIABLES
    outcome,    \* "files", "polling" or how the command ended otherwise
    steady,     \* the time from which every service is up for good; before it
                \* each of them comes and goes
    asked,      \* docker ps has been answered in this check
    listed,     \* ... with these services
    answer      \* answer[p]: "none", "open", "ok" or "failed"

checkVars == <<asked, listed, answer>>
healthVars == <<vars, outcome, steady, checkVars>>

NoAnswer == [p \in Ports |-> "none"]

HealthTypeOK ==
    /\ outcome \in {"files", "polling", "nothing", "refused", "noDocker"}
    /\ steady \in Nat
    /\ asked \in BOOLEAN
    /\ listed \subseteq Services
    /\ answer \in [Ports -> {"none", "open", "ok", "failed"}]

HealthInit ==
    /\ Init
    /\ outcome = "files"
    /\ steady \in 0..MaxNow
    /\ asked = FALSE /\ listed = {} /\ answer = NoAnswer

-----------------------------------------------------------------------------
\* Without a docker-compose.yml nothing is checked, which is no error; with a
\* certificate that is about to expire, or cannot be read, the command fails.
ReadFiles ==
    /\ outcome = "files"
    /\ outcome' \in {"nothing", "refused", "polling"}
    /\ UNCHANGED <<vars, steady, checkVars>>

Checking == outcome = "polling" /\ phase = "checking"

\* docker ps.
ListContainers ==
    /\ Checking /\ ~asked
    /\ asked' = TRUE
    /\ \E running \in SUBSET Services :
         /\ now >= steady => running = Services
         /\ listed' = running
    /\ UNCHANGED <<vars, outcome, steady, answer>>

\* docker ps fails: an exception, which no retry catches.
NoDocker ==
    /\ Checking /\ ~asked
    /\ outcome' = "noDocker"
    /\ UNCHANGED <<vars, steady, checkVars>>

Answer(p, results) ==
    /\ \E r \in results : answer' = [answer EXCEPT ![p] = r]
    /\ UNCHANGED <<vars, outcome, steady, asked, listed>>

\* PortService.isReachable.
TryPort(p) ==
    /\ Checking /\ ServiceOf[p] \in listed /\ answer[p] = "none"
    /\ Answer(p, {IF ServiceOf[p] \in Gateways THEN "open" ELSE "ok"}
                 \cup (IF now >= steady THEN {} ELSE {"failed"}))

\* getNodeHealth: the api node or the database is down, or the request fails.
AskGateway(p) ==
    /\ Checking /\ answer[p] = "open"
    /\ Answer(p, {"ok"} \cup (IF now >= steady THEN {} ELSE {"failed"}))

AnsweredEvery ==  \* mutant: waits for the ports of containers that do not run
    asked /\ \A p \in Ports : answer[p] \in {"ok", "failed"}
Answered == asked /\ \A p \in Ports : ServiceOf[p] \in listed => answer[p] \in {"ok", "failed"}
AllUp == listed = Services /\ \A p \in Ports : answer[p] = "ok"

\* Mutant: docker is asked once, before polling.
EndCheckListedOnce ==
    /\ Checking /\ Answered
    /\ IF AllUp THEN AnswerUp ELSE AnswerDown
    /\ answer' = NoAnswer
    /\ UNCHANGED <<outcome, steady, asked, listed>>

\* Every service has been checked: poll goes on with the result.
EndCheck ==
    /\ Checking /\ Answered
    /\ IF AllUp THEN AnswerUp ELSE AnswerDown
    /\ asked' = FALSE /\ listed' = {} /\ answer' = NoAnswer
    /\ UNCHANGED <<outcome, steady>>

Timing ==
    /\ outcome = "polling"
    /\ Tick \/ Interrupt \/ Wake
    /\ UNCHANGED <<outcome, steady, checkVars>>

Requests == ListContainers \/ \E p \in Ports : TryPort(p) \/ AskGateway(p)

HealthNext == ReadFiles \/ Requests \/ NoDocker \/ EndCheck \/ Timing

HealthSpec == HealthInit /\ [][HealthNext]_healthVars

\* Time passes and timers fire; every request is answered or fails in the end.
FairHealthSpec ==
    /\ HealthSpec
    /\ WF_healthVars(ReadFiles) /\ WF_healthVars(Requests) /\ WF_healthVars(EndCheck)
    /\ WF_healthVars(outcome = "polling" /\ Tick /\ UNCHANGED <<outcome, steady, checkVars>>)
    /\ WF_healthVars(outcome = "polling" /\ Wake /\ UNCHANGED <<outcome, steady, checkVars>>)

-----------------------------------------------------------------------------
\* A network that is up an interval and a second before the timeout is reported
\* as running, unless the user interrupts: although a check sees its services at
\* different times, takes any time and the clock wraps, no slow start is given up
\* too early, and nothing seen in an earlier check counts.
SteadyIsNoticed == phase = "failed" /\ ~stopping => steady + Interval + Second - 1 > Timeout

\* The health check comes to an end, although the wrapping clock may add time
\* to what is left.
HealthCheckEnds == <>(outcome \notin {"files", "polling"} \/ phase \in {"up", "failed"})
=============================================================================

----------------------------- MODULE PollProofs -----------------------------
(***************************************************************************)
(* Proofs about Poll and HealthCheck for every timeout, interval and length *)
(* of the second, and all services: the wrapping clock never makes polling  *)
(* give up early, nor does a check of services that are coming up.          *)
(***************************************************************************)
EXTENDS HealthCheck, TLAPS

\* The difference of two milliseconds is at most the time that passed, so the
\* time left never falls behind the timeout.
Budget ==
    /\ phase = "checking" =>
         millis - startTime <= lasted /\ remaining >= Timeout - (now - lasted)
    /\ phase = "sleeping" =>
         remaining >= Timeout - (now - lasted) - Interval

Inv == TypeOK /\ Budget /\ GivesUpOnlyWhenDue

LEMMA InitInv == Init => Inv
<1> SUFFICES ASSUME Init PROVE Inv
  OBVIOUS
<1>1. TypeOK
  BY PollAssumption DEF Init, TypeOK
<1>2. millis \in Int /\ startTime = millis /\ lasted = 0 /\ now = 0 /\ remaining = Timeout
  BY PollAssumption DEF Init
<1> QED
  BY <1>1, <1>2, PollAssumption DEF Init, Inv, Budget, GivesUpOnlyWhenDue

LEMMA InvStep == Inv /\ [Next]_vars => Inv'
<1> SUFFICES ASSUME Inv, [Next]_vars PROVE Inv'
  OBVIOUS
<1> USE PollAssumption DEF Inv, TypeOK, Budget, GivesUpOnlyWhenDue
<1>1. CASE Tick
  BY <1>1 DEF Tick
<1>2. CASE Interrupt
  BY <1>2 DEF Interrupt
<1>3. CASE AnswerUp
  BY <1>3 DEF AnswerUp
<1>4. CASE AnswerDown
  <2>1. /\ NewPollingTime \in Nat
        /\ NewPollingTime >= remaining - Interval - (millis - startTime)
    BY DEF NewPollingTime
  <2> QED
    BY <1>4, <2>1 DEF AnswerDown
<1>5. CASE Wake
  BY <1>5 DEF Wake
<1>6. CASE UNCHANGED vars
  BY <1>6 DEF vars
<1> QED
  BY <1>1, <1>2, <1>3, <1>4, <1>5, <1>6 DEF Next

\* Type correctness: the time left is never negative.
THEOREM TypeCorrect == Spec => []TypeOK
<1>1. Inv => TypeOK
  BY DEF Inv
<1> QED
  BY InitInv, InvStep, <1>1, PTL DEF Spec

\* Polling that was not interrupted gives up only when the next check would
\* come after the timeout.
THEOREM NeverGivesUpEarly == Spec => []GivesUpOnlyWhenDue
<1>1. Inv => GivesUpOnlyWhenDue
  BY DEF Inv
<1> QED
  BY InitInv, InvStep, <1>1, PTL DEF Spec

-----------------------------------------------------------------------------
(* HealthCheck. *)

\* Where the parts of a check are.
Placed ==
    /\ asked => outcome = "polling" /\ phase = "checking"
    /\ ~asked => listed = {} /\ answer = NoAnswer

\* What was seen down in a check was not yet up when the check began.
Seen ==
    asked /\ (listed # Services \/ \E p \in Ports : answer[p] = "failed") => steady > now - lasted

HealthInv == HealthTypeOK /\ Inv /\ Placed /\ Seen /\ SteadyIsNoticed

LEMMA HealthInitInv == HealthInit => HealthInv
<1> SUFFICES ASSUME HealthInit PROVE HealthInv
  OBVIOUS
<1>1. Inv /\ phase = "checking"
  BY InitInv DEF HealthInit, Init
<1>2. steady \in Nat /\ outcome = "files" /\ asked = FALSE /\ listed = {} /\ answer = NoAnswer
  BY PollAssumption DEF HealthInit
<1>3. HealthTypeOK
  BY <1>2 DEF HealthTypeOK, NoAnswer
<1>4. Placed /\ Seen /\ SteadyIsNoticed
  BY <1>1, <1>2 DEF Placed, Seen, SteadyIsNoticed
<1> QED
  BY <1>1, <1>3, <1>4 DEF HealthInv

\* Every step of the health check is one of poll, or none of its business.
LEMMA ImplementsPoll == [HealthNext]_healthVars => [Next]_vars
BY DEF HealthNext, healthVars, Next, ReadFiles, Requests, ListContainers, NoDocker, TryPort,
       AskGateway, Answer, EndCheck, Timing

LEMMA HealthTypeStep ==
    ASSUME HealthTypeOK, [HealthNext]_healthVars
    PROVE  HealthTypeOK'
<1> USE HealthAssumption DEF HealthTypeOK
<1>1. CASE ReadFiles \/ NoDocker
  BY <1>1 DEF ReadFiles, NoDocker, checkVars
<1>2. CASE ListContainers
  BY <1>2 DEF ListContainers
<1>3. ASSUME NEW p \in Ports, TryPort(p) \/ AskGateway(p) PROVE HealthTypeOK'
  BY <1>3 DEF TryPort, AskGateway, Answer
<1>4. CASE EndCheck
  BY <1>4 DEF EndCheck, NoAnswer
<1>5. CASE Timing \/ UNCHANGED healthVars
  BY <1>5 DEF Timing, healthVars, checkVars
<1> QED
  BY <1>1, <1>2, <1>3, <1>4, <1>5 DEF HealthNext, Requests

LEMMA HealthStep ==
    ASSUME HealthInv, [HealthNext]_healthVars, Inv'
    PROVE  Placed' /\ Seen' /\ SteadyIsNoticed'
<1>0. /\ now \in Nat /\ lasted \in Nat /\ steady \in Nat /\ now' \in Nat /\ lasted' \in Nat
      /\ phase = "failed" /\ ~stopping => steady + Interval + Second - 1 > Timeout
  BY DEF HealthInv, HealthTypeOK, Inv, TypeOK, SteadyIsNoticed
<1> USE DEF HealthInv
<1>1. CASE ReadFiles \/ NoDocker
  BY <1>1 DEF ReadFiles, NoDocker, checkVars, vars, Placed, Seen, SteadyIsNoticed
<1>2. CASE ListContainers
  <2>1. UNCHANGED vars /\ asked' /\ UNCHANGED <<outcome, steady, answer>> /\ answer = NoAnswer
    BY <1>2 DEF ListContainers, Placed
  <2>2. listed' # Services => steady > now
    BY <1>0, <1>2 DEF ListContainers
  <2> QED
    BY <1>0, <1>2, <2>1, <2>2
       DEF ListContainers, Checking, Placed, Seen, NoAnswer, SteadyIsNoticed, vars
<1>3. ASSUME NEW p \in Ports, TryPort(p) \/ AskGateway(p) PROVE Placed' /\ Seen' /\ SteadyIsNoticed'
  <2>1. /\ UNCHANGED vars /\ UNCHANGED <<outcome, steady, asked, listed>>
        /\ \A q \in Ports : answer'[q] # answer[q] => q = p
        /\ answer'[p] = "failed" => steady > now
    BY <1>0, <1>3 DEF TryPort, AskGateway, Answer, HealthTypeOK
  <2>2. asked
    BY <1>3 DEF TryPort, AskGateway, Placed, NoAnswer
  <2> QED
    BY <1>0, <2>1, <2>2 DEF Placed, Seen, SteadyIsNoticed, vars
<1>4. CASE EndCheck
  <2>1. ~asked' /\ listed' = {} /\ answer' = NoAnswer /\ steady' = steady
    BY <1>4 DEF EndCheck
  <2>2. ASSUME phase' = "failed", ~stopping' PROVE steady + Interval + Second - 1 > Timeout
    <3>1. /\ ~AllUp /\ AnswerDown /\ Answered /\ phase = "checking"
      BY <1>4, <2>2 DEF EndCheck, AnswerUp, Checking
    <3>2. NewPollingTime = 0
      BY <2>2, <3>1 DEF AnswerDown
    <3>3. listed # Services \/ \E p \in Ports : answer[p] = "failed"
      BY <3>1, HealthAssumption DEF AllUp, Answered
    <3>4. steady > now - lasted
      BY <3>1, <3>3 DEF Seen, Answered
    <3>5. remaining >= Timeout - (now - lasted)
      BY <3>1 DEF Inv, Budget
    <3>6. /\ millis \in 0..(Second - 1) /\ startTime \in 0..(Second - 1) /\ remaining \in Nat
      BY DEF Inv, TypeOK
    <3>7. remaining - Interval - (millis - startTime) <= 0
      BY <3>2, <3>6, PollAssumption DEF NewPollingTime
    <3> QED
      BY <1>0, <3>4, <3>5, <3>6, <3>7, PollAssumption
  <2> QED
    BY <2>1, <2>2 DEF Placed, Seen, SteadyIsNoticed
<1>5. CASE Timing
  <2>1. UNCHANGED <<outcome, steady, asked, listed, answer>> /\ outcome = "polling"
    BY <1>5 DEF Timing, checkVars
  <2>2. CASE Tick
    <3>1. UNCHANGED <<phase, stopping>> /\ now' - lasted' = now - lasted
      BY <1>0, <2>2 DEF Tick
    <3> QED
      BY <1>0, <2>1, <3>1 DEF Placed, Seen, SteadyIsNoticed
  <2>4. CASE Interrupt
    BY <1>0, <2>1, <2>4 DEF Interrupt, Placed, Seen, SteadyIsNoticed
  <2>3. CASE Wake
    BY <1>0, <2>1, <2>3 DEF Wake, Placed, Seen, SteadyIsNoticed
  <2> QED
    BY <1>5, <2>2, <2>3, <2>4 DEF Timing
<1>6. CASE UNCHANGED healthVars
  BY <1>6 DEF healthVars, checkVars, vars, Placed, Seen, SteadyIsNoticed
<1> QED
  BY <1>1, <1>2, <1>3, <1>4, <1>5, <1>6 DEF HealthNext, Requests

\* The health check is type correct, for all services and ports.
THEOREM HealthTypeCorrect == HealthSpec => []HealthTypeOK
<1>1. HealthTypeOK /\ [HealthNext]_healthVars => HealthTypeOK'
  BY HealthTypeStep
<1>2. HealthInit => HealthTypeOK
  BY HealthInitInv DEF HealthInv
<1> QED
  BY <1>1, <1>2, PTL DEF HealthSpec

\* A network that is up an interval and a second before the timeout is reported
\* as running, however long the checks take.
THEOREM SteadyNetworksAreNoticed == HealthSpec => []SteadyIsNoticed
<1>1. HealthInv /\ [HealthNext]_healthVars => HealthInv'
  BY InvStep, ImplementsPoll, HealthTypeStep, HealthStep DEF HealthInv
<1>2. HealthInv => SteadyIsNoticed
  BY DEF HealthInv
<1> QED
  BY HealthInitInv, <1>1, <1>2, PTL DEF HealthSpec
=============================================================================

-------------------------------- MODULE Poll --------------------------------
(***************************************************************************)
(* AsyncUtils.poll, with which the health check waits for the services of   *)
(* a network: check, sleep pollIntervalMs, check again, until the time left *)
(* is used up. The time left is reckoned from Date.getMilliseconds(), which *)
(* is the millisecond within the second: a clock that wraps.                *)
(***************************************************************************)
EXTENDS Integers

CONSTANTS
    Second,     \* milliseconds in a second: where getMilliseconds wraps
    Timeout,    \* totalPollingTime of the first call
    Interval,   \* pollIntervalMs
    MaxCheck,   \* bound: the longest a check takes
    MaxNow      \* bound: the time explored, more than any polling takes

\* healthCheck polls every ten seconds.
ASSUME PollAssumption ==
    /\ Second \in Nat \ {0}
    /\ Timeout \in Nat
    /\ Interval \in Nat /\ Interval >= Second
    /\ MaxCheck \in Nat
    /\ MaxNow \in Nat

VARIABLES
    phase,      \* "checking", "sleeping", "up" or "failed"
    millis,     \* what getMilliseconds returns now
    startTime,  \* startTime of the current check
    remaining,  \* totalPollingTime of the current call
    stopping,   \* AsyncUtils.stopProcess
    now,        \* the time since the first call
    lasted      \* the time since the phase began

vars == <<phase, millis, startTime, remaining, stopping, now, lasted>>

TypeOK ==
    /\ phase \in {"checking", "sleeping", "up", "failed"}
    /\ millis \in 0..(Second - 1)
    /\ startTime \in 0..(Second - 1)
    /\ remaining \in Nat
    /\ stopping \in BOOLEAN
    /\ now \in Nat
    /\ lasted \in Nat

Init ==
    /\ phase = "checking"
    /\ millis \in 0..(Second - 1)
    /\ startTime = millis
    /\ remaining = Timeout
    /\ stopping = FALSE
    /\ now = 0
    /\ lasted = 0

\* A millisecond passes while a check is being answered or the timer runs.
Tick ==
    /\ \/ phase = "checking" /\ lasted < MaxCheck
       \/ phase = "sleeping" /\ lasted < Interval
    /\ now < MaxNow
    /\ millis' = IF millis = Second - 1 THEN 0 ELSE millis + 1
    /\ now' = now + 1
    /\ lasted' = lasted + 1
    /\ UNCHANGED <<phase, startTime, remaining, stopping>>

\* SIGINT only sets a flag.
Interrupt ==
    /\ phase \in {"checking", "sleeping"}
    /\ stopping' = TRUE
    /\ UNCHANGED <<phase, millis, startTime, remaining, now, lasted>>

\* The check finds every service running.
AnswerUp ==
    /\ phase = "checking"
    /\ phase' = "up"
    /\ UNCHANGED <<millis, startTime, remaining, stopping, now, lasted>>

NewPollingTimeTwice ==  \* mutant: the interval is taken off twice
    LET left == remaining - 2 * Interval - (millis - startTime)
    IN  IF left > 0 THEN left ELSE 0

NewPollingTime ==
    LET left == remaining - Interval - (millis - startTime)
    IN  IF left > 0 THEN left ELSE 0

\* The check fails: poll gives up, or sleeps before the next call.
AnswerDown ==
    /\ phase = "checking"
    /\ IF stopping \/ NewPollingTime = 0
       THEN phase' = "failed" /\ UNCHANGED <<remaining, lasted>>
       ELSE /\ phase' = "sleeping"
            /\ remaining' = NewPollingTime
            /\ lasted' = 0
    /\ UNCHANGED <<millis, startTime, stopping, now>>

\* The timer fires and poll calls itself.
Wake ==
    /\ phase = "sleeping" /\ lasted = Interval
    /\ phase' = "checking"
    /\ startTime' = millis
    /\ lasted' = 0
    /\ UNCHANGED <<millis, remaining, stopping, now>>

Next == Tick \/ Interrupt \/ AnswerUp \/ AnswerDown \/ Wake

Spec == Init /\ [][Next]_vars

\* Time passes, timers fire and a check, whose requests fail in the end, is
\* answered.
FairSpec == Spec /\ WF_vars(Tick) /\ WF_vars(AnswerUp \/ AnswerDown) /\ WF_vars(Wake)

-----------------------------------------------------------------------------
\* Polling gives up only if the next check would start after the timeout or
\* the user interrupted it: however the clock wraps during checks of any
\* length, a service that is slow to start gets all of its time.
GivesUpOnlyWhenDue == phase = "failed" => stopping \/ now + Interval >= Timeout

\* "--timeout: how long before timing out (in milliseconds)": no check starts
\* once the timeout has passed.
TimesOut == [][Wake => now <= Timeout]_vars
=============================================================================

---------------------------- MODULE StartScript ----------------------------
(***************************************************************************)
(* The start script of a node's two containers (config/docker/server/       *)
(* start.sh): the server and its broker share the node's data folder and    *)
(* coordinate recovery after a crash with flag files in it.                 *)
(*                                                                         *)
(*   <a>.lock              made by catapult while it runs (external)        *)
(*   <a>.started           the script of <a> is about to run, or runs, <a>  *)
(*   <a>-recovery.started  the script of <a> wants to run, or runs,         *)
(*                         catapult.recovery                                *)
(*                                                                         *)
(* Every test, touch and rm of a flag is a step of its own. Containers are  *)
(* killed, stopped and started by docker (external) with the restart policy *)
(* `on-failure:<MaxRestarts>` of ComposeService.                            *)
(***************************************************************************)
EXTENDS Naturals

CONSTANTS
    MaxRestarts,  \* the retries of the restart policy
    MaxCrashes,   \* bound: crashes of a container, an application or a recovery
    MaxStops      \* bound: times the user stops a container

ASSUME StartAssumption ==
    MaxRestarts \in Nat /\ MaxCrashes \in Nat /\ MaxStops \in Nat

Apps == {"server", "broker"}
Other(a) == IF a = "server" THEN "broker" ELSE "server"

\* waitForOther: ComposeService passes it to the server of a node with a broker.
WaitsForOther(a) == a = "server"

VARIABLES
    pc,        \* pc[a]: where the script of a is
    lock,      \* the applications with a .lock file
    started,   \* ... with a .started file
    recovery,  \* ... with a -recovery.started file
    alive,     \* the applications whose process runs
    errexit,   \* the scripts with `set -e` in force
    failed,    \* the applications whose process ended with a non-zero status
    restarts,  \* restarts[a]: retries docker has used
    crashes, stops

vars == <<pc, lock, started, recovery, alive, errexit, failed, restarts, crashes, stops>>
flags == <<lock, started, recovery>>
docker == <<restarts, crashes, stops>>

Labels == {"stopped", "exited", "boot", "waitRecovery", "checkLock", "waitOther",
           "recover", "recovering", "recovered", "waitStarted", "touch", "launch", "monitor"}

TypeOK ==
    /\ pc \in [Apps -> Labels]
    /\ lock \in SUBSET Apps
    /\ started \in SUBSET Apps
    /\ recovery \in SUBSET Apps
    /\ alive \in SUBSET Apps
    /\ errexit \in SUBSET Apps
    /\ failed \in SUBSET Apps
    /\ restarts \in [Apps -> 0..MaxRestarts]
    /\ crashes \in 0..MaxCrashes
    /\ stops \in 0..MaxStops

Init ==
    /\ pc = [a \in Apps |-> "stopped"]
    /\ lock = {} /\ started = {} /\ recovery = {}
    /\ alive = {} /\ errexit = {} /\ failed = {}
    /\ restarts = [a \in Apps |-> 0]
    /\ crashes = 0 /\ stops = 0

Goto(a, label) == pc' = [pc EXCEPT ![a] = label]

-----------------------------------------------------------------------------
\* docker-compose up starts a container that is not running (RunService.run).
Up(a) ==
    /\ pc[a] \in {"stopped", "exited"}
    /\ Goto(a, "boot")
    /\ restarts' = [restarts EXCEPT ![a] = 0]
    /\ UNCHANGED <<flags, alive, errexit, failed, crashes, stops>>

\* Docker restarts a container that ended with a non-zero status.
Restart(a) ==
    /\ pc[a] = "exited" /\ restarts[a] < MaxRestarts
    /\ Goto(a, "boot")
    /\ restarts' = [restarts EXCEPT ![a] = @ + 1]
    /\ UNCHANGED <<flags, alive, errexit, failed, crashes, stops>>

\* Mutant: rm -f *.started.
BootRemovesAll(a) ==
    /\ pc[a] = "boot"
    /\ errexit' = errexit \cup {a}
    /\ failed' = failed \ {a}
    /\ started' = {}
    /\ recovery' = {}
    /\ Goto(a, "waitRecovery")
    /\ UNCHANGED <<lock, alive, docker>>

\* The script starts: set -e, and both flags of an earlier life are removed.
Boot(a) ==
    /\ pc[a] = "boot"
    /\ errexit' = errexit \cup {a}
    /\ failed' = failed \ {a}
    /\ started' = started \ {a}
    /\ recovery' = recovery \ {a}
    /\ Goto(a, "waitRecovery")
    /\ UNCHANGED <<lock, alive, docker>>

\* while the other's recovery file is there: sleep.
WaitRecovery(a) ==
    /\ pc[a] = "waitRecovery" /\ Other(a) \notin recovery
    /\ Goto(a, "checkLock")
    /\ UNCHANGED <<flags, alive, errexit, failed, docker>>

\* A lock file: announce the recovery; none: go on.
CheckLock(a) ==
    /\ pc[a] = "checkLock"
    /\ IF a \in lock
       THEN Goto(a, "waitOther") /\ recovery' = recovery \cup {a}
       ELSE Goto(a, "recovered") /\ UNCHANGED recovery
    /\ UNCHANGED <<lock, started, alive, errexit, failed, docker>>

\* while the other's started file is there: sleep.
WaitOther(a) ==
    /\ pc[a] = "waitOther" /\ Other(a) \notin started
    /\ Goto(a, "recover")
    /\ UNCHANGED <<flags, alive, errexit, failed, docker>>

\* try: `set +e`, which catch never takes back; catapult.recovery is run.
StartRecovery(a) ==
    /\ pc[a] = "recover"
    /\ errexit' = errexit \ {a}
    /\ Goto(a, "recovering")
    /\ UNCHANGED <<flags, alive, failed, docker>>

\* catapult.recovery succeeds and has removed the lock file (external).
RecoverySucceeds(a) ==
    /\ pc[a] = "recovering"
    /\ lock' = lock \ {a}
    /\ Goto(a, "recovered")
    /\ UNCHANGED <<started, recovery, alive, errexit, failed, docker>>

\* Mutant: the script goes on after a failed recovery.
RecoveryCrashesGoesOn(a) ==
    /\ pc[a] = "recovering"
    /\ crashes < MaxCrashes /\ crashes' = crashes + 1
    /\ recovery' = recovery \ {a}
    /\ Goto(a, "recovered")
    /\ UNCHANGED <<lock, started, alive, errexit, failed, restarts, stops>>

\* catapult.recovery crashes: the recovery file is removed, the script exits.
RecoveryCrashes(a) ==
    /\ pc[a] = "recovering"
    /\ crashes < MaxCrashes /\ crashes' = crashes + 1
    /\ recovery' = recovery \ {a}
    /\ Goto(a, "exited")
    /\ UNCHANGED <<lock, started, alive, errexit, failed, restarts, stops>>

\* Mutant: the recovery file stays.
EndRecoveryKeepsFile(a) ==
    /\ pc[a] = "recovered"
    /\ Goto(a, IF WaitsForOther(a) THEN "waitStarted" ELSE "touch")
    /\ UNCHANGED <<flags, alive, errexit, failed, docker>>

\* The recovery, if there was one, is over.
EndRecovery(a) ==
    /\ pc[a] = "recovered"
    /\ recovery' = recovery \ {a}
    /\ Goto(a, IF WaitsForOther(a) THEN "waitStarted" ELSE "touch")
    /\ UNCHANGED <<lock, started, alive, errexit, failed, docker>>

\* while the other's started file is not there: sleep.
WaitStarted(a) ==
    /\ pc[a] = "waitStarted" /\ Other(a) \in started
    /\ Goto(a, "touch")
    /\ UNCHANGED <<flags, alive, errexit, failed, docker>>

TouchStarted(a) ==
    /\ pc[a] = "touch"
    /\ started' = started \cup {a}
    /\ Goto(a, "launch")
    /\ UNCHANGED <<lock, recovery, alive, errexit, failed, docker>>

\* The application starts in the background and makes its lock file.
Launch(a) ==
    /\ pc[a] = "launch"
    /\ alive' = alive \cup {a}
    /\ lock' = lock \cup {a}
    /\ Goto(a, "monitor")
    /\ UNCHANGED <<started, recovery, errexit, failed, docker>>

-----------------------------------------------------------------------------
\* The application ends by itself: cleanly, or with its lock file left behind.
AppEnds(a) ==
    /\ pc[a] = "monitor" /\ a \in alive
    /\ crashes < MaxCrashes /\ crashes' = crashes + 1
    /\ alive' = alive \ {a}
    /\ \/ lock' = lock \ {a} /\ UNCHANGED failed
       \/ failed' = failed \cup {a} /\ UNCHANGED lock
    /\ UNCHANGED <<pc, started, recovery, errexit, restarts, stops>>

\* The monitor loop finds that the process is gone. Under `set -e` the failing
\* ps | grep ends the script with status 1 and the started file stays.
SeeExit(a) ==
    /\ pc[a] = "monitor" /\ a \notin alive
    /\ IF a \in errexit
       THEN Goto(a, "exited") /\ UNCHANGED started
       ELSE /\ started' = started \ {a}
            /\ Goto(a, IF a \in failed THEN "exited" ELSE "stopped")
    /\ UNCHANGED <<lock, recovery, alive, errexit, failed, docker>>

\* An iteration of the monitor loop that finds nothing to do.
StayUp(a) ==
    /\ pc[a] = "monitor" /\ a \in alive /\ Other(a) \notin recovery
    /\ UNCHANGED vars

\* kill -s SIGTERM and wait: the application ends cleanly, or (one more crash)
\* with a non-zero status and its lock file left. Under `set -e` a non-zero
\* wait ends the script before the started file is removed.
KillApp(a, label) ==
    /\ alive' = alive \ {a}
    /\ Goto(a, label)
    /\ \/ /\ lock' = lock \ {a}
          /\ started' = started \ {a}
          /\ UNCHANGED <<failed, crashes>>
       \/ /\ crashes < MaxCrashes /\ crashes' = crashes + 1
          /\ failed' = failed \cup {a}
          /\ started' = IF a \in errexit THEN started ELSE started \ {a}
          /\ UNCHANGED lock
    /\ UNCHANGED <<recovery, errexit, restarts>>

\* The monitor loop finds the other's recovery file: it gives way, exit 1.
GiveWay(a) ==
    /\ pc[a] = "monitor" /\ a \in alive /\ Other(a) \in recovery
    /\ KillApp(a, "exited")
    /\ UNCHANGED stops

\* docker stop: the trap ends the application, if it is set already ...
Stop(a) ==
    /\ stops < MaxStops /\ stops' = stops + 1
    /\ pc[a] = "monitor" /\ a \in alive
    /\ KillApp(a, "stopped")

\* ... and a container that is killed just disappears.
Kill(a) ==
    /\ pc[a] \notin {"stopped", "exited"}
    /\ crashes < MaxCrashes /\ crashes' = crashes + 1
    /\ alive' = alive \ {a}
    /\ Goto(a, "exited")
    /\ UNCHANGED <<flags, errexit, failed, restarts, stops>>

\* What the script, catapult and docker do by themselves.
Script(a) ==
    \/ Restart(a) \/ Boot(a) \/ WaitRecovery(a) \/ CheckLock(a) \/ WaitOther(a)
    \/ StartRecovery(a) \/ RecoverySucceeds(a) \/ EndRecovery(a) \/ WaitStarted(a)
    \/ TouchStarted(a) \/ Launch(a) \/ SeeExit(a) \/ StayUp(a) \/ GiveWay(a)

Fault(a) == RecoveryCrashes(a) \/ AppEnds(a) \/ Stop(a) \/ Kill(a)

Next == \E a \in Apps : Script(a) \/ Fault(a) \/ Up(a)

Spec == Init /\ [][Next]_vars
FairSpec == Spec /\ \A a \in Apps : WF_vars(Script(a))

-----------------------------------------------------------------------------
\* The application is never launched on data that needs recovery: a crash of
\* catapult.recovery, of the container or of an earlier application is always
\* followed by a successful recovery first.
LaunchedClean == \A a \in Apps : pc[a] = "launch" => a \notin lock

\* While an application runs its started file is there, whoever removes flags:
\* the loop that waits for it to exit cannot be left too early.
FlagRaised == alive \subseteq started

\* "Waiting for ... to exit", "Waiting for ... recovery to finish": while
\* catapult.recovery works on the data folder the other application does not
\* run and the other recovery does not either.
RecoveryAlone ==
    \A a \in Apps :
        pc[a] = "recovering" => Other(a) \notin alive /\ pc[Other(a)] # "recovering"

\* As long as there are no more crashes than docker's retries, and unless a
\* container stays stopped (by the user, or because its application chose to
\* end with status 0), both applications come back by themselves and stay up:
\* nobody waits for a flag forever, and giving way to the other's recovery does
\* not use up the retries.
ComesBack ==
    [](crashes <= MaxRestarts) /\ <>[](\A a \in Apps : pc[a] # "stopped") =>
        <>[](\A a \in Apps : pc[a] = "monitor" /\ a \in alive)
=============================================================================

------------------------- MODULE StartScriptProofs -------------------------
(***************************************************************************)
(* Proofs about StartScript, for any number of retries, crashes and stops:  *)
(* type correctness, LaunchedClean and FlagRaised.                          *)
(***************************************************************************)
EXTENDS StartScript, TLAPS

\* From a successful recovery (or none needed) to the launch the lock file of
\* an application is not there.
NoLock ==
    \A a \in Apps : pc[a] \in {"recovered", "waitStarted", "touch", "launch"} => a \notin lock

\* Only the monitor loop has a running application, and the started file is
\* touched before the launch.
Flags ==
    /\ \A a \in Apps : a \in alive => pc[a] = "monitor" /\ a \in started
    /\ \A a \in Apps : pc[a] = "launch" => a \in started

Inv == TypeOK /\ NoLock /\ Flags

\* The initial states satisfy the inductive invariant.
LEMMA InitInv == Init => Inv
BY StartAssumption DEF Init, Inv, TypeOK, NoLock, Flags, Apps, Labels

\* Every step preserves type correctness: docker's retries stay within the
\* policy.
LEMMA TypeStep == TypeOK /\ [Next]_vars => TypeOK'
<1> SUFFICES ASSUME TypeOK, [Next]_vars PROVE TypeOK'
  OBVIOUS
<1> USE StartAssumption DEF TypeOK, Labels, Goto, flags, docker
<1>1. ASSUME NEW a \in Apps, Up(a) PROVE TypeOK'
  BY <1>1 DEF Up
<1>2. ASSUME NEW a \in Apps, Restart(a) PROVE TypeOK'
  BY <1>2 DEF Restart
<1>3. ASSUME NEW a \in Apps, Boot(a) PROVE TypeOK'
  BY <1>3 DEF Boot
<1>4. ASSUME NEW a \in Apps, WaitRecovery(a) \/ WaitOther(a) \/ WaitStarted(a) PROVE TypeOK'
  BY <1>4 DEF WaitRecovery, WaitOther, WaitStarted
<1>5. ASSUME NEW a \in Apps, CheckLock(a) PROVE TypeOK'
  BY <1>5 DEF CheckLock
<1>6. ASSUME NEW a \in Apps, StartRecovery(a) \/ RecoverySucceeds(a) PROVE TypeOK'
  BY <1>6 DEF StartRecovery, RecoverySucceeds
<1>7. ASSUME NEW a \in Apps, RecoveryCrashes(a) PROVE TypeOK'
  BY <1>7 DEF RecoveryCrashes
<1>8. ASSUME NEW a \in Apps, EndRecovery(a) PROVE TypeOK'
  BY <1>8 DEF EndRecovery
<1>9. ASSUME NEW a \in Apps, TouchStarted(a) \/ Launch(a) PROVE TypeOK'
  BY <1>9 DEF TouchStarted, Launch
<1>10. ASSUME NEW a \in Apps, AppEnds(a) PROVE TypeOK'
  BY <1>10 DEF AppEnds
<1>11. ASSUME NEW a \in Apps, SeeExit(a) PROVE TypeOK'
  BY <1>11 DEF SeeExit
<1>12. ASSUME NEW a \in Apps, GiveWay(a) PROVE TypeOK'
  BY <1>12 DEF GiveWay, KillApp
<1>13. ASSUME NEW a \in Apps, Stop(a) PROVE TypeOK'
  BY <1>13 DEF Stop, KillApp
<1>14. ASSUME NEW a \in Apps, Kill(a) PROVE TypeOK'
  BY <1>14 DEF Kill
<1>15. ASSUME NEW a \in Apps, StayUp(a) PROVE TypeOK'
  BY <1>15 DEF StayUp, vars
<1>16. CASE UNCHANGED vars
  BY <1>16 DEF vars
<1> QED
  BY <1>1, <1>2, <1>3, <1>4, <1>5, <1>6, <1>7, <1>8, <1>9, <1>10, <1>11, <1>12, <1>13,
     <1>14, <1>15, <1>16 DEF Next, Script, Fault

\* Every step preserves the invariants on lock and started files: a step of
\* one script leaves the flags of the other alone.
LEMMA FlagStep == Inv /\ [Next]_vars => NoLock' /\ Flags'
<1> SUFFICES ASSUME Inv, [Next]_vars PROVE NoLock' /\ Flags'
  OBVIOUS
<1> USE DEF Inv, TypeOK, NoLock, Flags, Goto, flags, docker
<1>1. ASSUME NEW a \in Apps, Up(a) PROVE NoLock' /\ Flags'
  BY <1>1 DEF Up
<1>2. ASSUME NEW a \in Apps, Restart(a) PROVE NoLock' /\ Flags'
  BY <1>2 DEF Restart
<1>3. ASSUME NEW a \in Apps, Boot(a) PROVE NoLock' /\ Flags'
  BY <1>3 DEF Boot
<1>4. ASSUME NEW a \in Apps, WaitRecovery(a) \/ WaitOther(a) \/ WaitStarted(a)
      PROVE NoLock' /\ Flags'
  BY <1>4 DEF WaitRecovery, WaitOther, WaitStarted
<1>5. ASSUME NEW a \in Apps, CheckLock(a) PROVE NoLock' /\ Flags'
  BY <1>5 DEF CheckLock
<1>6. ASSUME NEW a \in Apps, StartRecovery(a) \/ RecoverySucceeds(a) PROVE NoLock' /\ Flags'
  BY <1>6 DEF StartRecovery, RecoverySucceeds
<1>7. ASSUME NEW a \in Apps, RecoveryCrashes(a) PROVE NoLock' /\ Flags'
  BY <1>7 DEF RecoveryCrashes
<1>8. ASSUME NEW a \in Apps, EndRecovery(a) PROVE NoLock' /\ Flags'
  BY <1>8 DEF EndRecovery
<1>9. ASSUME NEW a \in Apps, TouchStarted(a) \/ Launch(a) PROVE NoLock' /\ Flags'
  BY <1>9 DEF TouchStarted, Launch
<1>10. ASSUME NEW a \in Apps, AppEnds(a) PROVE NoLock' /\ Flags'
  BY <1>10 DEF AppEnds
<1>11. ASSUME NEW a \in Apps, SeeExit(a) PROVE NoLock' /\ Flags'
  BY <1>11 DEF SeeExit
<1>12. ASSUME NEW a \in Apps, GiveWay(a) PROVE NoLock' /\ Flags'
  BY <1>12 DEF GiveWay, KillApp
<1>13. ASSUME NEW a \in Apps, Stop(a) PROVE NoLock' /\ Flags'
  BY <1>13 DEF Stop, KillApp
<1>14. ASSUME NEW a \in Apps, Kill(a) PROVE NoLock' /\ Flags'
  BY <1>14 DEF Kill
<1>15. ASSUME NEW a \in Apps, StayUp(a) PROVE NoLock' /\ Flags'
  BY <1>15 DEF StayUp, vars
<1>16. CASE UNCHANGED vars
  BY <1>16 DEF vars
<1> QED
  BY <1>1, <1>2, <1>3, <1>4, <1>5, <1>6, <1>7, <1>8, <1>9, <1>10, <1>11, <1>12, <1>13,
     <1>14, <1>15, <1>16 DEF Next, Script, Fault

LEMMA Invariance == Spec => []Inv
<1>1. Inv /\ [Next]_vars => Inv'
  BY TypeStep, FlagStep DEF Inv
<1> QED
  BY InitInv, <1>1, PTL DEF Spec

\* Type correctness of the start script and docker's bookkeeping.
THEOREM TypeCorrect == Spec => []TypeOK
<1>1. Inv => TypeOK
  BY DEF Inv
<1> QED
  BY Invariance, <1>1, PTL

\* The application is never launched on data that needs recovery, however
\* often the containers crash.
THEOREM NeverLaunchedUnclean == Spec => []LaunchedClean
<1>1. Inv => LaunchedClean
  BY DEF Inv, NoLock, LaunchedClean
<1> QED
  BY Invariance, <1>1, PTL

\* A running application always has its started file, so the other script's
\* wait for its exit is never left too early.
THEOREM RunningIsFlagged == Spec => []FlagRaised
<1>1. Inv => FlagRaised
  BY DEF Inv, TypeOK, Flags, FlagRaised
<1> QED
  BY Invariance, <1>1, PTL
=============================================================================

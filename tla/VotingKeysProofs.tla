------------------------- MODULE VotingKeysProofs --------------------------
(***************************************************************************)
(* Proofs about VotingKeys for any nodes, lifetimes and manual files.       *)
(* First what holds whatever the user adds or deletes: types, and files     *)
(* that never overlap. Then what the commands keep true of the nodes that   *)
(* are left to them (Managed): the files are numbered 1..k, each ends at    *)
(* least Lifetime epochs after the one before, and no epoch ahead is        *)
(* missing. From this: nothing is overwritten, at most three keys are in    *)
(* use, the listed keys exist, updates cover the epochs ahead, and the      *)
(* model implements VotingCoverage.                                         *)
(***************************************************************************)
EXTENDS VotingKeys, FiniteSetTheorems, TLAPS

-----------------------------------------------------------------------------
(* Facts about the operators of the model.                                  *)

\* Adding or replacing a file of a folder gives a folder.
LEMMA WithFileFolder ==
    ASSUME NEW f, IsFolder(f), NEW i \in Nat \ {0}, NEW r \in EpochRange \cup {Torn}
    PROVE  IsFolder(WithFile(f, i, r))
<1>1. IsFiniteSet(DOMAIN f \cup {i})
  BY FS_AddElement DEF IsFolder
<1> QED
  BY <1>1 DEF IsFolder, WithFile

\* Deleting a file of a folder gives a folder.
LEMMA WithoutFileFolder ==
    ASSUME NEW f, IsFolder(f), NEW i
    PROVE  IsFolder(WithoutFile(f, i))
<1>1. IsFiniteSet(DOMAIN f \ {i})
  BY FS_RemoveElement DEF IsFolder
<1> QED
  BY <1>1 DEF IsFolder, WithoutFile

\* A readable file is not a truncated one.
LEMMA RangeNotTorn == \A r \in EpochRange : r # Torn /\ r.startEpoch \in Nat /\ r.endEpoch \in Nat
BY DEF EpochRange, Torn

\* A command works with the preset's epoch or with one the network reached.
LEMMA ResolvedTyped ==
    ASSUME TypeOK, NEW c, NEW e \in ResolvedEpochs \cup TypedEpochs(c)
    PROVE  e \in Nat \ {0} /\ (e = LastKnownEpoch \/ e <= epoch)
BY VotingAssumption DEF ResolvedEpochs, TypedEpochs, BestEpochs, Answers, TypeOK

-----------------------------------------------------------------------------
(* Type correctness.                                                        *)

\* A file about to be created has an index and the range of a lifetime.
PlanTyped ==
    \A n \in Nodes :
        pc[n] \in {"create", "writing"} =>
            /\ plan[n][1] \in Nat \ {0}
            /\ plan[n][2] \in EpochRange
            /\ plan[n][2].startEpoch <= plan[n][2].endEpoch
            /\ plan[n][2].startEpoch > 0
            /\ plan[n][2].endEpoch = plan[n][2].startEpoch + Lifetime - 1

\* Without a command no node is at work.
Idle == command = "none" => \A n \in Nodes : pc[n] = "done"

Typed == TypeOK /\ PlanTyped /\ Idle

\* What CheckFiles plans when the folder can be read.
LEMMA NextFileTyped ==
    ASSUME TypeOK, NEW n \in Nodes, Readable(n), NEW lastEnd \in LastEnds(n)
    PROVE  LET maxEnd == MaxEndEpoch(lastEnd)
           IN  /\ lastEnd \in Nat
               /\ maxEnd \in Nat /\ maxEnd >= lastEnd
               /\ NextFile(n, maxEnd)[1] = Cardinality(DOMAIN folder[n]) + 1
               /\ NextFile(n, maxEnd)[1] \in Nat \ {0}
               /\ NextFile(n, maxEnd)[2] \in EpochRange
               /\ NextFile(n, maxEnd)[2].startEpoch = maxEnd + 1
               /\ NextFile(n, maxEnd)[2].endEpoch = maxEnd + Lifetime
<1>1. IsFolder(folder[n])
  BY DEF TypeOK
<1>2. lastEnd \in Nat
  <2>1. CASE DOMAIN folder[n] = {}
    BY <2>1 DEF LastEnds
  <2>2. CASE DOMAIN folder[n] # {}
    <3>1. PICK i \in DOMAIN folder[n] : lastEnd = folder[n][i].endEpoch
      BY <2>2 DEF LastEnds, LastFiles
    <3>2. folder[n][i] \in EpochRange
      BY <1>1 DEF IsFolder, Readable, Files
    <3> QED
      BY <3>1, <3>2 DEF EpochRange
  <2> QED
    BY <2>1, <2>2
<1>3. MaxEndEpoch(lastEnd) \in Nat /\ MaxEndEpoch(lastEnd) >= lastEnd
  BY <1>2 DEF MaxEndEpoch, TypeOK
<1>4. Cardinality(DOMAIN folder[n]) \in Nat
  BY <1>1, FS_CardinalityType DEF IsFolder
<1> QED
  BY <1>2, <1>3, <1>4, VotingAssumption DEF NextFile, EpochRange

LEMMA InitTyped == Init => Typed
<1> SUFFICES ASSUME Init PROVE Typed
  OBVIOUS
<1>1. IsFolder([i \in {} |-> Torn])
  BY FS_EmptySet DEF IsFolder
<1>2. TypeOK
  BY <1>1, VotingAssumption DEF Init, TypeOK, NoPlan, Step
<1> QED
  BY <1>2 DEF Init, Typed, PlanTyped, Idle

LEMMA TypedStep == Typed /\ [Next]_vars => Typed'
<1> SUFFICES ASSUME Typed, [Next]_vars PROVE Typed'
  OBVIOUS
<1> USE VotingAssumption DEF Typed
<1>1. CASE NetworkAdvances
  BY <1>1 DEF NetworkAdvances, TypeOK, PlanTyped, Idle
<1>2. ASSUME NEW c \in {"update", "config"}, StartCommand(c) PROVE Typed'
  BY <1>2, ResolvedTyped DEF StartCommand, TypeOK, PlanTyped, Idle, Step
<1>3. ASSUME NEW n \in Nodes, SkipNotVoting(n) PROVE Typed'
  BY <1>3 DEF SkipNotVoting, TypeOK, PlanTyped, Idle, Step
<1>4. ASSUME NEW n \in Nodes, CheckFiles(n) PROVE Typed'
  <2>0. Files(n) \in SUBSET (EpochRange \cup {Torn})
    BY DEF TypeOK, IsFolder, Files
  <2>1. PICK lastEnd \in LastEnds(n) :
          \/ pc' = [pc EXCEPT ![n] = "done"] /\ UNCHANGED plan
          \/ /\ pc' = [pc EXCEPT ![n] = "create"]
             /\ plan' = [plan EXCEPT ![n] = NextFile(n, MaxEndEpoch(lastEnd))]
    BY <1>4 DEF CheckFiles
  <2>2. /\ NextFile(n, MaxEndEpoch(lastEnd)) \in (Nat \ {0}) \X EpochRange
        /\ NextFile(n, MaxEndEpoch(lastEnd))[1] \in Nat \ {0}
        /\ NextFile(n, MaxEndEpoch(lastEnd))[2] \in EpochRange
        /\ NextFile(n, MaxEndEpoch(lastEnd))[2].startEpoch
             <= NextFile(n, MaxEndEpoch(lastEnd))[2].endEpoch
        /\ NextFile(n, MaxEndEpoch(lastEnd))[2].startEpoch > 0
        /\ NextFile(n, MaxEndEpoch(lastEnd))[2].endEpoch
             = NextFile(n, MaxEndEpoch(lastEnd))[2].startEpoch + Lifetime - 1
    BY <1>4, NextFileTyped DEF NextFile, CheckFiles
  <2>3. /\ command # "none"
        /\ account' = [account EXCEPT ![n] = Files(n)]
        /\ UNCHANGED <<folder, yml, configured, epoch, command, known, upgraded>>
    BY <1>4 DEF CheckFiles
  <2>4. account' \in [Nodes -> SUBSET (EpochRange \cup {Torn})]
    BY <2>0, <2>3 DEF TypeOK
  <2>5. pc' \in [Nodes -> Step] /\ plan' \in [Nodes -> Nat \X (EpochRange \cup {Torn})]
    <3>1. PICK new \in Nat \X (EpochRange \cup {Torn}) : new = NextFile(n, MaxEndEpoch(lastEnd))
      BY <2>2
    <3>2. pc \in [Nodes -> Step] /\ plan \in [Nodes -> Nat \X (EpochRange \cup {Torn})]
      BY DEF TypeOK
    <3>3. CASE pc' = [pc EXCEPT ![n] = "done"] /\ UNCHANGED plan
      BY <3>2, <3>3 DEF Step
    <3>4. CASE pc' = [pc EXCEPT ![n] = "create"] /\ plan' = [plan EXCEPT ![n] = new]
      BY <3>2, <3>4 DEF Step
    <3> QED
      BY <2>1, <3>1, <3>3, <3>4
  <2>6. TypeOK'
    BY <2>3, <2>4, <2>5 DEF TypeOK
  <2>7. PlanTyped' /\ Idle'
    BY <2>1, <2>2, <2>3 DEF TypeOK, PlanTyped, Idle
  <2> QED
    BY <2>6, <2>7
<1>5. ASSUME NEW n \in Nodes, OpenFile(n) PROVE Typed'
  <2>1. IsFolder(WithFile(folder[n], plan[n][1], Torn))
    BY <1>5, WithFileFolder DEF OpenFile, TypeOK, PlanTyped
  <2> QED
    BY <1>5, <2>1 DEF OpenFile, TypeOK, PlanTyped, Idle, Step
<1>6. ASSUME NEW n \in Nodes, FillFile(n) PROVE Typed'
  <2>1. IsFolder(WithFile(folder[n], plan[n][1], plan[n][2]))
    BY <1>6, WithFileFolder DEF FillFile, TypeOK, PlanTyped
  <2> QED
    BY <1>6, <2>1 DEF FillFile, TypeOK, PlanTyped, Idle, Step
<1>7. ASSUME NEW n \in Nodes, ReloadFiles(n) PROVE Typed'
  <2>1. Files(n) \in SUBSET (EpochRange \cup {Torn})
    BY DEF TypeOK, IsFolder, Files
  <2> QED
    BY <1>7, <2>1 DEF ReloadFiles, TypeOK, PlanTyped, Idle, Step
<1>8. CASE Complete
  BY <1>8 DEF Complete, Exit, TypeOK, PlanTyped, Idle, NoPlan, Step
<1>9. CASE Abort
  BY <1>9 DEF Abort, Exit, TypeOK, PlanTyped, Idle, NoPlan, Step
<1>10. ASSUME NEW n \in Nodes, PutManualFile(n) PROVE Typed'
  <2>1. PICK m \in ManualFiles : folder' = [folder EXCEPT ![n] = WithFile(@, m[1], m[2])]
    BY <1>10 DEF PutManualFile
  <2>2. IsFolder(WithFile(folder[n], m[1], m[2]))
    BY WithFileFolder DEF TypeOK
  <2> QED
    BY <1>10, <2>1, <2>2 DEF PutManualFile, TypeOK, PlanTyped, Idle, memory
<1>11. ASSUME NEW n \in Nodes, DeleteFile(n) PROVE Typed'
  <2>1. PICK i \in DOMAIN folder[n] : folder' = [folder EXCEPT ![n] = WithoutFile(@, i)]
    BY <1>11 DEF DeleteFile
  <2>2. IsFolder(WithoutFile(folder[n], i))
    BY WithoutFileFolder DEF TypeOK
  <2> QED
    BY <1>11, <2>1, <2>2 DEF DeleteFile, TypeOK, PlanTyped, Idle, memory
<1>12. CASE UNCHANGED vars
  BY <1>12 DEF vars, TypeOK, PlanTyped, Idle
<1> QED
  BY <1>1, <1>2, <1>3, <1>4, <1>5, <1>6, <1>7, <1>8, <1>9, <1>10, <1>11, <1>12
  DEF Next, NodeStep

\* Type correctness of the voting key model: folders stay finite, with
\* positive indexes and epochs that are not negative.
THEOREM TypeCorrect == Spec => []TypeOK
<1>1. Typed => TypeOK
  BY DEF Typed
<1> QED
  BY InitTyped, TypedStep, <1>1, PTL DEF Spec

-----------------------------------------------------------------------------
(* No two voting files of a node share an epoch.                            *)

\* The readable files of a folder have at least one epoch and none in common.
Separated(f) ==
    \A i, j \in DOMAIN f :
        f[i] # Torn /\ f[j] # Torn =>
            /\ f[i].startEpoch <= f[i].endEpoch
            /\ i # j => ~Overlap(f[i], f[j])

\* Range r has no epoch in common with a readable file of f.
Apart(f, r) == \A i \in DOMAIN f : f[i] # Torn => ~Overlap(f[i], r)

FoldersSeparated == \A n \in Nodes : Separated(folder[n])

\* The file that is being created has no epoch of an existing one.
PlanApart ==
    \A n \in Nodes : pc[n] \in {"create", "writing"} => Apart(folder[n], plan[n][2])

DisjointInv == Typed /\ FoldersSeparated /\ PlanApart

\* In a separated folder the file with the last start epoch has the last end
\* epoch too: this is why VotingService.run may look at that file only.
LEMMA LastIsMax ==
    ASSUME TypeOK, NEW n \in Nodes, Readable(n), Separated(folder[n]),
           NEW lastEnd \in LastEnds(n), NEW j \in DOMAIN folder[n]
    PROVE  folder[n][j].endEpoch <= lastEnd
<1>1. \A i \in DOMAIN folder[n] :
        /\ folder[n][i] # Torn
        /\ folder[n][i].startEpoch \in Nat /\ folder[n][i].endEpoch \in Nat
  BY RangeNotTorn DEF TypeOK, IsFolder, Readable, Files
<1>2. PICK i \in DOMAIN folder[n] :
        /\ lastEnd = folder[n][i].endEpoch
        /\ folder[n][j].startEpoch <= folder[n][i].startEpoch
  BY DEF LastEnds, LastFiles
<1>3. CASE i = j
  BY <1>1, <1>2, <1>3
<1>4. CASE i # j
  BY <1>1, <1>2, <1>4 DEF Separated, Overlap
<1> QED
  BY <1>3, <1>4

LEMMA InitDisjoint == Init => DisjointInv
BY InitTyped DEF Init, DisjointInv, FoldersSeparated, PlanApart, Separated

LEMMA DisjointStep == DisjointInv /\ [Next]_vars => DisjointInv'
<1> SUFFICES ASSUME DisjointInv, [Next]_vars PROVE FoldersSeparated' /\ PlanApart'
  BY TypedStep DEF DisjointInv
<1> USE DEF DisjointInv
<1>1. ASSUME UNCHANGED <<folder, plan>>,
             \A n \in Nodes : pc'[n] \in {"create", "writing"} => pc[n] = pc'[n]
      PROVE FoldersSeparated' /\ PlanApart'
  BY <1>1 DEF FoldersSeparated, PlanApart
<1>2. CASE NetworkAdvances \/ UNCHANGED vars
  BY <1>1, <1>2 DEF NetworkAdvances, vars
<1>3. ASSUME NEW c \in {"update", "config"}, StartCommand(c) PROVE FoldersSeparated' /\ PlanApart'
  BY <1>1, <1>3 DEF StartCommand
<1>4. ASSUME NEW n \in Nodes, SkipNotVoting(n) \/ ReloadFiles(n)
      PROVE  FoldersSeparated' /\ PlanApart'
  BY <1>1, <1>4 DEF SkipNotVoting, ReloadFiles, Typed, TypeOK
<1>5. ASSUME NEW n \in Nodes, CheckFiles(n) PROVE FoldersSeparated' /\ PlanApart'
  <2> USE <1>5 DEF CheckFiles
  <2>1. FoldersSeparated'
    BY DEF FoldersSeparated
  <2>2. PICK lastEnd \in LastEnds(n) :
          \/ pc' = [pc EXCEPT ![n] = "done"] /\ UNCHANGED plan
          \/ /\ pc' = [pc EXCEPT ![n] = "create"]
             /\ plan' = [plan EXCEPT ![n] = NextFile(n, MaxEndEpoch(lastEnd))]
    OBVIOUS
  <2>3. Apart(folder[n], NextFile(n, MaxEndEpoch(lastEnd))[2])
    <3> DEFINE r == NextFile(n, MaxEndEpoch(lastEnd))[2]
    <3>1. r.startEpoch \in Nat /\ r.startEpoch > lastEnd /\ lastEnd \in Nat
      BY NextFileTyped DEF Typed
    <3>2. \A i \in DOMAIN folder[n] :
            folder[n][i].endEpoch <= lastEnd /\ folder[n][i].endEpoch \in Nat
      BY LastIsMax, RangeNotTorn DEF FoldersSeparated, Typed, TypeOK, IsFolder, Readable, Files
    <3> HIDE DEF r
    <3>3. Apart(folder[n], r)
      BY <3>1, <3>2 DEF Apart, Overlap
    <3> QED
      BY <3>3 DEF r
  <2>4. PlanApart'
    BY <2>2, <2>3 DEF PlanApart, Typed, TypeOK
  <2> QED
    BY <2>1, <2>4
<1>6. ASSUME NEW n \in Nodes, OpenFile(n) PROVE FoldersSeparated' /\ PlanApart'
  <2> DEFINE f == WithFile(folder[n], plan[n][1], Torn)
  <2>1. folder' = [folder EXCEPT ![n] = f] /\ UNCHANGED plan
        /\ pc' = [pc EXCEPT ![n] = "writing"] /\ pc[n] = "create"
    BY <1>6 DEF OpenFile
  <2>2. /\ DOMAIN f = DOMAIN folder[n] \cup {plan[n][1]}
        /\ f[plan[n][1]] = Torn
        /\ \A j \in DOMAIN folder[n] : j # plan[n][1] => f[j] = folder[n][j]
    BY DEF WithFile
  <2> HIDE DEF f
  <2>3. Separated(f) /\ Apart(f, plan[n][2])
    BY <2>1, <2>2 DEF FoldersSeparated, PlanApart, Separated, Apart
  <2> QED
    BY <2>1, <2>3 DEF FoldersSeparated, PlanApart, Typed, TypeOK
<1>7. ASSUME NEW n \in Nodes, FillFile(n) PROVE FoldersSeparated' /\ PlanApart'
  <2> DEFINE f == WithFile(folder[n], plan[n][1], plan[n][2])
  <2>1. folder' = [folder EXCEPT ![n] = f] /\ UNCHANGED plan
        /\ pc' = [pc EXCEPT ![n] = "reload"] /\ pc[n] = "writing"
    BY <1>7 DEF FillFile
  <2>2. /\ DOMAIN f = DOMAIN folder[n] \cup {plan[n][1]}
        /\ f[plan[n][1]] = plan[n][2]
        /\ \A j \in DOMAIN folder[n] : j # plan[n][1] => f[j] = folder[n][j]
    BY DEF WithFile
  <2>3. plan[n][2].startEpoch <= plan[n][2].endEpoch /\ Apart(folder[n], plan[n][2])
    BY <2>1 DEF PlanApart, Typed, PlanTyped
  <2> HIDE DEF f
  <2>4. Separated(f)
    BY <2>2, <2>3 DEF FoldersSeparated, Separated, Apart, Overlap
  <2> QED
    BY <2>1, <2>4 DEF FoldersSeparated, PlanApart, Typed, TypeOK
<1>8. CASE Complete \/ Abort
  BY <1>8 DEF Complete, Abort, Exit, FoldersSeparated, PlanApart
<1>9. ASSUME NEW n \in Nodes, PutManualFile(n) PROVE FoldersSeparated' /\ PlanApart'
  <2>1. PICK m \in ManualFiles :
          /\ m[1] \notin DOMAIN folder[n]
          /\ \A g \in Files(n) : m[2].endEpoch < g.startEpoch \/ g.endEpoch < m[2].startEpoch
          /\ folder' = [folder EXCEPT ![n] = WithFile(@, m[1], m[2])]
    BY <1>9 DEF PutManualFile
  <2> DEFINE f == WithFile(folder[n], m[1], m[2])
  <2>2. /\ m[1] \in Nat \ {0} /\ m[2] \in EpochRange
        /\ m[2].startEpoch <= m[2].endEpoch
    BY VotingAssumption
  <2>3. /\ DOMAIN f = DOMAIN folder[n] \cup {m[1]}
        /\ f[m[1]] = m[2]
        /\ \A j \in DOMAIN folder[n] : j # m[1] => f[j] = folder[n][j]
    BY DEF WithFile
  <2>4. Apart(folder[n], m[2])
    BY <2>1 DEF Apart, Overlap, Files
  <2> HIDE DEF f
  <2>5. Separated(f)
    BY <2>1, <2>2, <2>3, <2>4 DEF FoldersSeparated, Separated, Apart, Overlap
  <2>6. folder' = [folder EXCEPT ![n] = f]
    BY <2>1 DEF f
  <2>7. UNCHANGED <<pc, plan>> /\ \A k \in Nodes : pc[k] = "done"
    BY <1>9 DEF PutManualFile, memory, Typed, Idle
  <2> QED
    BY <2>5, <2>6, <2>7 DEF FoldersSeparated, PlanApart, Typed, TypeOK
<1>10. ASSUME NEW n \in Nodes, DeleteFile(n) PROVE FoldersSeparated' /\ PlanApart'
  <2>1. PICK i \in DOMAIN folder[n] : folder' = [folder EXCEPT ![n] = WithoutFile(@, i)]
    BY <1>10 DEF DeleteFile
  <2>2. Separated(WithoutFile(folder[n], i))
    <3>1. IsFolder(folder[n]) /\ Separated(folder[n])
      BY DEF Typed, TypeOK, FoldersSeparated
    <3>2. /\ DOMAIN WithoutFile(folder[n], i) = DOMAIN folder[n] \ {i}
          /\ \A j \in DOMAIN folder[n] \ {i} : WithoutFile(folder[n], i)[j] = folder[n][j]
      BY DEF WithoutFile
    <3> QED
      BY <3>1, <3>2 DEF Separated
  <2>3. UNCHANGED <<pc, plan>> /\ \A k \in Nodes : pc[k] = "done"
    BY <1>10 DEF DeleteFile, memory, Typed, Idle
  <2> QED
    BY <2>1, <2>2, <2>3 DEF FoldersSeparated, PlanApart, Typed, TypeOK
<1> QED
  BY <1>2, <1>3, <1>4, <1>5, <1>6, <1>7, <1>8, <1>9, <1>10 DEF Next, NodeStep

\* No two voting files of a node are valid for the same epoch, for any
\* lifetimes, any files the user adds and any interleaving of nodes, crashes
\* and deletions.
THEOREM FilesNeverOverlap == Spec => []DisjointFiles
<1>1. DisjointInv => DisjointFiles
  BY DEF DisjointInv, FoldersSeparated, Separated, DisjointFiles, ReadableIndexes
<1> QED
  BY InitDisjoint, DisjointStep, <1>1, PTL DEF Spec

-----------------------------------------------------------------------------
(* The nodes that are left to the commands.                                 *)

USE DEF Managed

\* A command never works with an epoch the network has not reached.
KnownEpoch == LastKnownEpoch <= epoch /\ known <= epoch

\* The file with range r comes after file g: a whole lifetime later, and made
\* when g was about to end.
After(g, r) ==
    /\ g.endEpoch + Lifetime <= r.endEpoch
    /\ g.endEpoch <= epoch + FutureLifetime

\* Files 1..k, of which only the last may be truncated.
Chain(f, k) ==
    /\ DOMAIN f = 1..k
    /\ \A i \in 1..k : f[i] = Torn => i = k
    /\ \A i, j \in 1..k : i < j /\ f[j] # Torn => After(f[i], f[j])

IsChain(n) == \E k \in Nat : Chain(folder[n], k)

Chains == \A n \in Managed : IsChain(n)

\* The file being created is the next one.
IsNext(n) ==
    /\ pc[n] = "create" => DOMAIN folder[n] = 1..(plan[n][1] - 1) /\ Readable(n)
    /\ pc[n] = "writing" => DOMAIN folder[n] = 1..plan[n][1] /\ folder[n][plan[n][1]] = Torn
    /\ pc[n] \in {"create", "writing"} =>
         \A i \in ReadableIndexes(n) : After(folder[n][i], plan[n][2])

PlanNext == \A n \in Managed : IsNext(n)

Numbered == DisjointInv /\ KnownEpoch /\ Chains /\ PlanNext

LEMMA InitNumbered == Init => Numbered
<1> SUFFICES ASSUME Init PROVE KnownEpoch /\ Chains /\ PlanNext
  BY InitDisjoint DEF Numbered
<1>1. \A n \in Managed : Chain(folder[n], 0)
  BY DEF Init, Chain
<1> QED
  BY <1>1, VotingAssumption DEF Init, KnownEpoch, Chains, IsChain, PlanNext, IsNext

\* The epoch only grows and known is reset to epochs the network has seen.
LEMMA EpochStep ==
    ASSUME Numbered, [Next]_vars
    PROVE  KnownEpoch' /\ epoch' >= epoch
<1> USE VotingAssumption DEF Numbered, KnownEpoch, DisjointInv, Typed, TypeOK
<1>1. CASE NetworkAdvances
  BY <1>1 DEF NetworkAdvances
<1>2. ASSUME NEW c \in {"update", "config"}, StartCommand(c) PROVE KnownEpoch' /\ epoch' >= epoch
  <2>1. /\ known' \in ResolvedEpochs \cup TypedEpochs(c) /\ epoch' = epoch
    BY <1>2 DEF StartCommand
  <2>2. TypeOK /\ LastKnownEpoch <= epoch
    BY <1>2
  <2>3. known' \in Nat /\ known' <= epoch
    <3> HIDE DEF Numbered, KnownEpoch, DisjointInv, Typed, TypeOK
    <3>1. epoch \in Nat
      BY <2>2 DEF TypeOK
    <3> QED
      BY <2>1, <2>2, <3>1, ResolvedTyped
  <2> QED
    BY <2>1, <2>2, <2>3
<1>3. ASSUME NEW n \in Nodes, NodeStep(n) PROVE KnownEpoch' /\ epoch' >= epoch
  BY <1>3 DEF NodeStep, SkipNotVoting, CheckFiles, OpenFile, FillFile, ReloadFiles
<1>4. ASSUME NEW n \in Nodes, PutManualFile(n) \/ DeleteFile(n) PROVE KnownEpoch' /\ epoch' >= epoch
  BY <1>4 DEF PutManualFile, DeleteFile, memory
<1>5. CASE Complete \/ Abort
  BY <1>5 DEF Complete, Abort, Exit
<1>6. CASE UNCHANGED vars
  BY <1>6 DEF vars
<1> QED
  BY <1>1, <1>2, <1>3, <1>4, <1>5, <1>6 DEF Next

\* What CheckFiles plans is the next file of the chain.
LEMMA CheckPlansNext ==
    ASSUME Numbered, NEW n \in Managed, Readable(n), NEW lastEnd \in LastEnds(n),
           ~UpToDate(MaxEndEpoch(lastEnd))
    PROVE  LET new == NextFile(n, MaxEndEpoch(lastEnd))
           IN  /\ DOMAIN folder[n] = 1..(new[1] - 1)
               /\ \A i \in DOMAIN folder[n] : After(folder[n][i], new[2])
<1> DEFINE new == NextFile(n, MaxEndEpoch(lastEnd))
<1>1. PICK k \in Nat : Chain(folder[n], k)
  BY DEF Numbered, Chains, IsChain
<1>2. Cardinality(DOMAIN folder[n]) = k
  <2>1. DOMAIN folder[n] = 1..k
    BY <1>1 DEF Chain
  <2>2. Cardinality(1..k) = k
    BY FS_Interval
  <2> QED
    BY <2>1, <2>2
<1>3. /\ lastEnd \in Nat
      /\ MaxEndEpoch(lastEnd) \in Nat /\ MaxEndEpoch(lastEnd) >= lastEnd
      /\ new[1] = k + 1
      /\ new[2].endEpoch = MaxEndEpoch(lastEnd) + Lifetime
  BY <1>2, NextFileTyped DEF Numbered, DisjointInv, Typed
<1>4. \A i \in DOMAIN folder[n] :
        folder[n][i].endEpoch <= lastEnd /\ folder[n][i].endEpoch \in Nat
  <2>1. Separated(folder[n]) /\ TypeOK
    BY DEF Numbered, DisjointInv, Typed, FoldersSeparated
  <2>2. \A i \in DOMAIN folder[n] : folder[n][i].endEpoch \in Nat
    BY <2>1, RangeNotTorn DEF TypeOK, IsFolder, Readable, Files
  <2> QED
    BY <2>1, <2>2, LastIsMax
<1>5. MaxEndEpoch(lastEnd) <= epoch + FutureLifetime
  BY <1>3, VotingAssumption DEF UpToDate, Numbered, KnownEpoch, DisjointInv, Typed, TypeOK
<1>6. \A i \in DOMAIN folder[n] : After(folder[n][i], new[2])
  <2> SUFFICES ASSUME NEW i \in DOMAIN folder[n] PROVE After(folder[n][i], new[2])
    OBVIOUS
  <2>1. epoch \in Nat
    BY DEF Numbered, DisjointInv, Typed, TypeOK
  <2> HIDE DEF new
  <2> QED
    BY <2>1, <1>3, <1>4, <1>5, VotingAssumption DEF After
<1>7. DOMAIN folder[n] = 1..(new[1] - 1)
  BY <1>1, <1>3 DEF Chain
<1> QED
  BY <1>6, <1>7

\* A chain remains one while the network advances.
LEMMA ChainGrowsOld ==
    ASSUME Numbered, [Next]_vars, NEW n \in Managed, folder'[n] = folder[n]
    PROVE  IsChain(n)'
<1>1. PICK k \in Nat : Chain(folder[n], k)
  BY DEF Numbered, Chains, IsChain
<1>2. epoch' >= epoch /\ epoch \in Nat /\ epoch' \in Nat
  BY EpochStep, TypedStep DEF Numbered, DisjointInv, Typed, TypeOK
<1>3. \A i \in 1..k : folder[n][i].endEpoch \in Int
  <2> SUFFICES ASSUME NEW i \in 1..k PROVE folder[n][i].endEpoch \in Int
    OBVIOUS
  <2>1. folder[n][i] \in EpochRange \cup {Torn}
    BY <1>1 DEF Chain, Numbered, DisjointInv, Typed, TypeOK, IsFolder
  <2>2. CASE folder[n][i] = Torn
    BY <2>2 DEF Torn
  <2>3. CASE folder[n][i] \in EpochRange
    BY <2>3 DEF EpochRange
  <2> QED
    BY <2>1, <2>2, <2>3
<1>4. \A i, j \in 1..k : After(folder[n][i], folder[n][j]) => After(folder[n][i], folder[n][j])'
  BY <1>2, <1>3, VotingAssumption DEF After
<1> QED
  BY <1>1, <1>4 DEF IsChain, Chain

\* A step that leaves the folder of n alone and does not begin a plan.
LEMMA PlanGrowsOld ==
    ASSUME Numbered, [Next]_vars, NEW n \in Managed, folder'[n] = folder[n],
           plan'[n] = plan[n], pc'[n] \in {"create", "writing"} => pc'[n] = pc[n]
    PROVE  IsNext(n)'
<1>1. epoch' >= epoch /\ epoch \in Nat /\ epoch' \in Nat
  BY EpochStep, TypedStep DEF Numbered, DisjointInv, Typed, TypeOK
<1>2. \A i \in ReadableIndexes(n) : folder[n][i].endEpoch \in Nat
  BY RangeNotTorn DEF ReadableIndexes, Numbered, DisjointInv, Typed, TypeOK, IsFolder
<1>3. \A i \in ReadableIndexes(n) :
        After(folder[n][i], plan[n][2]) => After(folder[n][i], plan[n][2])'
  BY <1>1, <1>2, VotingAssumption DEF After
<1> QED
  BY <1>3 DEF Numbered, PlanNext, IsNext, Readable, Files, ReadableIndexes

LEMMA NumberedStep ==
    ASSUME Numbered, [Next]_vars
    PROVE  Numbered'
<1> SUFFICES ASSUME NEW n \in Managed PROVE IsChain(n)' /\ IsNext(n)'
  BY EpochStep, DisjointStep DEF Numbered, Chains, PlanNext
<1>1. ASSUME folder'[n] = folder[n], plan'[n] = plan[n],
             pc'[n] \in {"create", "writing"} => pc'[n] = pc[n]
      PROVE  IsChain(n)' /\ IsNext(n)'
  BY <1>1, ChainGrowsOld, PlanGrowsOld
<1>2. ASSUME folder'[n] = folder[n], pc'[n] \notin {"create", "writing"}
      PROVE  IsChain(n)' /\ IsNext(n)'
  BY <1>2, ChainGrowsOld DEF IsNext
<1>3. CASE NetworkAdvances \/ UNCHANGED vars
  BY <1>1, <1>3 DEF NetworkAdvances, vars
<1>4. ASSUME NEW c \in {"update", "config"}, StartCommand(c) PROVE IsChain(n)' /\ IsNext(n)'
  BY <1>2, <1>4 DEF StartCommand
<1>5. CASE Complete \/ Abort
  BY <1>2, <1>5 DEF Complete, Abort, Exit
<1> USE DEF Numbered, DisjointInv, Typed, TypeOK
<1>6. ASSUME NEW m \in Nodes, m # n, NodeStep(m) \/ PutManualFile(m) \/ DeleteFile(m)
      PROVE  IsChain(n)' /\ IsNext(n)'
  BY <1>1, <1>6 DEF NodeStep, SkipNotVoting, CheckFiles, OpenFile, FillFile, ReloadFiles,
                    PutManualFile, DeleteFile, memory
<1>7. CASE SkipNotVoting(n) \/ ReloadFiles(n)
  BY <1>2, <1>7 DEF SkipNotVoting, ReloadFiles
<1>8. CASE CheckFiles(n)
  <2> USE <1>8 DEF CheckFiles
  <2>1. PICK lastEnd \in LastEnds(n) :
          \/ pc' = [pc EXCEPT ![n] = "done"] /\ UNCHANGED plan
          \/ /\ ~UpToDate(MaxEndEpoch(lastEnd))
             /\ pc' = [pc EXCEPT ![n] = "create"]
             /\ plan' = [plan EXCEPT ![n] = NextFile(n, MaxEndEpoch(lastEnd))]
    OBVIOUS
  <2>2. CASE pc'[n] = "done"
    BY <1>2, <2>2
  <2>3. CASE ~UpToDate(MaxEndEpoch(lastEnd)) /\ pc' = [pc EXCEPT ![n] = "create"]
             /\ plan' = [plan EXCEPT ![n] = NextFile(n, MaxEndEpoch(lastEnd))]
    <3>1. /\ plan'[n] = NextFile(n, MaxEndEpoch(lastEnd)) /\ pc'[n] = "create"
          /\ UNCHANGED <<folder, epoch>> /\ Readable(n)
      BY <2>3
    <3>2. /\ DOMAIN folder[n] = 1..(plan'[n][1] - 1)
          /\ \A i \in DOMAIN folder[n] : After(folder[n][i], plan'[n][2])
      BY <2>3, <3>1, CheckPlansNext
    <3>3. IsNext(n)'
      BY <3>1, <3>2 DEF IsNext, Readable, Files, ReadableIndexes, After
    <3> QED
      BY <3>1, <3>3, ChainGrowsOld DEF IsChain
  <2> QED
    BY <2>1, <2>2, <2>3
<1>9. CASE OpenFile(n)
  <2>0. PICK p, f : p = plan[n][1] /\ f = WithFile(folder[n], p, Torn)
    OBVIOUS
  <2>1. /\ folder'[n] = f /\ UNCHANGED <<plan, epoch>>
        /\ pc'[n] = "writing" /\ pc[n] = "create"
    BY <1>9, <2>0 DEF OpenFile
  <2>2. /\ DOMAIN f = 1..p /\ f[p] = Torn /\ p \in Nat
        /\ \A i \in 1..(p - 1) : f[i] = folder[n][i] /\ folder[n][i] # Torn
    BY <2>0, <2>1 DEF WithFile, PlanNext, IsNext, PlanTyped, Readable, Files
  <2>3. \A i, j \in 1..(p - 1) : i < j => After(folder[n][i], folder[n][j])
    BY <2>0, <2>1, <2>2 DEF Chains, IsChain, Chain, PlanNext, IsNext
  <2>4. \A i \in 1..(p - 1) : After(folder[n][i], plan[n][2])
    BY <2>0, <2>1, <2>2 DEF PlanNext, IsNext, ReadableIndexes
  <2>5. Chain(f, p)
    <3>1. \A i, j \in 1..p : i < j /\ f[j] # Torn => After(f[i], f[j])
      <4> SUFFICES ASSUME NEW i \in 1..p, NEW j \in 1..p, i < j, j # p PROVE After(f[i], f[j])
        BY <2>2
      <4>1. /\ i \in 1..(p - 1) /\ f[i] = folder[n][i]
            /\ j \in 1..(p - 1) /\ f[j] = folder[n][j]
        BY <2>2
      <4> QED
        BY <2>3, <4>1
    <3>2. ASSUME NEW i \in 1..p, i # p PROVE f[i] # Torn
      <4>1. i \in 1..(p - 1)
        BY <2>2, <3>2
      <4> QED
        BY <2>2, <4>1
    <3> QED
      BY <2>2, <3>1, <3>2 DEF Chain
  <2>6. Chain(folder[n], p)'
    BY <2>1, <2>5 DEF Chain, After
  <2>7. IsNext(n)'
    BY <2>0, <2>1, <2>2, <2>4 DEF IsNext, ReadableIndexes, After
  <2> QED
    BY <2>2, <2>6, <2>7 DEF IsChain
<1>10. CASE FillFile(n)
  <2>0. PICK p, f : p = plan[n][1] /\ f = WithFile(folder[n], p, plan[n][2])
    OBVIOUS
  <2>1. /\ folder'[n] = f /\ UNCHANGED <<plan, epoch>>
        /\ pc'[n] = "reload" /\ pc[n] = "writing"
    BY <1>10, <2>0 DEF FillFile
  <2>2. /\ DOMAIN f = 1..p /\ f[p] = plan[n][2] /\ p \in Nat /\ plan[n][2] # Torn
        /\ \A i \in 1..(p - 1) : f[i] = folder[n][i]
    BY <2>0, <2>1, RangeNotTorn DEF WithFile, PlanNext, IsNext, PlanTyped
  <2>3. /\ \A i \in 1..(p - 1) : folder[n][i] # Torn
        /\ \A i, j \in 1..(p - 1) : i < j => After(folder[n][i], folder[n][j])
    BY <2>0, <2>1, <2>2 DEF Chains, IsChain, Chain, PlanNext, IsNext
  <2>4. \A i \in 1..(p - 1) : After(folder[n][i], plan[n][2])
    BY <2>0, <2>1, <2>2, <2>3 DEF PlanNext, IsNext, ReadableIndexes
  <2>5. Chain(f, p)
    <3>1. \A i, j \in 1..p : i < j => After(f[i], f[j])
      <4> SUFFICES ASSUME NEW i \in 1..p, NEW j \in 1..p, i < j PROVE After(f[i], f[j])
        OBVIOUS
      <4>1. i \in 1..(p - 1) /\ f[i] = folder[n][i]
        BY <2>2
      <4>2. CASE j = p
        BY <2>2, <2>4, <4>1, <4>2
      <4>3. CASE j # p
        <5>1. j \in 1..(p - 1) /\ f[j] = folder[n][j]
          BY <2>2, <4>3
        <5> QED
          BY <2>3, <4>1, <5>1
      <4> QED
        BY <4>2, <4>3
    <3>2. \A i \in 1..p : f[i] = Torn => i = p
      BY <2>2, <2>3
    <3> QED
      BY <2>2, <3>1, <3>2 DEF Chain
  <2>6. Chain(folder[n], p)'
    BY <2>1, <2>5 DEF Chain, After
  <2> QED
    BY <2>1, <2>2, <2>6 DEF IsChain, IsNext
<1>11. CASE DeleteFile(n)
  <2>1. PICK i \in DOMAIN folder[n] :
          folder[n][i] = Torn /\ folder'[n] = WithoutFile(folder[n], i)
    BY <1>11 DEF DeleteFile
  <2>2. UNCHANGED <<pc, plan, epoch>> /\ pc[n] = "done"
    BY <1>11 DEF DeleteFile, memory, Idle
  <2>3. PICK k \in Nat : Chain(folder[n], k)
    BY DEF Chains, IsChain
  <2>4. i = k /\ k \in Nat \ {0}
    BY <2>1, <2>3 DEF Chain
  <2>5. Chain(WithoutFile(folder[n], i), k - 1)
    BY <2>3, <2>4 DEF Chain, WithoutFile
  <2>6. Chain(folder[n], k - 1)'
    BY <2>1, <2>2, <2>5 DEF Chain, After
  <2> QED
    BY <2>2, <2>4, <2>6 DEF IsChain, IsNext
<1>12. ~PutManualFile(n)
  BY DEF PutManualFile
<1>13. IsChain(n)' /\ IsNext(n)'
  BY <1>3, <1>4, <1>5, <1>6, <1>7, <1>8, <1>9, <1>10, <1>11, <1>12 DEF Next, NodeStep
<1> QED
  BY <1>13 DEF IsChain

-----------------------------------------------------------------------------
(* What follows from the numbering.                                         *)

\* updateVotingKeys and config never touch a readable voting file, as long as
\* nobody else handles the files of the node: the index they open is free.
THEOREM UpdatesNeverOverwrite == Spec => NeverOverwrites
<1>1. Numbered /\ [Next]_vars =>
        [\A n \in Managed : OpenFile(n) => plan[n][1] \notin ReadableIndexes(n)]_vars
  <2> SUFFICES ASSUME Numbered, NEW n \in Managed, OpenFile(n)
               PROVE  plan[n][1] \notin ReadableIndexes(n)
    OBVIOUS
  <2>1. plan[n][1] \in Nat /\ DOMAIN folder[n] = 1..(plan[n][1] - 1)
    BY DEF Numbered, PlanNext, IsNext, DisjointInv, Typed, PlanTyped, OpenFile
  <2> QED
    BY <2>1 DEF ReadableIndexes
<1>2. Numbered /\ [Next]_vars => Numbered'
  BY NumberedStep
<1> QED
  BY InitNumbered, <1>1, <1>2, PTL DEF Spec, NeverOverwrites

\* A file with two later readable ones ended before the epoch by now.
LEMMA OldFilesEnd ==
    ASSUME Numbered, NEW n \in Managed, NEW m \in Nat, ReadableIndexes(n) = 1..m,
           NEW i \in 1..m, folder[n][i].endEpoch >= epoch
    PROVE  i \in (m - 2)..m
<1>1. \A j \in 1..m : folder[n][j].endEpoch \in Nat
  <2>1. \A j \in 1..m : j \in DOMAIN folder[n] /\ folder[n][j] # Torn
    BY DEF ReadableIndexes
  <2>2. \A j \in DOMAIN folder[n] : folder[n][j] \in EpochRange \cup {Torn}
    BY DEF Numbered, DisjointInv, Typed, TypeOK, IsFolder
  <2> QED
    BY <2>1, <2>2, RangeNotTorn
<1>2. \A j, l \in 1..m : j < l => After(folder[n][j], folder[n][l])
  <2>1. PICK k \in Nat : Chain(folder[n], k)
    BY DEF Numbered, Chains, IsChain
  <2>2. \A j \in 1..m : j \in 1..k /\ folder[n][j] # Torn
    BY <2>1 DEF Chain, ReadableIndexes
  <2> QED
    BY <2>1, <2>2 DEF Chain
<1>3. SUFFICES ASSUME i + 2 < m PROVE FALSE
  OBVIOUS
<1>4. After(folder[n][i], folder[n][i + 1]) /\ After(folder[n][i + 1], folder[n][i + 2])
  BY <1>2, <1>3
<1>5. folder[n][i + 1].endEpoch \in Nat /\ folder[n][i + 2].endEpoch \in Nat
      /\ After(folder[n][i + 2], folder[n][m])
  BY <1>1, <1>2, <1>3
<1>6. epoch \in Nat
  BY DEF Numbered, DisjointInv, Typed, TypeOK
<1>7. PICK a \in Nat, b \in Nat, c \in Nat :
        /\ a = folder[n][i].endEpoch /\ b = folder[n][i + 1].endEpoch
        /\ c = folder[n][i + 2].endEpoch
  BY <1>1, <1>5
<1>8. a >= epoch /\ a + Lifetime <= b /\ b + Lifetime <= c /\ c <= epoch + FutureLifetime
  BY <1>4, <1>5, <1>7 DEF After
<1> QED
  BY <1>6, <1>8, VotingAssumption

\* However long the network has been running, whatever commands were killed or
\* worked with an old epoch, updates never leave more than the three keys in
\* use that an account may link.
THEOREM UpdatesKeepThree == Spec => []AtMostThreeActive
<1>1. Numbered => AtMostThreeActive
  <2> SUFFICES ASSUME Numbered, NEW n \in Managed
               PROVE  Cardinality({i \in ReadableIndexes(n) : folder[n][i].endEpoch >= epoch}) <= 3
    BY DEF AtMostThreeActive
  <2>1. PICK k \in Nat : Chain(folder[n], k)
    BY DEF Numbered, Chains, IsChain
  <2>2. PICK m \in Nat : ReadableIndexes(n) = 1..m
    <3>1. CASE k # 0 /\ folder[n][k] = Torn
      <4>1. ReadableIndexes(n) = 1..(k - 1) /\ k - 1 \in Nat
        BY <2>1, <3>1 DEF Chain, ReadableIndexes
      <4> QED
        BY <4>1
    <3>2. CASE k = 0 \/ folder[n][k] # Torn
      BY <2>1, <3>2 DEF Chain, ReadableIndexes
    <3> QED
      BY <3>1, <3>2
  <2>3. {i \in ReadableIndexes(n) : folder[n][i].endEpoch >= epoch} \subseteq (m - 2)..m
    BY <2>2, OldFilesEnd
  <2>4. IsFiniteSet((m - 2)..m) /\ Cardinality((m - 2)..m) = 3
    BY FS_Interval
  <2> QED
    BY <2>3, <2>4, FS_Subset
<1>2. Numbered /\ [Next]_vars => Numbered'
  BY NumberedStep
<1> QED
  BY InitNumbered, <1>1, <1>2, PTL DEF Spec

\* Neither addresses.yml nor a running command lists a file that is not there.
Listed ==
    \A n \in Managed :
        /\ yml[n] \subseteq Files(n) \ {Torn}
        /\ account[n] \subseteq Files(n) \ {Torn}

\* Updates and the removal of truncated files leave the readable files alone.
LEMMA ReadableFilesStay ==
    ASSUME Numbered, [Next]_vars, NEW n \in Managed
    PROVE  Files(n) \ {Torn} \subseteq Files(n)'
<1> USE DEF Numbered, DisjointInv, Typed, TypeOK
<1>1. ASSUME folder'[n] = folder[n] PROVE Files(n)' = Files(n)
  BY <1>1 DEF Files
<1>2. CASE OpenFile(n) \/ FillFile(n)
  <2>1. PICK r : folder'[n] = WithFile(folder[n], plan[n][1], r)
    BY <1>2 DEF OpenFile, FillFile
  <2>2. plan[n][1] \in DOMAIN folder[n] => folder[n][plan[n][1]] = Torn
    BY <1>2 DEF OpenFile, FillFile, PlanNext, IsNext, PlanTyped
  <2> QED
    BY <2>1, <2>2 DEF Files, WithFile
<1>3. CASE DeleteFile(n)
  <2>1. PICK i \in DOMAIN folder[n] :
          folder[n][i] = Torn /\ folder'[n] = WithoutFile(folder[n], i)
    BY <1>3 DEF DeleteFile
  <2> QED
    BY <2>1 DEF Files, WithoutFile
<1>4. CASE ~(OpenFile(n) \/ FillFile(n) \/ DeleteFile(n))
  <2>1. ~PutManualFile(n)
    BY DEF PutManualFile
  <2>2. folder'[n] = folder[n]
    BY <1>4, <2>1 DEF Next, NodeStep, NetworkAdvances, StartCommand, SkipNotVoting, CheckFiles,
        OpenFile, FillFile, ReloadFiles, PutManualFile, DeleteFile, Complete, Abort, vars
  <2> QED
    BY <1>1, <2>2
<1> QED
  BY <1>2, <1>3, <1>4

LEMMA ListedStep ==
    ASSUME Numbered, Listed, [Next]_vars
    PROVE  Listed'
<1> SUFFICES ASSUME NEW n \in Managed
             PROVE  yml'[n] \cup account'[n] \subseteq Files(n)' \ {Torn}
  BY DEF Listed
<1>1. ASSUME yml'[n] \cup account'[n] \subseteq yml[n] \cup account[n]
      PROVE  yml'[n] \cup account'[n] \subseteq Files(n)' \ {Torn}
  BY <1>1, ReadableFilesStay DEF Listed
<1> USE DEF Numbered, DisjointInv, Typed, TypeOK
<1>2. ASSUME NEW m \in Nodes, CheckFiles(m) \/ ReloadFiles(m)
      PROVE  yml'[n] \cup account'[n] \subseteq Files(n)' \ {Torn}
  <2>1. /\ Readable(m) /\ UNCHANGED <<folder, yml>>
        /\ account' = [account EXCEPT ![m] = Files(m)]
    BY <1>2 DEF CheckFiles, ReloadFiles
  <2>2. CASE m = n
    BY <2>1, <2>2 DEF Listed, Readable, Files
  <2>3. CASE m # n
    BY <1>1, <2>1, <2>3
  <2> QED
    BY <2>2, <2>3
<1>3. CASE Complete \/ Abort
  BY <1>1, <1>3 DEF Complete, Abort, Exit
<1>4. ASSUME NEW c \in {"update", "config"}, StartCommand(c)
      PROVE  yml'[n] \cup account'[n] \subseteq Files(n)' \ {Torn}
  BY <1>1, <1>4 DEF StartCommand
<1>5. ASSUME NEW m \in Nodes, SkipNotVoting(m) \/ OpenFile(m) \/ FillFile(m)
                              \/ PutManualFile(m) \/ DeleteFile(m)
      PROVE  yml'[n] \cup account'[n] \subseteq Files(n)' \ {Torn}
  BY <1>1, <1>5 DEF SkipNotVoting, OpenFile, FillFile, PutManualFile, DeleteFile, memory
<1>6. CASE NetworkAdvances \/ UNCHANGED vars
  BY <1>1, <1>6 DEF NetworkAdvances, vars
<1> QED
  BY <1>2, <1>3, <1>4, <1>5, <1>6 DEF Next, NodeStep

\* addresses.yml never lists a voting key without a file, whenever a command
\* is killed.
THEOREM UpdatesListExisting == Spec => []ListedKeysExist
<1>1. Init => Listed
  BY DEF Init, Listed
<1>2. Listed => ListedKeysExist
  BY DEF Listed, ListedKeysExist
<1>3. Numbered /\ [Next]_vars => Numbered'
  BY NumberedStep
<1>4. Numbered /\ Listed /\ [Next]_vars => Listed'
  BY ListedStep
<1> QED
  BY InitNumbered, <1>1, <1>2, <1>3, <1>4, PTL DEF Spec

-----------------------------------------------------------------------------
(* No epoch ahead is left without a key.                                    *)

Keys(n) == Files(n) \ {Torn}

HasKey(n, e) == \E r \in Keys(n) : r.startEpoch <= e /\ e <= r.endEpoch

\* Up to the end of any file there is a key for every epoch still to come.
NoHole(n) == \A r \in Keys(n) : \A e \in Nat : epoch <= e /\ e <= r.endEpoch => HasKey(n, e)

\* The file being created starts where the others end, or in the past.
PlanCloses(n) ==
    pc[n] \in {"create", "writing"} =>
        /\ plan[n][2].endEpoch >= known + Lifetime - 1
        /\ \/ plan[n][2].startEpoch <= epoch
           \/ \E r \in Keys(n) : plan[n][2].startEpoch <= r.endEpoch + 1

\* How far ahead of the known epoch the keys reach when an update is through.
Ahead == IF FutureLifetime < Lifetime THEN FutureLifetime ELSE Lifetime - 1

Reaches(n) ==
    n \in Voting /\ Update /\ command # "none" /\ pc[n] \in {"reload", "done"} =>
        \E r \in Keys(n) : r.endEpoch >= known + Ahead

CoverInv == \A n \in Managed : NoHole(n) /\ PlanCloses(n) /\ Reaches(n)

LEMMA KeysTyped ==
    ASSUME TypeOK, NEW n \in Nodes
    PROVE  \A r \in Keys(n) : r \in EpochRange /\ r.startEpoch \in Nat /\ r.endEpoch \in Nat
<1>1. Keys(n) \subseteq EpochRange
  BY DEF TypeOK, IsFolder, Keys, Files
<1> QED
  BY <1>1, RangeNotTorn

\* Only filling a file changes which keys there are.
LEMMA KeysKeptButFill ==
    ASSUME Numbered, [Next]_vars, NEW n \in Managed, ~FillFile(n)
    PROVE  Keys(n)' = Keys(n)
<1> USE DEF Numbered, DisjointInv, Typed, TypeOK
<1>1. Keys(n) \subseteq Keys(n)'
  BY ReadableFilesStay DEF Keys
<1>2. CASE OpenFile(n)
  <2>1. folder'[n] = WithFile(folder[n], plan[n][1], Torn)
    BY <1>2 DEF OpenFile
  <2>2. Keys(n)' \subseteq Keys(n)
    BY <2>1 DEF Keys, Files, WithFile
  <2> QED
    BY <1>1, <2>2
<1>3. CASE DeleteFile(n)
  <2>1. PICK i \in DOMAIN folder[n] : folder'[n] = WithoutFile(folder[n], i)
    BY <1>3 DEF DeleteFile
  <2>2. Keys(n)' \subseteq Keys(n)
    BY <2>1 DEF Keys, Files, WithoutFile
  <2> QED
    BY <1>1, <2>2
<1>4. CASE ~(OpenFile(n) \/ DeleteFile(n))
  <2>1. ~PutManualFile(n)
    BY DEF PutManualFile
  <2>2. folder'[n] = folder[n]
    BY <1>4, <2>1 DEF Next, NodeStep, NetworkAdvances, StartCommand, SkipNotVoting, CheckFiles,
        OpenFile, FillFile, ReloadFiles, PutManualFile, DeleteFile, Complete, Abort, vars
  <2> QED
    BY <2>2 DEF Keys, Files
<1> QED
  BY <1>2, <1>3, <1>4

LEMMA FillAddsPlan ==
    ASSUME Numbered, NEW n \in Managed, FillFile(n)
    PROVE  Keys(n)' = Keys(n) \cup {plan[n][2]}
<1> USE DEF Numbered, DisjointInv, Typed, TypeOK
<1>1. folder'[n] = WithFile(folder[n], plan[n][1], plan[n][2])
  BY DEF FillFile
<1>2. /\ plan[n][1] \in DOMAIN folder[n] /\ folder[n][plan[n][1]] = Torn
      /\ plan[n][2] # Torn
  BY RangeNotTorn DEF FillFile, PlanNext, IsNext, PlanTyped
<1> QED
  BY <1>1, <1>2 DEF Keys, Files, WithFile

\* What CheckFiles finds or plans.
LEMMA CheckCovers ==
    ASSUME Numbered, NEW n \in Managed, Readable(n), NEW lastEnd \in LastEnds(n)
    PROVE  LET maxEnd == MaxEndEpoch(lastEnd)
               new == NextFile(n, maxEnd)[2]
           IN  /\ UpToDate(maxEnd) => \E r \in Keys(n) : r.endEpoch >= known + Ahead
               /\ new.endEpoch >= known + Lifetime - 1
               /\ new.startEpoch <= epoch \/ \E r \in Keys(n) : new.startEpoch <= r.endEpoch + 1
<1> DEFINE maxEnd == MaxEndEpoch(lastEnd)
           new == NextFile(n, maxEnd)[2]
<1>1. /\ lastEnd \in Nat /\ known \in Nat \ {0} /\ epoch \in Nat /\ known <= epoch
      /\ maxEnd = (IF lastEnd > known - 1 THEN lastEnd ELSE known - 1)
      /\ new.startEpoch = maxEnd + 1 /\ new.endEpoch = maxEnd + Lifetime
  BY NextFileTyped DEF Numbered, DisjointInv, Typed, TypeOK, KnownEpoch, MaxEndEpoch
<1>2. lastEnd = 0 \/ \E r \in Keys(n) : r.endEpoch = lastEnd
  <2>1. CASE DOMAIN folder[n] = {}
    BY <2>1 DEF LastEnds
  <2>2. CASE DOMAIN folder[n] # {}
    BY <2>2 DEF LastEnds, LastFiles, Keys, Readable, Files
  <2> QED
    BY <2>1, <2>2
<1>3. UpToDate(maxEnd) => \E r \in Keys(n) : r.endEpoch >= known + Ahead
  <2> SUFFICES ASSUME UpToDate(maxEnd) PROVE \E r \in Keys(n) : r.endEpoch >= known + Ahead
    OBVIOUS
  <2>1. lastEnd > 0 /\ lastEnd >= known + Ahead
    BY <1>1, VotingAssumption DEF UpToDate, Ahead
  <2> QED
    BY <1>1, <1>2, <2>1
<1> HIDE DEF new, maxEnd
<1>4. new.endEpoch >= known + Lifetime - 1
  BY <1>1, VotingAssumption
<1>5. new.startEpoch <= epoch \/ \E r \in Keys(n) : new.startEpoch <= r.endEpoch + 1
  BY <1>1, <1>2
<1> QED
  BY <1>3, <1>4, <1>5 DEF new, maxEnd

LEMMA CoverStep ==
    ASSUME Numbered, CoverInv, [Next]_vars
    PROVE  CoverInv'
<1> SUFFICES ASSUME NEW n \in Managed PROVE NoHole(n)' /\ PlanCloses(n)' /\ Reaches(n)'
  BY DEF CoverInv
<1>0. epoch' >= epoch /\ epoch \in Nat /\ epoch' \in Nat
  BY EpochStep, TypedStep DEF Numbered, DisjointInv, Typed, TypeOK
<1>1. ASSUME ~FillFile(n) PROVE Keys(n)' = Keys(n) /\ NoHole(n)'
  <2>1. Keys(n)' = Keys(n)
    BY <1>1, KeysKeptButFill
  <2>2. \A r \in Keys(n) : r.endEpoch \in Nat
    BY KeysTyped DEF Numbered, DisjointInv, Typed
  <2> QED
    BY <1>0, <2>1, <2>2 DEF CoverInv, NoHole, HasKey
<1>2. ASSUME ~FillFile(n), UNCHANGED <<command, known>>, pc'[n] = pc[n], plan'[n] = plan[n]
      PROVE  NoHole(n)' /\ PlanCloses(n)' /\ Reaches(n)'
  <2>1. Reaches(n)'
    BY <1>1, <1>2 DEF CoverInv, Reaches, Update
  <2>2. plan[n][2].startEpoch <= epoch => plan[n][2].startEpoch <= epoch'
           \/ pc[n] \notin {"create", "writing"}
    BY <1>0, RangeNotTorn DEF Numbered, DisjointInv, Typed, PlanTyped
  <2>3. PlanCloses(n)'
    BY <1>1, <1>2, <2>2 DEF CoverInv, PlanCloses
  <2> QED
    BY <1>1, <1>2, <2>1, <2>3
<1>3. ASSUME ~FillFile(n), pc'[n] \notin {"create", "writing"},
             command' = "none" \/ pc'[n] = "start"
      PROVE  NoHole(n)' /\ PlanCloses(n)' /\ Reaches(n)'
  BY <1>1, <1>3 DEF PlanCloses, Reaches
<1> USE DEF Numbered, DisjointInv, Typed, TypeOK
<1>4. CASE NetworkAdvances \/ UNCHANGED vars
  BY <1>2, <1>4 DEF NetworkAdvances, vars, FillFile
<1>5. ASSUME NEW c \in {"update", "config"}, StartCommand(c)
      PROVE  NoHole(n)' /\ PlanCloses(n)' /\ Reaches(n)'
  BY <1>3, <1>5 DEF StartCommand, FillFile
<1>6. CASE Complete \/ Abort
  BY <1>3, <1>6 DEF Complete, Abort, Exit, FillFile
<1>7. ASSUME NEW m \in Nodes, PutManualFile(m) \/ DeleteFile(m)
      PROVE  NoHole(n)' /\ PlanCloses(n)' /\ Reaches(n)'
  BY <1>2, <1>7 DEF PutManualFile, DeleteFile, memory, FillFile
<1>8. ASSUME NEW m \in Nodes, m # n, NodeStep(m)
      PROVE  NoHole(n)' /\ PlanCloses(n)' /\ Reaches(n)'
  <2>1. UNCHANGED <<command, known>> /\ pc'[n] = pc[n] /\ plan'[n] = plan[n]
    BY <1>8 DEF NodeStep, SkipNotVoting, CheckFiles, OpenFile, FillFile, ReloadFiles
  <2>2. ~FillFile(n)
    BY <2>1 DEF FillFile
  <2> QED
    BY <1>2, <2>1, <2>2
<1>9. CASE SkipNotVoting(n)
  <2>1. n \notin Voting /\ pc'[n] = "done" /\ ~FillFile(n)
    BY <1>9 DEF SkipNotVoting, FillFile
  <2> QED
    BY <1>1, <2>1 DEF PlanCloses, Reaches
<1>10. CASE CheckFiles(n)
  <2> USE <1>10 DEF CheckFiles
  <2>1. PICK lastEnd \in LastEnds(n) :
          \/ /\ UpToDate(MaxEndEpoch(lastEnd)) \/ ~Update
             /\ pc' = [pc EXCEPT ![n] = "done"] /\ UNCHANGED plan
          \/ /\ pc' = [pc EXCEPT ![n] = "create"]
             /\ plan' = [plan EXCEPT ![n] = NextFile(n, MaxEndEpoch(lastEnd))]
    OBVIOUS
  <2>2. Readable(n) /\ UNCHANGED <<command, known, epoch>> /\ ~FillFile(n)
    BY DEF FillFile
  <2>3. CASE /\ UpToDate(MaxEndEpoch(lastEnd)) \/ ~Update
             /\ pc' = [pc EXCEPT ![n] = "done"] /\ UNCHANGED plan
    BY <1>1, <2>2, <2>3, CheckCovers DEF PlanCloses, Reaches, Update
  <2>4. CASE /\ pc' = [pc EXCEPT ![n] = "create"]
             /\ plan' = [plan EXCEPT ![n] = NextFile(n, MaxEndEpoch(lastEnd))]
    <3>1. pc'[n] = "create" /\ plan'[n] = NextFile(n, MaxEndEpoch(lastEnd))
      BY <2>4
    <3> QED
      BY <1>1, <2>2, <3>1, CheckCovers DEF PlanCloses, Reaches
  <2> QED
    BY <2>1, <2>3, <2>4
<1>11. CASE OpenFile(n)
  <2>1. /\ UNCHANGED <<command, known, epoch, plan>> /\ ~FillFile(n)
        /\ pc[n] = "create" /\ pc'[n] = "writing"
    BY <1>11 DEF OpenFile, FillFile
  <2> QED
    BY <1>1, <2>1 DEF CoverInv, PlanCloses, Reaches
<1>12. CASE FillFile(n)
  <2>1. /\ UNCHANGED <<command, known, epoch, plan>>
        /\ pc[n] = "writing" /\ pc'[n] = "reload" /\ known \in Nat
    BY <1>12 DEF FillFile
  <2>2. Keys(n)' = Keys(n) \cup {plan[n][2]}
    BY <1>12, FillAddsPlan
  <2>3. PICK from \in Nat, to \in Nat :
          from = plan[n][2].startEpoch /\ to = plan[n][2].endEpoch
    BY <2>1, RangeNotTorn DEF PlanTyped
  <2>4. /\ to >= known + Lifetime - 1
        /\ from <= epoch \/ \E r \in Keys(n) : from <= r.endEpoch + 1
    BY <2>1, <2>3 DEF CoverInv, PlanCloses
  <2>5. to >= known + Ahead
    BY <2>1, <2>4, VotingAssumption DEF Ahead
  <2>6. \A e \in Nat : epoch <= e /\ e < from => HasKey(n, e)
    <3> SUFFICES ASSUME NEW e \in Nat, epoch <= e, e < from PROVE HasKey(n, e)
      OBVIOUS
    <3>1. PICK r \in Keys(n) : from <= r.endEpoch + 1
      BY <1>0, <2>4
    <3>2. r.endEpoch \in Nat /\ e <= r.endEpoch
      BY <3>1, KeysTyped
    <3> QED
      BY <3>2 DEF CoverInv, NoHole
  <2>7. \A e \in Nat : HasKey(n, e) => HasKey(n, e)'
    BY <2>2 DEF HasKey
  <2>8. \A e \in Nat : from <= e /\ e <= to => HasKey(n, e)'
    BY <2>2, <2>3 DEF HasKey
  <2>9. NoHole(n)'
    <3> SUFFICES ASSUME NEW r \in Keys(n)', NEW e \in Nat, epoch <= e, e <= r.endEpoch
                 PROVE  HasKey(n, e)'
      BY <2>1 DEF NoHole
    <3>1. CASE r \in Keys(n)
      BY <2>7, <3>1 DEF CoverInv, NoHole
    <3>2. CASE r = plan[n][2]
      BY <2>3, <2>6, <2>7, <2>8, <3>2
    <3> QED
      BY <2>2, <3>1, <3>2
  <2>10. PlanCloses(n)'
    BY <2>1 DEF PlanCloses
  <2>11. Reaches(n)'
    BY <2>1, <2>2, <2>3, <2>5 DEF Reaches
  <2> QED
    BY <2>9, <2>10, <2>11
<1>13. CASE ReloadFiles(n)
  <2>1. /\ UNCHANGED <<command, known, epoch, plan>> /\ ~FillFile(n)
        /\ pc[n] = "reload" /\ pc'[n] = "done"
    BY <1>13 DEF ReloadFiles, FillFile
  <2> QED
    BY <1>1, <2>1 DEF CoverInv, PlanCloses, Reaches, Update
<1> QED
  BY <1>4, <1>5, <1>6, <1>7, <1>8, <1>9, <1>10, <1>11, <1>12, <1>13 DEF Next, NodeStep

LEMMA InitCovers == Init => CoverInv
<1> SUFFICES ASSUME Init PROVE CoverInv
  OBVIOUS
<1>1. \A n \in Managed : Keys(n) = {}
  BY DEF Init, Keys, Files
<1> QED
  BY <1>1 DEF Init, CoverInv, NoHole, PlanCloses, Reaches

\* When a command that knows the real epoch completes, no voting node lacks a
\* key for the epochs ahead.
THEOREM UpdatesCover == Spec => CoveredAfterUpdate
<1>1. Numbered /\ CoverInv =>
        [\A n \in Voting \cap Managed :
            Complete /\ Update /\ known = epoch => Covered(n, epoch, epoch + Ahead)]_vars
  <2> SUFFICES ASSUME Numbered, CoverInv, NEW n \in Voting \cap Managed, Complete, Update,
                      known = epoch,
                      NEW e \in epoch..(epoch + Ahead)
               PROVE  \E i \in ReadableIndexes(n) :
                        folder[n][i].startEpoch <= e /\ e <= folder[n][i].endEpoch
    BY DEF Covered
  <2>1. n \in Nodes
    BY VotingAssumption
  <2>2. PICK r \in Keys(n) : r.endEpoch >= epoch + Ahead
    BY <2>1 DEF CoverInv, Reaches, Complete
  <2>3. e \in Nat /\ epoch <= e /\ e <= r.endEpoch
    BY <2>1, <2>2, KeysTyped, VotingAssumption DEF Ahead, Numbered, DisjointInv, Typed, TypeOK
  <2>4. HasKey(n, e)
    BY <2>1, <2>2, <2>3 DEF CoverInv, NoHole
  <2> QED
    BY <2>4 DEF HasKey, Keys, Files, ReadableIndexes
<1>2. Numbered /\ [Next]_vars => Numbered'
  BY NumberedStep
<1>3. Numbered /\ CoverInv /\ [Next]_vars => CoverInv'
  BY CoverStep
<1> QED
  BY InitNumbered, InitCovers, <1>1, <1>2, <1>3, PTL DEF Spec, CoveredAfterUpdate, Ahead

-----------------------------------------------------------------------------
(* The files implement VotingCoverage.                                      *)

\* Only filling a file changes the epochs a node can vote in.
LEMMA CoveredKept ==
    ASSUME Numbered, [Next]_vars, NEW n \in Managed, ~FillFile(n)
    PROVE  CoveredEpochs(n)' = CoveredEpochs(n)
BY KeysKeptButFill DEF CoveredEpochs, Keys

LEMMA FillExtends ==
    ASSUME Numbered, NEW n \in Managed, FillFile(n)
    PROVE  CoveredEpochs(n)' = CoveredEpochs(n) \cup plan[n][2].startEpoch..plan[n][2].endEpoch
<1>1. (Files(n) \ {Torn})' = (Files(n) \ {Torn}) \cup {plan[n][2]}
  BY FillAddsPlan DEF Keys
<1>2. plan' = plan
  BY DEF FillFile
<1> QED
  BY <1>1, <1>2 DEF CoveredEpochs

\* The end of a readable file is an epoch the node can vote in.
LEMMA EndCovered ==
    ASSUME Numbered, NEW n \in Managed, NEW r \in Keys(n)
    PROVE  r.endEpoch \in CoveredEpochs(n)
<1>1. r.startEpoch \in Nat /\ r.endEpoch \in Nat
  BY KeysTyped DEF Numbered, DisjointInv, Typed
<1>2. PICK i \in DOMAIN folder[n] : r = folder[n][i] /\ r # Torn
  BY DEF Keys, Files
<1>3. r.startEpoch <= r.endEpoch
  BY <1>2 DEF Numbered, DisjointInv, FoldersSeparated, Separated
<1> QED
  BY <1>1, <1>3 DEF CoveredEpochs, Keys

\* The file being created starts right behind the others, or at an epoch the
\* network has reached and no other file covers.
LEMMA PlanStarts ==
    ASSUME Numbered, CoverInv, NEW n \in Managed, pc[n] = "writing"
    PROVE  plan[n][2].startEpoch \in Coverage!Starts(CoveredEpochs(n))
<1> USE DEF Numbered, DisjointInv, Typed, TypeOK
<1>1. PICK from \in Nat : /\ from = plan[n][2].startEpoch /\ from > 0
                         /\ plan[n][2].endEpoch = from + Lifetime - 1
  BY RangeNotTorn DEF PlanTyped
<1>2. \A r \in Keys(n) : r.endEpoch < from /\ r.endEpoch \in Nat
  <2> SUFFICES ASSUME NEW r \in Keys(n) PROVE r.endEpoch < from /\ r.endEpoch \in Nat
    OBVIOUS
  <2>1. PICK i \in ReadableIndexes(n) : r = folder[n][i]
    BY DEF Keys, Files, ReadableIndexes
  <2>2. After(r, plan[n][2])
    BY <2>1 DEF PlanNext, IsNext
  <2>3. r.endEpoch \in Nat
    BY KeysTyped
  <2> QED
    BY <1>1, <2>2, <2>3, VotingAssumption DEF After
<1>3. \A e \in CoveredEpochs(n) : e < from
  <2> SUFFICES ASSUME NEW r \in Keys(n), NEW e \in r.startEpoch..r.endEpoch PROVE e < from
    BY DEF CoveredEpochs, Keys
  <2>1. r.startEpoch \in Nat
    BY KeysTyped
  <2> QED
    BY <1>2, <2>1
<1>4. from \in 1..epoch \/ \E r \in Keys(n) : from = r.endEpoch + 1
  <2>1. from <= epoch \/ \E r \in Keys(n) : from <= r.endEpoch + 1
    BY <1>1 DEF CoverInv, PlanCloses
  <2>2. CASE from <= epoch
    BY <1>1, <2>2
  <2>3. CASE \E r \in Keys(n) : from <= r.endEpoch + 1
    <3>1. PICK r \in Keys(n) : from <= r.endEpoch + 1
      BY <2>3
    <3>2. r.endEpoch \in Nat /\ r.endEpoch < from
      BY <1>2
    <3>3. from = r.endEpoch + 1
      BY <3>1, <3>2
    <3> QED
      BY <3>3
  <2> QED
    BY <2>1, <2>2, <2>3
<1>5. from \in (1..epoch) \cup {e + 1 : e \in CoveredEpochs(n)}
  BY <1>4, EndCovered
<1> QED
  BY <1>1, <1>3, <1>5 DEF Coverage!Starts

LEMMA CoverageStep ==
    ASSUME Numbered, CoverInv, [Next]_vars
    PROVE  [Coverage!Next]_Coverage!vars
<1> DEFINE covered == [n \in Managed |-> CoveredEpochs(n)]
<1>1. ASSUME NEW n \in Managed, FillFile(n) PROVE Coverage!Extend(n)
  <2>1. UNCHANGED epoch /\ pc[n] = "writing"
    BY <1>1 DEF FillFile
  <2>2. PICK from : from = plan[n][2].startEpoch
    OBVIOUS
  <2>3. from \in Coverage!Starts(covered[n])
    BY <2>1, <2>2, PlanStarts
  <2>4. plan[n][2].endEpoch = from + Lifetime - 1
    BY <2>1, <2>2 DEF Numbered, DisjointInv, Typed, PlanTyped
  <2>5. CoveredEpochs(n)' = CoveredEpochs(n) \cup from..(from + Lifetime - 1)
    BY <1>1, <2>2, <2>4, FillExtends
  <2>6. \A m \in Managed : m # n => CoveredEpochs(m)' = CoveredEpochs(m)
    <3> SUFFICES ASSUME NEW m \in Managed, m # n PROVE ~FillFile(m)
      BY CoveredKept
    <3> QED
      BY <1>1 DEF FillFile, Numbered, DisjointInv, Typed, TypeOK
  <2>7. covered' = [covered EXCEPT ![n] = covered[n] \cup from..(from + Lifetime - 1)]
    BY <2>5, <2>6
  <2>8. covered' # covered
    <3>1. \A e \in CoveredEpochs(n) : e < from
      BY <2>3 DEF Coverage!Starts
    <3>2. from \in Nat /\ Lifetime \in Nat /\ Lifetime > 0
      BY <2>1, <2>2, VotingAssumption, RangeNotTorn
         DEF Numbered, DisjointInv, Typed, PlanTyped
    <3>3. from \notin CoveredEpochs(n) /\ from \in from..(from + Lifetime - 1)
      BY <3>1, <3>2
    <3> QED
      BY <2>5, <3>3
  <2> QED
    BY <2>1, <2>3, <2>7, <2>8 DEF Coverage!Extend
<1>2. ASSUME \A n \in Managed : ~FillFile(n) PROVE covered' = covered
  BY <1>2, CoveredKept
<1>3. CASE NetworkAdvances
  <2>1. \A n \in Managed : ~FillFile(n)
    BY <1>3 DEF NetworkAdvances, FillFile, Numbered, DisjointInv, Typed, TypeOK
  <2> QED
    BY <1>2, <1>3, <2>1 DEF NetworkAdvances, Coverage!Next, Coverage!Advance
<1>4. CASE ~NetworkAdvances /\ \A n \in Managed : ~FillFile(n)
  <2>1. UNCHANGED epoch
    BY <1>4 DEF Next, NodeStep, StartCommand, SkipNotVoting, CheckFiles, OpenFile, FillFile,
        ReloadFiles, PutManualFile, DeleteFile, Complete, Abort, vars
  <2> QED
    BY <1>2, <1>4, <2>1 DEF Coverage!vars
<1> QED
  BY <1>1, <1>3, <1>4 DEF Coverage!Next

\* The commands implement VotingCoverage for every node that is left to them,
\* for any lifetimes, nodes, stale epochs and crashes.
THEOREM UpdatesAppendLifetimes == Spec => AppendsLifetimes
<1>1. Init => Coverage!Init
  <2> SUFFICES ASSUME Init PROVE Coverage!Init
    OBVIOUS
  <2>1. \A n \in Managed : CoveredEpochs(n) = {}
    BY DEF Init, CoveredEpochs, Files
  <2> QED
    BY <2>1, VotingAssumption DEF Init, Coverage!Init
<1>2. Numbered /\ [Next]_vars => Numbered'
  BY NumberedStep
<1>3. Numbered /\ CoverInv /\ [Next]_vars => CoverInv'
  BY CoverStep
<1>4. Numbered /\ CoverInv /\ [Next]_vars => [Coverage!Next]_Coverage!vars
  BY CoverageStep
<1> QED
  BY InitNumbered, InitCovers, <1>1, <1>2, <1>3, <1>4, PTL DEF Spec, AppendsLifetimes, Coverage!Spec

\* No epoch ahead is missing below one that a node has a key for.
THEOREM UpdatesLeaveNoHole == Spec => []NoHoleAhead
<1>1. Numbered /\ CoverInv => NoHoleAhead
  <2> SUFFICES ASSUME Numbered, CoverInv, NEW n \in Managed, NEW r \in Keys(n),
                      NEW e \in r.startEpoch..r.endEpoch, NEW f \in epoch..e
               PROVE  f \in CoveredEpochs(n)
    BY DEF NoHoleAhead, Coverage!NoHoleAhead, CoveredEpochs, Keys
  <2>1. r.startEpoch \in Nat /\ r.endEpoch \in Nat /\ epoch \in Nat
    BY KeysTyped DEF Numbered, DisjointInv, Typed, TypeOK
  <2>2. HasKey(n, f)
    BY <2>1 DEF CoverInv, NoHole
  <2>3. \A k \in Keys(n) : k.startEpoch \in Nat /\ k.endEpoch \in Nat
    BY KeysTyped DEF Numbered, DisjointInv, Typed
  <2> QED
    BY <2>1, <2>2, <2>3 DEF HasKey, CoveredEpochs, Keys
<1>2. Numbered /\ [Next]_vars => Numbered'
  BY NumberedStep
<1>3. Numbered /\ CoverInv /\ [Next]_vars => CoverInv'
  BY CoverStep
<1> QED
  BY InitNumbered, InitCovers, <1>1, <1>2, <1>3, PTL DEF Spec
=============================================================================

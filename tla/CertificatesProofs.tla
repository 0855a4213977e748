------------------------- MODULE CertificatesProofs -------------------------
(***************************************************************************)
(* Proofs about Certificates, for all nodes, keys and numbers of days. The  *)
(* inductive invariant says, for every folder, what each stage of the call  *)
(* has done so far and what a kill at that stage leaves (Folder).           *)
(***************************************************************************)
EXTENDS Certificates, TLAPS

\* The stages of createCertificate after the old folder is gone.
Making == {"ca", "sign", "write", "verify", "join", "metadata", "fill"}

\* Where the command and its calls are, and what they work with.
Running ==
    /\ pc = "idle" => \A n \in Nodes : stage[n] = "todo" /\ ~renew[n]
    /\ pc # "idle" => keys \in [Nodes -> Keys] /\ began <= day
    /\ pc = "addresses" => AllDone

\* metadata.yml in the stages of the call, and what renew says of it.
Marked(n) ==
    /\ stage[n] \in {"todo", "delete"} => ~renew[n]
    /\ stage[n] = "delete" => metadata[n] # keys[n]
    /\ stage[n] \in Making /\ ~renew[n] => metadata[n] = 0
    /\ stage[n] \in Making \ {"fill"} /\ renew[n] => metadata[n] = keys[n]
    /\ stage[n] = "fill" => metadata[n] = 0
    /\ stage[n] = "done" => metadata[n] = keys[n]
    /\ cut[n] \in {"creation", "metadata"} => metadata[n] = 0

CertificatesOf(n) == {ca[n], crt[n], full[n].crt, full[n].ca}
For(n, k) == \A f \in CertificatesOf(n) : f = Unreadable \/ f.key = k

\* The files that are there are for the right keys.
Owned(n) ==
    /\ metadata[n] # 0 => For(n, metadata[n])
    /\ stage[n] \in Making => For(n, keys[n])

\* What openssl has made.
Whole(n, k) ==
    /\ crt[n].key = k /\ ca[n].key = k
    /\ full[n] = [crt |-> crt[n], ca |-> ca[n]]
Made(n) ==
    /\ stage[n] \in {"write", "verify", "join", "metadata", "fill"} => ca[n].key = keys[n]
    /\ stage[n] \in {"verify", "join", "metadata", "fill"} =>
         crt[n].key = keys[n] /\ crt[n].end >= began + NodeDays
    /\ stage[n] \in {"metadata", "fill"} => Whole(n, keys[n])

\* Nothing is missing where nothing was killed.
Uncut(n) ==
    cut[n] = "none" /\ metadata[n] # 0 /\ stage[n] \notin {"write", "verify", "join"} =>
        Whole(n, metadata[n])

\* What is kept or renewed does not expire soon.
Timely(n) ==
    stage[n] = "done" /\ mode # "ONLY_WARNING" /\ WarningDays < NodeDays =>
        crt[n].end > began + WarningDays

\* An authority without metadata.yml was left by a command that was killed.
Explained(n) ==
    /\ stage[n] \in {"todo", "delete"} /\ metadata[n] = 0 /\ ca[n] # Unreadable =>
         cut[n] \in {"creation", "metadata"}
    /\ stage[n] = "ca" /\ ~renew[n] => ca[n] = Unreadable

Folder(n) == Marked(n) /\ Owned(n) /\ Made(n) /\ Uncut(n) /\ Timely(n) /\ Explained(n)

CertificatesInv == TypeOK /\ Running /\ \A n \in Nodes : Folder(n)

-----------------------------------------------------------------------------
LEMMA InitInv == Init => CertificatesInv
BY CertificatesAssumption
   DEF Init, CertificatesInv, TypeOK, Running, Folder, Marked, Owned, Made, Uncut, Timely,
       CertificatesOf, For, Whole, Certificate, Unreadable, Chain, NoChain, Stages, Modes,
       Making, AllDone, Explained, Cuts

\* The records that the steps write are of their types.
LEMMA Records ==
    /\ Unreadable \in Certificate /\ NoChain \in Chain
    /\ \A k \in Keys \cup {0}, d \in Nat : [key |-> k, end |-> d] \in Certificate
    /\ \A c, f \in Certificate : [crt |-> c, ca |-> f] \in Chain
BY DEF Unreadable, NoChain, Certificate, Chain

\* What every step of a call keeps of the types.
LEMMA GoType ==
    ASSUME TypeOK, NEW n \in Nodes, NEW s \in Stages, Go(n, s)
    PROVE  /\ stage' \in [Nodes -> Stages]
           /\ day' \in Nat /\ began' \in Nat
           /\ addresses' \in [Nodes -> Keys \cup {0}]
           /\ pc' \in {"idle", "certificates", "addresses"}
           /\ mode' \in Modes
           /\ keys' \in [Nodes -> Keys \cup {0}]
BY DEF TypeOK, Go, command

LEMMA ExitType == TypeOK /\ Exit =>
    /\ pc' = "idle" /\ mode' \in Modes /\ began' \in Nat
    /\ keys' \in [Nodes -> Keys \cup {0}]
    /\ stage' \in [Nodes -> Stages] /\ renew' \in [Nodes -> BOOLEAN]
BY DEF TypeOK, Exit, Modes, Stages

LEMMA CutNowType ==
    ASSUME TypeOK, NEW n \in Nodes
    PROVE  CutNow(n) \in Cuts
BY DEF TypeOK, CutNow, Cuts

LEMMA TypeStep == TypeOK /\ [Next]_vars => TypeOK'
<1> SUFFICES ASSUME TypeOK, [Next]_vars PROVE TypeOK'
  OBVIOUS
<1>1. CASE StartConfig
  BY <1>1 DEF StartConfig, Start, TypeOK, Modes, files
<1>2. CASE StartRenew
  BY <1>2 DEF StartRenew, Start, TypeOK, Modes, files
<1>3. CASE Abort
  BY <1>3, ExitType, CutNowType DEF Abort, TypeOK, files
<1>4. ASSUME NEW n \in Nodes, Examine(n) PROVE TypeOK'
  BY <1>4, GoType DEF Examine, TypeOK, files, Stages
<1>5. ASSUME NEW n \in Nodes, DeleteFolder(n) PROVE TypeOK'
  BY <1>5, GoType, Records DEF DeleteFolder, Deleted, TypeOK, Stages
<1>6. ASSUME NEW n \in Nodes, DeleteCut(n) PROVE TypeOK'
  <2>1. /\ ca' \in [Nodes -> Certificate] /\ crt' \in [Nodes -> Certificate]
        /\ full' \in [Nodes -> Chain] /\ metadata' \in [Nodes -> Keys \cup {0}]
    BY <1>6, Records DEF DeleteCut, Deleted, TypeOK
  <2>2. cut' \in [Nodes -> Cuts]
    BY <1>6, CutNowType DEF DeleteCut, Cuts
  <2> QED
    BY <1>6, <2>1, <2>2, ExitType DEF DeleteCut, TypeOK
<1>7. ASSUME NEW n \in Nodes, MakeCa(n) PROVE TypeOK'
  <2>1. [key |-> keys[n], end |-> day + CaDays] \in Certificate
    BY CertificatesAssumption, Records DEF TypeOK
  <2> QED
    BY <1>7, <2>1, GoType DEF MakeCa, TypeOK, Stages
<1>8. ASSUME NEW n \in Nodes, OpenCrt(n) PROVE TypeOK'
  BY <1>8, GoType, Records DEF OpenCrt, TypeOK, Stages
<1>9. ASSUME NEW n \in Nodes, FillCrt(n) PROVE TypeOK'
  <2>1. [key |-> keys[n], end |-> day + NodeDays] \in Certificate
    BY CertificatesAssumption, Records DEF TypeOK
  <2> QED
    BY <1>9, <2>1, GoType DEF FillCrt, TypeOK, Stages
<1>10. ASSUME NEW n \in Nodes, OpenFull(n) PROVE TypeOK'
  BY <1>10, GoType, Records DEF OpenFull, TypeOK, Stages
<1>11. ASSUME NEW n \in Nodes, FillFull(n) PROVE TypeOK'
  <2>1. [crt |-> crt[n], ca |-> ca[n]] \in Chain
    BY Records DEF TypeOK
  <2> QED
    BY <1>11, <2>1, GoType DEF FillFull, TypeOK, Stages
<1>12. ASSUME NEW n \in Nodes, OpenMetadata(n) \/ FillMetadata(n) PROVE TypeOK'
  BY <1>12, GoType DEF OpenMetadata, FillMetadata, TypeOK, Stages, Cuts
<1>13. CASE FinishRenew
  BY <1>13, ExitType DEF FinishRenew, TypeOK, files
<1>14. CASE FinishCertificates
  BY <1>14 DEF FinishCertificates, TypeOK, files, command
<1>15. CASE WriteAddresses
  BY <1>15, ExitType DEF WriteAddresses, TypeOK, files
<1>16. CASE NewDay
  BY <1>16 DEF NewDay, TypeOK, files, command
<1>17. CASE UNCHANGED vars
  BY <1>17 DEF vars, files, command, TypeOK
<1> QED
  BY <1>1, <1>2, <1>3, <1>4, <1>5, <1>6, <1>7, <1>8, <1>9, <1>10, <1>11, <1>12, <1>13, <1>14,
     <1>15, <1>16, <1>17 DEF Next, NodeStep

-----------------------------------------------------------------------------
\* A folder that a step does not touch.
Untouched(i) ==
    /\ ca'[i] = ca[i] /\ crt'[i] = crt[i] /\ full'[i] = full[i] /\ metadata'[i] = metadata[i]
    /\ stage'[i] = stage[i] /\ renew'[i] = renew[i] /\ cut'[i] = cut[i]
    /\ keys'[i] = keys[i] /\ mode' = mode /\ began' = began

LEMMA UntouchedKeeps ==
    ASSUME NEW i \in Nodes, Folder(i), Untouched(i)
    PROVE  Folder(i)'
BY DEF Untouched, Folder, Marked, Owned, For, CertificatesOf, Made, Whole, Uncut, Timely,
       Explained

\* A step of the call for n touches no other folder.
LEMMA NodeStepApart ==
    ASSUME TypeOK, NEW n \in Nodes, NEW i \in Nodes, i # n, NodeStep(n), ~DeleteCut(n)
    PROVE  Untouched(i)
BY DEF NodeStep, Examine, DeleteFolder, Deleted, MakeCa, OpenCrt, FillCrt, OpenFull, FillFull,
       OpenMetadata, FillMetadata, Go, command, files, TypeOK, Untouched

\* A kill leaves a folder as the ghost says.
LEMMA KillKeeps ==
    ASSUME TypeOK, TypeOK', Exit, NEW i \in Nodes, Folder(i), keys[i] # 0, cut'[i] = CutNow(i),
           ca'[i] = ca[i], crt'[i] = crt[i], full'[i] = full[i], metadata'[i] = metadata[i]
    PROVE  Folder(i)'
<1>1. stage'[i] = "todo" /\ ~renew'[i]
  BY DEF Exit
<1>2. Marked(i)'
  BY <1>1 DEF Marked, Folder, CutNow, Making, TypeOK, Stages
<1>3. Owned(i)' /\ Made(i)' /\ Timely(i)'
  BY <1>1 DEF Owned, For, CertificatesOf, Made, Timely, Making, Folder
<1>4. Uncut(i)'
  <2> SUFFICES ASSUME cut'[i] = "none", metadata'[i] # 0
               PROVE  Whole(i, metadata[i])'
    BY DEF Uncut, Whole
  <2>1. cut[i] = "none" /\ stage[i] \notin {"write", "verify", "join"}
    BY DEF CutNow
  <2> QED
    BY <2>1 DEF Folder, Uncut, Whole
<1>5. Explained(i)'
  <2> SUFFICES ASSUME metadata[i] = 0, ca[i] # Unreadable
               PROVE  CutNow(i) \in {"creation", "metadata"}
    BY <1>1 DEF Explained
  <2>1. CASE stage[i] \in {"todo", "delete"}
    BY <2>1 DEF Folder, Explained, CutNow
  <2>2. CASE stage[i] \notin {"todo", "delete"}
    <3>1. stage[i] # "done" /\ (renew[i] => stage[i] = "fill")
      BY <2>2 DEF Folder, Marked, Making, TypeOK, Stages
    <3> QED
      BY <2>2, <3>1 DEF CutNow
  <2> QED
    BY <2>1, <2>2
<1> QED
  BY <1>2, <1>3, <1>4, <1>5 DEF Folder

LEMMA RunningStep == CertificatesInv /\ [Next]_vars => Running'
<1> SUFFICES ASSUME CertificatesInv, [Next]_vars PROVE Running'
  OBVIOUS
<1> USE DEF CertificatesInv
<1>1. CASE StartConfig
  BY <1>1 DEF StartConfig, Start, Running, TypeOK
<1>2. CASE StartRenew
  BY <1>2 DEF StartRenew, Start, Running, TypeOK
<1>3. CASE Exit
  BY <1>3 DEF Exit, Running
<1>4. ASSUME NEW n \in Nodes, NodeStep(n), ~DeleteCut(n) PROVE Running'
  BY <1>4 DEF NodeStep, Examine, DeleteFolder, MakeCa, OpenCrt, FillCrt, OpenFull, FillFull,
              OpenMetadata, FillMetadata, At, Go, command, Running
<1>5. CASE FinishCertificates
  BY <1>5 DEF FinishCertificates, Running, AllDone, command
<1>6. CASE NewDay
  BY <1>6 DEF NewDay, Running, AllDone, command, TypeOK
<1>7. CASE UNCHANGED vars
  BY <1>7 DEF vars, command, Running, AllDone
<1> QED
  BY <1>1, <1>2, <1>3, <1>4, <1>5, <1>6, <1>7
     DEF Next, NodeStep, Abort, DeleteCut, FinishRenew, WriteAddresses

-----------------------------------------------------------------------------
\* What is known of the folder in whose call a step is taken.
LEMMA AtWork ==
    ASSUME CertificatesInv, NEW n \in Nodes, pc = "certificates"
    PROVE  keys[n] \in Keys /\ keys[n] # 0 /\ began <= day /\ Folder(n)
BY CertificatesAssumption DEF CertificatesInv, Running

\* Comparing and reading the expiration date.
LEMMA ExamineKeeps ==
    ASSUME CertificatesInv, NEW n \in Nodes, Examine(n)
    PROVE  Folder(n)'
<1>1. /\ stage[n] = "todo" /\ UNCHANGED <<ca, crt, full, metadata, keys, mode, began, day, cut>>
  BY DEF Examine, At, Go, files, command
<1>2. \/ /\ metadata[n] # keys[n] /\ stage'[n] = "delete" /\ renew'[n] = renew[n]
      \/ metadata[n] = keys[n] /\ stage'[n] = "ca" /\ renew'[n]
      \/ metadata[n] = keys[n] /\ stage'[n] = "done" /\ ~ShouldRenew(n) /\ renew'[n] = renew[n]
  BY DEF Examine, Go, ShouldGenerate, CertificatesInv, TypeOK
<1>3. Folder(n) /\ keys[n] # 0 /\ began <= day
  BY AtWork DEF Examine, At
<1>4. Marked(n)'
  BY <1>1, <1>2, <1>3 DEF Folder, Marked, Making
<1>5. Owned(n)'
  BY <1>1, <1>2, <1>3 DEF Folder, Owned, For, CertificatesOf, Making
<1>6. Made(n)' /\ Uncut(n)' /\ Explained(n)'
  BY <1>1, <1>2, <1>3 DEF Folder, Made, Uncut, Whole, Explained, At, Examine
<1>7. Timely(n)'
  <2> SUFFICES ASSUME stage'[n] = "done", mode # "ONLY_WARNING"
               PROVE  crt[n].end > began + WarningDays
    BY <1>1 DEF Timely
  <2>1. ~WillExpire(n)
    BY <1>2 DEF ShouldRenew, CertificatesInv, TypeOK, Modes
  <2> QED
    BY <2>1, <1>3, CertificatesAssumption DEF WillExpire, CertificatesInv, TypeOK, Certificate
<1> QED
  BY <1>4, <1>5, <1>6, <1>7 DEF Folder

\* Emptying the folder.
LEMMA DeleteFolderKeeps ==
    ASSUME CertificatesInv, NEW n \in Nodes, DeleteFolder(n)
    PROVE  Folder(n)'
<1>1. /\ stage[n] = "delete" /\ stage'[n] = "ca"
      /\ ca'[n] = Unreadable /\ crt'[n] = Unreadable /\ full'[n] = NoChain /\ metadata'[n] = 0
      /\ UNCHANGED <<keys, mode, began, renew, cut>>
  BY DEF DeleteFolder, Deleted, At, Go, command, CertificatesInv, TypeOK
<1>2. ~renew[n]
  BY <1>1 DEF CertificatesInv, Folder, Marked
<1> QED
  BY <1>1, <1>2
     DEF Folder, Marked, Owned, For, CertificatesOf, NoChain, Made, Uncut, Timely, Making, Explained

\* ... and being killed on the way: n's folder.
LEMMA DeleteCutKeeps ==
    ASSUME CertificatesInv, TypeOK', NEW n \in Nodes, DeleteCut(n), NEW i \in Nodes
    PROVE  Folder(i)'
<1>1. Folder(i)
  BY DEF CertificatesInv
<1>2. CASE i # n
  <2>1. /\ cut'[i] = CutNow(i) /\ keys[i] # 0
        /\ ca'[i] = ca[i] /\ crt'[i] = crt[i] /\ full'[i] = full[i] /\ metadata'[i] = metadata[i]
    BY <1>2, AtWork DEF DeleteCut, Deleted, At, CertificatesInv, TypeOK
  <2> QED
    BY <1>1, <2>1, KillKeeps DEF DeleteCut, CertificatesInv
<1>3. CASE i = n
  <2>1. stage'[n] = "todo" /\ ~renew'[n]
    BY DEF DeleteCut, Exit
  <2>2. /\ ca'[n] = Unreadable
        /\ crt'[n] \in {crt[n], Unreadable} /\ full'[n] = full[n]
        /\ metadata'[n] \in {metadata[n], 0}
        /\ \/ cut'[n] = "creation" /\ metadata'[n] = 0
           \/ cut'[n] = "deletion"
    BY DEF DeleteCut, Deleted, CertificatesInv, TypeOK
  <2> QED
    BY <1>1, <1>3, <2>1, <2>2
       DEF Folder, Marked, Owned, For, CertificatesOf, Made, Uncut, Timely, Making, Explained
<1> QED
  BY <1>2, <1>3

\* The steps of the script.
LEMMA MakeCaKeeps ==
    ASSUME CertificatesInv, NEW n \in Nodes, MakeCa(n)
    PROVE  Folder(n)'
<1>1. /\ stage[n] = "ca" /\ stage'[n] = "sign"
      /\ UNCHANGED <<crt, full, metadata, keys, mode, began, renew, cut>>
      /\ \/ renew[n] /\ ca'[n] = ca[n]
         \/ ~renew[n] /\ ca'[n].key = keys[n]
  BY DEF MakeCa, At, Go, command, CertificatesInv, TypeOK
<1>2. Folder(n)
  BY DEF CertificatesInv
<1> QED
  BY <1>1, <1>2
     DEF Folder, Marked, Owned, For, CertificatesOf, Made, Uncut, Whole, Timely,
           Making, Explained

LEMMA OpenCrtKeeps ==
    ASSUME CertificatesInv, NEW n \in Nodes, OpenCrt(n)
    PROVE  Folder(n)'
<1>1. /\ stage[n] = "sign" /\ stage'[n] = "write" /\ ca[n].key = keys[n]
      /\ crt'[n] = Unreadable
      /\ UNCHANGED <<ca, full, metadata, keys, mode, began, renew, cut>>
  BY DEF OpenCrt, At, Go, command, CertificatesInv, TypeOK
<1>2. Folder(n)
  BY DEF CertificatesInv
<1> QED
  BY <1>1, <1>2
     DEF Folder, Marked, Owned, For, CertificatesOf, Made, Uncut, Timely, Making, Explained

LEMMA FillCrtKeeps ==
    ASSUME CertificatesInv, NEW n \in Nodes, FillCrt(n)
    PROVE  Folder(n)'
<1>1. /\ stage[n] = "write" /\ stage'[n] = "verify"
      /\ crt'[n] = [key |-> keys[n], end |-> day + NodeDays]
      /\ UNCHANGED <<ca, full, metadata, keys, mode, began, renew, cut>>
  BY DEF FillCrt, At, Go, command, CertificatesInv, TypeOK
<1>2. Folder(n) /\ began <= day
  BY AtWork DEF FillCrt, At
<1>3. crt'[n].key = keys[n] /\ crt'[n].end >= began + NodeDays
  BY <1>1, <1>2, CertificatesAssumption DEF CertificatesInv, TypeOK
<1> QED
  BY <1>1, <1>2, <1>3
     DEF Folder, Marked, Owned, For, CertificatesOf, Made, Uncut, Timely, Making, Explained

LEMMA OpenFullKeeps ==
    ASSUME CertificatesInv, NEW n \in Nodes, OpenFull(n)
    PROVE  Folder(n)'
<1>1. /\ stage[n] = "verify" /\ stage'[n] = "join"
      /\ full'[n] = NoChain
      /\ UNCHANGED <<ca, crt, metadata, keys, mode, began, renew, cut>>
  BY DEF OpenFull, At, Go, command, CertificatesInv, TypeOK
<1>2. Folder(n)
  BY DEF CertificatesInv
<1> QED
  BY <1>1, <1>2
     DEF Folder, Marked, Owned, For, CertificatesOf, NoChain, Made, Uncut, Timely, Making, Explained

LEMMA FillFullKeeps ==
    ASSUME CertificatesInv, NEW n \in Nodes, FillFull(n)
    PROVE  Folder(n)'
<1>1. /\ stage[n] = "join" /\ stage'[n] = "metadata"
      /\ full'[n] = [crt |-> crt[n], ca |-> ca[n]]
      /\ UNCHANGED <<ca, crt, metadata, keys, mode, began, renew, cut>>
  BY DEF FillFull, At, Go, command, CertificatesInv, TypeOK
<1>2. Folder(n)
  BY DEF CertificatesInv
<1>3. Marked(n)' /\ Timely(n)' /\ Made(n)' /\ Explained(n)'
  BY <1>1, <1>2 DEF Folder, Marked, Made, Whole, Timely, Making, Explained
<1>4. Owned(n)'
  BY <1>1, <1>2 DEF Folder, Owned, For, CertificatesOf, Making
<1>5. Uncut(n)'
  BY <1>1, <1>2 DEF Folder, Marked, Made, Uncut, Whole, Making
<1> QED
  BY <1>3, <1>4, <1>5 DEF Folder

\* Emptying metadata.yml, and writing it.
LEMMA OpenMetadataKeeps ==
    ASSUME CertificatesInv, NEW n \in Nodes, OpenMetadata(n)
    PROVE  Folder(n)'
<1>1. /\ stage[n] = "metadata" /\ stage'[n] = "fill" /\ metadata'[n] = 0
      /\ UNCHANGED <<ca, crt, full, keys, mode, began, renew, cut>>
  BY DEF OpenMetadata, At, Go, command, CertificatesInv, TypeOK
<1>2. Folder(n)
  BY DEF CertificatesInv
<1> QED
  BY <1>1, <1>2
     DEF Folder, Marked, Owned, For, CertificatesOf, Made, Whole, Uncut, Timely, Making, Explained

LEMMA FillMetadataKeeps ==
    ASSUME CertificatesInv, NEW n \in Nodes, FillMetadata(n)
    PROVE  Folder(n)'
<1>1. /\ stage[n] = "fill" /\ stage'[n] = "done"
      /\ metadata'[n] = keys[n] /\ cut'[n] = "none"
      /\ UNCHANGED <<ca, crt, full, keys, mode, began, renew>>
  BY DEF FillMetadata, At, Go, command, CertificatesInv, TypeOK
<1>2. Folder(n)
  BY DEF CertificatesInv
<1>3. Timely(n)'
  BY <1>1, <1>2, CertificatesAssumption
     DEF Folder, Made, Timely, CertificatesInv, TypeOK, Certificate
<1>4. Marked(n)' /\ Owned(n)' /\ Explained(n)'
  BY <1>1, <1>2 DEF Folder, Marked, Owned, For, CertificatesOf, Making, Explained
<1>5. Made(n)' /\ Uncut(n)'
  BY <1>1, <1>2 DEF Folder, Made, Uncut, Whole
<1> QED
  BY <1>3, <1>4, <1>5 DEF Folder

\* The steps of the command keep every folder.
LEMMA FolderStep ==
    ASSUME CertificatesInv, [Next]_vars, TypeOK', NEW i \in Nodes
    PROVE  Folder(i)'
<1>0. Folder(i) /\ TypeOK /\ Running
  BY DEF CertificatesInv
<1>1. CASE StartConfig \/ StartRenew
  <2>1. /\ stage'[i] = "todo" /\ stage[i] = "todo"
        /\ UNCHANGED <<ca, crt, full, metadata, renew, cut>>
    BY <1>0, <1>1 DEF StartConfig, StartRenew, Start, files, Running
  <2> QED
    BY <1>0, <2>1
       DEF Folder, Marked, Owned, For, CertificatesOf, Made, Uncut, Whole, Timely,
           Making, Explained
<1>2. CASE Abort
  <2>1. keys[i] # 0
    BY <1>0, <1>2, CertificatesAssumption DEF Abort, Running
  <2> QED
    BY <1>0, <1>2, <2>1, KillKeeps DEF Abort, files
<1>3. ASSUME NEW n \in Nodes, NodeStep(n), ~DeleteCut(n), i # n PROVE Folder(i)'
  BY <1>0, <1>3, NodeStepApart, UntouchedKeeps
<1>4. ASSUME NodeStep(i), ~DeleteCut(i) PROVE Folder(i)'
  BY <1>4, ExamineKeeps, DeleteFolderKeeps, MakeCaKeeps, OpenCrtKeeps, FillCrtKeeps,
     OpenFullKeeps, FillFullKeeps, OpenMetadataKeeps, FillMetadataKeeps DEF NodeStep
<1>5. ASSUME NEW n \in Nodes, DeleteCut(n) PROVE Folder(i)'
  BY <1>5, DeleteCutKeeps
<1>6. CASE FinishRenew \/ WriteAddresses
  <2>1. /\ stage[i] = "done" /\ stage'[i] = "todo" /\ ~renew'[i] /\ keys[i] # 0
        /\ UNCHANGED <<ca, crt, full, metadata, cut>>
    BY <1>0, <1>6, CertificatesAssumption
       DEF FinishRenew, WriteAddresses, Exit, files, Running, AllDone
  <2> QED
    BY <1>0, <2>1
       DEF Folder, Marked, Owned, For, CertificatesOf, Made, Uncut, Whole, Timely,
           Making, Explained
<1>7. CASE FinishCertificates \/ NewDay \/ UNCHANGED vars
  BY <1>0, <1>7, UntouchedKeeps
     DEF FinishCertificates, NewDay, vars, files, command, Untouched
<1> QED
  BY <1>1, <1>2, <1>3, <1>4, <1>5, <1>6, <1>7 DEF Next, NodeStep

LEMMA InvStep == CertificatesInv /\ [Next]_vars => CertificatesInv'
<1> SUFFICES ASSUME CertificatesInv, [Next]_vars PROVE CertificatesInv'
  OBVIOUS
<1>1. TypeOK'
  BY TypeStep DEF CertificatesInv
<1> QED
  BY <1>1, RunningStep, FolderStep DEF CertificatesInv

LEMMA InvHolds == Spec => []CertificatesInv
BY InitInv, InvStep, PTL DEF Spec

-----------------------------------------------------------------------------
\* Type correctness, for any nodes, keys and periods.
THEOREM TypeCorrect == Spec => []TypeOK
<1>1. CertificatesInv => TypeOK
  BY DEF CertificatesInv
<1> QED
  BY InvHolds, <1>1, PTL

\* metadata.yml is never found beside certificates of other keys.
THEOREM MetadataIsTrue == Spec => []MetadataTells
<1>1. CertificatesInv => MetadataTells
  BY DEF CertificatesInv, Folder, Owned, For, CertificatesOf, MetadataTells
<1> QED
  BY InvHolds, <1>1, PTL

\* Whatever is run, killed or renewed, an authority is replaced for the same
\* keys only if it was left without its metadata.yml.
THEOREM AuthorityIsKept == Spec => RenewalKeepsAuthority
<1>1. CertificatesInv /\ [Next]_vars
        => [\A n \in Nodes : ca'[n] # ca[n] /\ ca[n].key = keys[n] =>
              cut[n] \in {"creation", "metadata"}]_vars
  <2> SUFFICES ASSUME CertificatesInv, Next, NEW i \in Nodes, ca'[i] # ca[i],
                      ca[i].key = keys[i]
               PROVE  cut[i] \in {"creation", "metadata"}
    BY DEF vars
  <2>1. PICK n \in Nodes : NodeStep(n)
    BY DEF Next, StartConfig, StartRenew, Start, Abort, FinishRenew, FinishCertificates,
           WriteAddresses, NewDay, files
  <2>2. DeleteFolder(n) \/ DeleteCut(n) \/ MakeCa(n)
    BY <2>1 DEF NodeStep, Examine, OpenCrt, FillCrt, OpenFull, FillFull, OpenMetadata,
                FillMetadata, files
  <2>3. i = n
    BY <2>2 DEF DeleteFolder, DeleteCut, Deleted, MakeCa, CertificatesInv, TypeOK
  <2>4. keys[n] # 0 /\ Folder(n) /\ ca[n] # Unreadable
    <3>1. keys[n] # 0 /\ Folder(n)
      BY <2>2, AtWork DEF DeleteFolder, DeleteCut, MakeCa, At
    <3> QED
      BY <2>3, <3>1 DEF Unreadable
  <2>5. CASE DeleteFolder(n) \/ DeleteCut(n)
    <3>1. stage[n] = "delete" /\ metadata[n] # keys[n]
      BY <2>4, <2>5 DEF DeleteFolder, DeleteCut, At, Folder, Marked
    <3>2. metadata[n] = 0
      BY <2>3, <2>4, <3>1 DEF Folder, Owned, For, CertificatesOf
    <3> QED
      BY <2>3, <2>4, <3>1, <3>2 DEF Folder, Explained
  <2>6. CASE MakeCa(n)
    <3>1. ~renew[n] /\ stage[n] = "ca"
      BY <2>3, <2>6 DEF MakeCa, At
    <3> QED
      BY <2>3, <2>4, <3>1 DEF Folder, Explained
  <2> QED
    BY <2>2, <2>5, <2>6
<1> QED
  BY InvHolds, <1>1, PTL DEF Spec, RenewalKeepsAuthority

\* At the end of a command every folder is done.
LEMMA DoneAtEnd ==
    ASSUME CertificatesInv, Completes, NEW n \in Nodes
    PROVE  stage[n] = "done" /\ metadata[n] = keys[n] /\ keys[n] # 0 /\ Folder(n)
BY CertificatesAssumption
   DEF CertificatesInv, Completes, FinishRenew, WriteAddresses, Running, AllDone, Folder, Marked

\* A creation, or a writing of metadata.yml, that was killed is made good by
\* every command that completes.
THEOREM CreationsHeal == Spec => CreationHeals
<1>1. CertificatesInv => (Completes => \A n \in Nodes : cut[n] \notin {"creation", "metadata"})
  BY DoneAtEnd DEF Folder, Marked
<1> QED
  BY InvHolds, <1>1, PTL DEF Spec, CreationHeals

\* What a command that completes leaves behind is whole and current.
THEOREM CompletedFoldersAreCurrent == Spec => CompletedIsCurrent
<1> DEFINE Current ==
      Completes => \A n \in Nodes : cut[n] = "none" =>
         /\ crt[n].key = keys[n] /\ ca[n].key = keys[n]
         /\ full[n] = [crt |-> crt[n], ca |-> ca[n]]
         /\ mode # "ONLY_WARNING" /\ WarningDays < NodeDays =>
                crt[n].end > began + WarningDays
<1>1. CertificatesInv => Current
  <2> SUFFICES ASSUME CertificatesInv, Completes, NEW n \in Nodes, cut[n] = "none"
               PROVE  /\ Whole(n, keys[n])
                      /\ mode # "ONLY_WARNING" /\ WarningDays < NodeDays =>
                             crt[n].end > began + WarningDays
    BY DEF Whole
  <2>1. stage[n] = "done" /\ metadata[n] = keys[n] /\ keys[n] # 0 /\ Folder(n)
    BY DoneAtEnd
  <2> QED
    BY <2>1 DEF Folder, Uncut, Timely
<1> QED
  BY InvHolds, <1>1, PTL DEF Spec, CompletedIsCurrent
=============================================================================

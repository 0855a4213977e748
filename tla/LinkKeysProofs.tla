--------------------------- MODULE LinkKeysProofs ---------------------------
(***************************************************************************)
(* Proofs about LinkKeys for any links, keys and epochs: whatever somebody  *)
(* else does to the account while a run asks its questions, the             *)
(* transactions of the run stay ones that the network accepts from the      *)
(* account as it was read, unless they link a file that overlaps two of its *)
(* keys. From this invariant follow what a run may remove and what it       *)
(* leaves linked.                                                           *)
(***************************************************************************)
EXTENDS LinkKeys, FiniteSetTheorems, TLAPS

Running == pc # "idle"

\* At most one remote and one VRF key.
OneEach(S) == \A x, y \in S : x.kind = y.kind /\ x.kind # "voting" => x = y

-----------------------------------------------------------------------------
(* The invariant.                                                           *)

\* The account and the files, whoever changed them.
AccountInv == Legal(account) /\ NoOverlap(files)

\* T names keys of S, or free ones, and leaves no more than the limits allow.
Sendable(S, T) ==
    /\ Unlinks(T) \subseteq S
    /\ LinksOf(T) \cap (S \ Unlinks(T)) = {}
    /\ OneEach(After(S, T)) /\ Cardinality(VotingOf(After(S, T))) <= 3

\* What a run has collected so far would be accepted by the account it read,
\* but for overlaps, and would leave the voting keys of remainingVotingKeys.
RunInv ==
    Running =>
        /\ Legal(info) /\ NoOverlap(files)
        /\ Sendable(info, txs)
        /\ remaining = VotingOf(After(info, txs))

\* Only a file that overlaps two keys of the account is linked beside a key
\* that it overlaps.
ClearInv ==
    Running => \A f \in VotingOf(LinksOf(txs)) :
        ~CrossesTwo(f) => \A b \in remaining \ {f} : ~Overlaps(f, b)

\* How far a run is: what it may have linked, and what it has yet to visit.
StageInv ==
    /\ VotingOf(LinksOf(txs)) \subseteq files
    /\ unlink => LinksOf(txs) = {}
    /\ pc \in {"remote", "vrf", "expired"} => VotingOf(LinksOf(txs)) = {}
    /\ pc \in {"idle", "remote"} => txs = {}
    /\ pc = "idle" => ~unlink
    /\ pc = "vrf" => \A t \in txs : t.link.kind = "remote"
    /\ pc \in {"expired", "files"} => ~unlink
    /\ pc = "unlinkFiles" => unlink
    /\ pc = "expired" => todo \subseteq remaining
    /\ pc = "files" => todo \subseteq ActiveFiles /\ todo \cap LinksOf(txs) = {}
    /\ pc = "unlinkFiles" => todo \subseteq files

\* What a run has removed.
RemovedInv ==
    /\ ~unlink => \A l \in VotingOf(Unlinks(txs)) :
         l.endEpoch < known \/ \E f \in LinksOf(txs) : f.kind = "voting" /\ Overlaps(f, l)
    /\ mode = "no" => Unlinks(txs) \subseteq (IF unlink THEN OwnKeys ELSE {})
    /\ Running /\ ~unlink /\ FullyLinked => txs = {}

\* What the files visited so far have become.
VisitedInv ==
    /\ pc \in {"files", "announce"} /\ ~unlink /\ mode = "yes" =>
         \A f \in ActiveFiles \ todo : f \in remaining \/ Cardinality(remaining) = 3
    /\ pc = "announce" => todo = {}
    /\ unlink /\ mode = "yes" =>
         \A k \in OwnKeys :
           (k.kind = "remote" /\ pc # "remote") \/ (k.kind = "vrf" /\ pc \notin {"remote", "vrf"})
             => k \notin After(info, txs)
    /\ pc \in {"unlinkFiles", "announce"} /\ unlink /\ mode = "yes" =>
         \A f \in files \ todo : f \notin remaining

IInv == TypeOK /\ AccountInv /\ RunInv /\ ClearInv /\ StageInv /\ RemovedInv /\ VisitedInv

-----------------------------------------------------------------------------
(* Facts about the operators of the model.                                  *)

\* Epochs are numbers, and a voting key is in conflict with itself.
LEMMA LinkTypes ==
    ASSUME NEW l \in Links
    PROVE  /\ l.kind \in Kinds /\ l.startEpoch \in Nat /\ l.endEpoch \in Nat
           /\ l.kind = "voting" => Overlaps(l, l)
BY LinkAssumption DEF Overlaps, VotingOf

\* Two voting keys are in conflict whichever of them is looked at.
LEMMA OverlapsSymmetric ==
    ASSUME NEW k \in Links, NEW l \in Links
    PROVE  Overlaps(k, l) <=> Overlaps(l, k)
BY LinkTypes DEF Overlaps

\* What is unlinked and linked after one more transaction.
More(T, t) == T \cup {t}

LEMMA OneMore ==
    ASSUME NEW T, NEW l
    PROVE  /\ Unlinks(More(T, Unlink(l))) = Unlinks(T) \cup {l}
           /\ LinksOf(More(T, Unlink(l))) = LinksOf(T)
           /\ Unlinks(More(T, Link(l))) = Unlinks(T)
           /\ LinksOf(More(T, Link(l))) = LinksOf(T) \cup {l}
<1>1. /\ Unlink(l).action = "Unlink" /\ Unlink(l).link = l
      /\ Link(l).action = "Link" /\ Link(l).link = l
  BY DEF Unlink, Link
<1>2. \A t : t \in More(T, Unlink(l)) <=> t \in T \/ t = Unlink(l)
  BY DEF More
<1>3. \A t : t \in More(T, Link(l)) <=> t \in T \/ t = Link(l)
  BY DEF More
<1> QED
  BY <1>1, <1>2, <1>3 DEF Unlinks, LinksOf

\* Transactions name links.
LEMMA TxLinks ==
    ASSUME NEW T \in SUBSET Tx
    PROVE  Unlinks(T) \subseteq Links /\ LinksOf(T) \subseteq Links
BY DEF Tx, Unlinks, LinksOf

\* The rules of the network, with the limit of one key stated without counting.
LEMMA LegalParts ==
    ASSUME NEW S \in SUBSET Links
    PROVE  Legal(S) <=> NoOverlap(S) /\ OneEach(S) /\ Cardinality(VotingOf(S)) <= 3
<1> DEFINE Of(kind) == {l \in S : l.kind = kind}
<1>1. \A kind : IsFiniteSet(Of(kind)) /\ Cardinality(Of(kind)) \in Nat
  BY LinkAssumption, FS_Subset, FS_CardinalityType
<1>2. Of("voting") = VotingOf(S)
  BY DEF VotingOf
<1>3. ASSUME NEW kind \in {"remote", "vrf"}
      PROVE  Cardinality(Of(kind)) <= 1 <=> \A x, y \in Of(kind) : x = y
  <2>1. ASSUME Cardinality(Of(kind)) <= 1 PROVE \A x, y \in Of(kind) : x = y
    <3>1. CASE Cardinality(Of(kind)) = 0
      BY <1>1, <3>1, FS_EmptySet
    <3>2. CASE Cardinality(Of(kind)) = 1
      <4>1. \E x : Of(kind) = {x}
        BY <1>1, <3>2, FS_Singleton
      <4> QED
        BY <4>1
    <3> QED
      BY <1>1, <2>1, <3>1, <3>2
  <2>2. ASSUME \A x, y \in Of(kind) : x = y PROVE Cardinality(Of(kind)) <= 1
    <3>1. CASE Of(kind) = {}
      BY <3>1, FS_EmptySet
    <3>2. CASE Of(kind) # {}
      <4>1. PICK x : x \in Of(kind)
        BY <3>2
      <4>2. Of(kind) = {x}
        BY <2>2, <4>1
      <4> QED
        BY <4>2, FS_Singleton
    <3> QED
      BY <3>1, <3>2
  <2> QED
    BY <2>1, <2>2
<1>4. OneEach(S) <=> \A kind \in {"remote", "vrf"} : \A x, y \in Of(kind) : x = y
  <2>1. \A x \in S : x.kind \in Kinds
    BY LinkTypes
  <2> QED
    BY <2>1 DEF OneEach, Kinds
<1>5. Legal(S) <=>
        NoOverlap(S) /\ Cardinality(Of("voting")) <= 3
        /\ \A kind \in {"remote", "vrf"} : Cardinality(Of(kind)) <= 1
  BY DEF Legal, Kinds, Limit
<1> QED
  BY <1>2, <1>3, <1>4, <1>5

\* What is accepted is sendable and leaves no overlap.
LEMMA AcceptedParts ==
    ASSUME NEW S \in SUBSET Links, NEW T \in SUBSET Tx
    PROVE  Accepted(S, T) <=> Sendable(S, T) /\ NoOverlap(After(S, T))
<1>1. After(S, T) \in SUBSET Links
  BY TxLinks DEF After
<1> QED
  BY <1>1, LegalParts DEF Accepted, Sendable

\* Unlinking one more linked key is sendable too.
LEMMA UnlinkOneMore ==
    ASSUME NEW S \in SUBSET Links, NEW T \in SUBSET Tx, Sendable(S, T),
           NEW l \in S, l \notin LinksOf(T)
    PROVE  /\ Sendable(S, More(T, Unlink(l)))
           /\ After(S, More(T, Unlink(l))) = After(S, T) \ {l}
<1>1. /\ Unlinks(More(T, Unlink(l))) = Unlinks(T) \cup {l}
      /\ LinksOf(More(T, Unlink(l))) = LinksOf(T)
  BY OneMore
<1>2. After(S, More(T, Unlink(l))) = After(S, T) \ {l}
  BY <1>1 DEF After
<1>3. After(S, T) \in SUBSET Links
  BY TxLinks DEF After
<1>4. Cardinality(VotingOf(After(S, T) \ {l})) <= 3
  <2>1. VotingOf(After(S, T) \ {l}) \subseteq VotingOf(After(S, T))
    BY DEF VotingOf
  <2>2. IsFiniteSet(VotingOf(After(S, T)))
    BY <1>3, LinkAssumption, FS_Subset DEF VotingOf
  <2>3. /\ Cardinality(VotingOf(After(S, T) \ {l})) <= Cardinality(VotingOf(After(S, T)))
        /\ Cardinality(VotingOf(After(S, T))) \in Nat
        /\ Cardinality(VotingOf(After(S, T) \ {l})) \in Nat
    BY <2>1, <2>2, FS_Subset, FS_CardinalityType
  <2> QED
    BY <2>3 DEF Sendable
<1>5. OneEach(After(S, T) \ {l})
  BY DEF OneEach, Sendable
<1> QED
  BY <1>1, <1>2, <1>4, <1>5 DEF Sendable

\* An account with room for f after T.
Takes(S, T, f) ==
    /\ S \in SUBSET Links /\ T \in SUBSET Tx /\ Sendable(S, T)
    /\ f \in VotingOf(Links) /\ f \notin After(S, T)
    /\ Cardinality(VotingOf(After(S, T))) < 3

\* Linking one more voting key is sendable if it is free and there is room.
LEMMA LinkOneMore ==
    ASSUME NEW S, NEW T, NEW f, Takes(S, T, f)
    PROVE  /\ Sendable(S, More(T, Link(f)))
           /\ VotingOf(After(S, More(T, Link(f)))) = VotingOf(After(S, T)) \cup {f}
<1> DEFINE A == After(S, T)
           U == More(T, Link(f))
<1>0. /\ S \in SUBSET Links /\ T \in SUBSET Tx /\ Sendable(S, T)
      /\ f \in VotingOf(Links) /\ f \notin A
      /\ Cardinality(VotingOf(A)) < 3
  BY DEF Takes
<1>1. /\ Unlinks(U) = Unlinks(T)
      /\ LinksOf(U) = LinksOf(T) \cup {f}
  BY OneMore
<1>2. After(S, U) = A \cup {f}
  BY <1>1 DEF After
<1>3. A \in SUBSET Links
  BY <1>0, TxLinks DEF After
<1>4. f \in Links /\ f.kind = "voting" /\ VotingOf(A \cup {f}) = VotingOf(A) \cup {f}
  BY <1>0 DEF VotingOf
<1>5. OneEach(A \cup {f})
  BY <1>0, <1>4 DEF OneEach, Sendable
<1>6. Cardinality(VotingOf(A) \cup {f}) <= 3
  <2>1. IsFiniteSet(VotingOf(A)) /\ Cardinality(VotingOf(A)) \in Nat
    BY <1>3, LinkAssumption, FS_Subset, FS_CardinalityType DEF VotingOf
  <2>2. \/ Cardinality(VotingOf(A) \cup {f}) = Cardinality(VotingOf(A))
        \/ Cardinality(VotingOf(A) \cup {f}) = Cardinality(VotingOf(A)) + 1
    BY <2>1, FS_AddElement
  <2>3. Cardinality(VotingOf(A)) < 3
    BY <1>0
  <2> HIDE DEF A
  <2> QED
    BY <2>1, <2>2, <2>3
<1>7. LinksOf(U) \cap (S \ Unlinks(U)) = {}
  BY <1>0, <1>1 DEF Sendable, After
<1> QED
  BY <1>0, <1>1, <1>2, <1>4, <1>5, <1>6, <1>7 DEF Sendable
-----------------------------------------------------------------------------
(* What each step of a run does.                                            *)

\* A question may be answered yes unless the mode says no, and no unless it
\* says yes.
LEMMA AnswersOfMode ==
    ASSUME mode \in {"yes", "no", "ask"}, NEW confirm \in Answers
    PROVE  /\ confirm \in BOOLEAN
           /\ mode = "yes" => confirm
           /\ mode = "no" => ~confirm
BY DEF Answers

\* The transactions for a remote or VRF key unlink some of the keys linked
\* (X) and link the node's own (Y): the own key only where nothing is left.
LEMMA KeySteps ==
    ASSUME TypeOK, NEW kind \in {"remote", "vrf"}, NEW next, AddTransaction(kind, next)
    PROVE  \E X \in SUBSET {l \in info : l.kind = kind} :
             \E Y \in SUBSET {k \in OwnKeys : k.kind = kind} :
               /\ Unlinks(txs') = Unlinks(txs) \cup X
               /\ LinksOf(txs') = LinksOf(txs) \cup Y
               /\ txs' = txs \cup {Unlink(l) : l \in X} \cup {Link(k) : k \in Y}
               /\ unlink => Y = {}
               /\ Y # {} => X = {l \in info : l.kind = kind}
               /\ X # {} => \E k \in OwnKeys : k.kind = kind
               /\ X # {} /\ ~unlink => Y # {}
               /\ mode = "no" => X \subseteq (IF unlink THEN OwnKeys ELSE {})
               /\ ~unlink /\ {k \in OwnKeys : k.kind = kind} \subseteq info => X = {} /\ Y = {}
               /\ unlink => \/ X = {l \in info : l.kind = kind}
                            \/ mode # "yes" \/ ~\E k \in OwnKeys : k.kind = kind
<1> DEFINE linked == {l \in info : l.kind = kind}
           own == {k \in OwnKeys : k.kind = kind}
<1>1. PICK confirm \in Answers :
        txs' = txs \cup UNION {KeyTransactions(k, linked, confirm) : k \in own}
  BY DEF AddTransaction
<1>2. confirm \in BOOLEAN /\ (mode = "yes" => confirm) /\ (mode = "no" => ~confirm)
  BY AnswersOfMode DEF TypeOK
<1>3. \E X \in SUBSET linked, Y \in SUBSET own :
        /\ UNION {KeyTransactions(k, linked, confirm) : k \in own}
             = {Unlink(l) : l \in X} \cup {Link(k) : k \in Y}
        /\ unlink => Y = {}
        /\ Y # {} => X = linked
        /\ X # {} => own # {}
        /\ X # {} /\ ~unlink => Y # {}
        /\ ~confirm => X \subseteq (IF unlink THEN OwnKeys ELSE {})
        /\ ~unlink /\ own \subseteq info => X = {} /\ Y = {}
        /\ unlink => X = linked \/ ~confirm \/ own = {}
  <2>1. CASE own = {}
    <3> WITNESS {} \in SUBSET linked, {} \in SUBSET own
    <3> QED
      BY <2>1
  <2>2. CASE own # {}
    <3>1. PICK k : own = {k}
      BY <2>2, LinkAssumption
    <3>2. k \in OwnKeys /\ k.kind = kind
      BY <3>1
    <3>3. UNION {KeyTransactions(j, linked, confirm) : j \in own}
            = KeyTransactions(k, linked, confirm)
      BY <3>1
    <3>4. CASE unlink
      <4> DEFINE X == {l \in linked : l = k \/ confirm}
      <4>1. KeyTransactions(k, linked, confirm) = {Unlink(l) : l \in X}
        BY <3>4 DEF KeyTransactions
      <4>2. /\ ~confirm => X \subseteq OwnKeys
            /\ X = linked \/ ~confirm
        BY <3>2
      <4>3. X \in SUBSET linked
        OBVIOUS
      <4> HIDE DEF X, linked, own
      <4> WITNESS X \in SUBSET linked, {} \in SUBSET own
      <4> QED
        BY <2>2, <3>3, <3>4, <4>1, <4>2
    <3>5. CASE ~unlink /\ linked = {}
      <4>1. KeyTransactions(k, linked, confirm) = {Link(k)}
        BY <3>5 DEF KeyTransactions
      <4>2. ~(own \subseteq info)
        BY <3>1, <3>2, <3>5
      <4> HIDE DEF linked
      <4> WITNESS {} \in SUBSET linked, own \in SUBSET own
      <4> HIDE DEF own
      <4> QED
        BY <3>1, <3>3, <3>5, <4>1, <4>2
    <3>6. CASE ~unlink /\ linked # {} /\ (k \in linked \/ ~confirm)
      <4>1. KeyTransactions(k, linked, confirm) = {}
        BY <3>6 DEF KeyTransactions
      <4> HIDE DEF linked, own
      <4> WITNESS {} \in SUBSET linked, {} \in SUBSET own
      <4> QED
        BY <3>3, <3>6, <4>1
    <3>7. CASE ~unlink /\ linked # {} /\ k \notin linked /\ confirm
      <4>1. KeyTransactions(k, linked, confirm) = {Unlink(l) : l \in linked} \cup {Link(k)}
        BY <3>7 DEF KeyTransactions
      <4>2. ~(own \subseteq info)
        BY <3>1, <3>2, <3>7
      <4> HIDE DEF linked
      <4> WITNESS linked \in SUBSET linked, own \in SUBSET own
      <4> HIDE DEF own
      <4> QED
        BY <2>2, <3>1, <3>3, <3>7, <4>1, <4>2
    <3> QED
      BY <3>4, <3>5, <3>6, <3>7
  <2> QED
    BY <2>1, <2>2
<1>4. PICK X \in SUBSET linked, Y \in SUBSET own :
        /\ UNION {KeyTransactions(k, linked, confirm) : k \in own}
             = {Unlink(l) : l \in X} \cup {Link(k) : k \in Y}
        /\ unlink => Y = {}
        /\ Y # {} => X = linked
        /\ X # {} => own # {}
        /\ X # {} /\ ~unlink => Y # {}
        /\ ~confirm => X \subseteq (IF unlink THEN OwnKeys ELSE {})
        /\ ~unlink /\ own \subseteq info => X = {} /\ Y = {}
        /\ unlink => X = linked \/ ~confirm \/ own = {}
  BY <1>3
<1>5. txs' = txs \cup {Unlink(l) : l \in X} \cup {Link(k) : k \in Y}
  BY <1>1, <1>4
<1>6. /\ \A l : Unlink(l).action = "Unlink" /\ Unlink(l).link = l
      /\ \A l : Link(l).action = "Link" /\ Link(l).link = l
  BY DEF Unlink, Link
<1>7. /\ Unlinks(txs') = Unlinks(txs) \cup X
      /\ LinksOf(txs') = LinksOf(txs) \cup Y
  BY <1>5, <1>6 DEF Unlinks, LinksOf
<1> QED
  BY <1>2, <1>4, <1>5, <1>7
\* The keys that would be linked are three links at most.
LEMMA RemainingFacts ==
    ASSUME TypeOK, RunInv, Running
    PROVE  /\ remaining \subseteq VotingOf(Links)
           /\ IsFiniteSet(remaining)
           /\ Cardinality(remaining) \in Nat /\ Cardinality(remaining) <= 3
           /\ remaining \subseteq VotingOf(info) \cup VotingOf(LinksOf(txs))
<1>1. txs \in SUBSET Tx /\ info \in SUBSET Links
  BY DEF TypeOK
<1>2. After(info, txs) \in SUBSET Links
  BY <1>1, TxLinks DEF After
<1>3. remaining = VotingOf(After(info, txs)) /\ Cardinality(remaining) <= 3
  BY DEF RunInv, Sendable
<1>5. remaining \subseteq VotingOf(Links) /\ remaining \subseteq Links
  BY <1>2, <1>3 DEF VotingOf
<1>6. IsFiniteSet(remaining) /\ Cardinality(remaining) \in Nat
  BY <1>5, LinkAssumption, FS_Subset, FS_CardinalityType
<1>7. remaining \subseteq VotingOf(info) \cup VotingOf(LinksOf(txs))
  BY <1>3 DEF VotingOf, After
<1> QED
  BY <1>3, <1>5, <1>6, <1>7

\* The first loop only unlinks keys of the account, expired ones.
LEMMA LinkedSteps ==
    ASSUME TypeOK, RunInv, StageInv, NEW l \in Links, VisitLinked(l)
    PROVE  \/ UNCHANGED <<txs, remaining>>
           \/ /\ txs' = More(txs, Unlink(l)) /\ remaining' = remaining \ {l}
              /\ l.endEpoch < known /\ mode # "no"
              /\ l \in VotingOf(info) /\ l \in remaining /\ l \notin LinksOf(txs)
<1>1. Running /\ l \in todo /\ todo \subseteq remaining /\ VotingOf(LinksOf(txs)) = {}
  BY DEF VisitLinked, Running, StageInv
<1>2. l \in VotingOf(info) /\ l \notin LinksOf(txs)
  BY <1>1, RemainingFacts DEF VotingOf
<1>3. \/ UNCHANGED <<txs, remaining>>
      \/ /\ txs' = More(txs, Unlink(l)) /\ remaining' = remaining \ {l}
         /\ l.endEpoch < known /\ mode # "no"
  BY AnswersOfMode DEF More, VisitLinked, TypeOK
<1> QED
  BY <1>1, <1>2, <1>3

\* Replacing the key a by f needs room for f: there is, once a is gone.
LEMMA RoomAfterRemoval ==
    ASSUME TypeOK, RunInv, Running, NEW a \in remaining
    PROVE  /\ Cardinality(remaining \ {a}) < 3
           /\ IsFiniteSet(remaining \ {a})
           /\ Cardinality(remaining \ {a}) = Cardinality(remaining) - 1
<1>1. /\ IsFiniteSet(remaining) /\ Cardinality(remaining) \in Nat
      /\ Cardinality(remaining) <= 3
  BY RemainingFacts
<1>2. Cardinality(remaining \ {a}) = Cardinality(remaining) - 1 /\ IsFiniteSet(remaining \ {a})
  BY <1>1, FS_RemoveElement
<1> QED
  BY <1>1, <1>2

\* What becomes of a file in the second loop: it is linked already, declined
\* or left out for lack of room; it is linked where nothing is in its way; or
\* it takes the place of a key of the account that is, the only one unless the
\* file crosses two.
FileKept(f) ==
    /\ UNCHANGED <<txs, remaining>>
    /\ f \in remaining \/ mode # "yes" \/ Cardinality(remaining) = 3
FileAdded(f) ==
    /\ txs' = More(txs, Link(f)) /\ remaining' = remaining \cup {f}
    /\ f \notin remaining /\ Cardinality(remaining) < 3
    /\ \A b \in remaining : ~Overlaps(f, b)
FileReplaces(f, a) ==
    /\ txs' = More(More(txs, Unlink(a)), Link(f))
    /\ remaining' = (remaining \ {a}) \cup {f}
    /\ f \notin remaining /\ a \notin files /\ a \in VotingOf(info)
    /\ a \notin LinksOf(txs) /\ mode # "no" /\ Overlaps(f, a)
    /\ ~CrossesTwo(f) => \A b \in remaining \ {a} : ~Overlaps(f, b)

LEMMA FileSteps ==
    ASSUME TypeOK, RunInv, StageInv, NEW f \in Links, VisitFile(f)
    PROVE  /\ f \in files /\ f \in VotingOf(Links) /\ f.endEpoch >= known
           /\ FileKept(f) \/ FileAdded(f) \/ \E a \in remaining : FileReplaces(f, a)
<1>1. /\ Running /\ f \in todo /\ todo \subseteq ActiveFiles
      /\ VotingOf(LinksOf(txs)) \subseteq files /\ f \notin LinksOf(txs)
  BY DEF VisitFile, Running, StageInv, Earliest
<1>2. f \in files /\ f.endEpoch >= known /\ f \in VotingOf(Links)
  BY <1>1 DEF ActiveFiles, TypeOK
<1>3. /\ f \in Links /\ f.kind = "voting" /\ Overlaps(f, f)
  BY <1>2, LinkTypes DEF VotingOf
<1>4. NoOverlap(info) /\ NoOverlap(files)
  BY <1>1 DEF RunInv, Legal
<1>5. /\ remaining \subseteq VotingOf(info) \cup VotingOf(LinksOf(txs))
      /\ remaining \subseteq VotingOf(Links) /\ Cardinality(remaining) \in Nat
      /\ Cardinality(remaining) <= 3
  BY <1>1, RemainingFacts
<1>6. ASSUME NEW a \in Conflicting(f) \ {f}
      PROVE  /\ f \notin remaining /\ a \in remaining /\ Overlaps(f, a) /\ a \notin files
             /\ a \in VotingOf(info) /\ a \notin LinksOf(txs)
             /\ ~CrossesTwo(f) => \A b \in remaining \ {a} : ~Overlaps(f, b)
  <2>1. a \in remaining /\ Overlaps(f, a) /\ a # f
    BY <1>6 DEF Conflicting
  <2>3. \A g \in VotingOf(files) : g # f => ~Overlaps(f, g)
    BY <1>2, <1>3, <1>4 DEF NoOverlap, VotingOf
  <2>4. a \in VotingOf(Links) /\ a.kind = "voting"
    BY <1>5, <2>1 DEF VotingOf
  <2>5. a \notin files
    BY <2>1, <2>3, <2>4 DEF VotingOf
  <2>6. a \notin LinksOf(txs) /\ a \in VotingOf(info)
    BY <1>1, <1>5, <2>1, <2>4, <2>5 DEF VotingOf
  <2>2. f \notin remaining
    <3>1. f \notin VotingOf(info)
      BY <1>4, <2>1, <2>6 DEF NoOverlap
    <3> QED
      BY <1>1, <1>5, <3>1 DEF VotingOf
  <2>7. ASSUME ~CrossesTwo(f), NEW b \in remaining \ {a}, Overlaps(f, b) PROVE FALSE
    <3>1. b # f /\ b \in VotingOf(Links)
      BY <1>5, <2>2
    <3>2. b \notin files
      BY <2>3, <2>7, <3>1 DEF VotingOf
    <3>3. b \in VotingOf(info)
      BY <1>1, <1>5, <3>2 DEF VotingOf
    <3> QED
      BY <2>1, <2>6, <2>7, <3>3 DEF CrossesTwo
  <2> QED
    BY <2>1, <2>2, <2>5, <2>6, <2>7
<1>7. CASE Conflicting(f) = {} /\ LinkIfRoom(f, remaining, txs)
  <2>1. f \notin remaining /\ \A b \in remaining : ~Overlaps(f, b)
    BY <1>3, <1>7 DEF Conflicting
  <2>2. \/ /\ Cardinality(remaining) < 3
           /\ txs' = More(txs, Link(f)) /\ remaining' = remaining \cup {f}
        \/ /\ Cardinality(remaining) = 3
           /\ UNCHANGED <<txs, remaining>>
    BY <1>5, <1>7 DEF More, LinkIfRoom
  <2> QED
    BY <1>2, <2>1, <2>2 DEF FileKept, FileAdded
<1>8. CASE f \in Conflicting(f) /\ UNCHANGED <<txs, remaining>>
  BY <1>2, <1>8 DEF FileKept, Conflicting
<1>9. ASSUME NEW a \in Conflicting(f) \ {f}, NEW confirm \in Answers,
             IF confirm THEN LinkIfRoom(f, remaining \ {a}, txs \cup {Unlink(a)})
             ELSE UNCHANGED <<txs, remaining>>
      PROVE  FileKept(f) \/ \E b \in remaining : FileReplaces(f, b)
  <2>1. confirm \in BOOLEAN /\ (mode = "yes" => confirm) /\ (mode = "no" => ~confirm)
    BY AnswersOfMode DEF TypeOK
  <2>2. CASE ~confirm
    BY <1>9, <2>1, <2>2 DEF FileKept
  <2>3. CASE confirm
    <3>1. a \in remaining /\ Cardinality(remaining \ {a}) < 3
      BY <1>1, <1>6, RoomAfterRemoval
    <3>2. /\ txs' = More(More(txs, Unlink(a)), Link(f))
          /\ remaining' = (remaining \ {a}) \cup {f}
      BY <1>9, <2>3, <3>1 DEF More, LinkIfRoom
    <3> QED
      BY <1>6, <2>1, <2>3, <3>1, <3>2 DEF FileReplaces
  <2> QED
    BY <2>1, <2>2, <2>3
<1> QED
  BY <1>2, <1>7, <1>8, <1>9 DEF VisitFile

\* Unlinking, a file that is linked is unlinked unless that is declined.
LEMMA UnlinkSteps ==
    ASSUME TypeOK, RunInv, StageInv, NEW f \in Links, VisitFileToUnlink(f)
    PROVE  \/ UNCHANGED <<txs, remaining>> /\ (f \in remaining => mode # "yes")
           \/ /\ txs' = More(txs, Unlink(f)) /\ remaining' = remaining \ {f}
              /\ mode # "no" /\ f \in VotingOf(info) /\ f \in remaining
              /\ f \notin LinksOf(txs)
<1>1. Running /\ LinksOf(txs) = {} /\ f \in todo /\ todo \subseteq files
  BY DEF VisitFileToUnlink, Running, StageInv, Earliest
<1>2. f \in VotingOf(Links) /\ Overlaps(f, f)
  BY <1>1, LinkTypes DEF TypeOK, VotingOf
<1>3. /\ remaining \subseteq VotingOf(info)
      /\ \A x, y \in VotingOf(info) : x # y => ~Overlaps(x, y)
  BY <1>1, RemainingFacts DEF VotingOf, RunInv, Legal, NoOverlap
<1>4. CASE f \in Conflicting(f)
  <2>1. f \in remaining /\ Conflicting(f) \ {f} = {}
    BY <1>3, <1>4 DEF Conflicting
  <2>2. \/ UNCHANGED <<txs, remaining>> /\ mode # "yes"
        \/ /\ txs' = More(txs, Unlink(f)) /\ remaining' = remaining \ {f}
           /\ mode # "no"
    BY <1>4, <2>1, AnswersOfMode DEF More, VisitFileToUnlink, TypeOK
  <2> QED
    BY <1>1, <1>3, <2>1, <2>2
<1>5. CASE f \notin Conflicting(f)
  BY <1>2, <1>5 DEF VisitFileToUnlink, Conflicting
<1> QED
  BY <1>4, <1>5
-----------------------------------------------------------------------------
(* The model is type correct.                                               *)

LEMMA TxTypes ==
    ASSUME NEW l \in Links
    PROVE  Unlink(l) \in Tx /\ Link(l) \in Tx
BY DEF Unlink, Link, Tx

LEMMA TypeInit == Init => TypeOK
<1> SUFFICES ASSUME Init PROVE TypeOK
  OBVIOUS
<1>1. account \in SUBSET Links /\ LastKnownEpoch \in Nat /\ 0 \in Nat
  BY LinkAssumption DEF Init
<1>2. unlink \in BOOLEAN
  BY DEF Init
<1> QED
  BY <1>1, <1>2 DEF Init, TypeOK

LEMMA TypeStep == TypeOK /\ [Next]_vars => TypeOK'
<1> SUFFICES ASSUME TypeOK, [Next]_vars PROVE TypeOK'
  OBVIOUS
<1>1. OwnKeys \subseteq Links /\ LastKnownEpoch \in Nat
  BY LinkAssumption
<1>2. ASSUME NEW u \in BOOLEAN, NEW m \in {"yes", "no", "ask"}, StartRun(u, m)
      PROVE  TypeOK'
  BY <1>1, <1>2 DEF StartRun, TypeOK, VotingOf
<1>3. ASSUME NEW kind \in {"remote", "vrf"}, NEW next, AddTransaction(kind, next)
      PROVE  txs' \in SUBSET Tx
  <2>1. PICK X \in SUBSET {l \in info : l.kind = kind},
             Y \in SUBSET {k \in OwnKeys : k.kind = kind} :
          txs' = txs \cup {Unlink(l) : l \in X} \cup {Link(k) : k \in Y}
    BY <1>3, KeySteps
  <2>2. X \subseteq Links /\ Y \subseteq Links
    BY <1>1 DEF TypeOK
  <2> QED
    BY <2>1, <2>2, TxTypes DEF TypeOK
<1>4. CASE AddRemote
  BY <1>3, <1>4 DEF AddRemote, AddTransaction, TypeOK
<1>5. CASE AddVrf
  BY <1>3, <1>5 DEF AddVrf, AddTransaction, TypeOK, VotingOf
<1>6. ASSUME NEW l \in Links, VisitLinked(l) PROVE TypeOK'
  BY <1>6, TxTypes DEF VisitLinked, TypeOK
<1>7. CASE StartFiles
  BY <1>7 DEF StartFiles, TypeOK, ActiveFiles, VotingOf
<1>8. ASSUME NEW f \in Links, VisitFile(f) PROVE TypeOK'
  <2>1. ASSUME NEW keys \in SUBSET Links, NEW T \in SUBSET Tx, LinkIfRoom(f, keys, T)
        PROVE  remaining' \in SUBSET Links /\ txs' \in SUBSET Tx
    BY <2>1, TxTypes DEF LinkIfRoom
  <2>2. ASSUME NEW a \in Conflicting(f)
        PROVE  remaining \ {a} \in SUBSET Links /\ txs \cup {Unlink(a)} \in SUBSET Tx
    BY TxTypes DEF Conflicting, TypeOK
  <2>3. remaining' \in SUBSET Links /\ txs' \in SUBSET Tx
    BY <1>8, <2>1, <2>2 DEF VisitFile, TypeOK
  <2> QED
    BY <1>8, <2>3 DEF VisitFile, TypeOK
<1>9. ASSUME NEW f \in Links, VisitFileToUnlink(f) PROVE TypeOK'
  BY <1>9, TxTypes DEF VisitFileToUnlink, TypeOK
<1>10. CASE EndFiles
  BY <1>10 DEF EndFiles, TypeOK
<1>11. CASE Apply
  BY <1>1, <1>11, TxLinks DEF Apply, Exit, After, TypeOK
<1>12. CASE Reject \/ GiveUp
  <2>1. /\ Exit /\ UNCHANGED <<account, files, epoch, changes>>
        /\ FALSE \in BOOLEAN /\ LastKnownEpoch \in Nat
    BY <1>12, LinkAssumption DEF Reject, GiveUp
  <2> QED
    BY <2>1 DEF Exit, TypeOK
<1>13. CASE NetworkAdvances
  BY <1>13 DEF NetworkAdvances, runVars, TypeOK
<1>14. CASE OtherChange
  BY <1>14 DEF OtherChange, runVars, TypeOK
<1>15. CASE FilesChange
  BY <1>15 DEF FilesChange, runVars, TypeOK
<1>16. CASE UNCHANGED vars
  BY <1>16 DEF vars, runVars, TypeOK
<1> QED
  BY <1>2, <1>4, <1>5, <1>6, <1>7, <1>8, <1>9, <1>10, <1>11, <1>12, <1>13, <1>14, <1>15, <1>16
     DEF Next

\* Transactions, keys and epochs always have their types, for any links,
\* epochs and changes by others.
THEOREM TypeCorrect == Spec => []TypeOK
BY TypeInit, TypeStep, PTL DEF Spec

-----------------------------------------------------------------------------
(* The account stays legal, and the files do not overlap.                   *)

LEMMA AccountStep == TypeOK /\ AccountInv /\ StageInv /\ [Next]_vars => AccountInv'
<1> SUFFICES ASSUME TypeOK, AccountInv, StageInv, [Next]_vars PROVE AccountInv'
  OBVIOUS
<1>1. CASE Apply
  BY <1>1 DEF Apply, Accepted, AccountInv
<1>2. CASE OtherChange
  BY <1>2 DEF OtherChange, AccountInv
<1>3. CASE FilesChange
  BY <1>3 DEF FilesChange, AccountInv
<1>4. CASE UNCHANGED <<account, files>>
  BY <1>4 DEF AccountInv
<1>5. Apply \/ OtherChange \/ FilesChange \/ UNCHANGED <<account, files>>
  BY DEF Next, vars, StartRun, AddRemote, AddVrf, AddTransaction, VisitLinked, VisitFile,
         VisitFileToUnlink, StartFiles, EndFiles, Reject, GiveUp, NetworkAdvances
<1> QED
  BY <1>1, <1>2, <1>3, <1>4, <1>5

-----------------------------------------------------------------------------
(* What a run has collected stays acceptable.                               *)

\* What a step that changes neither keeps.
LEMMA SameInfo ==
    ASSUME RunInv, Running, UNCHANGED <<info, files>>
    PROVE  Legal(info') /\ NoOverlap(files')
BY DEF RunInv

\* Remote and VRF transactions are sendable and leave the voting keys alone.
LEMMA KeyTransactionsSendable ==
    ASSUME TypeOK, RunInv, StageInv, NEW kind \in {"remote", "vrf"}, pc = kind,
           NEW next, AddTransaction(kind, next)
    PROVE  /\ Sendable(info, txs')
           /\ VotingOf(After(info, txs')) = VotingOf(After(info, txs))
<1>1. PICK X \in SUBSET {l \in info : l.kind = kind}, Y \in SUBSET {k \in OwnKeys : k.kind = kind} :
        /\ Unlinks(txs') = Unlinks(txs) \cup X
        /\ LinksOf(txs') = LinksOf(txs) \cup Y
        /\ Y # {} => X = {l \in info : l.kind = kind}
  BY KeySteps
<1>2. /\ Running /\ info \in SUBSET Links /\ OwnKeys \subseteq Links
      /\ Legal(info) /\ Sendable(info, txs) /\ txs \in SUBSET Tx
  BY LinkAssumption DEF RunInv, Running, TypeOK
<1>3. \A l \in Unlinks(txs) \cup LinksOf(txs) : l.kind # kind
  BY DEF StageInv, Unlinks, LinksOf
<1>4. /\ Unlinks(txs') \subseteq info
      /\ LinksOf(txs') \cap (info \ Unlinks(txs')) = {}
  BY <1>1, <1>2, <1>3 DEF Sendable
<1>5. \A l : l \in After(info, txs') <=>
               \/ l \in Y
               \/ l \in After(info, txs) /\ l \notin X
  <2>1. \A l \in LinksOf(txs) : l \notin X
    BY <1>3
  <2> QED
    BY <1>1, <2>1 DEF After
<1>6. \A l \in After(info, txs) : l.kind = kind => l \in info
  BY <1>3 DEF After
<1>7. VotingOf(After(info, txs')) = VotingOf(After(info, txs))
  BY <1>5 DEF VotingOf
<1>8. After(info, txs) \in SUBSET Links /\ After(info, txs') \in SUBSET Links
  BY <1>2, <1>5, TxLinks DEF After
<1>9. /\ OneEach(After(info, txs))
      /\ Cardinality(VotingOf(After(info, txs))) <= 3
  BY <1>2 DEF Sendable
<1>10. OneEach(After(info, txs'))
  <2> SUFFICES ASSUME NEW x \in After(info, txs'), NEW y \in After(info, txs'),
                      x.kind = y.kind, x.kind # "voting"
               PROVE  x = y
    BY DEF OneEach
  <2>1. CASE x.kind # kind
    BY <1>1, <1>5, <1>9, <2>1 DEF OneEach
  <2>2. CASE x.kind = kind /\ Y = {}
    BY <1>5, <1>9, <2>2 DEF OneEach
  <2>3. CASE x.kind = kind /\ Y # {}
    <3>1. x \in Y /\ y \in Y
      BY <1>1, <1>5, <1>6, <2>3
    <3> QED
      BY <3>1, <2>3, LinkAssumption
  <2> QED
    BY <2>1, <2>2, <2>3
<1> QED
  BY <1>4, <1>7, <1>9, <1>10 DEF Sendable

LEMMA RunStep == TypeOK /\ AccountInv /\ RunInv /\ StageInv /\ [Next]_vars => RunInv'
<1> SUFFICES ASSUME TypeOK, AccountInv, RunInv, StageInv, [Next]_vars PROVE RunInv'
  OBVIOUS
<1> DEFINE A == After(info, txs)
<1>0. txs \in SUBSET Tx /\ info \in SUBSET Links
  BY DEF TypeOK
<1>1. ASSUME NEW u \in BOOLEAN, NEW m \in {"yes", "no", "ask"}, StartRun(u, m)
      PROVE  RunInv'
  <2>1. txs = {} /\ txs' = {} /\ info' = account /\ files' = files
    BY <1>1 DEF StartRun, StageInv
  <2>2. After(account, {}) = account /\ Unlinks({}) = {} /\ LinksOf({}) = {}
    BY DEF After, Unlinks, LinksOf
  <2>3. remaining' = VotingOf(account)
    BY <1>1 DEF StartRun
  <2>4. Sendable(account, {})
    BY <2>2, LegalParts DEF AccountInv, Sendable, TypeOK
  <2> QED
    BY <2>1, <2>2, <2>3, <2>4 DEF RunInv, AccountInv
<1>2. ASSUME NEW kind \in {"remote", "vrf"}, NEW next, AddTransaction(kind, next)
      PROVE  RunInv'
  <2>1. pc = kind /\ Running /\ UNCHANGED <<info, files, remaining>>
    BY <1>2 DEF AddTransaction, Running
  <2>2. /\ Sendable(info, txs')
        /\ VotingOf(After(info, txs')) = VotingOf(After(info, txs))
    BY <1>2, <2>1, KeyTransactionsSendable
  <2> QED
    BY <2>1, <2>2, SameInfo DEF RunInv
<1>3. ASSUME NEW l \in info, l \notin LinksOf(txs), Running, UNCHANGED <<info, files>>,
             txs' = More(txs, Unlink(l)), remaining' = remaining \ {l}
      PROVE  RunInv'
  <2>1. Sendable(info, txs') /\ After(info, txs') = A \ {l}
    BY <1>0, <1>3, UnlinkOneMore DEF RunInv
  <2>2. remaining' = VotingOf(After(info, txs'))
    BY <1>3, <2>1 DEF RunInv, VotingOf
  <2> QED
    BY <1>3, <2>1, <2>2, SameInfo DEF RunInv
<1>4. ASSUME Running, UNCHANGED <<info, files, txs, remaining>> PROVE RunInv'
  BY <1>4 DEF RunInv
<1>5. ASSUME NEW l \in Links, VisitLinked(l) PROVE RunInv'
  <2>1. Running /\ UNCHANGED <<info, files>>
    BY <1>5 DEF VisitLinked, Running
  <2>2. \/ UNCHANGED <<txs, remaining>>
        \/ /\ txs' = More(txs, Unlink(l)) /\ remaining' = remaining \ {l}
           /\ l \in info /\ l \notin LinksOf(txs)
    BY <1>5, LinkedSteps DEF VotingOf
  <2> QED
    BY <1>3, <1>4, <2>1, <2>2
<1>6. ASSUME NEW f \in Links, VisitFileToUnlink(f) PROVE RunInv'
  <2>1. Running /\ UNCHANGED <<info, files>>
    BY <1>6 DEF VisitFileToUnlink, Running
  <2>2. \/ UNCHANGED <<txs, remaining>>
        \/ /\ txs' = More(txs, Unlink(f)) /\ remaining' = remaining \ {f}
           /\ f \in info /\ f \notin LinksOf(txs)
    BY <1>6, UnlinkSteps DEF VotingOf
  <2> QED
    BY <1>3, <1>4, <2>1, <2>2
<1>7. ASSUME NEW f \in Links, VisitFile(f) PROVE RunInv'
  <2>1. Running /\ UNCHANGED <<info, files>> /\ f \in VotingOf(Links)
    BY <1>7, FileSteps DEF VisitFile, Running
  <2>2. remaining = VotingOf(A) /\ Sendable(info, txs) /\ f.kind = "voting"
    BY <2>1 DEF RunInv, VotingOf
  <2>3. CASE FileKept(f)
    BY <1>4, <2>1, <2>3 DEF FileKept
  <2>4. CASE FileAdded(f)
    <3>1. f \notin A
      BY <2>2, <2>4 DEF FileAdded, VotingOf
    <3>2. Cardinality(VotingOf(A)) < 3
      BY <2>2, <2>4 DEF FileAdded
    <3>3. Takes(info, txs, f)
      BY <1>0, <2>1, <2>2, <3>1, <3>2 DEF Takes
    <3>4. Sendable(info, txs') /\ remaining' = VotingOf(After(info, txs'))
      BY <2>2, <2>4, <3>3, LinkOneMore DEF FileAdded
    <3> QED
      BY <2>1, <3>4, SameInfo DEF RunInv
  <2>5. ASSUME NEW a \in remaining, FileReplaces(f, a) PROVE RunInv'
    <3> DEFINE T == More(txs, Unlink(a))
    <3>1. a \in info /\ a \notin LinksOf(txs) /\ a \in Links
      BY <2>5, <1>0 DEF FileReplaces, VotingOf
    <3>2. Sendable(info, T) /\ After(info, T) = A \ {a}
      BY <1>0, <2>2, <3>1, UnlinkOneMore
    <3>3. VotingOf(After(info, T)) = remaining \ {a}
      BY <2>2, <3>2 DEF VotingOf
    <3>4. T \in SUBSET Tx
      BY <1>0, <3>1, TxTypes DEF More
    <3>5. f \notin After(info, T)
      BY <2>2, <2>5, <3>2 DEF FileReplaces, VotingOf
    <3>6. Cardinality(VotingOf(After(info, T))) < 3
      BY <2>1, <2>5, <3>3, RoomAfterRemoval DEF FileReplaces
    <3>7. Takes(info, T, f)
      BY <1>0, <2>1, <3>2, <3>4, <3>5, <3>6 DEF Takes
    <3>8. txs' = More(T, Link(f))
      BY <2>5 DEF FileReplaces
    <3> HIDE DEF T
    <3>9. Sendable(info, txs') /\ VotingOf(After(info, txs')) = (remaining \ {a}) \cup {f}
      BY <3>3, <3>7, <3>8, LinkOneMore
    <3> QED
      BY <2>1, <2>5, <3>9, SameInfo DEF RunInv, FileReplaces
  <2> QED
    BY <1>7, <2>3, <2>4, <2>5, FileSteps
<1>8. CASE StartFiles
  BY <1>4, <1>8 DEF StartFiles, Running
<1>9. CASE EndFiles
  BY <1>4, <1>9 DEF EndFiles, Running
<1>10. CASE Apply \/ Reject \/ GiveUp
  BY <1>10 DEF Apply, Reject, GiveUp, Exit, RunInv, Running
<1>11. CASE NetworkAdvances \/ OtherChange
  BY <1>11 DEF NetworkAdvances, OtherChange, runVars, RunInv, Running
<1>12. CASE FilesChange
  BY <1>12 DEF FilesChange, runVars, RunInv, Running
<1>13. CASE UNCHANGED vars
  BY <1>13 DEF vars, runVars, RunInv, Running
<1> QED
  BY <1>1, <1>2, <1>5, <1>6, <1>7, <1>8, <1>9, <1>10, <1>11, <1>12, <1>13
     DEF Next, AddRemote, AddVrf
-----------------------------------------------------------------------------
(* How far a run is, what it has removed, what has become of the files.     *)

\* What the visit of a link or a file adds to the transactions.
LEMMA VisitAdds ==
    ASSUME TypeOK, RunInv, StageInv, NEW l \in Links
    PROVE  /\ VisitLinked(l) \/ VisitFileToUnlink(l) =>
                /\ LinksOf(txs') = LinksOf(txs)
                /\ \/ UNCHANGED <<txs, remaining>>
                   \/ /\ Unlinks(txs') = Unlinks(txs) \cup {l}
                      /\ remaining' = remaining \ {l} /\ mode # "no"
                      /\ VisitLinked(l) => l.endEpoch < known
           /\ VisitFile(l) /\ ~FileKept(l) =>
                /\ LinksOf(txs') = LinksOf(txs) \cup {l}
                /\ \/ Unlinks(txs') = Unlinks(txs)
                   \/ \E a \in remaining :
                        /\ Unlinks(txs') = Unlinks(txs) \cup {a}
                        /\ Overlaps(l, a) /\ mode # "no"
<1>1. CASE VisitLinked(l)
  BY <1>1, LinkedSteps, OneMore DEF VisitLinked, VisitFileToUnlink, VisitFile
<1>2. CASE VisitFileToUnlink(l)
  BY <1>2, UnlinkSteps, OneMore DEF VisitLinked, VisitFileToUnlink, VisitFile
<1>3. CASE VisitFile(l) /\ FileAdded(l)
  <2>1. Unlinks(txs') = Unlinks(txs) /\ LinksOf(txs') = LinksOf(txs) \cup {l}
    BY <1>3, OneMore DEF FileAdded
  <2> QED
    BY <1>3, <2>1 DEF VisitLinked, VisitFileToUnlink, VisitFile
<1>4. ASSUME VisitFile(l), NEW a \in remaining, FileReplaces(l, a)
      PROVE  /\ LinksOf(txs') = LinksOf(txs) \cup {l}
             /\ Unlinks(txs') = Unlinks(txs) \cup {a}
             /\ Overlaps(l, a) /\ mode # "no"
  <2> DEFINE T == More(txs, Unlink(a))
  <2>1. Unlinks(T) = Unlinks(txs) \cup {a} /\ LinksOf(T) = LinksOf(txs)
    BY OneMore
  <2>2. txs' = More(T, Link(l)) /\ Overlaps(l, a) /\ mode # "no"
    BY <1>4 DEF FileReplaces
  <2> HIDE DEF T
  <2>3. Unlinks(txs') = Unlinks(T) /\ LinksOf(txs') = LinksOf(T) \cup {l}
    BY <2>2, OneMore
  <2> QED
    BY <2>1, <2>2, <2>3
<1>5. VisitFile(l) => ~VisitLinked(l) /\ ~VisitFileToUnlink(l)
  BY DEF VisitLinked, VisitFileToUnlink, VisitFile
<1> QED
  BY <1>1, <1>2, <1>3, <1>4, <1>5, FileSteps

\* Files that cross no two keys stay clear of the keys they are linked beside.
LEMMA ClearStep == TypeOK /\ RunInv /\ ClearInv /\ StageInv /\ [Next]_vars => ClearInv'
<1> SUFFICES ASSUME TypeOK, RunInv, ClearInv, StageInv, [Next]_vars PROVE ClearInv'
  OBVIOUS
<1>0. LinksOf({}) = {} /\ VotingOf({}) = {}
  BY DEF LinksOf, VotingOf
<1>1. ASSUME Running, info' = info, remaining' \subseteq remaining,
             VotingOf(LinksOf(txs')) = VotingOf(LinksOf(txs))
      PROVE  ClearInv'
  BY <1>1 DEF ClearInv, CrossesTwo
<1>2. ASSUME txs' = {} PROVE ClearInv'
  BY <1>0, <1>2 DEF ClearInv
<1>3. ASSUME NEW kind \in {"remote", "vrf"}, NEW next, AddTransaction(kind, next)
      PROVE  ClearInv'
  <2>1. PICK Y \in SUBSET {k \in OwnKeys : k.kind = kind} : LinksOf(txs') = LinksOf(txs) \cup Y
    BY <1>3, KeySteps
  <2>2. VotingOf(LinksOf(txs')) = VotingOf(LinksOf(txs))
    BY <2>1 DEF VotingOf
  <2> QED
    BY <1>1, <1>3, <2>2 DEF AddTransaction, Running
<1>4. ASSUME NEW l \in Links, VisitLinked(l) \/ VisitFileToUnlink(l) PROVE ClearInv'
  <2>1. LinksOf(txs') = LinksOf(txs) /\ remaining' \subseteq remaining
    BY <1>4, VisitAdds
  <2> QED
    BY <1>1, <1>4, <2>1 DEF VisitLinked, VisitFileToUnlink, Running
<1>5. ASSUME NEW f \in Links, VisitFile(f) PROVE ClearInv'
  <2>1. Running /\ UNCHANGED <<info, files>>
    BY <1>5 DEF VisitFile, Running
  <2>2. CASE FileKept(f)
    BY <1>1, <2>1, <2>2 DEF FileKept
  <2>3. CASE ~FileKept(f)
    <3>1. /\ LinksOf(txs') = LinksOf(txs) \cup {f} /\ f \in VotingOf(files)
          /\ f \notin LinksOf(txs)
      BY <1>5, <2>3, VisitAdds, FileSteps
         DEF VisitFile, Earliest, StageInv, VotingOf
    <3>2. /\ remaining' \subseteq remaining \cup {f}
          /\ ~CrossesTwo(f) => \A b \in remaining' \ {f} : ~Overlaps(f, b)
      BY <1>5, <2>3, FileSteps DEF FileAdded, FileReplaces
    <3>3. ASSUME NEW g \in VotingOf(LinksOf(txs)), ~CrossesTwo(g),
                 NEW b \in remaining' \ {g}
          PROVE  ~Overlaps(g, b)
      <4>1. CASE b \in remaining
        BY <2>1, <3>3, <4>1 DEF ClearInv
      <4>2. CASE b = f
        <5>1. g \in VotingOf(files) /\ NoOverlap(files) /\ g # f
          BY <2>1, <3>1, <3>3 DEF StageInv, RunInv, VotingOf
        <5> QED
          BY <3>1, <4>2, <5>1 DEF NoOverlap
      <4> QED
        BY <3>2, <4>1, <4>2
    <3>4. \A g : CrossesTwo(g)' <=> CrossesTwo(g)
      BY <2>1 DEF CrossesTwo
    <3>5. VotingOf(LinksOf(txs')) \subseteq VotingOf(LinksOf(txs)) \cup {f}
      BY <3>1 DEF VotingOf
    <3> QED
      BY <3>2, <3>3, <3>4, <3>5 DEF ClearInv
  <2> QED
    BY <2>2, <2>3
<1>6. ASSUME UNCHANGED <<info, txs, remaining, pc>> PROVE ClearInv'
  BY <1>6 DEF ClearInv, CrossesTwo, Running
<1>7. CASE StartFiles \/ EndFiles
  BY <1>1, <1>7 DEF StartFiles, EndFiles, Running
<1>8. CASE Apply \/ Reject \/ GiveUp
  BY <1>2, <1>8 DEF Apply, Reject, GiveUp, Exit
<1>9. ASSUME NEW u \in BOOLEAN, NEW m \in {"yes", "no", "ask"}, StartRun(u, m)
      PROVE  ClearInv'
  BY <1>2, <1>9 DEF StartRun, StageInv
<1>10. CASE NetworkAdvances \/ OtherChange \/ FilesChange \/ UNCHANGED vars
  BY <1>6, <1>10 DEF NetworkAdvances, OtherChange, FilesChange, vars, runVars
<1> QED
  BY <1>3, <1>4, <1>5, <1>7, <1>8, <1>9, <1>10 DEF Next, AddRemote, AddVrf

LEMMA StageStep == TypeOK /\ RunInv /\ StageInv /\ [Next]_vars => StageInv'
<1> SUFFICES ASSUME TypeOK, RunInv, StageInv, [Next]_vars PROVE StageInv'
  OBVIOUS
<1>0. LinksOf({}) = {} /\ VotingOf({}) = {}
  BY DEF LinksOf, VotingOf
<1>1. ASSUME NEW u \in BOOLEAN, NEW m \in {"yes", "no", "ask"}, StartRun(u, m)
      PROVE  StageInv'
  BY <1>0, <1>1 DEF StartRun, StageInv
<1>2. ASSUME NEW kind \in {"remote", "vrf"}, NEW next, AddTransaction(kind, next)
      PROVE  /\ VotingOf(LinksOf(txs')) = VotingOf(LinksOf(txs))
             /\ unlink => LinksOf(txs') = {}
             /\ kind = "remote" => \A t \in txs' : t.link.kind = "remote"
  <2>1. PICK X \in SUBSET {l \in info : l.kind = kind},
             Y \in SUBSET {k \in OwnKeys : k.kind = kind} :
          /\ LinksOf(txs') = LinksOf(txs) \cup Y
          /\ txs' = txs \cup {Unlink(l) : l \in X} \cup {Link(k) : k \in Y}
          /\ unlink => Y = {}
    BY <1>2, KeySteps
  <2>2. VotingOf(LinksOf(txs')) = VotingOf(LinksOf(txs))
    BY <2>1 DEF VotingOf
  <2>3. ASSUME kind = "remote" PROVE \A t \in txs' : t.link.kind = "remote"
    <3>1. txs = {}
      BY <1>2, <2>3 DEF AddTransaction, StageInv
    <3> QED
      BY <2>1, <2>3, <3>1 DEF Unlink, Link
  <2> QED
    BY <2>1, <2>2, <2>3 DEF StageInv
<1>3. CASE AddRemote
  BY <1>2, <1>3 DEF AddRemote, AddTransaction, StageInv
<1>4. CASE AddVrf
  <2>1. /\ pc = "vrf" /\ UNCHANGED <<unlink, files, remaining>>
        /\ pc' = IF unlink THEN "unlinkFiles" ELSE "expired"
        /\ todo' = IF unlink THEN files ELSE remaining
        /\ unlink \in BOOLEAN
    BY <1>4 DEF AddVrf, AddTransaction, TypeOK
  <2>2. /\ VotingOf(LinksOf(txs')) = VotingOf(LinksOf(txs))
        /\ unlink => LinksOf(txs') = {}
    BY <1>2, <1>4 DEF AddVrf
  <2>3. CASE unlink
    BY <2>1, <2>2, <2>3 DEF StageInv
  <2>4. CASE ~unlink
    BY <2>1, <2>2, <2>4 DEF StageInv
  <2> QED
    BY <2>1, <2>3, <2>4
<1>5. ASSUME NEW l \in Links, VisitLinked(l) PROVE StageInv'
  <2>1. /\ LinksOf(txs') = LinksOf(txs)
        /\ remaining' = remaining \/ remaining' = remaining \ {l}
    BY <1>5, VisitAdds
  <2> QED
    BY <1>5, <2>1 DEF VisitLinked, StageInv
<1>6. CASE StartFiles
  <2>1. pc = "expired" /\ pc' = "files" /\ todo' = ActiveFiles
        /\ UNCHANGED <<files, known, unlink, txs>>
    BY <1>6 DEF StartFiles
  <2>2. ActiveFiles \cap LinksOf(txs) = {}
    BY <2>1 DEF StageInv, ActiveFiles, TypeOK, VotingOf
  <2> QED
    BY <2>1, <2>2 DEF StageInv, ActiveFiles
<1>7. ASSUME NEW f \in Links, VisitFile(f) PROVE StageInv'
  <2>1. LinksOf(txs') = LinksOf(txs) \/ LinksOf(txs') = LinksOf(txs) \cup {f}
    BY <1>7, VisitAdds DEF FileKept
  <2>2. f \in files /\ ~unlink /\ pc = "files"
    BY <1>7, FileSteps DEF VisitFile, StageInv
  <2>3. VotingOf(LinksOf(txs')) \subseteq files
    BY <2>1, <2>2 DEF VotingOf, StageInv
  <2> QED
    BY <1>7, <2>1, <2>2, <2>3 DEF VisitFile, StageInv, ActiveFiles
<1>8. ASSUME NEW f \in Links, VisitFileToUnlink(f) PROVE StageInv'
  <2>1. LinksOf(txs') = LinksOf(txs)
    BY <1>8, VisitAdds
  <2> QED
    BY <1>8, <2>1 DEF VisitFileToUnlink, StageInv
<1>9. CASE EndFiles
  BY <1>9 DEF EndFiles, StageInv
<1>10. CASE Apply \/ Reject \/ GiveUp
  BY <1>0, <1>10 DEF Apply, Reject, GiveUp, Exit, StageInv
<1>11. CASE NetworkAdvances \/ OtherChange
  BY <1>11 DEF NetworkAdvances, OtherChange, runVars, StageInv, ActiveFiles
<1>12. CASE FilesChange
  BY <1>0, <1>12 DEF FilesChange, runVars, StageInv
<1>13. CASE UNCHANGED vars
  BY <1>13 DEF vars, runVars, StageInv, ActiveFiles
<1> QED
  BY <1>1, <1>3, <1>4, <1>5, <1>6, <1>7, <1>8, <1>9, <1>10, <1>11, <1>12, <1>13 DEF Next

\* What a run removes, it removes for a reason and with consent.
LEMMA RemovedStep == TypeOK /\ RunInv /\ StageInv /\ RemovedInv /\ [Next]_vars => RemovedInv'
<1> SUFFICES ASSUME TypeOK, RunInv, StageInv, RemovedInv, [Next]_vars PROVE RemovedInv'
  OBVIOUS
<1>0. Unlinks({}) = {} /\ VotingOf({}) = {}
  BY DEF Unlinks, VotingOf
<1>1. ASSUME txs' = {} PROVE RemovedInv'
  BY <1>0, <1>1 DEF RemovedInv
<1>2. ASSUME UNCHANGED <<txs, unlink, mode, known, info, files>>, Running PROVE RemovedInv'
  BY <1>2 DEF RemovedInv, FullyLinked, ActiveFiles
<1>3. CASE txs = {} /\ txs' = {}
  BY <1>1, <1>3
<1>4. ASSUME NEW kind \in {"remote", "vrf"}, NEW next, AddTransaction(kind, next)
      PROVE  RemovedInv'
  <2>1. PICK X \in SUBSET {l \in info : l.kind = kind},
             Y \in SUBSET {k \in OwnKeys : k.kind = kind} :
          /\ Unlinks(txs') = Unlinks(txs) \cup X
          /\ LinksOf(txs') = LinksOf(txs) \cup Y
          /\ txs' = txs \cup {Unlink(l) : l \in X} \cup {Link(k) : k \in Y}
          /\ mode = "no" => X \subseteq (IF unlink THEN OwnKeys ELSE {})
          /\ ~unlink /\ {k \in OwnKeys : k.kind = kind} \subseteq info => X = {} /\ Y = {}
    BY <1>4, KeySteps
  <2>2. UNCHANGED <<unlink, mode, known, info, files>> /\ Running
    BY <1>4 DEF AddTransaction, Running
  <2>3. VotingOf(Unlinks(txs')) = VotingOf(Unlinks(txs)) /\ LinksOf(txs) \subseteq LinksOf(txs')
    BY <2>1 DEF VotingOf
  <2>4. ~unlink /\ FullyLinked => txs' = txs
    BY <2>1 DEF FullyLinked
  <2> QED
    BY <2>1, <2>2, <2>3, <2>4 DEF RemovedInv, FullyLinked, ActiveFiles
<1>5. ASSUME NEW l \in Links, VisitLinked(l) PROVE RemovedInv'
  <2>1. Running /\ UNCHANGED <<unlink, mode, known, info, files>> /\ pc = "expired" /\ ~unlink
    BY <1>5 DEF VisitLinked, Running, StageInv
  <2>2. CASE UNCHANGED txs
    BY <1>2, <2>1, <2>2
  <2>3. CASE ~UNCHANGED txs
    <3>1. /\ LinksOf(txs') = LinksOf(txs) /\ Unlinks(txs') = Unlinks(txs) \cup {l}
          /\ l.endEpoch < known /\ mode # "no" /\ l \in VotingOf(info)
      BY <1>5, <2>3, VisitAdds, LinkedSteps
    <3>2. ~FullyLinked
      <4>1. l.endEpoch \in Nat /\ known \in Nat
        BY LinkTypes DEF TypeOK
      <4> QED
        BY <3>1, <4>1 DEF FullyLinked
    <3> QED
      BY <2>1, <3>1, <3>2 DEF RemovedInv, FullyLinked, ActiveFiles, VotingOf
  <2> QED
    BY <2>2, <2>3
<1>6. ASSUME NEW f \in Links, VisitFileToUnlink(f) PROVE RemovedInv'
  <2>1. Running /\ UNCHANGED <<unlink, mode, known, info, files>> /\ unlink
    BY <1>6 DEF VisitFileToUnlink, Running, StageInv
  <2>2. UNCHANGED txs \/ mode # "no"
    BY <1>6, VisitAdds
  <2> QED
    BY <2>1, <2>2 DEF RemovedInv
<1>7. ASSUME NEW f \in Links, VisitFile(f) PROVE RemovedInv'
  <2>1. Running /\ UNCHANGED <<unlink, mode, known, info, files>> /\ ~unlink
    BY <1>7 DEF VisitFile, Running, StageInv
  <2>2. CASE FileKept(f)
    BY <1>2, <2>1, <2>2 DEF FileKept
  <2>3. CASE ~FileKept(f)
    <3>1. /\ LinksOf(txs') = LinksOf(txs) \cup {f} /\ f \in files /\ f.kind = "voting"
          /\ f.endEpoch >= known /\ f \notin remaining
      BY <1>7, <2>3, VisitAdds, FileSteps DEF FileAdded, FileReplaces, VotingOf
    <3>2. \/ Unlinks(txs') = Unlinks(txs)
          \/ \E a \in remaining : /\ Unlinks(txs') = Unlinks(txs) \cup {a}
                                  /\ Overlaps(f, a) /\ mode # "no"
      BY <1>7, <2>3, VisitAdds
    <3>3. ~FullyLinked
      <4> SUFFICES ASSUME FullyLinked PROVE FALSE
        OBVIOUS
      <4>1. txs = {} /\ remaining = VotingOf(After(info, txs))
        BY <2>1 DEF RemovedInv, RunInv
      <4>2. After(info, {}) = info
        BY DEF After, Unlinks, LinksOf
      <4>3. f \in info
        BY <3>1 DEF FullyLinked, ActiveFiles
      <4> QED
        BY <3>1, <4>1, <4>2, <4>3 DEF VotingOf
    <3>4. \A l \in VotingOf(Unlinks(txs')) :
            l.endEpoch < known
            \/ \E g \in LinksOf(txs') : g.kind = "voting" /\ Overlaps(g, l)
      <4> SUFFICES ASSUME NEW l \in VotingOf(Unlinks(txs')), ~(l.endEpoch < known)
                   PROVE  \E g \in LinksOf(txs') : g.kind = "voting" /\ Overlaps(g, l)
        OBVIOUS
      <4>1. CASE l \in VotingOf(Unlinks(txs))
        BY <2>1, <3>1, <4>1 DEF RemovedInv
      <4>2. CASE l \notin VotingOf(Unlinks(txs))
        <5>1. Overlaps(f, l)
          BY <3>2, <4>2 DEF VotingOf
        <5> QED
          BY <3>1, <5>1
      <4> QED
        BY <4>1, <4>2
    <3>5. mode = "no" => Unlinks(txs') = Unlinks(txs)
      BY <3>2
    <3> QED
      BY <2>1, <3>3, <3>4, <3>5 DEF RemovedInv, FullyLinked, ActiveFiles
  <2> QED
    BY <2>2, <2>3
<1>8. CASE StartFiles
  BY <1>2, <1>8 DEF StartFiles, Running
<1>9. CASE EndFiles
  BY <1>2, <1>9 DEF EndFiles, Running
<1>10. CASE Apply \/ Reject \/ GiveUp
  BY <1>1, <1>10 DEF Apply, Reject, GiveUp, Exit
<1>11. ASSUME NEW u \in BOOLEAN, NEW m \in {"yes", "no", "ask"}, StartRun(u, m)
       PROVE  RemovedInv'
  BY <1>3, <1>11 DEF StartRun, StageInv
<1>12. CASE NetworkAdvances \/ OtherChange
  BY <1>12 DEF NetworkAdvances, OtherChange, runVars, RemovedInv, FullyLinked, ActiveFiles, Running
<1>13. CASE FilesChange
  BY <1>3, <1>13 DEF FilesChange, runVars, StageInv
<1>14. CASE UNCHANGED vars
  BY <1>14 DEF vars, runVars, RemovedInv, FullyLinked, ActiveFiles, Running
<1> QED
  BY <1>4, <1>5, <1>6, <1>7, <1>8, <1>9, <1>10, <1>11, <1>12, <1>13, <1>14
     DEF Next, AddRemote, AddVrf
\* What has become of the keys and files that a run has visited.
LEMMA VisitedStep == TypeOK /\ RunInv /\ StageInv /\ VisitedInv /\ [Next]_vars => VisitedInv'
<1> SUFFICES ASSUME TypeOK, RunInv, StageInv, VisitedInv, [Next]_vars PROVE VisitedInv'
  OBVIOUS
<1>1. ASSUME NEW u \in BOOLEAN, NEW m \in {"yes", "no", "ask"}, StartRun(u, m)
      PROVE  VisitedInv'
  BY <1>1 DEF StartRun, VisitedInv
<1>2. ASSUME NEW kind \in {"remote", "vrf"}, NEW next, AddTransaction(kind, next),
             unlink, mode = "yes"
      PROVE  /\ After(info, txs') \subseteq After(info, txs)
             /\ \A k \in OwnKeys : k.kind = kind => k \notin After(info, txs')
  <2>1. PICK X \in SUBSET {l \in info : l.kind = kind},
             Y \in SUBSET {k \in OwnKeys : k.kind = kind} :
          /\ Unlinks(txs') = Unlinks(txs) \cup X
          /\ LinksOf(txs') = LinksOf(txs) \cup Y
          /\ unlink => Y = {}
          /\ unlink => \/ X = {l \in info : l.kind = kind}
                       \/ mode # "yes" \/ ~\E k \in OwnKeys : k.kind = kind
    BY <1>2, KeySteps
  <2>2. LinksOf(txs') = {}
    BY <1>2, <2>1 DEF StageInv
  <2> QED
    BY <1>2, <2>1, <2>2 DEF After
<1>3. CASE AddRemote
  BY <1>2, <1>3 DEF AddRemote, AddTransaction, VisitedInv
<1>4. CASE AddVrf
  <2>1. /\ pc = "vrf" /\ UNCHANGED <<unlink, files, remaining, mode, info, known>>
        /\ pc' = IF unlink THEN "unlinkFiles" ELSE "expired"
        /\ todo' = IF unlink THEN files ELSE remaining
        /\ unlink \in BOOLEAN
    BY <1>4 DEF AddVrf, AddTransaction, TypeOK
  <2>2. unlink /\ mode = "yes" =>
          /\ After(info, txs') \subseteq After(info, txs)
          /\ \A k \in OwnKeys : k.kind = "vrf" => k \notin After(info, txs')
    BY <1>2, <1>4 DEF AddVrf
  <2>3. CASE unlink
    <3>1. pc' = "unlinkFiles" /\ todo' = files /\ files' = files
      BY <2>1, <2>3
    <3>2. mode = "yes" =>
          \A k \in OwnKeys : k.kind \in {"remote", "vrf"} => k \notin After(info, txs')
      BY <2>1, <2>2, <2>3 DEF VisitedInv
    <3> QED
      BY <2>1, <2>3, <3>1, <3>2 DEF VisitedInv
  <2>4. CASE ~unlink
    BY <2>1, <2>4 DEF VisitedInv
  <2> QED
    BY <2>1, <2>3, <2>4
<1>5. ASSUME NEW l \in Links, VisitLinked(l) PROVE VisitedInv'
  BY <1>5 DEF VisitLinked, StageInv, VisitedInv
<1>6. CASE StartFiles
  BY <1>6 DEF StartFiles, StageInv, VisitedInv, ActiveFiles
<1>7. ASSUME NEW f \in Links, VisitFile(f) PROVE VisitedInv'
  <2>1. /\ Running /\ pc = "files" /\ pc' = "files" /\ ~unlink /\ todo' = todo \ {f}
        /\ UNCHANGED <<files, known, unlink, mode>>
    BY <1>7 DEF VisitFile, Running, StageInv
  <2>2. ASSUME mode = "yes", NEW g \in ActiveFiles \ todo'
        PROVE  g \in remaining' \/ Cardinality(remaining') = 3
    <3>1. g = f \/ g \in remaining \/ Cardinality(remaining) = 3
      BY <2>1, <2>2 DEF VisitedInv
    <3>2. g \in files
      BY <2>2 DEF ActiveFiles
    <3>3. CASE FileKept(f)
      BY <2>2, <3>1, <3>3 DEF FileKept
    <3>4. CASE FileAdded(f)
      BY <3>1, <3>4 DEF FileAdded
    <3>5. ASSUME NEW a \in remaining, FileReplaces(f, a)
          PROVE  g \in remaining' \/ Cardinality(remaining') = 3
      <4>1. /\ remaining' = (remaining \ {a}) \cup {f} /\ f \notin remaining /\ a # g
        BY <3>2, <3>5 DEF FileReplaces
      <4>2. /\ IsFiniteSet(remaining \ {a})
            /\ Cardinality(remaining \ {a}) = Cardinality(remaining) - 1
            /\ Cardinality(remaining) \in Nat
        BY <2>1, RoomAfterRemoval, RemainingFacts
      <4>3. Cardinality(remaining') = Cardinality(remaining \ {a}) + 1
        BY <4>1, <4>2, FS_AddElement
      <4> QED
        BY <3>1, <4>1, <4>2, <4>3
    <3> QED
      BY <1>7, <3>3, <3>4, <3>5, FileSteps
  <2>3. ActiveFiles' = ActiveFiles
    BY <2>1 DEF ActiveFiles
  <2> QED
    BY <2>1, <2>2, <2>3 DEF VisitedInv
<1>8. ASSUME NEW f \in Links, VisitFileToUnlink(f) PROVE VisitedInv'
  <2>1. /\ pc = "unlinkFiles" /\ pc' = "unlinkFiles" /\ unlink /\ todo' = todo \ {f}
        /\ UNCHANGED <<files, known, unlink, mode, info>>
    BY <1>8 DEF VisitFileToUnlink, StageInv
  <2>2. /\ remaining' \subseteq remaining
        /\ mode = "yes" => f \notin remaining'
    BY <1>8, UnlinkSteps
  <2>3. LinksOf(txs') = LinksOf(txs) /\ Unlinks(txs) \subseteq Unlinks(txs')
    BY <1>8, VisitAdds
  <2>4. After(info, txs') \subseteq After(info, txs)
    BY <2>3 DEF After
  <2>5. mode = "yes" => \A g \in files \ todo' : g \notin remaining'
    BY <2>1, <2>2 DEF VisitedInv
  <2> QED
    BY <2>1, <2>4, <2>5 DEF VisitedInv
<1>9. CASE EndFiles
  BY <1>9 DEF EndFiles, StageInv, VisitedInv, ActiveFiles
<1>10. CASE Apply \/ Reject \/ GiveUp
  BY <1>10 DEF Apply, Reject, GiveUp, Exit, VisitedInv
<1>11. CASE NetworkAdvances \/ OtherChange
  BY <1>11 DEF NetworkAdvances, OtherChange, runVars, VisitedInv, ActiveFiles
<1>12. CASE FilesChange
  BY <1>12 DEF FilesChange, runVars, StageInv, VisitedInv
<1>13. CASE UNCHANGED vars
  BY <1>13 DEF vars, runVars, VisitedInv, ActiveFiles
<1> QED
  BY <1>1, <1>3, <1>4, <1>5, <1>6, <1>7, <1>8, <1>9, <1>10, <1>11, <1>12, <1>13 DEF Next

-----------------------------------------------------------------------------
(* The theorems.                                                            *)

LEMMA InitInvariant == Init => IInv
<1> SUFFICES ASSUME Init PROVE IInv
  OBVIOUS
<1>1. TypeOK
  BY TypeInit
<1>2. NoOverlap({}) /\ Unlinks({}) = {} /\ LinksOf({}) = {} /\ VotingOf({}) = {}
  BY DEF NoOverlap, Unlinks, LinksOf, VotingOf
<1>3. AccountInv
  BY <1>2 DEF Init, AccountInv
<1>4. RunInv /\ ClearInv /\ VisitedInv
  BY DEF Init, RunInv, ClearInv, Running, VisitedInv
<1>5. StageInv /\ RemovedInv
  BY <1>2 DEF Init, StageInv, RemovedInv, Running
<1> QED
  BY <1>1, <1>3, <1>4, <1>5 DEF IInv

LEMMA Invariant == Spec => []IInv
<1>1. IInv /\ [Next]_vars => IInv'
  BY TypeStep, AccountStep, RunStep, ClearStep, StageStep, RemovedStep, VisitedStep DEF IInv
<1> QED
  BY InitInvariant, <1>1, PTL DEF Spec

\* Linking gives up a voting key only when it has expired or when a file that
\* overlaps it takes its place, for any keys and files and whatever somebody
\* else changes meanwhile.
THEOREM RemovalsAreReplacements == Spec => []UnlinkedIsReplaced
<1>1. IInv => UnlinkedIsReplaced
  BY DEF IInv, RemovedInv, UnlinkedIsReplaced
<1> QED
  BY Invariant, <1>1, PTL

\* Without consent a link run removes no key, and an unlink run only the
\* node's own.
THEOREM RemovalsNeedConsent == Spec => []NoConsentNoRemoval
<1>1. IInv => NoConsentNoRemoval
  BY DEF IInv, RemovedInv, NoConsentNoRemoval
<1> QED
  BY Invariant, <1>1, PTL

\* A node whose keys are all linked, with nothing expired, announces nothing.
THEOREM LinkingAgainIsHarmless == Spec => []LinkIsIdempotent
<1>1. IInv => LinkIsIdempotent
  BY DEF IInv, RemovedInv, LinkIsIdempotent, Running
<1> QED
  BY Invariant, <1>1, PTL

\* The network refuses what a run announces only if somebody changed the
\* account after it was read, or if it links a file that overlaps two linked
\* keys: for any keys, files and answers.
THEOREM RefusalsHaveCauses == Spec => RefusedWithCause
<1>1. IInv /\ [Next]_vars
        => [Reject => account # info \/ \E f \in VotingOf(LinksOf(txs)) : CrossesTwo(f)]_vars
  <2> SUFFICES ASSUME IInv, Reject, account = info,
                      \A f \in VotingOf(LinksOf(txs)) : ~CrossesTwo(f)
               PROVE  FALSE
    OBVIOUS
  <2>1. /\ Running /\ ~Accepted(info, txs)
        /\ info \in SUBSET Links /\ txs \in SUBSET Tx
    BY DEF Reject, Running, IInv, TypeOK
  <2>2. /\ Sendable(info, txs) /\ NoOverlap(info) /\ remaining = VotingOf(After(info, txs))
        /\ remaining \subseteq VotingOf(info) \cup VotingOf(LinksOf(txs))
        /\ remaining \subseteq Links
    BY <2>1, RemainingFacts DEF IInv, RunInv, Legal, VotingOf
  <2>3. ASSUME NEW x \in remaining, NEW y \in remaining, x # y PROVE ~Overlaps(x, y)
    <3>1. CASE x \in VotingOf(info) /\ y \in VotingOf(info)
      BY <2>2, <2>3, <3>1 DEF NoOverlap
    <3>2. CASE x \in VotingOf(LinksOf(txs))
      BY <2>1, <2>3, <3>2 DEF IInv, ClearInv
    <3>3. CASE y \in VotingOf(LinksOf(txs))
      <4>1. ~Overlaps(y, x)
        BY <2>1, <2>3, <3>3 DEF IInv, ClearInv
      <4> QED
        BY <2>2, <2>3, <4>1, OverlapsSymmetric
    <3> QED
      BY <2>2, <3>1, <3>2, <3>3
  <2> QED
    BY <2>1, <2>2, <2>3, AcceptedParts DEF NoOverlap
<1> QED
  BY Invariant, <1>1, PTL DEF Spec, RefusedWithCause

\* A link run with consent leaves every voting file that is not expired
\* linked, unless three voting keys are linked already.
THEOREM FilesAreLinked == Spec => FilesLinked
<1> DEFINE P == Apply /\ ~unlink /\ mode = "yes" /\ account = info =>
                  \A f \in ActiveFiles : f \in account' \/ Cardinality(VotingOf(account')) = 3
<1>1. IInv /\ [Next]_vars => [P]_vars
  <2> SUFFICES ASSUME IInv, Apply, ~unlink, mode = "yes", account = info, NEW f \in ActiveFiles
               PROVE  f \in account' \/ Cardinality(VotingOf(account')) = 3
    OBVIOUS
  <2>1. /\ pc = "announce" /\ account' = After(info, txs)
        /\ remaining = VotingOf(After(info, txs))
    BY DEF IInv, RunInv, Running, Apply
  <2>2. f \in remaining \/ Cardinality(remaining) = 3
    BY <2>1 DEF IInv, VisitedInv
  <2> QED
    BY <2>1, <2>2 DEF VotingOf
<1> QED
  BY Invariant, <1>1, PTL DEF Spec, FilesLinked

\* link --unlink, confirmed, leaves none of the node's remote, VRF and voting
\* keys linked.
THEOREM UnlinkingIsComplete == Spec => NothingLeftLinked
<1> DEFINE P == Apply /\ unlink /\ mode = "yes" /\ account = info =>
                  account' \cap (OwnKeys \cup files) = {}
<1>1. IInv /\ [Next]_vars => [P]_vars
  <2> SUFFICES ASSUME IInv, Apply, unlink, mode = "yes", account = info,
                      NEW l \in account', l \in OwnKeys \/ l \in files
               PROVE  FALSE
    OBVIOUS
  <2>1. /\ pc = "announce" /\ account' = After(info, txs) /\ todo = {}
        /\ remaining = VotingOf(After(info, txs))
    BY DEF IInv, RunInv, Running, Apply, VisitedInv
  <2>2. CASE l \in OwnKeys
    <3>1. l.kind = "remote" \/ l.kind = "vrf"
      BY <2>2, LinkAssumption, LinkTypes DEF VotingOf, Kinds
    <3> QED
      BY <2>1, <2>2, <3>1 DEF IInv, VisitedInv
  <2>3. CASE l \in files
    <3>1. l \in remaining
      BY <2>1, <2>3 DEF IInv, TypeOK, VotingOf
    <3> QED
      BY <2>1, <2>3, <3>1 DEF IInv, VisitedInv
  <2> QED
    BY <2>2, <2>3
<1> QED
  BY Invariant, <1>1, PTL DEF Spec, NothingLeftLinked
-----------------------------------------------------------------------------
(* LinkKeys implements KeyLinks.                                            *)

\* What a run has collected is what KeyLinks allows to change at once: the
\* node's keys are linked, a remote or VRF key gives way to the node's own
\* (voting keys are in RemovedInv), and the epoch that the run works with has
\* been reached.
PromiseInv ==
    /\ known \in LastKnownEpoch..epoch
    /\ LinksOf(txs) \subseteq OwnKeys \cup files
    /\ ~unlink => \A l \in Unlinks(txs) \ VotingOf(Unlinks(txs)) :
                    \E k \in LinksOf(txs) : k.kind = l.kind
    /\ unlink => \A l \in Unlinks(txs) : l \in files \/ \E k \in OwnKeys : k.kind = l.kind

LEMMA PromiseStep == IInv /\ PromiseInv /\ [Next]_vars => PromiseInv'
<1> SUFFICES ASSUME IInv, PromiseInv, [Next]_vars PROVE PromiseInv'
  OBVIOUS
<1>0. /\ Unlinks({}) = {} /\ LinksOf({}) = {} /\ VotingOf({}) = {}
      /\ TypeOK /\ RunInv /\ StageInv
      /\ epoch \in Nat /\ known \in Nat /\ LastKnownEpoch \in Nat
  BY LinkAssumption DEF Unlinks, LinksOf, VotingOf, IInv, TypeOK
<1>1. ASSUME txs' = {}, known' \in LastKnownEpoch..epoch' PROVE PromiseInv'
  BY <1>0, <1>1 DEF PromiseInv
<1>2. ASSUME UNCHANGED <<txs, unlink, known, files, epoch>> PROVE PromiseInv'
  BY <1>2 DEF PromiseInv
<1>3. ASSUME NEW u \in BOOLEAN, NEW m \in {"yes", "no", "ask"}, StartRun(u, m)
      PROVE  PromiseInv'
  BY <1>0, <1>1, <1>3 DEF StartRun, StageInv, PromiseInv
<1>4. ASSUME NEW kind \in {"remote", "vrf"}, NEW next, AddTransaction(kind, next)
      PROVE  PromiseInv'
  <2>1. PICK X \in SUBSET {l \in info : l.kind = kind},
             Y \in SUBSET {k \in OwnKeys : k.kind = kind} :
          /\ Unlinks(txs') = Unlinks(txs) \cup X
          /\ LinksOf(txs') = LinksOf(txs) \cup Y
          /\ X # {} => \E k \in OwnKeys : k.kind = kind
          /\ X # {} /\ ~unlink => Y # {}
    BY <1>0, <1>4, KeySteps
  <2>2. UNCHANGED <<unlink, known, files, epoch>>
    BY <1>4 DEF AddTransaction
  <2>3. ASSUME ~unlink, NEW l \in Unlinks(txs'), l.kind # "voting"
        PROVE  \E k \in LinksOf(txs') : k.kind = l.kind
    <3>1. CASE l \in Unlinks(txs)
      BY <2>1, <2>3, <3>1 DEF PromiseInv, VotingOf
    <3>2. CASE l \in X
      BY <2>1, <2>3, <3>2
    <3> QED
      BY <2>1, <3>1, <3>2
  <2>4. ASSUME unlink, NEW l \in Unlinks(txs')
        PROVE  l \in files \/ \E k \in OwnKeys : k.kind = l.kind
    <3>1. CASE l \in Unlinks(txs)
      BY <2>4, <3>1 DEF PromiseInv
    <3>2. CASE l \in X
      BY <2>1, <3>2
    <3> QED
      BY <2>1, <3>1, <3>2
  <2> QED
    BY <2>1, <2>2, <2>3, <2>4 DEF PromiseInv, VotingOf
<1>5. ASSUME NEW l \in Links, VisitLinked(l) PROVE PromiseInv'
  <2>1. UNCHANGED <<unlink, known, files, epoch>> /\ ~unlink
    BY <1>0, <1>5 DEF VisitLinked, StageInv
  <2>2. /\ LinksOf(txs') = LinksOf(txs)
        /\ Unlinks(txs') = Unlinks(txs) \/ Unlinks(txs') = Unlinks(txs) \cup {l}
    BY <1>0, <1>5, VisitAdds
  <2>3. l.kind = "voting"
    BY <1>0, <1>5, RemainingFacts DEF VisitLinked, StageInv, Running, VotingOf
  <2> QED
    BY <2>1, <2>2, <2>3 DEF PromiseInv, VotingOf
<1>6. ASSUME NEW f \in Links, VisitFileToUnlink(f) PROVE PromiseInv'
  <2>1. UNCHANGED <<unlink, known, files, epoch>> /\ unlink /\ f \in files
    BY <1>0, <1>6 DEF VisitFileToUnlink, StageInv, Earliest
  <2>2. /\ LinksOf(txs') = LinksOf(txs)
        /\ Unlinks(txs') = Unlinks(txs) \/ Unlinks(txs') = Unlinks(txs) \cup {f}
    BY <1>0, <1>6, VisitAdds
  <2> QED
    BY <2>1, <2>2 DEF PromiseInv
<1>7. ASSUME NEW f \in Links, VisitFile(f) PROVE PromiseInv'
  <2>1. UNCHANGED <<unlink, known, files, epoch>> /\ ~unlink /\ Running
    BY <1>0, <1>7 DEF VisitFile, StageInv, Running
  <2>2. CASE FileKept(f)
    BY <1>2, <2>1, <2>2 DEF FileKept
  <2>3. CASE ~FileKept(f)
    <3>1. f \in files
      BY <1>0, <1>7, FileSteps
    <3>2. /\ LinksOf(txs') = LinksOf(txs) \cup {f}
          /\ \/ Unlinks(txs') = Unlinks(txs)
             \/ \E a \in remaining : Unlinks(txs') = Unlinks(txs) \cup {a}
      BY <1>0, <1>7, <2>3, VisitAdds
    <3>3. \A a \in remaining : a.kind = "voting"
      BY <1>0, <2>1, RemainingFacts DEF VotingOf
    <3> QED
      BY <2>1, <3>1, <3>2, <3>3 DEF PromiseInv, VotingOf
  <2> QED
    BY <2>2, <2>3
<1>8. CASE Apply \/ Reject \/ GiveUp
  <2>1. txs' = {} /\ known' = LastKnownEpoch /\ epoch' = epoch
    BY <1>8 DEF Apply, Reject, GiveUp, Exit
  <2> QED
    BY <1>0, <1>1, <2>1 DEF PromiseInv
<1>9. CASE StartFiles \/ EndFiles \/ OtherChange \/ UNCHANGED vars
  BY <1>2, <1>9 DEF StartFiles, EndFiles, OtherChange, vars, runVars
<1>10. CASE NetworkAdvances
  BY <1>0, <1>10 DEF NetworkAdvances, runVars, PromiseInv
<1>11. CASE FilesChange
  BY <1>0, <1>1, <1>11 DEF FilesChange, runVars, StageInv, PromiseInv
<1> QED
  BY <1>3, <1>4, <1>5, <1>6, <1>7, <1>8, <1>9, <1>10, <1>11 DEF Next, AddRemote, AddVrf

\* What the account gives up when the transactions are applied, and what it gets.
LEMMA AppliedChange ==
    ASSUME TypeOK, StageInv, RemovedInv, PromiseInv, Apply
    PROVE  IF unlink THEN Promise!UnlinkKeys ELSE Promise!LinkKeys
<1>1. /\ account' = (account \ Unlinks(txs)) \cup LinksOf(txs)
      /\ txs \in SUBSET Tx /\ epoch \in Nat /\ known \in Nat /\ known <= epoch
  BY LinkAssumption DEF Apply, After, TypeOK, PromiseInv
<1>2. Unlinks(txs) \subseteq Links /\ LinksOf(txs) \subseteq OwnKeys \cup files
  BY <1>1, TxLinks DEF PromiseInv
<1>3. CASE unlink
  <2>1. LinksOf(txs) = {}
    BY <1>3 DEF StageInv
  <2> QED
    BY <1>1, <1>3, <2>1 DEF PromiseInv, Promise!UnlinkKeys
<1>4. CASE ~unlink
  <2>1. ASSUME NEW l \in account \ account'
        PROVE  \/ Promise!Expired(l)
               \/ \E k \in account' \cap (OwnKeys \cup files) : Promise!TakesPlace(k, l)
    <3>1. l \in Unlinks(txs) /\ l \in Links
      BY <1>1, <1>2, <2>1
    <3>2. CASE l.kind # "voting"
      <4>1. PICK k \in LinksOf(txs) : k.kind = l.kind
        BY <1>4, <3>1, <3>2 DEF PromiseInv, VotingOf
      <4>2. k \in account' \cap (OwnKeys \cup files) /\ Promise!TakesPlace(k, l)
        BY <1>1, <1>2, <3>2, <4>1 DEF Promise!TakesPlace
      <4> QED
        BY <4>2
    <3>3. CASE l.kind = "voting" /\ l.endEpoch < known
      BY <1>1, <3>1, <3>3, LinkTypes DEF Promise!Expired
    <3>4. CASE l.kind = "voting" /\ ~(l.endEpoch < known)
      <4>1. PICK k \in LinksOf(txs) : k.kind = "voting" /\ Overlaps(k, l)
        BY <1>4, <3>1, <3>4 DEF RemovedInv, VotingOf
      <4>2. k \in account' \cap (OwnKeys \cup files) /\ Promise!TakesPlace(k, l)
        BY <1>1, <1>2, <3>4, <4>1 DEF Promise!TakesPlace, Overlaps
      <4> QED
        BY <4>2
    <3> QED
      BY <3>2, <3>3, <3>4
  <2>2. account' \ account \subseteq OwnKeys \cup files
    BY <1>1, <1>2
  <2> QED
    BY <1>4, <2>1, <2>2 DEF Promise!LinkKeys
<1> QED
  BY <1>3, <1>4

\* LinkKeys implements KeyLinks: for any keys, files and answers, whatever
\* somebody else changes while a run asks and however the network advances, the
\* account changes at once and a key is given up only if it has expired or for
\* one of the node's own.
THEOREM LinkingIsAtomic == Spec => ChangesAsPromised
<1>1. Init => Promise!Init /\ PromiseInv
  <2>1. Unlinks({}) = {} /\ LinksOf({}) = {} /\ VotingOf({}) = {}
    BY DEF Unlinks, LinksOf, VotingOf
  <2> QED
    BY <2>1, LinkAssumption DEF Init, Promise!Init, PromiseInv
<1>2. IInv /\ PromiseInv /\ [Next]_vars => [Promise!Next]_(Promise!vars)
  <2> SUFFICES ASSUME IInv, PromiseInv, [Next]_vars PROVE [Promise!Next]_(Promise!vars)
    OBVIOUS
  <2>1. CASE Apply
    <3>1. IF unlink THEN Promise!UnlinkKeys ELSE Promise!LinkKeys
      BY <2>1, AppliedChange DEF IInv
    <3>2. Legal(account') /\ UNCHANGED <<files, epoch, changes>>
      BY <2>1 DEF Apply, Accepted
    <3>3. Promise!LinkKeys \/ Promise!UnlinkKeys
      BY <3>1
    <3>4. Promise!Run
      BY <3>2, <3>3 DEF Promise!Run
    <3> QED
      BY <3>4 DEF Promise!Next
  <2>2. CASE OtherChange
    <3>1. Promise!OtherChange
      BY <2>2 DEF OtherChange, Promise!OtherChange
    <3> QED
      BY <3>1 DEF Promise!Next
  <2>3. CASE FilesChange
    BY <2>3 DEF FilesChange, Promise!NewFile, Promise!Next, VotingOf
  <2>4. CASE NetworkAdvances
    BY <2>4 DEF NetworkAdvances, Promise!NetworkAdvances, Promise!Next
  <2>5. CASE UNCHANGED <<account, files, epoch, changes>>
    BY <2>5 DEF Promise!vars
  <2>6. \/ Apply \/ OtherChange \/ FilesChange \/ NetworkAdvances
        \/ UNCHANGED <<account, files, epoch, changes>>
    BY DEF Next, vars, StartRun, AddRemote, AddVrf, AddTransaction, VisitLinked, VisitFile,
           VisitFileToUnlink, StartFiles, EndFiles, Reject, GiveUp
  <2> QED
    BY <2>1, <2>2, <2>3, <2>4, <2>5, <2>6
<1> QED
  BY <1>1, <1>2, Invariant, PromiseStep, PTL DEF Spec, ChangesAsPromised, Promise!Spec
=============================================================================

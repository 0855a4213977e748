------------------------------ MODULE LinkKeys ------------------------------
(***************************************************************************)
(* `link` and `link --unlink` for one node: LinkService reads the keys that *)
(* are linked to the node's main account, compares them with the node's     *)
(* remote, VRF and voting keys (addresses.yml), asks what to do with keys   *)
(* it does not know, and announces unlink transactions followed by link     *)
(* transactions. While it asks, the network advances and somebody else may  *)
(* change the account.                                                      *)
(*                                                                         *)
(* A link is its kind, its public key and its epochs (0 unless voting).     *)
(* The voting links of the account and the voting files are sets: the       *)
(* order in which REST lists the links is not known, files are taken by     *)
(* startEpoch. What a run promises the owner of the account is KeyLinks,    *)
(* which this module implements.                                            *)
(***************************************************************************)
EXTENDS Integers, FiniteSets

CONSTANTS
    Links,          \* every link that may appear
    OwnKeys,        \* the node's remote and VRF keys
    LastKnownEpoch, \* lastKnownNetworkEpoch of the preset
    MaxEpoch,       \* bound: the last network epoch explored
    MaxChanges      \* bound: changes of the account by somebody else

Kinds == {"remote", "vrf", "voting"}
VotingOf(S) == {l \in S : l.kind = "voting"}

\* LinkTransactionGenericFactory.overlapsVotingAccounts
Overlaps(x, y) == x.endEpoch >= y.startEpoch /\ x.startEpoch <= y.endEpoch

\* How many keys of a kind an account may have (external).
Limit(kind) == IF kind = "voting" THEN 3 ELSE 1

ASSUME LinkAssumption ==
    /\ IsFiniteSet(Links)
    /\ Links \subseteq [kind : Kinds, publicKey : STRING, startEpoch : Nat, endEpoch : Nat]
    /\ \A l \in VotingOf(Links) : l.startEpoch <= l.endEpoch  \* valid for an epoch at least
    /\ OwnKeys \subseteq Links \ VotingOf(Links)
    /\ \A k, l \in OwnKeys : k.kind = l.kind => k = l
    /\ LastKnownEpoch \in Nat \ {0}
    /\ MaxEpoch \in Nat
    /\ MaxChanges \in Nat

VARIABLES
    account,   \* the links of the main account on the chain
    files,     \* nodeAccount.voting, in addresses.yml
    epoch,     \* the network's finalization epoch
    changes,   \* changes of the account by somebody else, so far
    pc,        \* where createTransactions is
    unlink,    \* params.unlink
    mode,      \* confirmUnlink: "yes" and "no" (removeOldLinked or ready), "ask"
    known,     \* the epoch this run works with
    info,      \* mainAccountInfo: the links read when the run started
    remaining, \* remainingVotingKeys
    todo,      \* the links or files the current loop has not visited
    txs        \* the transactions so far

runVars == <<pc, unlink, mode, known, info, remaining, todo, txs>>
vars == <<account, files, epoch, changes, runVars>>

Tx == [action : {"Unlink", "Link"}, link : Links]
Unlinks(T) == {t.link : t \in {u \in T : u.action = "Unlink"}}
LinksOf(T) == {t.link : t \in {u \in T : u.action = "Link"}}
Unlink(l) == [action |-> "Unlink", link |-> l]
Link(l) == [action |-> "Link", link |-> l]

TypeOK ==
    /\ account \in SUBSET Links
    /\ files \in SUBSET VotingOf(Links)
    /\ epoch \in Nat
    /\ changes \in Nat
    /\ pc \in {"idle", "remote", "vrf", "expired", "files", "unlinkFiles", "announce"}
    /\ unlink \in BOOLEAN
    /\ mode \in {"yes", "no", "ask"}
    /\ known \in Nat
    /\ info \in SUBSET Links
    /\ remaining \in SUBSET Links
    /\ todo \in SUBSET Links
    /\ txs \in SUBSET Tx

-----------------------------------------------------------------------------
NoOverlap(S) == \A x, y \in VotingOf(S) : x # y => ~Overlaps(x, y)

\* The account satisfies the network's rules (external).
Legal(S) ==
    /\ NoOverlap(S)
    /\ \A kind \in Kinds : Cardinality({l \in S : l.kind = kind}) <= Limit(kind)

\* What the account holds after T: unlink transactions go first.
After(S, T) == (S \ Unlinks(T)) \cup LinksOf(T)

\* The network accepts T (external): unlinks remove what is linked, links add
\* what is not.
Accepted(S, T) ==
    /\ Unlinks(T) \subseteq S
    /\ LinksOf(T) \cap (S \ Unlinks(T)) = {}
    /\ Legal(After(S, T))

Init ==
    /\ account \in {S \in SUBSET Links : Legal(S)}
    /\ files = {}
    /\ epoch = LastKnownEpoch
    /\ changes = 0
    /\ pc = "idle"
    /\ unlink = FALSE
    /\ mode = "no"
    /\ known = LastKnownEpoch
    /\ info = {} /\ remaining = {} /\ todo = {} /\ txs = {}

-----------------------------------------------------------------------------
\* AnnounceService reads the main account and calls createTransactions. Without
\* an answer for the epoch the run works with the one of the preset.
StartRun(u, m) ==
    /\ pc = "idle"
    /\ pc' = "remote"
    /\ unlink' = u
    /\ mode' = m
    /\ known' \in {epoch, LastKnownEpoch}
    /\ info' = account
    /\ remaining' = VotingOf(account)
    /\ UNCHANGED <<account, files, epoch, changes, todo, txs>>

\* confirmUnlink's answers.
Answers == CASE mode = "yes" -> {TRUE} [] mode = "no" -> {FALSE} [] mode = "ask" -> BOOLEAN

\* Mutant: a key that is linked is linked again.
KeyTransactionsAgain(own, linked, confirm) ==
    IF unlink
    THEN {Unlink(l) : l \in {k \in linked : k = own \/ confirm}}
    ELSE IF linked = {} \/ own \in linked THEN {Link(own)}
    ELSE IF ~confirm THEN {}
    ELSE {Unlink(l) : l \in linked} \cup {Link(own)}

\* addTransaction, for the remote or the VRF key `own`; `linked` is what the
\* account has of that kind.
KeyTransactions(own, linked, confirm) ==
    IF unlink
    THEN {Unlink(l) : l \in {k \in linked : k = own \/ confirm}}
    ELSE IF linked = {} THEN {Link(own)}
    ELSE IF own \in linked \/ ~confirm THEN {}
    ELSE {Unlink(l) : l \in linked} \cup {Link(own)}

AddTransaction(kind, next) ==
    /\ pc = kind
    /\ LET linked == {l \in info : l.kind = kind}
           own == {k \in OwnKeys : k.kind = kind}
       IN  \E confirm \in Answers :
             txs' = txs \cup UNION {KeyTransactions(k, linked, confirm) : k \in own}
    /\ pc' = next
    /\ UNCHANGED <<account, files, epoch, changes, unlink, mode, known, info, remaining>>

AddRemote == AddTransaction("remote", "vrf") /\ UNCHANGED todo

\* After the VRF key, the voting keys: linking first visits the linked keys.
AddVrf ==
    /\ AddTransaction("vrf", IF unlink THEN "unlinkFiles" ELSE "expired")
    /\ todo' = IF unlink THEN files ELSE remaining

\* Mutant: expired keys are unlinked without asking.
VisitLinkedUnasked(l) ==
    /\ pc = "expired" /\ l \in todo
    /\ todo' = todo \ {l}
    /\ IF l.endEpoch < known
       THEN txs' = txs \cup {Unlink(l)} /\ remaining' = remaining \ {l}
       ELSE UNCHANGED <<txs, remaining>>
    /\ UNCHANGED <<account, files, epoch, changes, pc, unlink, mode, known, info>>

\* addVotingKeyLinkTransactions, first loop: unlink what has expired.
VisitLinked(l) ==
    /\ pc = "expired" /\ l \in todo
    /\ todo' = todo \ {l}
    /\ \E confirm \in Answers :
         IF l.endEpoch < known /\ confirm
         THEN txs' = txs \cup {Unlink(l)} /\ remaining' = remaining \ {l}
         ELSE UNCHANGED <<txs, remaining>>
    /\ UNCHANGED <<account, files, epoch, changes, pc, unlink, mode, known, info>>

\* activeVotingKeyFiles
ActiveFiles == {f \in files : f.endEpoch >= known}

StartFiles ==
    /\ pc = "expired" /\ todo = {}
    /\ pc' = "files"
    /\ todo' = ActiveFiles
    /\ UNCHANGED <<account, files, epoch, changes, unlink, mode, known, info, remaining, txs>>

Earliest(S) == {f \in S : \A g \in S : f.startEpoch <= g.startEpoch}

\* remainingVotingKeys.find(overlaps): one of these, if any.
Conflicting(f) == {a \in remaining : Overlaps(f, a)}

\* Mutants: room for two; room for four.
LinkIfRoomForTwo(f, keys, T) ==
    IF Cardinality(keys) < 2
    THEN txs' = T \cup {Link(f)} /\ remaining' = keys \cup {f}
    ELSE txs' = T /\ remaining' = keys
LinkIfRoomForFour(f, keys, T) ==
    IF Cardinality(keys) <= 3
    THEN txs' = T \cup {Link(f)} /\ remaining' = keys \cup {f}
    ELSE txs' = T /\ remaining' = keys

\* A key is linked unless three are linked already.
LinkIfRoom(f, keys, T) ==
    IF Cardinality(keys) < 3
    THEN txs' = T \cup {Link(f)} /\ remaining' = keys \cup {f}
    ELSE txs' = T /\ remaining' = keys

\* Second loop: link a file that overlaps no linked key, skip one that is
\* linked, replace a different key if that is confirmed.
VisitFile(f) ==
    /\ pc = "files" /\ f \in Earliest(todo)
    /\ todo' = todo \ {f}
    /\ \/ /\ Conflicting(f) = {}
          /\ LinkIfRoom(f, remaining, txs)
       \/ /\ f \in Conflicting(f)
          /\ UNCHANGED <<txs, remaining>>
       \/ \E a \in Conflicting(f) \ {f} : \E confirm \in Answers :
            IF confirm
            THEN LinkIfRoom(f, remaining \ {a}, txs \cup {Unlink(a)})
            ELSE UNCHANGED <<txs, remaining>>
    /\ UNCHANGED <<account, files, epoch, changes, pc, unlink, mode, known, info>>

\* Mutant: expired files are skipped.
VisitFileToUnlinkActive(f) ==
    /\ pc = "unlinkFiles" /\ f \in Earliest(todo)
    /\ todo' = todo \ {f}
    /\ \/ /\ f \in Conflicting(f) /\ f.endEpoch >= known
          /\ \E confirm \in Answers :
               IF confirm
               THEN txs' = txs \cup {Unlink(f)} /\ remaining' = remaining \ {f}
               ELSE UNCHANGED <<txs, remaining>>
       \/ /\ Conflicting(f) \ {f} # {} \/ Conflicting(f) = {} \/ f.endEpoch < known
          /\ UNCHANGED <<txs, remaining>>
    /\ UNCHANGED <<account, files, epoch, changes, pc, unlink, mode, known, info>>

\* Mutant: whatever overlaps a file is unlinked.
VisitFileToUnlinkAny(f) ==
    /\ pc = "unlinkFiles" /\ f \in Earliest(todo)
    /\ todo' = todo \ {f}
    /\ \/ \E a \in Conflicting(f), confirm \in Answers :
            IF confirm
            THEN txs' = txs \cup {Unlink(a)} /\ remaining' = remaining \ {a}
            ELSE UNCHANGED <<txs, remaining>>
       \/ /\ Conflicting(f) = {}
          /\ UNCHANGED <<txs, remaining>>
    /\ UNCHANGED <<account, files, epoch, changes, pc, unlink, mode, known, info>>

\* addVotingKeyUnlinkTransactions: unlink the files that are linked.
VisitFileToUnlink(f) ==
    /\ pc = "unlinkFiles" /\ f \in Earliest(todo)
    /\ todo' = todo \ {f}
    /\ \/ /\ f \in Conflicting(f)
          /\ \E confirm \in Answers :
               IF confirm
               THEN txs' = txs \cup {Unlink(f)} /\ remaining' = remaining \ {f}
               ELSE UNCHANGED <<txs, remaining>>
       \/ /\ Conflicting(f) \ {f} # {} \/ Conflicting(f) = {}
          /\ UNCHANGED <<txs, remaining>>
    /\ UNCHANGED <<account, files, epoch, changes, pc, unlink, mode, known, info>>

EndFiles ==
    /\ pc \in {"files", "unlinkFiles"} /\ todo = {}
    /\ pc' = "announce"
    /\ UNCHANGED <<account, files, epoch, changes, unlink, mode, known, info, remaining, todo, txs>>

\* The process ends and its memory is gone.
Exit ==
    /\ pc' = "idle"
    /\ unlink' = FALSE /\ mode' = "no" /\ known' = LastKnownEpoch
    /\ info' = {} /\ remaining' = {} /\ todo' = {} /\ txs' = {}

\* The transactions, if any, reach the network as one (aggregate) transaction.
Apply ==
    /\ pc = "announce" /\ Accepted(account, txs)
    /\ account' = After(account, txs)
    /\ Exit
    /\ UNCHANGED <<files, epoch, changes>>

Reject ==
    /\ pc = "announce" /\ ~Accepted(account, txs)
    /\ Exit
    /\ UNCHANGED <<account, files, epoch, changes>>

\* The user aborts or declines to announce.
GiveUp ==
    /\ pc # "idle"
    /\ Exit
    /\ UNCHANGED <<account, files, epoch, changes>>

\* The network advances (external).
NetworkAdvances ==
    /\ epoch < MaxEpoch
    /\ epoch' = epoch + 1
    /\ UNCHANGED <<account, files, changes, runVars>>

\* Somebody else links or unlinks a key of the account (external).
OtherChange ==
    /\ changes < MaxChanges
    /\ changes' = changes + 1
    /\ \E l \in Links :
         account' = IF l \in account THEN account \ {l} ELSE account \cup {l}
    /\ Legal(account')
    /\ UNCHANGED <<files, epoch, runVars>>

\* updateVotingKeys or config rewrites addresses.yml between two runs. The
\* node's files do not overlap (VotingKeys!DisjointFiles).
FilesChange ==
    /\ pc = "idle"
    /\ \E f \in VotingOf(Links) \ files : files' = files \cup {f}
    /\ NoOverlap(files')
    /\ UNCHANGED <<account, epoch, changes, runVars>>

Next ==
    \/ \E u \in BOOLEAN, m \in {"yes", "no", "ask"} : StartRun(u, m)
    \/ AddRemote \/ AddVrf
    \/ \E l \in Links : VisitLinked(l) \/ VisitFile(l) \/ VisitFileToUnlink(l)
    \/ StartFiles \/ EndFiles
    \/ Apply \/ Reject \/ GiveUp
    \/ NetworkAdvances \/ OtherChange \/ FilesChange

Spec == Init /\ [][Next]_vars

-----------------------------------------------------------------------------
\* A voting file that overlaps two linked keys, of which a run replaces one.
CrossesTwo(f) ==
    \E x, y \in VotingOf(info) : x # y /\ Overlaps(f, x) /\ Overlaps(f, y)

\* The network refuses the transactions of a run only if somebody changed the
\* account after it was read, or if one of them links a file that overlaps two
\* linked keys: otherwise every unlink names a linked key, every link one that is
\* free, no two voting keys overlap and there are never more than three. (Unlinks
\* are sorted before links for this.)
RefusedWithCause ==
    [][Reject => account # info \/ \E f \in VotingOf(LinksOf(txs)) : CrossesTwo(f)]_vars

\* A link run that removes old keys leaves every voting file that is not
\* expired, as far as the run knows, linked, unless three voting keys are linked already.
FilesLinked ==
    [][Apply /\ ~unlink /\ mode = "yes" /\ account = info =>
        \A f \in ActiveFiles : f \in account' \/ Cardinality(VotingOf(account')) = 3]_vars

\* link --unlink, confirmed, leaves none of the node's keys linked.
NothingLeftLinked ==
    [][Apply /\ unlink /\ mode = "yes" /\ account = info =>
        account' \cap (OwnKeys \cup files) = {}]_vars

\* Linking gives up a voting key only when it has expired or when a file that
\* overlaps it is linked in its place: the limit of three never makes a run
\* unlink without linking.
UnlinkedIsReplaced ==
    pc = "announce" /\ ~unlink =>
        \A l \in VotingOf(Unlinks(txs)) :
            l.endEpoch < known \/ \E f \in LinksOf(txs) : f.kind = "voting" /\ Overlaps(f, l)

\* Without consent (removeOldLinked false) a run removes no key it does not
\* own, and a link run removes none at all.
NoConsentNoRemoval ==
    pc = "announce" /\ mode = "no" => Unlinks(txs) \subseteq (IF unlink THEN OwnKeys ELSE {})

\* A node whose keys are all linked, with nothing expired, has nothing to
\* announce: running link again is harmless.
FullyLinked ==
    /\ OwnKeys \cup ActiveFiles \subseteq info
    /\ \A l \in VotingOf(info) : l.endEpoch >= known
LinkIsIdempotent == pc = "announce" /\ ~unlink /\ FullyLinked => txs = {}

\* Whatever happens between the reading of the account and the announcement,
\* a run changes the account at once and as KeyLinks promises: what it gives up
\* has expired or is replaced by a key of the node, what it adds is the node's.
Promise == INSTANCE KeyLinks WITH Allowed <- Legal
ChangesAsPromised == Promise!Spec
=============================================================================

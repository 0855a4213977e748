----------------------------- MODULE VotingKeys -----------------------------
(***************************************************************************)
(* The voting key files of the nodes of one target folder.                  *)
(*                                                                         *)
(* VotingService.run looks at the private_key_tree<i>.dat files of a node   *)
(* and, when their last epoch is close, creates one more. Two commands      *)
(* reach it: `updateVotingKeys` (which writes addresses.yml only if some    *)
(* node got a new file) and `config` (which always writes it). Both run     *)
(* the nodes concurrently (Promise.all) and either may be killed between    *)
(* any two steps. The user may delete truncated files and, for the nodes    *)
(* they handle themselves (ByHand), add and delete files as they like.      *)
(*                                                                         *)
(* A file is its epoch range; keys and signatures are left out. What the    *)
(* commands promise the other nodes is VotingCoverage, which this module    *)
(* implements.                                                              *)
(***************************************************************************)
EXTENDS Integers, FiniteSets

CONSTANTS
    Nodes,           \* the nodes of the preset
    Voting,          \* those with voting: true
    Lifetime,        \* votingKeyDesiredLifetime
    FutureLifetime,  \* votingKeyDesiredFutureLifetime
    AutoUpdate,      \* autoUpdateVotingKeys
    LastKnownEpoch,  \* lastKnownNetworkEpoch
    Lag,             \* bound: how far the best node that answers is behind
    MaxEpoch,        \* bound: the last network epoch explored
    ByHand,          \* the nodes whose voting files the user also handles
    ManualFiles      \* the files <<index, range>> the user may put there

\* A readable voting file, by its first and last epoch.
EpochRange == [startEpoch : Nat, endEpoch : Nat]

\* A file whose size does not match its header: readVotingFile throws on it.
Torn == [startEpoch |-> -1, endEpoch |-> -1]

\* The folder of a node: a file (readable or torn) for each index in use.
IsFolder(f) ==
    /\ IsFiniteSet(DOMAIN f) /\ DOMAIN f \subseteq Nat \ {0}
    /\ f \in [DOMAIN f -> EpochRange \cup {Torn}]

ASSUME VotingAssumption ==
    /\ Voting \subseteq Nodes
    /\ Lifetime \in Nat \ {0}
    /\ FutureLifetime \in Nat
    /\ FutureLifetime <= Lifetime
    /\ AutoUpdate \in BOOLEAN
    /\ ByHand \subseteq Nodes
    /\ LastKnownEpoch \in Nat \ {0}
    /\ Lag \in Nat
    /\ MaxEpoch \in Nat
    /\ LastKnownEpoch <= MaxEpoch
    /\ ManualFiles \subseteq (Nat \ {0}) \X {r \in EpochRange : r.startEpoch <= r.endEpoch}

VARIABLES
    folder,     \* folder[n]: the private_key_tree<i>.dat files of n
    yml,        \* yml[n]: the voting files of n listed in addresses.yml
    configured, \* whether addresses.yml and preset.yml exist
    epoch,      \* the network's finalization epoch
    command,    \* the running command: "none", "update" or "config"
    known,      \* networkEpoch: the epoch the running command works with
    pc,         \* pc[n]: where VotingService.run is for node n
    plan,       \* plan[n]: the file to create, <<index, range>>
    upgraded,   \* the nodes for which VotingService.run returned true
    account     \* account[n]: nodeAccount.voting, in memory

memory == <<known, pc, plan, upgraded, account>>
vars == <<folder, yml, configured, epoch, command, known, pc, plan, upgraded, account>>

NoPlan == <<0, Torn>>
Step == {"start", "create", "writing", "reload", "done"}

TypeOK ==
    /\ DOMAIN folder = Nodes /\ \A n \in Nodes : IsFolder(folder[n])
    /\ yml \in [Nodes -> SUBSET (EpochRange \cup {Torn})]
    /\ configured \in BOOLEAN
    /\ epoch \in Nat \ {0}
    /\ command \in {"none", "update", "config"}
    /\ known \in Nat \ {0}
    /\ pc \in [Nodes -> Step]
    /\ plan \in [Nodes -> Nat \X (EpochRange \cup {Torn})]
    /\ upgraded \in SUBSET Nodes
    /\ account \in [Nodes -> SUBSET (EpochRange \cup {Torn})]

-----------------------------------------------------------------------------
Files(n) == {folder[n][i] : i \in DOMAIN folder[n]}

\* loadVotingFiles throws if some file cannot be read.
Readable(n) == Torn \notin Files(n)

\* The indexes of the files that may come last when sorted by startEpoch.
LastFiles(n) ==
    {i \in DOMAIN folder[n] :
        \A j \in DOMAIN folder[n] : folder[n][j].startEpoch <= folder[n][i].startEpoch}

\* maxVotingKeyEndEpoch, given the end epoch of the last file (0 if none).
MaxEndEpoch(lastEnd) == IF lastEnd > known - 1 THEN lastEnd ELSE known - 1

\* The values currentVotingFiles[currentVotingFiles.length - 1]?.endEpoch || 0
\* may take.
LastEnds(n) ==
    IF DOMAIN folder[n] = {} THEN {0}
    ELSE {folder[n][i].endEpoch : i \in LastFiles(n)}

UpToDateSwapped(maxEnd) == known > maxEnd + FutureLifetime  \* mutant: operands swapped
UpToDateNow(maxEnd) == maxEnd >= known  \* mutant: no look ahead
UpToDate(maxEnd) == maxEnd > known + FutureLifetime

\* Mutants: the last file's index; an epoch left out; a shared epoch.
NextFileReused(n, maxEnd) ==
    <<IF DOMAIN folder[n] = {} THEN 1 ELSE Cardinality(DOMAIN folder[n]),
      [startEpoch |-> maxEnd + 1, endEpoch |-> maxEnd + Lifetime]>>
NextFileGap(n, maxEnd) ==
    <<Cardinality(DOMAIN folder[n]) + 1,
      [startEpoch |-> maxEnd + 2, endEpoch |-> maxEnd + Lifetime + 1]>>
NextFileTouching(n, maxEnd) ==
    <<Cardinality(DOMAIN folder[n]) + 1, [startEpoch |-> maxEnd, endEpoch |-> maxEnd + Lifetime]>>

\* The new file: the next index by count, the epochs after maxEnd.
NextFile(n, maxEnd) ==
    <<Cardinality(DOMAIN folder[n]) + 1,
      [startEpoch |-> maxEnd + 1, endEpoch |-> maxEnd + Lifetime]>>

WithFile(f, i, r) == [j \in (DOMAIN f) \cup {i} |-> IF j = i THEN r ELSE f[j]]

WithoutFile(f, i) == [j \in (DOMAIN f) \ {i} |-> f[j]]

\* updateVotingKey, or autoUpdateVotingKeys when the caller leaves it open.
Update == command = "update" \/ AutoUpdate

\* The finalization epochs that the known nodes may answer with; they may be
\* behind, and those that fail are left out.
Answers == {e \in 1..epoch : e + Lag >= epoch}

\* The answer of the best node, by height; 0 is undefined: there is none.
BestEpochs == Answers \cup {0}

\* resolveCurrentFinalizationEpoch: the preset's epoch if no node is a voter or
\* there is no answer.
ResolvedEpochs ==
    {IF Voting = {} \/ e = 0 THEN LastKnownEpoch ELSE e : e \in BestEpochs}

-----------------------------------------------------------------------------
Init ==
    /\ folder = [n \in Nodes |-> [i \in {} |-> Torn]]
    /\ yml = [n \in Nodes |-> {}]
    /\ configured = FALSE
    /\ epoch = LastKnownEpoch
    /\ command = "none"
    /\ known = LastKnownEpoch
    /\ pc = [n \in Nodes |-> "done"]
    /\ plan = [n \in Nodes |-> NoPlan]
    /\ upgraded = {}
    /\ account = [n \in Nodes |-> {}]

\* The network finalizes one more epoch (external).
NetworkAdvances ==
    /\ epoch < MaxEpoch
    /\ epoch' = epoch + 1
    /\ UNCHANGED <<folder, yml, configured, command, known, pc, plan, upgraded, account>>

\* flags.finalizationEpoch of updateVotingKeys, "the network's finalization
\* epoch": one that the network has reached.
TypedEpochs(c) == {e \in 1..epoch : c = "update"}

\* A command starts: it loads addresses.yml (which updateVotingKeys needs) and
\* resolves the network epoch, unless it was typed.
StartCommand(c) ==
    /\ command = "none"
    /\ c = "update" => configured
    /\ command' = c
    /\ known' \in ResolvedEpochs \cup TypedEpochs(c)
    /\ pc' = [n \in Nodes |-> "start"]
    /\ account' = yml
    /\ UNCHANGED <<folder, yml, configured, epoch, plan, upgraded>>

\* VotingService.run up to the creation of the file: no await in between.
SkipNotVoting(n) ==
    /\ command # "none" /\ pc[n] = "start"
    /\ n \notin Voting
    /\ pc' = [pc EXCEPT ![n] = "done"]
    /\ UNCHANGED <<folder, yml, configured, epoch, command, known, plan, upgraded, account>>

CheckFiles(n) ==
    /\ command # "none" /\ pc[n] = "start"
    /\ n \in Voting
    /\ Readable(n)
    /\ account' = [account EXCEPT ![n] = Files(n)]
    /\ \E lastEnd \in LastEnds(n) :
         LET maxEnd == MaxEndEpoch(lastEnd)
         IN  IF UpToDate(maxEnd) \/ (~Update /\ DOMAIN folder[n] # {})
             THEN /\ pc' = [pc EXCEPT ![n] = "done"]
                  /\ UNCHANGED plan
             ELSE /\ pc' = [pc EXCEPT ![n] = "create"]
                  /\ plan' = [plan EXCEPT ![n] = NextFile(n, maxEnd)]
    /\ UNCHANGED <<folder, yml, configured, epoch, command, known, upgraded>>

\* createVotingFile: the file is opened (truncated), then filled.
OpenFile(n) ==
    /\ command # "none" /\ pc[n] = "create"
    /\ folder' = [folder EXCEPT ![n] = WithFile(@, plan[n][1], Torn)]
    /\ pc' = [pc EXCEPT ![n] = "writing"]
    /\ UNCHANGED <<yml, configured, epoch, command, known, plan, upgraded, account>>

FillFile(n) ==
    /\ command # "none" /\ pc[n] = "writing"
    /\ folder' = [folder EXCEPT ![n] = WithFile(@, plan[n][1], plan[n][2])]
    /\ pc' = [pc EXCEPT ![n] = "reload"]
    /\ UNCHANGED <<yml, configured, epoch, command, known, plan, upgraded, account>>

\* nodeAccount.voting is loaded again; run returns true.
ReloadFiles(n) ==
    /\ command # "none" /\ pc[n] = "reload"
    /\ Readable(n)
    /\ account' = [account EXCEPT ![n] = Files(n)]
    /\ upgraded' = upgraded \cup {n}
    /\ pc' = [pc EXCEPT ![n] = "done"]
    /\ UNCHANGED <<folder, yml, configured, epoch, command, known, plan>>

\* The process ends and its memory is gone.
Exit ==
    /\ command' = "none"
    /\ known' = LastKnownEpoch
    /\ pc' = [n \in Nodes |-> "done"]
    /\ plan' = [n \in Nodes |-> NoPlan]
    /\ upgraded' = {}
    /\ account' = [n \in Nodes |-> {}]

\* Every node is done: updateVotingKeys writes addresses.yml if some node got
\* a new file, config writes it in any case.
Complete ==
    /\ command # "none"
    /\ \A n \in Nodes : pc[n] = "done"
    /\ configured' = TRUE
    /\ yml' = IF command = "config" \/ upgraded # {} THEN account ELSE yml
    /\ Exit
    /\ UNCHANGED <<folder, epoch>>

\* The command stops before its end: it is killed, VotingService.run throws on
\* an unreadable file, or a later step of config throws.
Abort ==
    /\ command # "none"
    /\ Exit
    /\ UNCHANGED <<folder, yml, configured, epoch>>

\* Between commands the user puts a voting file of their own, for epochs that
\* no file of the node has, under an index that is not taken.
PutManualFile(n) ==
    /\ command = "none"
    /\ n \in ByHand
    /\ \E m \in ManualFiles :
         /\ m[1] \notin DOMAIN folder[n]
         /\ \A f \in Files(n) : m[2].endEpoch < f.startEpoch \/ f.endEpoch < m[2].startEpoch
         /\ folder' = [folder EXCEPT ![n] = WithFile(@, m[1], m[2])]
    /\ UNCHANGED <<yml, configured, epoch, command, memory>>

\* ... or deletes a file: a truncated one, or any one of a node in ByHand.
DeleteFile(n) ==
    /\ command = "none"
    /\ \E i \in DOMAIN folder[n] :
         /\ n \in ByHand \/ folder[n][i] = Torn
         /\ folder' = [folder EXCEPT ![n] = WithoutFile(@, i)]
    /\ UNCHANGED <<yml, configured, epoch, command, memory>>

NodeStep(n) ==
    SkipNotVoting(n) \/ CheckFiles(n) \/ OpenFile(n) \/ FillFile(n) \/ ReloadFiles(n)

Next ==
    \/ NetworkAdvances
    \/ \E c \in {"update", "config"} : StartCommand(c)
    \/ \E n \in Nodes : NodeStep(n) \/ PutManualFile(n) \/ DeleteFile(n)
    \/ Complete
    \/ Abort

Spec == Init /\ [][Next]_vars

-----------------------------------------------------------------------------
Overlap(a, b) == ~(a.endEpoch < b.startEpoch \/ b.endEpoch < a.startEpoch)

\* The readable files of a node, by index.
ReadableIndexes(n) == {i \in DOMAIN folder[n] : folder[n][i] # Torn}

\* No two voting files of a node are valid for the same epoch, whatever the
\* order of commands, crashes, manual files and deletions: VotingService.run
\* starts a file after the last epoch of the existing ones. (Catapult could
\* vote twice in an epoch otherwise.)
DisjointFiles ==
    \A n \in Nodes : \A i, j \in ReadableIndexes(n) :
        i # j => ~Overlap(folder[n][i], folder[n][j])

\* The nodes whose readable voting files only the commands handle.
Managed == Nodes \ ByHand

\* A command never truncates or replaces a voting file that can be read: the
\* file it opens is a new private_key_treeX.dat.
NeverOverwrites ==
    [][\A n \in Managed : OpenFile(n) => plan[n][1] \notin ReadableIndexes(n)]_vars

\* The same of a node whose files the user handles too, where the README asks
\* for no particular index.
KeepsFilesByHand ==
    [][\A n \in ByHand : OpenFile(n) => plan[n][1] \notin ReadableIndexes(n)]_vars

\* The voting keys of a node cover the epochs from..to.
Covered(n, from, to) ==
    \A e \in from..to :
        \E i \in ReadableIndexes(n) :
            folder[n][i].startEpoch <= e /\ e <= folder[n][i].endEpoch

\* When a command that knows the real epoch and may create files completes,
\* every voting node has a key for the epoch and for as much of the desired
\* future as one new file can add: crashed commands, stale epochs and long
\* pauses in between leave no hole ahead.
CoveredAfterUpdate ==
    [][\A n \in Voting \cap Managed :
        Complete /\ Update /\ known = epoch =>
            Covered(n, epoch, epoch + (IF FutureLifetime < Lifetime THEN FutureLifetime
                                       ELSE Lifetime - 1))]_vars

\* At most three files of a node are still of use at any epoch: a node's
\* account can hold no more links (the limit LinkService applies), so every
\* key that is still needed can be linked.
AtMostThreeActive ==
    \A n \in Managed :
        Cardinality({i \in ReadableIndexes(n) : folder[n][i].endEpoch >= epoch}) <= 3

\* addresses.yml never lists a voting key that has no file: `link` would link
\* a key nobody can vote with.
ListedKeysExist == \A n \in Managed : yml[n] \subseteq Files(n)

-----------------------------------------------------------------------------
\* The epochs a node has a voting key for.
CoveredEpochs(n) == UNION {r.startEpoch..r.endEpoch : r \in Files(n) \ {Torn}}

Coverage ==
    INSTANCE VotingCoverage WITH
        Nodes <- Managed,
        covered <- [n \in Managed |-> CoveredEpochs(n)]

\* Commands, crashes and stale epochs only ever append whole lifetimes to the
\* epochs a node can vote in, right behind the last one or at an epoch the
\* network has reached: no epoch is lost, voted twice or skipped ahead.
AppendsLifetimes == Coverage!Spec

\* ... so no epoch ahead is missing below one that is covered.
NoHoleAhead == Coverage!NoHoleAhead
=============================================================================

------------------------------ MODULE Announce ------------------------------
(***************************************************************************)
(* AnnounceService.announce: for every node of the folder, in order, it     *)
(* decides who signs and pays, asks cosigners of a multisig account for     *)
(* their keys, picks a simple, complete or bonded transaction, asks for     *)
(* consent and announces; a bonded aggregate needs a confirmed hash lock    *)
(* first. `link` and `modifyMultisig` supply the transactions. The service  *)
(* provider, when there is one, announces for the main account.             *)
(*                                                                         *)
(* Whatever is announced for a node is one record, `plan`, which stands for *)
(* the signed transaction and its hash. The network is external: what it    *)
(* accepts is how the calls of the SDK end.                                 *)
(***************************************************************************)
EXTENDS Integers, FiniteSets, Sequences, Functions

CONSTANTS
    Accounts,       \* accounts, of nodes, provider and cosigners
    Main,           \* the main accounts of the nodes, in the order of addresses.yml
    Provider,       \* the service provider account
    Balances,       \* the balances of the accounts to start with
    Multisigs,      \* what the network may say of the accounts' cosigners
    Modifications,  \* what modifyMultisig may be asked for
    MaxChanges      \* bound: multisig changes by somebody else

NotMultisig == [cosigners |-> {}, minApproval |-> 0, minRemoval |-> 0]
IsMultisig(i) == i.cosigners # {}

\* The request of `link`, which modifies no multisig account.
LinkRequest == [additions |-> {}, deletions |-> {}, approvalDelta |-> 0, removalDelta |-> 0]

MultisigInfo == [cosigners : SUBSET Accounts, minApproval : Int, minRemoval : Int]
Request == [additions : SUBSET Accounts, deletions : SUBSET Accounts,
            approvalDelta : Int, removalDelta : Int]

ASSUME AnnounceAssumption ==
    /\ IsFiniteSet(Accounts)
    /\ Main \in Seq(Accounts)
    /\ Provider \in Accounts
    /\ Balances \subseteq [Accounts -> {"unknown", "empty", "funded"}]
    /\ Multisigs \subseteq [Accounts -> MultisigInfo]
    /\ Modifications \subseteq Request
    /\ LinkRequest \notin Modifications
    /\ MaxChanges \in Nat

VARIABLES
    multisig,   \* the cosigners of the accounts, on the chain
    locks,      \* confirmed hash locks, by the plan they are for
    partials,   \* bonded aggregates waiting for cosignatures
    confirmed,  \* confirmed transactions
    late,       \* the deadline of the transactions has passed
    changes,    \* multisig changes by somebody else
    balance,    \* what the accounts have
    provided,   \* --serviceProviderPublicKey is given
    ready,      \* --ready
    request,    \* LinkRequest or what modifyMultisig was asked for
    pending,    \* how many transactions link has for a node
    pc,         \* where announce is
    node,       \* the node it is at
    info,       \* multisigAccountInfo of the announcer
    cosigners,  \* accounts whose key was entered, in that order
    plan,       \* what is announced for the node
    declined,   \* nodes for which the user said no
    troubled    \* nodes that met a failed read, a failed announcement or a kill

chain == <<multisig, locks, partials, confirmed, late, changes>>
params == <<balance, provided, ready, request, pending>>
vars == <<chain, params, pc, node, info, cosigners, plan, declined, troubled>>

Nodes == 1..Len(Main)
Announcer(n) == IF provided THEN Provider ELSE Main[n]
Funded(a) == balance[a] = "funded"
Modifies == request # LinkRequest

Plans == [node : Nodes, type : {"simple", "complete", "bonded"}, signer : Accounts,
          signatures : SUBSET Accounts, fee : Int]
NoPlan == [node |-> 0]

TypeOK ==
    /\ multisig \in [Accounts -> MultisigInfo]
    /\ locks \subseteq Plans /\ partials \subseteq Plans /\ confirmed \subseteq Plans
    /\ late \in BOOLEAN
    /\ changes \in Nat
    /\ balance \in [Accounts -> {"unknown", "empty", "funded"}]
    /\ provided \in BOOLEAN /\ ready \in BOOLEAN
    /\ request \in Request
    /\ pending \in [Nodes -> Nat]
    /\ pc \in {"next", "create", "cosigners", "sign", "confirmLock", "confirmAggregate",
               "lock", "aggregate", "done", "threw", "killed"}
    /\ node \in {0} \cup Nodes
    /\ info \in MultisigInfo
    /\ cosigners \in Seq(Accounts)
    /\ plan \in Plans \cup {NoPlan}
    /\ declined \in SUBSET Nodes
    /\ troubled \in SUBSET Nodes

Init ==
    /\ multisig \in Multisigs
    /\ locks = {} /\ partials = {} /\ confirmed = {}
    /\ late = FALSE
    /\ changes = 0
    /\ balance \in Balances
    /\ provided \in BOOLEAN /\ ready \in BOOLEAN
    /\ request \in {LinkRequest} \cup Modifications
    /\ pending \in IF request = LinkRequest THEN [Nodes -> 0..2] ELSE {[n \in Nodes |-> 1]}
    /\ pc = "next"
    /\ node = 0
    /\ info = NotMultisig
    /\ cosigners = <<>>
    /\ plan = NoPlan
    /\ declined = {} /\ troubled = {}

-----------------------------------------------------------------------------
\* What the network requires of a transaction of the main account (external).

\* Signatures a multisig account needs: only deleting cosigners has a
\* threshold of its own.
Threshold(m) ==
    IF request.deletions = {} THEN m.minApproval
    ELSE IF request.additions = {} \/ m.minRemoval > m.minApproval THEN m.minRemoval
    ELSE m.minApproval

\* Enough signatures and none that does not count; new cosigners opt in.
Sufficient(p) ==
    LET a == Main[p.node]
        m == multisig[a]
    IN  IF IsMultisig(m)
        THEN /\ p.type = "complete"
             /\ p.signatures \subseteq m.cosigners \cup request.additions
             /\ Cardinality(p.signatures \cap m.cosigners) >= Threshold(m)
             /\ request.additions \subseteq p.signatures
        ELSE p.signatures = {a} \cup request.additions

Acceptable(p) == Sufficient(p) /\ Funded(p.signer)

\* Cosignatures a main account's transaction needs in the end, the signer's own
\* signature included.
Approvals(a) == IF IsMultisig(multisig[a]) THEN multisig[a].minApproval ELSE 1
Cosignatures(p) ==
    Approvals(Main[p.node]) + (IF provided THEN Approvals(Provider) ELSE 0) - 1

-----------------------------------------------------------------------------
\* ModifyMultisigService.validateParams, for the multisig information it is
\* given (NotMultisig when there is none).
ValidParams(r, i) ==
    LET size == Cardinality(i.cosigners) + Cardinality(r.additions) - Cardinality(r.deletions)
        minApproval == i.minApproval + r.approvalDelta
        minRemoval == i.minRemoval + r.removalDelta
    IN  /\ r.additions \cap i.cosigners = {}
        /\ r.deletions \subseteq i.cosigners
        /\ size >= minApproval /\ size >= minRemoval
        /\ size > 0 => minApproval # 0 /\ minRemoval # 0

\* getMultisigAccount: a failed read looks like an ordinary account.
Actual(a) == IF IsMultisig(multisig[a]) THEN multisig[a] ELSE NotMultisig
Reads(a) == {Actual(a), NotMultisig}

\* Mutant: the loop ends at the first account without funds.
VisitNodeOrStop ==
    /\ pc = "next" /\ node < Len(Main)
    /\ node' = node + 1
    /\ cosigners' = <<>>
    /\ \E failed \in BOOLEAN :
         /\ pc' = IF failed \/ ~Funded(Announcer(node')) THEN "done" ELSE "create"
         /\ troubled' = IF failed THEN troubled \cup {node'} ELSE troubled
    /\ UNCHANGED <<chain, params, info, plan, declined>>

\* The loop goes on to the next node and reads the announcer's account; one
\* that cannot be read or is empty is passed over.
VisitNode ==
    /\ pc = "next" /\ node < Len(Main)
    /\ node' = node + 1
    /\ cosigners' = <<>>
    /\ \E failed \in BOOLEAN :
         /\ pc' = IF failed \/ ~Funded(Announcer(node')) THEN "next" ELSE "create"
         /\ troubled' = IF failed THEN troubled \cup {node'} ELSE troubled
    /\ UNCHANGED <<chain, params, info, plan, declined>>

\* createTransactions. modifyMultisig reads and validates the multisig account
\* of the announcer, and an invalid request ends the command.
CreateTransactions ==
    /\ pc = "create"
    /\ \E read, validated \in Reads(Announcer(node)) :
         /\ info' = read
         /\ troubled' = IF {read, validated} # {Actual(Announcer(node))}
                        THEN troubled \cup {node} ELSE troubled
         /\ pc' = IF Modifies /\ ~ValidParams(request, validated) THEN "threw"
                  ELSE IF pending[node] = 0 THEN "next"
                  ELSE IF IsMultisig(read) THEN "cosigners" ELSE "sign"
    /\ UNCHANGED <<chain, params, node, cosigners, plan, declined>>

\* Mutant: a key that was entered may be entered again.
EnterCosignerAgain(a) ==
    /\ pc = "cosigners" /\ a \in info.cosigners
    /\ cosigners' = Append(cosigners, a)
    /\ \E more \in BOOLEAN :
         pc' = IF /\ more
                  /\ Len(cosigners') < Cardinality(info.cosigners)
                  /\ Len(cosigners') # info.minApproval
               THEN "cosigners" ELSE "sign"
    /\ UNCHANGED <<chain, params, node, info, plan, declined, troubled>>

\* promptAccounts: keys of different cosigners are entered until all are, the
\* minimum is reached or the user has no more.
EnterCosigner(a) ==
    /\ pc = "cosigners" /\ a \in info.cosigners \ Range(cosigners)
    /\ cosigners' = Append(cosigners, a)
    /\ \E more \in BOOLEAN :
         pc' = IF /\ more
                  /\ Len(cosigners') < Cardinality(info.cosigners)
                  /\ Len(cosigners') # info.minApproval
               THEN "cosigners" ELSE "sign"
    /\ UNCHANGED <<chain, params, node, info, plan, declined, troubled>>

-----------------------------------------------------------------------------
\* getBestCosigner: the first cosigner that has funds, if any; without a
\* multisig account the announcer signs.
Signers(unread) ==
    LET pays(i) == Funded(cosigners[i]) /\ cosigners[i] \notin unread
    IN  IF IsMultisig(info)
        THEN {cosigners[i] : i \in {k \in DOMAIN cosigners :
                                      pays(k) /\ \A j \in 1..(k - 1) : ~pays(j)}}
        ELSE {Announcer(node)}

\* Bonded if signatures are missing, simple if one transaction is all.
PlanType ==
    IF provided THEN "bonded"
    ELSE IF IsMultisig(info)
         THEN IF Len(cosigners) >= info.minApproval THEN "complete" ELSE "bonded"
    ELSE IF Modifies THEN "bonded"
    ELSE IF pending[node] = 1 THEN "simple" ELSE "complete"

\* Mutant: cosignatures of the main account are not paid for.
PlanFeeOfProvider(type, main) ==
    IF provided THEN IF IsMultisig(info) THEN info.minApproval ELSE 1
    ELSE IF type = "complete" THEN IF IsMultisig(info) THEN Len(cosigners) - 1 ELSE 0
    ELSE IF type = "simple" THEN 0
    ELSE IF IsMultisig(info) THEN info.minApproval
    ELSE Cardinality(request.additions) + request.approvalDelta

\* The cosignatures the fee is computed for, when --maxFee does not set it.
\* `main` is mainMultisigAccountInfo.
PlanFee(type, main) ==
    IF provided THEN (IF IsMultisig(info) THEN info.minApproval ELSE 1) + main.minApproval
    ELSE IF type = "complete" THEN IF IsMultisig(info) THEN Len(cosigners) - 1 ELSE 0
    ELSE IF type = "simple" THEN 0
    ELSE IF IsMultisig(info) THEN info.minApproval
    ELSE Cardinality(request.additions) + request.approvalDelta

\* Build and sign; with no cosigner that can pay the node is passed over.
Sign ==
    /\ pc = "sign"
    /\ \E unread \in SUBSET Range(cosigners), main \in Reads(Main[node]) :
         /\ troubled' = IF unread # {} \/ (provided /\ main # Actual(Main[node]))
                        THEN troubled \cup {node} ELSE troubled
         /\ \/ /\ Signers(unread) = {}
               /\ pc' = "next"
               /\ UNCHANGED plan
            \/ \E signer \in Signers(unread) :
                 /\ plan' = [node |-> node, type |-> PlanType, signer |-> signer,
                             signatures |-> Range(cosigners) \cup {signer},
                             fee |-> PlanFee(PlanType, main)]
                 /\ pc' = IF PlanType = "bonded" THEN "confirmLock" ELSE "confirmAggregate"
    /\ UNCHANGED <<chain, params, node, info, cosigners, declined>>

\* Mutant: the transaction that was declined is announced all the same.
ConfirmAnyway(here, next) ==
    /\ pc = here
    /\ \E answer \in (IF ready THEN {TRUE} ELSE BOOLEAN) :
         /\ pc' = next
         /\ declined' = IF answer THEN declined ELSE declined \cup {node}
    /\ UNCHANGED <<chain, params, node, info, cosigners, plan, troubled>>

\* shouldAnnounce
Confirm(here, next) ==
    /\ pc = here
    /\ \E answer \in (IF ready THEN {TRUE} ELSE BOOLEAN) :
         /\ pc' = IF answer THEN next ELSE "next"
         /\ declined' = IF answer THEN declined ELSE declined \cup {node}
    /\ UNCHANGED <<chain, params, node, info, cosigners, plan, troubled>>

ConfirmLock == Confirm("confirmLock", "confirmAggregate")
ConfirmAggregate ==
    Confirm("confirmAggregate", IF plan.type = "bonded" THEN "lock" ELSE "aggregate")

-----------------------------------------------------------------------------
\* Mutant: consent for the aggregate is asked for after the lock.
LockConfirmedThenAsk ==
    /\ pc = "lock" /\ ~late /\ Funded(plan.signer)
    /\ locks' = locks \cup {plan}
    /\ pc' = "confirmAggregate"
    /\ UNCHANGED <<multisig, partials, confirmed, late, changes, params, node, info,
                   cosigners, plan, declined, troubled>>

\* The lock is announced and its confirmation is heard of.
LockConfirmed ==
    /\ pc = "lock" /\ ~late /\ Funded(plan.signer)
    /\ locks' = locks \cup {plan}
    /\ pc' = "aggregate"
    /\ UNCHANGED <<multisig, partials, confirmed, late, changes, params, node, info,
                   cosigners, plan, declined, troubled>>

\* Mutant: a failed lock does not stop the aggregate.
LockFailsGoOn ==
    /\ pc = "lock"
    /\ locks' = locks \/ (~late /\ locks' = locks \cup {plan})
    /\ pc' = "aggregate"
    /\ troubled' = troubled \cup {node}
    /\ UNCHANGED <<multisig, partials, confirmed, late, changes, params, node, info,
                   cosigners, plan, declined>>

\* The lock is refused, or an error hides that it was confirmed: the next node.
LockFails ==
    /\ pc = "lock"
    /\ locks' = locks \/ (~late /\ locks' = locks \cup {plan})
    /\ pc' = "next"
    /\ troubled' = troubled \cup {node}
    /\ UNCHANGED <<multisig, partials, confirmed, late, changes, params, node, info,
                   cosigners, plan, declined>>

\* The network takes the aggregate, or the simple transaction. A modification
\* that is confirmed changes the account.
Taken ==
    /\ ~late
    /\ IF plan.type = "bonded"
       THEN /\ plan \in locks
            /\ partials' = partials \cup {plan}
            /\ UNCHANGED <<confirmed, multisig>>
       ELSE /\ Acceptable(plan)
            /\ confirmed' = confirmed \cup {plan}
            /\ multisig' = [multisig EXCEPT ![Main[plan.node]] =
                   [cosigners |-> (@.cosigners \cup request.additions) \ request.deletions,
                    minApproval |-> @.minApproval + request.approvalDelta,
                    minRemoval |-> @.minRemoval + request.removalDelta]]
            /\ UNCHANGED partials

AggregateTaken ==
    /\ pc = "aggregate" /\ Taken
    /\ pc' = "next"
    /\ UNCHANGED <<locks, late, changes, params, node, info, cosigners, plan, declined, troubled>>

\* The network refuses it for its signatures or its signer.
AggregateRefused ==
    /\ pc = "aggregate" /\ plan.type # "bonded" /\ ~Acceptable(plan)
    /\ pc' = "next"
    /\ troubled' = troubled \cup {node}
    /\ UNCHANGED <<chain, params, node, info, cosigners, plan, declined>>

\* Any other failure; the error may hide that the transaction was taken.
AggregateFails ==
    /\ pc = "aggregate"
    /\ Taken \/ UNCHANGED <<partials, confirmed, multisig>>
    /\ pc' = "next"
    /\ troubled' = troubled \cup {node}
    /\ UNCHANGED <<locks, late, changes, params, node, info, cosigners, plan, declined>>

Finish ==
    /\ pc = "next" /\ node = Len(Main)
    /\ pc' = "done"
    /\ UNCHANGED <<chain, params, node, info, cosigners, plan, declined, troubled>>

\* Ctrl-C, or the process dies.
Kill ==
    /\ pc \notin {"done", "threw", "killed"}
    /\ pc' = "killed"
    /\ troubled' = troubled \cup ({node} \cap Nodes)
    /\ UNCHANGED <<chain, params, node, info, cosigners, plan, declined>>

\* The deadline, set once before the loop, passes.
DeadlinePasses ==
    /\ ~late /\ late' = TRUE
    /\ UNCHANGED <<multisig, locks, partials, confirmed, changes, params, pc, node, info,
                   cosigners, plan, declined, troubled>>

\* Somebody else's modification is confirmed (external).
OtherChange ==
    /\ changes < MaxChanges
    /\ changes' = changes + 1
    /\ multisig' \in Multisigs
    /\ UNCHANGED <<locks, partials, confirmed, late, params, pc, node, info, cosigners,
                   plan, declined, troubled>>

Next ==
    \/ VisitNode \/ CreateTransactions
    \/ \E a \in Accounts : EnterCosigner(a)
    \/ Sign \/ ConfirmLock \/ ConfirmAggregate
    \/ LockConfirmed \/ LockFails
    \/ AggregateTaken \/ AggregateRefused \/ AggregateFails
    \/ Finish \/ Kill
    \/ DeadlinePasses \/ OtherChange

Spec == Init /\ [][Next]_vars

-----------------------------------------------------------------------------
\* A bonded aggregate is announced only with its hash lock confirmed: no
\* failure on the way to the lock is followed by the aggregate.
LockedFirst == pc = "aggregate" /\ plan.type = "bonded" => plan \in locks

\* The lock's deposit is at stake: a lock stays without its aggregate only if
\* an announcement failed or the command was killed; never because the user
\* was asked too late.
NoOrphanLock ==
    \A l \in locks :
        \/ l \in partials
        \/ l.node \in troubled
        \/ pc = "aggregate" /\ plan = l

\* What the user declines leaves no trace on the chain, not even a lock.
DeclinedLeavesNothing ==
    \A p \in locks \cup partials \cup confirmed : p.node \notin declined

\* One node's trouble is not another's: when the loop ends, every node that has
\* something to announce, and funds for it, has it on the chain, unless the user
\* declined it or its own reads or announcements failed.
NodesIndependent ==
    pc = "done" /\ changes = 0 =>
        \A n \in Nodes :
            /\ pending[n] > 0 /\ Funded(Announcer(n))
            /\ \A a \in multisig[Announcer(n)].cosigners : Funded(a)
            /\ n \notin declined \cup troubled
            => \E p \in partials \cup confirmed : p.node = n

\* The network never refuses the signatures or the payer of what `link`
\* announces, unless the multisig account changed or was misread: entered keys
\* are those of distinct cosigners of this node's account, there are as many as
\* a complete aggregate needs, and the one who signs can pay.
SignedEnough ==
    [][AggregateRefused => Modifies \/ changes > 0 \/ node \in troubled]_vars

\* The fee covers all the cosignatures that a transaction of `link` needs.
FeeCoversCosignatures ==
    pc = "aggregate" /\ ~Modifies /\ changes = 0 /\ node \notin troubled =>
        plan.fee >= Cosignatures(plan)

\* A modification that is announced passed the validation of the account it
\* modifies: it removes only actual cosignatories, and adds only new ones.
ValidatedForMain ==
    pc = "aggregate" /\ Modifies /\ changes = 0 /\ node \notin troubled =>
        /\ request.deletions \subseteq multisig[Main[node]].cosigners
        /\ request.additions \cap multisig[Main[node]].cosigners = {}
=============================================================================

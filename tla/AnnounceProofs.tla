-------------------------- MODULE AnnounceProofs --------------------------
(***************************************************************************)
(* Proofs about Announce, for any nodes, accounts, balances, multisig       *)
(* accounts and modifications: type correctness, what locks and consent     *)
(* promise, and that fees and signatures are enough.                        *)
(***************************************************************************)
EXTENDS Announce, FiniteSetTheorems, TLAPS

Working == {"create", "cosigners", "sign"}
Planned == {"confirmLock", "confirmAggregate", "lock", "aggregate"}

\* The plan is the current node's, and a plan with a lock is bonded.
Placed ==
    /\ pc \in Working \cup Planned => node \in Nodes
    /\ pc \in Planned => plan \in Plans /\ plan.node = node
    /\ pc \in {"confirmLock", "lock"} => plan.type = "bonded"

\* Nothing of the current node is on the chain before its aggregate is sent,
\* except its lock, and nothing at all of the nodes to come.
OnChain == locks \cup partials \cup confirmed
Past ==
    /\ \A p \in OnChain : p.node <= node
    /\ \A n \in declined : n <= node
    /\ pc \in Working \cup Planned => node \notin declined
    /\ pc \in Working \cup Planned => \A p \in partials \cup confirmed : p.node # node
    /\ pc \in (Working \cup Planned) \ {"aggregate"} => \A p \in locks : p.node # node
    /\ pc = "aggregate" => \A p \in locks : p.node = node => p = plan
    /\ \A p \in locks : p.type = "bonded"

OrderInv == TypeOK /\ Placed /\ Past /\ LockedFirst /\ NoOrphanLock /\ DeclinedLeavesNothing

-----------------------------------------------------------------------------
\* A request's new cosigners can be counted, and entered keys are accounts.
LEMMA Sizes ==
    ASSUME TypeOK
    PROVE  /\ Cardinality(request.additions) \in Nat
           /\ Range(cosigners) \subseteq Accounts
<1>1. request.additions \subseteq Accounts
  BY DEF TypeOK, Request
<1>2. Cardinality(request.additions) \in Nat
  BY <1>1, AnnounceAssumption, FS_Subset, FS_CardinalityType
<1>3. Range(cosigners) \subseteq Accounts
  BY DEF TypeOK, Range
<1> QED
  BY <1>2, <1>3

\* The initial states satisfy the invariant.
LEMMA OrderInit == Init => OrderInv
<1> SUFFICES ASSUME Init PROVE OrderInv
  OBVIOUS
<1> USE AnnounceAssumption DEF Init
<1>1. TypeOK
  <2>1. request \in Request
    BY DEF LinkRequest, Request
  <2>2. info \in MultisigInfo /\ plan \in Plans \cup {NoPlan} /\ cosigners \in Seq(Accounts)
    BY DEF NotMultisig, MultisigInfo
  <2>3. pending \in [Nodes -> Nat]
    BY DEF Nodes
  <2> QED
    BY <2>1, <2>2, <2>3 DEF TypeOK
<1>2. Placed /\ Past /\ LockedFirst /\ NoOrphanLock /\ DeclinedLeavesNothing
  BY DEF Placed, Past, OnChain, LockedFirst, NoOrphanLock, DeclinedLeavesNothing, Working, Planned
<1> QED
  BY <1>1, <1>2 DEF OrderInv

\* Signing makes a plan of the current node, or passes it over.
LEMMA SignPlan ==
    ASSUME TypeOK, Placed, Sign, pc' # "next"
    PROVE  /\ plan' \in Plans /\ plan'.node = node
           /\ pc' \in {"confirmLock", "confirmAggregate"}
           /\ pc' = "confirmLock" => plan'.type = "bonded"
<1>1. PICK unread \in SUBSET Range(cosigners), main \in Reads(Main[node]) :
        \E signer \in Signers(unread) :
          /\ plan' = [node |-> node, type |-> PlanType, signer |-> signer,
                      signatures |-> Range(cosigners) \cup {signer},
                      fee |-> PlanFee(PlanType, main)]
          /\ pc' = IF PlanType = "bonded" THEN "confirmLock" ELSE "confirmAggregate"
  BY DEF Sign
<1>2. PICK signer \in Signers(unread) :
          /\ plan' = [node |-> node, type |-> PlanType, signer |-> signer,
                      signatures |-> Range(cosigners) \cup {signer},
                      fee |-> PlanFee(PlanType, main)]
          /\ pc' = IF PlanType = "bonded" THEN "confirmLock" ELSE "confirmAggregate"
  BY <1>1
<1>3. node \in Nodes /\ Main[node] \in Accounts
  BY AnnounceAssumption DEF Sign, Placed, Working, Nodes
<1>4. signer \in Accounts
  BY <1>3, AnnounceAssumption DEF Signers, TypeOK, Announcer
<1>5. PlanType \in {"simple", "complete", "bonded"}
  BY DEF PlanType
<1>6. main.minApproval \in Int
  BY <1>3 DEF Reads, Actual, NotMultisig, TypeOK, MultisigInfo
<1>7. info.minApproval \in Int /\ request.approvalDelta \in Int /\ Len(cosigners) \in Nat
  BY DEF TypeOK, MultisigInfo, Request
<1>8. PlanFee(PlanType, main) \in Int
  BY <1>6, <1>7, Sizes DEF PlanFee
<1> QED
  BY <1>2, <1>3, <1>4, <1>5, <1>8, Sizes DEF Plans

\* Every step preserves type correctness.
LEMMA TypeStep == TypeOK /\ Placed /\ [Next]_vars => TypeOK'
<1> SUFFICES ASSUME TypeOK, Placed, [Next]_vars PROVE TypeOK'
  OBVIOUS
<1> USE AnnounceAssumption DEF chain, params
<1>1. CASE VisitNode
  BY <1>1 DEF VisitNode, TypeOK, Nodes
<1>2. CASE CreateTransactions
  <2>1. node \in Nodes
    BY <1>2 DEF CreateTransactions, Placed, Working
  <2>2. Announcer(node) \in Accounts
    BY <2>1 DEF Announcer, Nodes
  <2>3. Reads(Announcer(node)) \subseteq MultisigInfo
    BY <2>2 DEF Reads, Actual, NotMultisig, MultisigInfo, TypeOK
  <2> QED
    BY <1>2, <2>1, <2>3 DEF CreateTransactions, TypeOK
<1>3. ASSUME NEW a \in Accounts, EnterCosigner(a) PROVE TypeOK'
  BY <1>3 DEF EnterCosigner, TypeOK
<1>4. CASE Sign
  <2>1. plan' \in Plans \cup {NoPlan}
    BY <1>4, SignPlan DEF TypeOK, Sign
  <2>2. node \in Nodes
    BY <1>4 DEF Sign, Placed, Working
  <2>3. pc' \in {"next", "confirmLock", "confirmAggregate"}
    BY <1>4 DEF Sign
  <2> QED
    BY <1>4, <2>1, <2>2, <2>3 DEF Sign, TypeOK
<1>5. CASE ConfirmLock \/ ConfirmAggregate
  BY <1>5 DEF ConfirmLock, ConfirmAggregate, Confirm, TypeOK, Placed, Planned
<1>6. CASE LockConfirmed
  BY <1>6 DEF LockConfirmed, TypeOK, Placed, Planned
<1>7. CASE LockFails
  BY <1>7 DEF LockFails, TypeOK, Placed, Planned
<1>8. ASSUME Taken, pc = "aggregate"
      PROVE  multisig' \in [Accounts -> MultisigInfo] /\ partials' \subseteq Plans
             /\ confirmed' \subseteq Plans
  <2>1. plan \in Plans /\ Main[plan.node] \in Accounts
    BY <1>8 DEF Placed, Planned, Plans, Nodes
  <2>2. CASE plan.type = "bonded"
    BY <1>8, <2>1, <2>2 DEF Taken, TypeOK
  <2>3. CASE plan.type # "bonded"
    <3> DEFINE m == multisig[Main[plan.node]]
    <3>1. m \in MultisigInfo /\ request \in Request
      BY <2>1 DEF TypeOK
    <3>2. /\ (m.cosigners \cup request.additions) \ request.deletions \subseteq Accounts
          /\ m.minApproval + request.approvalDelta \in Int
          /\ m.minRemoval + request.removalDelta \in Int
      BY <3>1 DEF MultisigInfo, Request
    <3>3. [cosigners |-> (m.cosigners \cup request.additions) \ request.deletions,
           minApproval |-> m.minApproval + request.approvalDelta,
           minRemoval |-> m.minRemoval + request.removalDelta] \in MultisigInfo
      BY <3>2 DEF MultisigInfo
    <3> QED
      BY <1>8, <2>1, <2>3, <3>3 DEF Taken, TypeOK
  <2> QED
    BY <2>2, <2>3
<1>9. CASE AggregateTaken
  BY <1>9, <1>8 DEF AggregateTaken, TypeOK
<1>10. CASE AggregateRefused
  BY <1>10 DEF AggregateRefused, TypeOK, Placed, Planned
<1>11. CASE AggregateFails
  <2>1. CASE Taken
    BY <1>11, <1>8, <2>1 DEF AggregateFails, TypeOK, Placed, Planned
  <2>2. CASE ~Taken
    BY <1>11, <2>2 DEF AggregateFails, TypeOK, Placed, Planned
  <2> QED
    BY <2>1, <2>2
<1>12. CASE Finish \/ Kill
  BY <1>12 DEF Finish, Kill, TypeOK
<1>13. CASE DeadlinePasses
  BY <1>13 DEF DeadlinePasses, TypeOK
<1>14. CASE OtherChange
  BY <1>14 DEF OtherChange, TypeOK
<1>15. CASE UNCHANGED vars
  BY <1>15 DEF vars, TypeOK
<1> QED
  BY <1>1, <1>2, <1>3, <1>4, <1>5, <1>6, <1>7, <1>9, <1>10, <1>11, <1>12, <1>13, <1>14,
     <1>15 DEF Next

\* Every step keeps the plan the current node's.
LEMMA PlacedStep == TypeOK /\ Placed /\ [Next]_vars => Placed'
<1> SUFFICES ASSUME TypeOK, Placed, [Next]_vars PROVE Placed'
  OBVIOUS
<1> USE AnnounceAssumption DEF chain, params, Placed, Working, Planned
<1>1. CASE VisitNode
  BY <1>1 DEF VisitNode, TypeOK, Nodes
<1>2. CASE CreateTransactions
  BY <1>2 DEF CreateTransactions
<1>3. ASSUME NEW a \in Accounts, EnterCosigner(a) PROVE Placed'
  BY <1>3 DEF EnterCosigner
<1>4. CASE Sign
  <2>1. CASE pc' = "next"
    BY <2>1
  <2>2. CASE pc' # "next"
    BY <1>4, <2>2, SignPlan DEF Sign
  <2> QED
    BY <2>1, <2>2
<1>5. CASE ConfirmLock \/ ConfirmAggregate
  BY <1>5 DEF ConfirmLock, ConfirmAggregate, Confirm
<1>6. CASE LockConfirmed \/ LockFails
  BY <1>6 DEF LockConfirmed, LockFails
<1>7. CASE AggregateTaken \/ AggregateRefused \/ AggregateFails
  BY <1>7 DEF AggregateTaken, AggregateRefused, AggregateFails
<1>8. CASE Finish \/ Kill \/ DeadlinePasses \/ OtherChange
  BY <1>8 DEF Finish, Kill, DeadlinePasses, OtherChange
<1>9. CASE UNCHANGED vars
  BY <1>9 DEF vars
<1> QED
  BY <1>1, <1>2, <1>3, <1>4, <1>5, <1>6, <1>7, <1>8, <1>9 DEF Next

\* What is on the chain after a step was there before, or is the plan.
LEMMA OnChainStep ==
    ASSUME [Next]_vars
    PROVE  /\ locks' # locks => pc = "lock" /\ locks' = locks \cup {plan}
           /\ partials' # partials => pc = "aggregate" /\ partials' = partials \cup {plan}
           /\ confirmed' # confirmed => pc = "aggregate" /\ confirmed' = confirmed \cup {plan}
<1> USE DEF chain, params
<1>1. CASE VisitNode \/ CreateTransactions \/ Sign \/ ConfirmLock \/ ConfirmAggregate
  BY <1>1 DEF VisitNode, CreateTransactions, Sign, ConfirmLock, ConfirmAggregate, Confirm
<1>2. ASSUME NEW a \in Accounts, EnterCosigner(a)
      PROVE  UNCHANGED <<locks, partials, confirmed>>
  BY <1>2 DEF EnterCosigner
<1>3. CASE LockConfirmed \/ LockFails
  BY <1>3 DEF LockConfirmed, LockFails
<1>4. CASE AggregateTaken \/ AggregateRefused \/ AggregateFails
  BY <1>4 DEF AggregateTaken, AggregateRefused, AggregateFails, Taken
<1>5. CASE Finish \/ Kill \/ DeadlinePasses \/ OtherChange \/ UNCHANGED vars
  BY <1>5 DEF Finish, Kill, DeadlinePasses, OtherChange, vars
<1> QED
  BY <1>1, <1>2, <1>3, <1>4, <1>5 DEF Next

\* An answer lets the plan go on, or declines the node.
LEMMA Answer ==
    ASSUME ConfirmLock \/ ConfirmAggregate
    PROVE  /\ pc \in {"confirmLock", "confirmAggregate"}
           /\ \/ /\ pc = "confirmLock" /\ pc' = "confirmAggregate"
                 /\ declined' = declined
              \/ /\ pc = "confirmAggregate" /\ plan.type = "bonded" /\ pc' = "lock"
                 /\ declined' = declined
              \/ /\ pc = "confirmAggregate" /\ plan.type # "bonded" /\ pc' = "aggregate"
                 /\ declined' = declined
              \/ pc' = "next" /\ declined' = declined \cup {node}
           /\ UNCHANGED <<locks, partials, confirmed, node, plan, troubled>>
<1> DEFINE Said(answer, next) ==
        /\ pc' = IF answer THEN next ELSE "next"
        /\ declined' = IF answer THEN declined ELSE declined \cup {node}
<1>1. CASE ConfirmLock
  <2>1. PICK answer \in (IF ready THEN {TRUE} ELSE BOOLEAN) : Said(answer, "confirmAggregate")
    BY <1>1 DEF ConfirmLock, Confirm
  <2>2. pc = "confirmLock" /\ UNCHANGED <<locks, partials, confirmed, node, plan, troubled>>
    BY <1>1 DEF ConfirmLock, Confirm, chain
  <2>3. CASE answer
    BY <2>1, <2>2, <2>3
  <2>4. CASE ~answer
    BY <2>1, <2>2, <2>4
  <2> QED
    BY <2>3, <2>4
<1>2. CASE ConfirmAggregate
  <2> DEFINE next == IF plan.type = "bonded" THEN "lock" ELSE "aggregate"
  <2>1. PICK answer \in (IF ready THEN {TRUE} ELSE BOOLEAN) : Said(answer, next)
    BY <1>2 DEF ConfirmAggregate, Confirm
  <2>2. pc = "confirmAggregate" /\ UNCHANGED <<locks, partials, confirmed, node, plan, troubled>>
    BY <1>2 DEF ConfirmAggregate, Confirm, chain
  <2>3. CASE answer
    BY <2>1, <2>2, <2>3
  <2>4. CASE ~answer
    BY <2>1, <2>2, <2>4
  <2> QED
    BY <2>3, <2>4
<1> QED
  BY <1>1, <1>2

\* Every step keeps the past apart from the current node.
LEMMA PastStep == TypeOK /\ Placed /\ Past /\ LockedFirst /\ [Next]_vars => Past'
<1> SUFFICES ASSUME TypeOK, Placed, Past, LockedFirst, [Next]_vars PROVE Past'
  OBVIOUS
<1>0. \A p \in OnChain : p.node \in Nat
  BY DEF OnChain, TypeOK, Plans, Nodes
<1>1. node \in Nat /\ (declined \subseteq Nat)
  BY AnnounceAssumption DEF TypeOK, Nodes
<1> USE DEF chain, params, Placed, Past, OnChain, Working, Planned
<1>2. CASE VisitNode
  BY <1>0, <1>1, <1>2 DEF VisitNode
<1>3. CASE CreateTransactions
  BY <1>3 DEF CreateTransactions
<1>4. ASSUME NEW a \in Accounts, EnterCosigner(a) PROVE Past'
  BY <1>4 DEF EnterCosigner
<1>5. CASE Sign
  BY <1>5 DEF Sign
<1>6. CASE ConfirmLock \/ ConfirmAggregate
  <2>1. \A p \in OnChain : p.node # node
    BY <1>6, Answer
  <2>2. CASE declined' = declined
    BY <1>6, <2>1, <2>2, Answer
  <2>3. CASE pc' = "next" /\ declined' = declined \cup {node}
    BY <1>1, <1>6, <2>1, <2>3, Answer
  <2> QED
    BY <1>6, <2>2, <2>3, Answer
<1>7. CASE LockConfirmed \/ LockFails
  <2>1. /\ pc = "lock" /\ pc' \in {"next", "aggregate"}
        /\ UNCHANGED <<node, plan, declined, partials, confirmed>>
        /\ locks' = locks \/ locks' = locks \cup {plan}
    BY <1>7 DEF LockConfirmed, LockFails
  <2> QED
    BY <1>1, <2>1
<1>8. CASE AggregateTaken \/ AggregateRefused \/ AggregateFails
  <2>1. /\ pc = "aggregate" /\ pc' = "next"
        /\ UNCHANGED <<node, declined, locks>>
    BY <1>8 DEF AggregateTaken, AggregateRefused, AggregateFails
  <2>2. /\ partials' = partials \/ partials' = partials \cup {plan}
        /\ confirmed' = confirmed \/ confirmed' = confirmed \cup {plan}
    BY OnChainStep
  <2> QED
    BY <1>1, <2>1, <2>2
<1>9. CASE Finish \/ Kill \/ DeadlinePasses \/ OtherChange
  BY <1>9 DEF Finish, Kill, DeadlinePasses, OtherChange
<1>10. CASE UNCHANGED vars
  BY <1>10 DEF vars
<1> QED
  BY <1>2, <1>3, <1>4, <1>5, <1>6, <1>7, <1>8, <1>9, <1>10 DEF Next

\* Every step keeps what locks and consent promise.
LEMMA PromiseStep ==
    OrderInv /\ [Next]_vars => LockedFirst' /\ NoOrphanLock' /\ DeclinedLeavesNothing'
<1> SUFFICES ASSUME OrderInv, [Next]_vars
             PROVE  LockedFirst' /\ NoOrphanLock' /\ DeclinedLeavesNothing'
  OBVIOUS
<1> USE DEF chain, params, OrderInv, Placed, Past, OnChain, Working, Planned, LockedFirst,
            NoOrphanLock, DeclinedLeavesNothing
<1>1. CASE VisitNode \/ CreateTransactions \/ Sign
  BY <1>1 DEF VisitNode, CreateTransactions, Sign
<1>2. ASSUME NEW a \in Accounts, EnterCosigner(a)
      PROVE  LockedFirst' /\ NoOrphanLock' /\ DeclinedLeavesNothing'
  BY <1>2 DEF EnterCosigner
<1>3. CASE ConfirmLock \/ ConfirmAggregate
  BY <1>3, Answer
<1>4. CASE LockConfirmed \/ LockFails
  BY <1>4 DEF LockConfirmed, LockFails
<1>5. CASE AggregateTaken
  <2>1. /\ pc = "aggregate" /\ pc' = "next"
        /\ UNCHANGED <<node, declined, troubled, locks>>
        /\ plan \in partials' \/ (plan.type # "bonded" /\ partials' = partials)
    BY <1>5 DEF AggregateTaken, Taken
  <2>2. /\ partials' = partials \/ partials' = partials \cup {plan}
        /\ confirmed' = confirmed \/ confirmed' = confirmed \cup {plan}
    BY OnChainStep
  <2> QED
    BY <2>1, <2>2
<1>6. CASE AggregateRefused \/ AggregateFails
  BY <1>6, OnChainStep DEF AggregateRefused, AggregateFails
<1>7. CASE Finish \/ Kill \/ DeadlinePasses \/ OtherChange
  BY <1>7 DEF Finish, Kill, DeadlinePasses, OtherChange
<1>8. CASE UNCHANGED vars
  BY <1>8 DEF vars
<1> QED
  BY <1>1, <1>2, <1>3, <1>4, <1>5, <1>6, <1>7, <1>8 DEF Next

LEMMA OrderStep == OrderInv /\ [Next]_vars => OrderInv'
BY TypeStep, PlacedStep, PastStep, PromiseStep DEF OrderInv

LEMMA OrderHolds == Spec => []OrderInv
BY OrderInit, OrderStep, PTL DEF Spec

\* Type correctness, for any nodes, accounts and modifications.
THEOREM TypeCorrect == Spec => []TypeOK
<1>1. OrderInv => TypeOK
  BY DEF OrderInv
<1> QED
  BY OrderHolds, <1>1, PTL

\* A bonded aggregate is only sent with its hash lock confirmed.
THEOREM AggregatesAreLocked == Spec => []LockedFirst
<1>1. OrderInv => LockedFirst
  BY DEF OrderInv
<1> QED
  BY OrderHolds, <1>1, PTL

\* A lock is left without its aggregate only by a failure or a kill.
THEOREM DepositsAreUsed == Spec => []NoOrphanLock
<1>1. OrderInv => NoOrphanLock
  BY DEF OrderInv
<1> QED
  BY OrderHolds, <1>1, PTL

\* Nothing that the user declined is on the chain.
THEOREM ConsentIsNeeded == Spec => []DeclinedLeavesNothing
<1>1. OrderInv => DeclinedLeavesNothing
  BY DEF OrderInv
<1> QED
  BY OrderHolds, <1>1, PTL

-----------------------------------------------------------------------------
\* The reads for the current node were right and are still right.
Right == changes = 0 /\ node \notin troubled

\* What was read for the node, and the keys that were entered: of distinct
\* cosigners.
ReadInv ==
    /\ pc \in Working \cup Planned => Funded(Announcer(node))
    /\ pc = "create" => cosigners = <<>>
    /\ pc \in ({"cosigners", "sign"} \cup Planned) =>
         /\ Right => info = Actual(Announcer(node))
         /\ Range(cosigners) \subseteq info.cosigners
         /\ Cardinality(Range(cosigners)) = Len(cosigners)

\* What `link` signs is paid for and acceptable.
SignInv ==
    pc \in Planned /\ ~Modifies /\ Right =>
        /\ plan.fee >= Cosignatures(plan)
        /\ plan.type # "bonded" => Acceptable(plan)

\* One more key is one more cosigner.
LEMMA OneMore ==
    ASSUME TypeOK, NEW a \in Accounts, a \notin Range(cosigners),
           Cardinality(Range(cosigners)) = Len(cosigners)
    PROVE  LET longer == Append(cosigners, a)
           IN  /\ Range(longer) = Range(cosigners) \cup {a}
               /\ Cardinality(Range(longer)) = Len(longer)
<1> DEFINE longer == Append(cosigners, a)
<1>1. cosigners \in Seq(Accounts) /\ longer \in Seq(Accounts) /\ Len(longer) = Len(cosigners) + 1
  BY DEF TypeOK
<1>2. /\ DOMAIN longer = 1..(Len(cosigners) + 1) /\ DOMAIN cosigners = 1..Len(cosigners)
      /\ longer[Len(cosigners) + 1] = a
      /\ \A i \in 1..Len(cosigners) : longer[i] = cosigners[i]
  BY <1>1
<1>3. Range(longer) = Range(cosigners) \cup {a}
  <2> DEFINE n == Len(cosigners)
  <2>1. n \in Nat /\ 1..(n + 1) = 1..n \cup {n + 1}
    BY <1>1
  <2>2. /\ Range(longer) = {longer[i] : i \in 1..(n + 1)}
        /\ Range(cosigners) = {cosigners[i] : i \in 1..n}
    BY <1>2 DEF Range
  <2>3. {longer[i] : i \in 1..(n + 1)} = {longer[i] : i \in 1..n} \cup {a}
    BY <1>2, <2>1
  <2>4. {longer[i] : i \in 1..n} = {cosigners[i] : i \in 1..n}
    BY <1>2
  <2> QED
    BY <2>2, <2>3, <2>4
<1>4. IsFiniteSet(Range(cosigners))
  BY Sizes, AnnounceAssumption, FS_Subset
<1>5. Cardinality(Range(cosigners) \cup {a}) = Cardinality(Range(cosigners)) + 1
  BY <1>4, FS_AddElement
<1> QED
  BY <1>1, <1>3, <1>5

\* Every step keeps what was read and entered.
LEMMA ReadStep == OrderInv /\ ReadInv /\ [Next]_vars => ReadInv'
<1> SUFFICES ASSUME OrderInv, ReadInv, [Next]_vars PROVE ReadInv'
  OBVIOUS
<1>0. TypeOK /\ Placed
  BY DEF OrderInv
<1> USE DEF chain, params, Working, Planned, ReadInv, Right, Funded, Announcer, Actual
<1>1. CASE VisitNode
  <2>1. PICK failed \in BOOLEAN :
          pc' = IF failed \/ ~Funded(Announcer(node')) THEN "next" ELSE "create"
    BY <1>1 DEF VisitNode
  <2>2. cosigners' = <<>> /\ UNCHANGED <<balance, provided>>
    BY <1>1 DEF VisitNode
  <2>3. CASE pc' = "next"
    BY <2>3
  <2>4. CASE pc' = "create" /\ Funded(Announcer(node'))
    BY <2>2, <2>4
  <2> QED
    BY <2>1, <2>3, <2>4
<1>2. CASE CreateTransactions
  <2>1. PICK read \in Reads(Announcer(node)), validated \in Reads(Announcer(node)) :
          /\ info' = read
          /\ troubled' = IF {read, validated} # {Actual(Announcer(node))}
                         THEN troubled \cup {node} ELSE troubled
    BY <1>2 DEF CreateTransactions
  <2>2. node \notin troubled' => read = Actual(Announcer(node))
    BY <2>1
  <2>3. /\ pc = "create" /\ pc' \in {"threw", "next", "cosigners", "sign"}
        /\ UNCHANGED <<multisig, changes, balance, provided, node, cosigners>>
    BY <1>2 DEF CreateTransactions
  <2>4. Range(cosigners) = {} /\ Cardinality(Range(cosigners)) = Len(cosigners)
    <3>1. cosigners = <<>> /\ Len(cosigners) = 0 /\ DOMAIN cosigners = {}
      BY <2>3
    <3>2. Range(cosigners) = {}
      BY <3>1 DEF Range
    <3> QED
      BY <3>1, <3>2, FS_EmptySet
  <2> QED
    BY <2>1, <2>2, <2>3, <2>4
<1>3. ASSUME NEW a \in Accounts, EnterCosigner(a) PROVE ReadInv'
  <2>1. /\ pc = "cosigners" /\ pc' \in {"cosigners", "sign"}
        /\ a \in info.cosigners \ Range(cosigners)
        /\ cosigners' = Append(cosigners, a)
        /\ UNCHANGED <<multisig, changes, balance, provided, node, info, troubled>>
    BY <1>3 DEF EnterCosigner
  <2>2. /\ Range(cosigners') = Range(cosigners) \cup {a}
        /\ Cardinality(Range(cosigners')) = Len(cosigners')
    BY <1>0, <2>1, OneMore
  <2> QED
    BY <2>1, <2>2
<1>4. CASE Sign
  BY <1>4 DEF Sign
<1>5. CASE ConfirmLock \/ ConfirmAggregate
  <2>1. UNCHANGED <<multisig, changes, balance, provided, info, cosigners>>
    BY <1>5 DEF ConfirmLock, ConfirmAggregate, Confirm
  <2> QED
    BY <1>5, <2>1, Answer
<1>6. CASE LockConfirmed \/ LockFails
  BY <1>6 DEF LockConfirmed, LockFails
<1>7. CASE AggregateTaken \/ AggregateRefused \/ AggregateFails
  BY <1>7 DEF AggregateTaken, AggregateRefused, AggregateFails
<1>8. CASE Finish \/ Kill \/ DeadlinePasses
  BY <1>8 DEF Finish, Kill, DeadlinePasses
<1>9. CASE OtherChange
  <2>1. changes' # 0
    BY <1>0, <1>9 DEF OtherChange, TypeOK
  <2> QED
    BY <1>9, <2>1 DEF OtherChange
<1>10. CASE UNCHANGED vars
  BY <1>10 DEF vars
<1> QED
  BY <1>1, <1>2, <1>3, <1>4, <1>5, <1>6, <1>7, <1>8, <1>9, <1>10 DEF Next

\* What is signed with right reads is paid for and acceptable.
LEMMA SignEnough ==
    ASSUME OrderInv, ReadInv, Sign, pc' # "next", ~Modifies, Right, node \notin troubled'
    PROVE  /\ plan'.fee >= Cosignatures(plan')
           /\ plan'.type # "bonded" => Acceptable(plan')
<1> DEFINE m == multisig[Main[node]]
<1>1. PICK unread \in SUBSET Range(cosigners), main \in Reads(Main[node]) :
        /\ troubled' = IF unread # {} \/ (provided /\ main # Actual(Main[node]))
                       THEN troubled \cup {node} ELSE troubled
        /\ \E signer \in Signers(unread) :
             plan' = [node |-> node, type |-> PlanType, signer |-> signer,
                      signatures |-> Range(cosigners) \cup {signer},
                      fee |-> PlanFee(PlanType, main)]
  BY DEF Sign
<1>2. PICK signer \in Signers(unread) :
        plan' = [node |-> node, type |-> PlanType, signer |-> signer,
                 signatures |-> Range(cosigners) \cup {signer},
                 fee |-> PlanFee(PlanType, main)]
  BY <1>1
<1>3. provided => main = Actual(Main[node])
  BY <1>1
<1>4. TypeOK /\ node \in Nodes /\ Main[node] \in Accounts /\ Provider \in Accounts
  BY AnnounceAssumption DEF OrderInv, Placed, Sign, Working, Nodes
<1>5. m \in MultisigInfo /\ multisig[Provider] \in MultisigInfo /\ info \in MultisigInfo
  BY <1>4 DEF TypeOK
<1>6. /\ Funded(Announcer(node)) /\ info = Actual(Announcer(node))
      /\ Range(cosigners) \subseteq info.cosigners
      /\ Cardinality(Range(cosigners)) = Len(cosigners) /\ Len(cosigners) \in Nat
  BY <1>4 DEF ReadInv, Sign, Working, TypeOK
<1>7. request.additions = {} /\ request.deletions = {}
  BY DEF Modifies, LinkRequest
<1>8. /\ IsMultisig(info) => signer \in Range(cosigners) /\ Funded(signer)
      /\ ~IsMultisig(info) => signer = Announcer(node)
  BY <1>2 DEF Signers, Range
<1>9. CASE provided
  <2>1. PlanType = "bonded"
    BY <1>9 DEF PlanType
  <2>2. PlanFee(PlanType, main) =
          (IF IsMultisig(info) THEN info.minApproval ELSE 1) + main.minApproval
    BY <1>9 DEF PlanFee
  <2>3. Cosignatures(plan') = Approvals(Main[node]) + Approvals(Provider) - 1
    BY <1>2, <1>9 DEF Cosignatures
  <2>4. (IF IsMultisig(info) THEN info.minApproval ELSE 1) = Approvals(Provider)
    BY <1>6, <1>9 DEF Approvals, Announcer, Actual, NotMultisig, IsMultisig
  <2>5. /\ main.minApproval >= Approvals(Main[node]) - 1
        /\ main.minApproval \in Int /\ Approvals(Main[node]) \in Int /\ Approvals(Provider) \in Int
    BY <1>3, <1>5, <1>9 DEF Approvals, Actual, NotMultisig, MultisigInfo
  <2> QED
    BY <1>2, <2>1, <2>2, <2>3, <2>4, <2>5
<1>10. CASE ~provided /\ IsMultisig(info)
  <2>1. info = m /\ IsMultisig(m)
    BY <1>6, <1>10 DEF Announcer, Actual, NotMultisig, IsMultisig
  <2>2. info.minApproval \in Int /\ Cosignatures(plan') = info.minApproval - 1
    BY <1>2, <1>5, <1>10, <2>1 DEF Cosignatures, Approvals, MultisigInfo
  <2>3. CASE Len(cosigners) >= info.minApproval
    <3>1. PlanType = "complete" /\ PlanFee(PlanType, main) = Len(cosigners) - 1
      BY <1>10, <2>3 DEF PlanType, PlanFee
    <3>2. /\ plan'.signatures = Range(cosigners)
          /\ plan'.signatures \cap m.cosigners = Range(cosigners)
      BY <1>2, <1>6, <1>8, <1>10, <2>1
    <3>3. Sufficient(plan')
      BY <1>2, <1>6, <1>7, <2>1, <2>3, <3>1, <3>2 DEF Sufficient, Threshold
    <3> QED
      BY <1>2, <1>6, <1>8, <1>10, <2>2, <2>3, <3>1, <3>3 DEF Acceptable
  <2>4. CASE ~(Len(cosigners) >= info.minApproval)
    <3>1. PlanType = "bonded" /\ PlanFee(PlanType, main) = info.minApproval
      BY <1>10, <2>4 DEF PlanType, PlanFee
    <3> QED
      BY <1>2, <2>2, <3>1
  <2> QED
    BY <2>3, <2>4
<1>11. CASE ~provided /\ ~IsMultisig(info)
  <2>1. ~IsMultisig(m) /\ Announcer(node) = Main[node]
    BY <1>6, <1>11 DEF Announcer, Actual, NotMultisig, IsMultisig
  <2>2. Range(cosigners) = {} /\ plan'.signatures = {Main[node]}
    BY <1>2, <1>6, <1>8, <1>11, <2>1 DEF IsMultisig
  <2>3. PlanType \in {"simple", "complete"} /\ PlanFee(PlanType, main) = 0
    BY <1>11 DEF PlanType, PlanFee
  <2>4. Cosignatures(plan') = 0
    BY <1>2, <1>11, <2>1 DEF Cosignatures, Approvals
  <2>5. Sufficient(plan')
    BY <1>2, <1>7, <2>1, <2>2 DEF Sufficient
  <2> QED
    BY <1>2, <1>6, <1>8, <1>11, <2>1, <2>3, <2>4, <2>5 DEF Acceptable
<1> QED
  BY <1>9, <1>10, <1>11

\* Acceptance and fees depend on nothing that changes while a plan waits.
LEMMA SameVerdict ==
    ASSUME UNCHANGED <<multisig, balance, provided, request, plan>>
    PROVE  /\ Cosignatures(plan)' = Cosignatures(plan)
           /\ Acceptable(plan)' = Acceptable(plan)
BY DEF Cosignatures, Approvals, Acceptable, Sufficient, Threshold, Funded

\* Every step keeps that.
LEMMA SignStep == OrderInv /\ ReadInv /\ SignInv /\ [Next]_vars => SignInv'
<1> SUFFICES ASSUME OrderInv, ReadInv, SignInv, [Next]_vars,
                    pc' \in Planned, ~Modifies', Right'
             PROVE  /\ plan'.fee >= Cosignatures(plan)'
                    /\ plan'.type # "bonded" => Acceptable(plan)'
  BY DEF SignInv
<1>1. CASE Sign
  <2>1. UNCHANGED <<multisig, balance, provided, request, changes, node>> /\ pc' # "next"
    BY <1>1 DEF Sign, chain, params, Planned
  <2>2. node \notin troubled /\ node \notin troubled' /\ Right /\ ~Modifies
    BY <1>1, <2>1 DEF Right, Sign, Modifies
  <2>3. plan'.fee >= Cosignatures(plan') /\ (plan'.type # "bonded" => Acceptable(plan'))
    BY <1>1, <2>1, <2>2, SignEnough
  <2>4. Cosignatures(plan)' = Cosignatures(plan') /\ Acceptable(plan)' = Acceptable(plan')
    BY <2>1 DEF Cosignatures, Approvals, Acceptable, Sufficient, Threshold, Funded
  <2> QED
    BY <2>3, <2>4
<1>2. ASSUME UNCHANGED <<multisig, balance, provided, request, plan, changes, node>>,
             pc \in Planned, node \notin troubled
      PROVE  /\ plan'.fee >= Cosignatures(plan)'
             /\ plan'.type # "bonded" => Acceptable(plan)'
  BY <1>2, SameVerdict DEF SignInv, Right, Modifies
<1>3. CASE ConfirmLock \/ ConfirmAggregate
  <2>1. UNCHANGED <<multisig, balance, provided, request, changes>>
    BY <1>3 DEF ConfirmLock, ConfirmAggregate, Confirm, chain, params
  <2> QED
    BY <1>2, <1>3, <2>1, Answer DEF Planned, Right
<1>4. CASE LockConfirmed
  BY <1>2, <1>4 DEF LockConfirmed, params, Planned, Right
<1>5. CASE DeadlinePasses
  BY <1>2, <1>5 DEF DeadlinePasses, params, Right
<1>6. CASE OtherChange
  <2>1. changes' # 0
    BY <1>6 DEF OtherChange, OrderInv, TypeOK
  <2> QED
    BY <2>1 DEF Right
<1>7. CASE UNCHANGED vars
  BY <1>2, <1>7 DEF vars, chain, params, Right
<1>8. CASE \/ VisitNode \/ CreateTransactions \/ LockFails \/ AggregateTaken
           \/ AggregateRefused \/ AggregateFails \/ Finish \/ Kill
  BY <1>8 DEF VisitNode, CreateTransactions, LockFails, AggregateTaken, AggregateRefused,
              AggregateFails, Finish, Kill, Planned
<1>9. ASSUME NEW a \in Accounts, EnterCosigner(a) PROVE FALSE
  BY <1>9 DEF EnterCosigner, Planned
<1> QED
  BY <1>1, <1>3, <1>4, <1>5, <1>6, <1>7, <1>8, <1>9 DEF Next

LEMMA SignHolds == Spec => [](OrderInv /\ ReadInv /\ SignInv)
<1>1. Init => ReadInv /\ SignInv
  BY DEF Init, ReadInv, SignInv, Working, Planned
<1> QED
  BY OrderInit, OrderStep, ReadStep, SignStep, <1>1, PTL DEF Spec

\* The fee of what `link` sends pays for every cosignature it needs.
THEOREM FeesAreEnough == Spec => []FeeCoversCosignatures
<1>1. SignInv => FeeCoversCosignatures
  BY DEF SignInv, FeeCoversCosignatures, Planned, Right
<1> QED
  BY SignHolds, <1>1, PTL

\* The network never refuses the signatures or the payer of what `link` sends,
\* unless the account changed or was misread.
THEOREM SignaturesAreEnough == Spec => SignedEnough
<1>1. OrderInv /\ SignInv =>
        [AggregateRefused => Modifies \/ changes > 0 \/ node \in troubled]_vars
  BY DEF OrderInv, TypeOK, SignInv, AggregateRefused, Planned, Right
<1> QED
  BY SignHolds, <1>1, PTL DEF SignedEnough
-----------------------------------------------------------------------------
(* One node's trouble is not another's.                                     *)

\* No two nodes have the same main account. With one account for two nodes, a
\* modification made through the second changes what the first was judged by.
DistinctMain == \A i, j \in Nodes : Main[i] = Main[j] => i = j

\* A node that has something to announce and can pay for it, and its trace.
Able(n) ==
    /\ pending[n] > 0 /\ Funded(Announcer(n))
    /\ \A a \in multisig[Announcer(n)].cosigners : Funded(a)
    /\ n \notin declined \cup troubled
Sent(n) == \E p \in partials \cup confirmed : p.node = n

\* The loop is through with node n.
Passed(n) == n < node \/ (n = node /\ pc \notin Working \cup Planned \cup {"threw"})

\* Every able node that the loop is through with is on the chain; with a
\* provider only bonded aggregates are made, and a key is entered before
\* signing for a multisig account.
SentInv ==
    /\ changes = 0 => \A n \in Nodes : Passed(n) /\ Able(n) => Sent(n)
    /\ pc = "done" => node = Len(Main)
    /\ pc \in Planned /\ provided => plan.type = "bonded"
    /\ pc = "sign" /\ IsMultisig(info) => cosigners # <<>>

\* Signing passes over an able node only after a failed read.
LEMMA PassedOver ==
    ASSUME OrderInv, ReadInv, SentInv, Sign, pc' = "next", changes = 0
    PROVE  ~Able(node)'
<1> SUFFICES ASSUME Able(node)' PROVE FALSE
  OBVIOUS
<1>1. /\ pc = "sign" /\ TypeOK /\ node \in Nodes
      /\ UNCHANGED <<multisig, balance, provided, pending, changes, node, info, cosigners,
                      declined>>
  BY DEF Sign, OrderInv, Placed, Working, chain, params
<1>2. PICK unread \in SUBSET Range(cosigners), main \in Reads(Main[node]) :
        /\ troubled' = IF unread # {} \/ (provided /\ main # Actual(Main[node]))
                       THEN troubled \cup {node} ELSE troubled
        /\ \/ Signers(unread) = {}
           \/ pc' \in {"confirmLock", "confirmAggregate"}
  BY DEF Sign
<1>3. node \notin troubled' /\ Signers(unread) = {}
  BY <1>1, <1>2 DEF Able
<1>4. unread = {} /\ node \notin troubled
  BY <1>2, <1>3
<1>5. /\ info = Actual(Announcer(node)) /\ Range(cosigners) \subseteq info.cosigners
      /\ \A a \in multisig[Announcer(node)].cosigners : Funded(a)
  BY <1>1, <1>4 DEF ReadInv, Right, Able, Announcer, Funded
<1>6. CASE ~IsMultisig(info)
  BY <1>3, <1>6 DEF Signers
<1>7. CASE IsMultisig(info)
  <2>1. 1 \in DOMAIN cosigners /\ cosigners \in Seq(Accounts)
    BY <1>1, <1>7 DEF SentInv, TypeOK
  <2>2. cosigners[1] \in info.cosigners
    BY <1>5, <2>1 DEF Range
  <2>3. info = multisig[Announcer(node)]
    BY <1>5, <1>7 DEF Actual, NotMultisig, IsMultisig
  <2>4. Funded(cosigners[1]) /\ cosigners[1] \notin unread /\ 1..(1 - 1) = {}
    BY <1>4, <1>5, <2>2, <2>3
  <2>5. cosigners[1] \in Signers(unread)
    BY <1>7, <2>1, <2>4 DEF Signers
  <2> QED
    BY <1>3, <2>5
<1> QED
  BY <1>6, <1>7

\* What an able node has been judged by does not change after it was passed.
LEMMA JudgedAlike ==
    ASSUME OrderInv, SentInv, DistinctMain, pc = "aggregate",
           Taken \/ UNCHANGED <<partials, confirmed, multisig>>,
           UNCHANGED <<balance, provided, pending, node, declined>>,
           troubled \subseteq troubled',
           NEW n \in Nodes, n # node, Able(n)'
    PROVE  Able(n)
<1>1. multisig'[Announcer(n)] = multisig[Announcer(n)]
  <2>1. CASE UNCHANGED multisig
    BY <2>1
  <2>2. CASE Taken /\ plan.type # "bonded"
    <3>1. ~provided /\ plan.node = node /\ node \in Nodes
      BY <2>2 DEF SentInv, Planned, OrderInv, Placed
    <3>2. Announcer(n) = Main[n] /\ Main[n] # Main[node]
      BY <3>1 DEF Announcer, DistinctMain
    <3>3. multisig \in [Accounts -> MultisigInfo] /\ Main[n] \in Accounts /\ Main[node] \in Accounts
      BY <3>1, AnnounceAssumption DEF OrderInv, TypeOK, Nodes
    <3> QED
      BY <2>2, <3>1, <3>2, <3>3 DEF Taken
  <2>3. CASE Taken /\ plan.type = "bonded"
    BY <2>3 DEF Taken
  <2> QED
    BY <2>1, <2>2, <2>3
<1> QED
  BY <1>1 DEF Able, Announcer, Funded

\* Every step keeps the nodes that the loop is through with on the chain.
LEMMA SentStep ==
    ASSUME DistinctMain
    PROVE  OrderInv /\ ReadInv /\ SentInv /\ [Next]_vars => SentInv'
<1> SUFFICES ASSUME OrderInv, ReadInv, SentInv, [Next]_vars PROVE SentInv'
  OBVIOUS
<1>0. TypeOK /\ Placed /\ node \in Nat /\ \A n \in Nodes : n \in Nat
  <2>1. TypeOK /\ Placed
    BY DEF OrderInv
  <2>2. \A n \in Nodes : n \in Nat
    BY DEF Nodes
  <2>3. node \in {0} \cup Nodes
    BY <2>1 DEF TypeOK
  <2> QED
    BY <2>1, <2>2, <2>3
<1>a. ASSUME NEW n \in Nodes, Sent(n) PROVE Sent(n)'
  BY <1>a, OnChainStep DEF Sent
<1>b. ASSUME UNCHANGED <<multisig, balance, provided, pending, declined>>,
             troubled \subseteq troubled', NEW n \in Nodes, Able(n)'
      PROVE  Able(n)
  BY <1>b DEF Able, Funded, Announcer
<1> USE DEF chain, params
<1>1. CASE VisitNode
  <2>1. /\ pc = "next" /\ node' = node + 1 /\ pc' \in {"next", "create"}
        /\ UNCHANGED <<multisig, balance, provided, pending, declined, changes>>
        /\ troubled \subseteq troubled'
    BY <1>1 DEF VisitNode
  <2>2. pc' = "next" => node' \in troubled' \/ ~Funded(Announcer(node'))
    BY <1>1 DEF VisitNode
  <2>3. ASSUME changes = 0, NEW n \in Nodes, Passed(n)', Able(n)' PROVE Sent(n)'
    <3>1. Able(n)
      BY <1>b, <2>1, <2>3
    <3>2. CASE n = node'
      <4>1. pc' = "next"
        BY <1>0, <2>1, <2>3, <3>2 DEF Passed, Working
      <4> QED
        BY <2>1, <2>2, <2>3, <3>1, <3>2, <4>1 DEF Able
    <3>3. CASE n # node'
      <4>1. Passed(n)
        BY <1>0, <2>1, <2>3, <3>3 DEF Passed, Working, Planned
      <4> QED
        BY <1>a, <2>3, <3>1, <4>1 DEF SentInv
    <3> QED
      BY <3>2, <3>3
  <2> QED
    BY <2>1, <2>3 DEF SentInv, Planned
<1>2. ASSUME UNCHANGED <<multisig, balance, provided, pending, changes, node>>,
             declined \subseteq declined', troubled \subseteq troubled',
             pc \in Working \cup Planned \cup {"next"},
             pc' \in Working \cup Planned \cup {"next", "killed", "threw", "done"},
             pc # "next" /\ changes = 0 /\ pc' \in {"next", "killed"} => ~Able(node)',
             pc = "next" => pc' \in {"killed", "done"},
             pc' = "done" => pc = "next" /\ node = Len(Main),
             pc' \in Planned /\ provided => plan'.type = "bonded",
             pc' = "sign" /\ IsMultisig(info') => cosigners' # <<>>
      PROVE  SentInv'
  <2>1. ASSUME changes = 0, NEW n \in Nodes, Passed(n)', Able(n)' PROVE Sent(n)'
    <3>1. Able(n)
      BY <1>2, <2>1 DEF Able, Funded, Announcer
    <3>2. CASE n < node \/ (n = node /\ pc = "next")
      <4>1. Passed(n)
        BY <3>2 DEF Passed, Working, Planned
      <4> QED
        BY <1>a, <2>1, <3>1, <4>1 DEF SentInv
    <3>3. CASE ~(n < node) /\ ~(n = node /\ pc = "next")
      <4>1. n = node /\ pc # "next" /\ pc' \in {"next", "killed"}
        BY <1>2, <2>1, <3>3 DEF Passed
      <4> QED
        BY <1>2, <2>1, <4>1
    <3> QED
      BY <3>2, <3>3
  <2> QED
    BY <1>2, <2>1 DEF SentInv
<1>3. CASE CreateTransactions
  <2>1. /\ pc = "create" /\ pc' \in {"threw", "next", "cosigners", "sign"}
        /\ UNCHANGED <<multisig, balance, provided, pending, changes, node, declined>>
        /\ troubled \subseteq troubled'
        /\ pc' = "next" => pending[node] = 0
        /\ pc' = "sign" => ~IsMultisig(info')
    BY <1>3 DEF CreateTransactions
  <2> QED
    BY <1>2, <2>1 DEF Able, Working, Planned
<1>4. ASSUME NEW a \in Accounts, EnterCosigner(a) PROVE SentInv'
  <2>1. cosigners' # <<>>
    BY <1>0, <1>4 DEF EnterCosigner, TypeOK
  <2>2. /\ pc = "cosigners" /\ pc' \in {"cosigners", "sign"}
        /\ UNCHANGED <<multisig, balance, provided, pending, changes, node, declined, troubled>>
    BY <1>4 DEF EnterCosigner
  <2> QED
    BY <1>2, <2>1, <2>2 DEF Working, Planned
<1>5. CASE Sign
  <2>1. /\ pc = "sign" /\ pc' \in {"next", "confirmLock", "confirmAggregate"}
        /\ UNCHANGED <<multisig, balance, provided, pending, changes, node, declined>>
        /\ troubled \subseteq troubled'
    BY <1>5 DEF Sign
  <2>2. pc' # "next" /\ provided => plan'.type = "bonded"
    BY <1>5 DEF Sign, PlanType
  <2> QED
    BY <1>2, <1>5, <2>1, <2>2, PassedOver DEF Working, Planned
<1>6. CASE ConfirmLock \/ ConfirmAggregate
  <2>1. UNCHANGED <<multisig, balance, provided, pending, changes, node, plan, troubled>>
    BY <1>6 DEF ConfirmLock, ConfirmAggregate, Confirm
  <2>2. /\ pc \in {"confirmLock", "confirmAggregate"} /\ declined \subseteq declined'
        /\ pc' \in {"confirmAggregate", "lock", "aggregate", "next"}
        /\ pc' = "next" => node \in declined'
    BY <1>6, Answer
  <2>3. pc' \in Planned /\ provided => plan'.type = "bonded"
    BY <2>1, <2>2 DEF SentInv, Planned
  <2> QED
    BY <1>2, <2>1, <2>2, <2>3 DEF Able, Working, Planned
<1>7. CASE LockConfirmed
  BY <1>2, <1>7 DEF LockConfirmed, SentInv, Working, Planned
<1>8. CASE LockFails
  BY <1>2, <1>8 DEF LockFails, Able, Working, Planned
<1>9. CASE AggregateTaken \/ AggregateFails
  <2>1. /\ pc = "aggregate" /\ pc' = "next"
        /\ Taken \/ UNCHANGED <<partials, confirmed, multisig>>
        /\ UNCHANGED <<balance, provided, pending, node, declined, changes>>
        /\ troubled \subseteq troubled'
    BY <1>9 DEF AggregateTaken, AggregateFails
  <2>2. ASSUME changes = 0, NEW n \in Nodes, Passed(n)', Able(n)' PROVE Sent(n)'
    <3>1. CASE n = node
      <4>1. Taken
        BY <1>9, <2>2, <3>1 DEF AggregateTaken, AggregateFails, Able
      <4>2. plan.node = node /\ plan \in partials' \cup confirmed'
        BY <1>0, <2>1, <4>1 DEF Taken, Placed, Planned
      <4> QED
        BY <3>1, <4>2 DEF Sent
    <3>2. CASE n # node
      <4>1. Passed(n)
        BY <2>1, <2>2, <3>2 DEF Passed
      <4>2. Able(n)
        BY <2>1, <2>2, <3>2, JudgedAlike
      <4> QED
        BY <1>a, <2>2, <4>1, <4>2 DEF SentInv
    <3> QED
      BY <3>1, <3>2
  <2> QED
    BY <2>1, <2>2 DEF SentInv, Planned
<1>10. CASE AggregateRefused
  BY <1>2, <1>10 DEF AggregateRefused, Able, Working, Planned
<1>11. CASE Finish
  BY <1>2, <1>11 DEF Finish, Working, Planned
<1>12. CASE Kill
  <2>1. pc \in Working \cup Planned \cup {"next"}
    BY <1>0, <1>12 DEF Kill, TypeOK, Working, Planned
  <2>2. pc # "next" => node \in troubled'
    BY <1>0, <1>12, <2>1 DEF Kill, Placed
  <2> QED
    BY <1>2, <1>12, <2>1, <2>2 DEF Kill, Able, Planned
<1>13. CASE DeadlinePasses \/ UNCHANGED vars
  BY <1>13 DEF DeadlinePasses, vars, SentInv, Passed, Able, Sent, Funded, Announcer
<1>14. CASE OtherChange
  <2>1. changes' # 0
    BY <1>0, <1>14 DEF OtherChange, TypeOK
  <2> QED
    BY <1>14, <2>1 DEF OtherChange, SentInv
<1> QED
  BY <1>1, <1>3, <1>4, <1>5, <1>6, <1>7, <1>8, <1>9, <1>10, <1>11, <1>12, <1>13, <1>14 DEF Next

\* When the loop ends, every node that had something to announce and could pay
\* for it is on the chain, unless it was declined or had trouble of its own:
\* for any number of nodes with main accounts of their own.
THEOREM NodesAreIndependent ==
    ASSUME DistinctMain
    PROVE  Spec => []NodesIndependent
<1>1. Init => SentInv
  BY AnnounceAssumption DEF Init, SentInv, Passed, Nodes, Planned
<1>2. OrderInv /\ SentInv => NodesIndependent
  <2> SUFFICES ASSUME OrderInv, SentInv, pc = "done", changes = 0, NEW n \in Nodes, Able(n)
               PROVE  Sent(n)
    BY DEF NodesIndependent, Able, Sent
  <2>1. n < node \/ n = node
    BY AnnounceAssumption DEF SentInv, Nodes
  <2> QED
    BY <2>1 DEF SentInv, Passed, Working, Planned
<1>3. OrderInv /\ ReadInv /\ SentInv /\ [Next]_vars => SentInv'
  BY SentStep
<1> QED
  BY SignHolds, <1>1, <1>2, <1>3, PTL DEF Spec
=============================================================================

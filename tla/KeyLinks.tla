------------------------------ MODULE KeyLinks ------------------------------
(***************************************************************************)
(* What `link` and `link --unlink` promise the owner of a main account: the *)
(* linked keys change at once, from one state that the network allows to    *)
(* another, and a key is given up only for one of the node's own. Prompts,  *)
(* loops, transactions and what a run has read are left out: LinkKeys       *)
(* implements this module.                                                  *)
(***************************************************************************)
EXTENDS Integers

CONSTANTS
    Links,        \* every link that may appear
    OwnKeys,      \* the node's remote and VRF keys
    Allowed(_)    \* the network's rules for the links of an account

VARIABLES
    account,  \* the links of the main account on the chain
    files,    \* the node's voting keys
    epoch,    \* the network's finalization epoch
    changes   \* changes of the account by somebody else, so far

vars == <<account, files, epoch, changes>>

\* k is of use for what l was: the same kind, or a voting key for the same epochs.
TakesPlace(k, l) ==
    /\ k.kind = l.kind
    /\ l.kind = "voting" => k.endEpoch >= l.startEpoch /\ k.startEpoch <= l.endEpoch

Expired(l) == l.kind = "voting" /\ l.endEpoch < epoch

Init ==
    /\ account \in SUBSET Links /\ Allowed(account)
    /\ files = {}
    /\ epoch \in Nat
    /\ changes = 0

\* Only the node's keys are added. What is given up has expired or is replaced.
LinkKeys ==
    /\ account' \ account \subseteq OwnKeys \cup files
    /\ \A l \in account \ account' :
         Expired(l) \/ \E k \in account' \cap (OwnKeys \cup files) : TakesPlace(k, l)

\* Nothing is added. What is given up is a voting key of the node, or of a kind
\* of which the node has a key.
UnlinkKeys ==
    /\ account' \subseteq account
    /\ \A l \in account \ account' : l \in files \/ \E k \in OwnKeys : k.kind = l.kind

\* A run that links or unlinks.
Run ==
    /\ LinkKeys \/ UnlinkKeys
    /\ Allowed(account')
    /\ UNCHANGED <<files, epoch, changes>>

\* Somebody else links or unlinks a key.
OtherChange ==
    /\ changes' = changes + 1
    /\ \E l \in Links : account' \in {account \cup {l}, account \ {l}}
    /\ Allowed(account')
    /\ UNCHANGED <<files, epoch>>

NewFile ==
    /\ \E f \in Links : f.kind = "voting" /\ files' = files \cup {f}
    /\ UNCHANGED <<account, epoch, changes>>

NetworkAdvances ==
    /\ epoch' = epoch + 1
    /\ UNCHANGED <<account, files, changes>>

Next == Run \/ OtherChange \/ NewFile \/ NetworkAdvances

Spec == Init /\ [][Next]_vars
=============================================================================

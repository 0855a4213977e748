--------------------------- MODULE VotingCoverage ---------------------------
(***************************************************************************)
(* What the voting key files promise a node: the epochs it has a key for.   *)
(*                                                                         *)
(* The network's epoch grows by one; the epochs of a node grow by a whole   *)
(* lifetime, from an epoch after all those it has that is either the next   *)
(* one or one the network has reached. Files, indexes, commands and crashes *)
(* are left out: VotingKeys implements this module.                         *)
(***************************************************************************)
EXTENDS Integers

CONSTANTS Nodes, Lifetime

VARIABLES
    epoch,   \* the network's finalization epoch
    covered  \* covered[n]: the epochs node n can vote in

vars == <<epoch, covered>>

Init ==
    /\ epoch \in Nat \ {0}
    /\ covered = [n \in Nodes |-> {}]

Advance ==
    /\ epoch' = epoch + 1
    /\ UNCHANGED covered

\* Where a file may start that comes after the epochs in mine.
Starts(mine) ==
    {from \in (1..epoch) \cup {e + 1 : e \in mine} : \A e \in mine : e < from}

\* Some epoch is gained, since a lifetime is not empty.
Extend(n) ==
    /\ covered' # covered
    /\ UNCHANGED epoch
    /\ LET mine == covered[n]
       IN  \E from \in Starts(mine) :
             covered' = [covered EXCEPT ![n] = mine \cup from..(from + Lifetime - 1)]

Next == Advance \/ \E n \in Nodes : Extend(n)

Spec == Init /\ [][Next]_vars

\* Below an epoch that is covered no epoch from the current one on is missing:
\* a node never stops voting and starts again before its last key has ended.
NoHoleAhead ==
    \A n \in Nodes : \A e \in covered[n] : epoch..e \subseteq covered[n]
=============================================================================

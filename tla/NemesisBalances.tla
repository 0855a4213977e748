--------------------------- MODULE NemesisBalances --------------------------
(***************************************************************************)
(* How the supply of one mosaic of a new network is distributed:            *)
(* AddressesService.processNemesisBalances, for one mosaic.                 *)
(*                                                                         *)
(* A request says what the preset asks for: the supply, the limit of a      *)
(* harvester's balance, the number of accounts to generate, the amounts of  *)
(* currencyDistributions and, for each node, its amount or Unasked.         *)
(* Amounts are not negative.                                                *)
(***************************************************************************)
EXTENDS Integers, Sequences

\* A node without a balance in the preset that is not excluded (those get 0).
Unasked == -1

\* A request that is refused: processNemesisBalances throws.
Refused == <<>>

\* sum
Total(amounts) ==
    LET upTo[k \in 0..Len(amounts)] == IF k = 0 THEN 0 ELSE upTo[k - 1] + amounts[k]
    IN  upTo[Len(amounts)]

\* The amounts that a filter lets through, in their order.
Chosen(amounts, filter) ==
    LET upTo[k \in 0..Len(amounts)] ==
            IF k = 0 THEN <<>>
            ELSE IF amounts[k] \in filter THEN Append(upTo[k - 1], amounts[k])
            ELSE upTo[k - 1]
    IN  upTo[Len(amounts)]

Smaller(a, b) == IF a < b THEN a ELSE b

Positive == Nat \ {0}

\* What a request says; a harvester that may hold nothing could not harvest.
BalancesRequest ==
    [supply : Nat, maxHarvesterBalance : Positive, accounts : Nat, fixed : Seq(Nat),
     nodes : Seq(Nat \cup {Unasked})]

\* providedDistributions: the fixed ones, then those of the nodes.
ProvidedAmounts(request) == request.fixed \o Chosen(request.nodes, Nat)

\* nodeMainAccounts: the nodes that share what is left.
Sharing(request) == Chosen(request.nodes, {Unasked})

DynamicAccounts(request) == request.accounts + Len(Sharing(request))

Remaining(request) == request.supply - Total(ProvidedAmounts(request))

\* amountPerAccount; with no dynamic account nobody gets it.
AmountPerAccount(request) ==
    IF DynamicAccounts(request) = 0 THEN 0
    ELSE Remaining(request) \div DynamicAccounts(request)

GeneratedAccounts(request) ==
    [i \in 1..DynamicAccounts(request) |->
        IF i <= request.accounts THEN AmountPerAccount(request)
        ELSE Smaller(request.maxHarvesterBalance, AmountPerAccount(request))]

\* Mutant: the remainder is what the provided amounts leave.
FirstAmountWhole(request) == Remaining(request)

\* The amount that closes the sum, given to the first distribution.
FirstAmount(request) ==
    Remaining(request) -
        (IF DynamicAccounts(request) = 0 THEN 0 ELSE Total(Tail(GeneratedAccounts(request))))

\* currencyDistributions: zero amounts are left out, the first one that
\* remains is overwritten, and the sum must then be the supply.
Distribution(request) ==
    LET positive == Chosen(GeneratedAccounts(request) \o ProvidedAmounts(request), Positive)
        closed == [positive EXCEPT ![1] = FirstAmount(request)]
    IN  IF Remaining(request) < 0 \/ positive = <<>> THEN Refused
        ELSE IF FirstAmount(request) < 0 \/ Total(closed) # request.supply THEN Refused
        ELSE closed

-----------------------------------------------------------------------------
\* The request can be met: every account that shares the rest gets something.
Feasible(request) ==
    /\ DynamicAccounts(request) > 0
    /\ Remaining(request) >= DynamicAccounts(request)

\* What is distributed: the whole supply, the amounts that were asked for to
\* whom they were asked for, and no harvester above its limit if there are
\* other accounts to take the rest.
AsAsked(request, given) ==
    LET dynamic == DynamicAccounts(request)
    IN  /\ Total(given) = request.supply
        /\ SubSeq(given, dynamic + 1, Len(given)) = Chosen(ProvidedAmounts(request), Positive)
        /\ request.accounts > 0 =>
             \A i \in (request.accounts + 1)..dynamic : given[i] <= request.maxHarvesterBalance
=============================================================================

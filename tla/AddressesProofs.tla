-------------------------- MODULE AddressesProofs ---------------------------
(***************************************************************************)
(* Proofs about Addresses, for all node kinds, custom presets, passwords,   *)
(* balances and numbers of key generations. The inductive invariant says    *)
(* where every key in a file or in memory comes from: it is the user's own, *)
(* addresses.yml has stored it, or it is about to.                          *)
(***************************************************************************)
EXTENDS Addresses, SequenceTheorems, WellFoundedInduction, TLAPS

(***************************************************************************)
(* The balances of a new network, for every request. Induction over data:   *)
(* WFMin of the library, which takes no operator, gives it for sets, and a  *)
(* set of sequences stands for what is to be proved of each.                *)
(***************************************************************************)

\* Induction over the natural numbers, for a set.
LEMMA Induct ==
    ASSUME NEW S, 0 \in S, \A n \in Nat : n \in S => n + 1 \in S
    PROVE  Nat \subseteq S
<1> SUFFICES ASSUME Nat \ S # {} PROVE FALSE
  OBVIOUS
<1> DEFINE R == OpToRel(<, Nat)
           T == Nat \ S
<1>1. IsWellFoundedOn(R, Nat)
  BY NatLessThanWellFounded
<1>2. T \subseteq Nat /\ T # {}
  OBVIOUS
<1>3. \A x, y \in Nat : x < y => <<x, y>> \in R
  BY DEF OpToRel
<1> HIDE DEF R, T
<1>4. PICK x \in T : \A y \in T : <<y, x>> \notin R
  BY <1>1, <1>2, WFMin
<1>5. x \in Nat /\ x # 0 /\ x - 1 \in Nat /\ x - 1 < x
  BY <1>4 DEF T
<1>6. x - 1 \notin T
  BY <1>3, <1>4, <1>5, <1>2
<1>7. x - 1 \in S /\ (x - 1) + 1 = x
  BY <1>5, <1>6 DEF T
<1> QED
  BY <1>4, <1>5, <1>7 DEF T

\* Induction over sequences, for a set.
LEMMA InductSeq ==
    ASSUME NEW T, NEW S, <<>> \in S,
           \A s \in Seq(T) : \A x \in T : s \in S => Append(s, x) \in S
    PROVE  Seq(T) \subseteq S
<1> DEFINE N == {n \in Nat : \A s \in Seq(T) : Len(s) = n => s \in S}
<1>1. 0 \in N
  OBVIOUS
<1>2. ASSUME NEW n \in Nat, n \in N PROVE n + 1 \in N
  <2> SUFFICES ASSUME NEW s \in Seq(T), Len(s) = n + 1 PROVE s \in S
    OBVIOUS
  <2> DEFINE front == SubSeq(s, 1, n)
  <2>1. front \in Seq(T) /\ Len(front) = n /\ s[n + 1] \in T
    OBVIOUS
  <2>2. s = Append(front, s[n + 1])
    BY <2>1
  <2> QED
    BY <1>2, <2>1, <2>2
<1> HIDE DEF N
<1>3. Nat \subseteq N
  BY <1>1, <1>2, Induct
<1> QED
  BY <1>3 DEF N

\* What repeats a step from a start, up to n times.
Iterations(V, start, n, step) ==
    {f \in [0..n -> V] : f[0] = start /\ \A k \in 1..n : f[k] = step[k][f[k - 1]]}

\* A recursion over the prefixes of a sequence defines a function.
LEMMA Recursion ==
    ASSUME NEW V, NEW start \in V, NEW n \in Nat, NEW step \in [1..n -> [V -> V]]
    PROVE  Iterations(V, start, n, step) # {}
<1> DEFINE Upto(m) == Iterations(V, start, m, step)
           N == {m \in Nat : m <= n => Upto(m) # {}}
<1> USE DEF Iterations
<1>1. 0 \in N
  <2> DEFINE f == [k \in 0..0 |-> start]
  <2>1. f \in Upto(0)
    OBVIOUS
  <2> QED
    BY <2>1
<1>2. ASSUME NEW m \in Nat, m \in N PROVE m + 1 \in N
  <2> SUFFICES ASSUME m + 1 <= n PROVE Upto(m + 1) # {}
    OBVIOUS
  <2>1. PICK f \in Upto(m) : TRUE
    BY <1>2
  <2> DEFINE g == [k \in 0..(m + 1) |-> IF k = m + 1 THEN step[k][f[m]] ELSE f[k]]
  <2>2. f \in [0..m -> V] /\ f[0] = start /\ \A k \in 1..m : f[k] = step[k][f[k - 1]]
    BY <2>1
  <2>3. g \in [0..(m + 1) -> V]
    <3>1. step[m + 1] \in [V -> V] /\ f[m] \in V
      BY <2>2
    <3> QED
      BY <2>2, <3>1
  <2>4. g[0] = start /\ \A k \in 1..(m + 1) : g[k] = step[k][g[k - 1]]
    BY <2>2
  <2>5. g \in Upto(m + 1)
    BY <2>3, <2>4
  <2> QED
    BY <2>5
<1> HIDE DEF N
<1>3. n \in N
  BY <1>1, <1>2, Induct
<1> QED
  BY <1>3 DEF N

\* The partial sums of amounts.
LEMMA TotalRecursion ==
    ASSUME NEW s \in Seq(Nat)
    PROVE  \E f \in [0..Len(s) -> Nat] :
              /\ Total(s) = f[Len(s)]
              /\ f[0] = 0
              /\ \A k \in 1..Len(s) : f[k] = f[k - 1] + s[k]
<1> DEFINE Def(f) == f = [k \in 0..Len(s) |-> IF k = 0 THEN 0 ELSE f[k - 1] + s[k]]
           step == [k \in 1..Len(s) |-> [v \in Nat |-> v + s[k]]]
<1>1. Len(s) \in Nat /\ \A k \in 1..Len(s) : s[k] \in Nat /\ k - 1 \in 0..Len(s)
  OBVIOUS
<1>2. step \in [1..Len(s) -> [Nat -> Nat]]
  BY <1>1
<1>3. \A k \in 1..Len(s) : \A v \in Nat : step[k][v] = v + s[k]
  OBVIOUS
<1>4. PICK f \in [0..Len(s) -> Nat] :
          f[0] = 0 /\ \A k \in 1..Len(s) : f[k] = step[k][f[k - 1]]
  <2> DEFINE V == Nat
             start == 0
             n == Len(s)
  <2>1. start \in V /\ n \in Nat /\ step \in [1..n -> [V -> V]]
    BY <1>1, <1>2
  <2> HIDE DEF step, start, n, V, Def
  <2>2. Iterations(V, start, n, step) # {}
    BY <2>1, Recursion
  <2> QED
    BY <2>2 DEF Iterations, start, n, V
<1> HIDE DEF step
<1>5. \A k \in 1..Len(s) : f[k] = f[k - 1] + s[k]
  BY <1>1, <1>3, <1>4
<1>6. Def(f)
  BY <1>1, <1>4, <1>5
<1> DEFINE g == CHOOSE g : Def(g)
<1>7. Def(g) /\ Total(s) = g[Len(s)]
  BY <1>6 DEF Total
<1> HIDE DEF g
<1>8. g[0] = 0 /\ \A k \in 1..Len(s) : g[k] = g[k - 1] + s[k]
  <2>1. \A k \in 0..Len(s) : g[k] = IF k = 0 THEN 0 ELSE g[k - 1] + s[k]
    BY <1>7
  <2> QED
    BY <1>1, <2>1
<1>9. \A k \in 0..Len(s) : g[k] \in Nat
  <2> DEFINE N == {n \in Nat : n <= Len(s) => g[n] \in Nat}
  <2>1. 0 \in N
    BY <1>8
  <2>2. \A n \in Nat : n \in N => n + 1 \in N
    BY <1>1, <1>8
  <2> HIDE DEF N
  <2>3. Nat \subseteq N
    BY <2>1, <2>2, Induct
  <2> QED
    BY <1>1, <2>3 DEF N
<1>10. g \in [0..Len(s) -> Nat]
  BY <1>7, <1>9
<1> QED
  BY <1>7, <1>8, <1>10

\* Sums of amounts, one amount at a time.
LEMMA TotalNothing == Total(<<>>) = 0
<1> DEFINE s == <<>>
<1>1. s \in Seq(Nat) /\ Len(s) = 0
  OBVIOUS
<1> HIDE DEF s
<1>2. Total(s) = 0
  BY <1>1, TotalRecursion
<1> QED
  BY <1>2 DEF s

LEMMA TotalNat ==
    ASSUME NEW s \in Seq(Nat)
    PROVE  Total(s) \in Nat
<1>1. Len(s) \in 0..Len(s)
  OBVIOUS
<1> QED
  BY <1>1, TotalRecursion

LEMMA TotalAppend ==
    ASSUME NEW s \in Seq(Nat), NEW x \in Nat
    PROVE  Total(Append(s, x)) = Total(s) + x
<1> DEFINE t == Append(s, x)
<1>1. /\ t \in Seq(Nat) /\ Len(t) = Len(s) + 1 /\ t[Len(s) + 1] = x
      /\ \A k \in 1..Len(s) : t[k] = s[k]
  OBVIOUS
<1> HIDE DEF t
<1>2. PICK f \in [0..Len(s) -> Nat] :
            /\ Total(s) = f[Len(s)]
            /\ f[0] = 0
            /\ \A k \in 1..Len(s) : f[k] = f[k - 1] + s[k]
  BY TotalRecursion
<1>3. PICK g \in [0..Len(t) -> Nat] :
            /\ Total(t) = g[Len(t)]
            /\ g[0] = 0
            /\ \A k \in 1..Len(t) : g[k] = g[k - 1] + t[k]
  BY <1>1, TotalRecursion
<1> DEFINE N == {n \in Nat : n <= Len(s) => f[n] = g[n]}
<1>4. 0 \in N
  BY <1>2, <1>3
<1>5. \A n \in Nat : n \in N => n + 1 \in N
  BY <1>1, <1>2, <1>3
<1> HIDE DEF N
<1>6. Nat \subseteq N
  BY <1>4, <1>5, Induct
<1>7. f[Len(s)] = g[Len(s)]
  BY <1>6 DEF N
<1>8. Len(s) + 1 \in 1..Len(t) /\ (Len(s) + 1) - 1 = Len(s)
  BY <1>1
<1>9. g[Len(s) + 1] = g[Len(s)] + x
  BY <1>1, <1>3, <1>8
<1>10. Total(t) = Total(s) + x
  BY <1>1, <1>2, <1>3, <1>7, <1>9
<1> QED
  BY <1>10 DEF t

\* What a filter lets through of the first amounts.
Filterings(T, filter, s) ==
    {f \in [0..Len(s) -> Seq(T)] :
        /\ f[0] = <<>>
        /\ \A k \in 1..Len(s) :
             f[k] = IF s[k] \in filter THEN Append(f[k - 1], s[k]) ELSE f[k - 1]}

LEMMA ChosenRecursion ==
    ASSUME NEW T, NEW filter, NEW s \in Seq(T)
    PROVE  \E f \in Filterings(T, filter, s) : Chosen(s, filter) = f[Len(s)]
<1> DEFINE Step(k, v) == IF s[k] \in filter THEN Append(v, s[k]) ELSE v
           Def(f) == f = [k \in 0..Len(s) |-> IF k = 0 THEN <<>> ELSE Step(k, f[k - 1])]
           step == [k \in 1..Len(s) |-> [v \in Seq(T) |-> Step(k, v)]]
<1>1. Len(s) \in Nat /\ \A k \in 1..Len(s) : s[k] \in T /\ k - 1 \in 0..Len(s)
  OBVIOUS
<1>2. \A k \in 1..Len(s) : \A v \in Seq(T) : Step(k, v) \in Seq(T)
  BY <1>1
<1>3. Chosen(s, filter) = (CHOOSE g : Def(g))[Len(s)]
  BY DEF Chosen
<1> HIDE DEF Step
<1>4. step \in [1..Len(s) -> [Seq(T) -> Seq(T)]]
  BY <1>2
<1>5. \A k \in 1..Len(s) : \A v \in Seq(T) : step[k][v] = Step(k, v)
  OBVIOUS
<1>6. PICK f \in [0..Len(s) -> Seq(T)] :
          f[0] = <<>> /\ \A k \in 1..Len(s) : f[k] = step[k][f[k - 1]]
  <2> DEFINE V == Seq(T)
             start == <<>>
             n == Len(s)
  <2>1. start \in V /\ n \in Nat /\ step \in [1..n -> [V -> V]]
    BY <1>1, <1>4
  <2> HIDE DEF step, start, n, V, Def
  <2>2. Iterations(V, start, n, step) # {}
    BY <2>1, Recursion
  <2> QED
    BY <2>2 DEF Iterations, start, n, V
<1> HIDE DEF step
<1>7. \A k \in 1..Len(s) : f[k] = Step(k, f[k - 1])
  BY <1>1, <1>5, <1>6
<1>8. Def(f)
  BY <1>1, <1>6, <1>7
<1> DEFINE g == CHOOSE g : Def(g)
<1>9. Def(g)
  BY <1>8
<1> HIDE DEF g
<1>10. g[0] = <<>> /\ \A k \in 1..Len(s) : g[k] = Step(k, g[k - 1])
  <2>1. \A k \in 0..Len(s) : g[k] = IF k = 0 THEN <<>> ELSE Step(k, g[k - 1])
    BY <1>9
  <2> QED
    BY <1>1, <2>1
<1>11. \A k \in 0..Len(s) : g[k] \in Seq(T)
  <2> DEFINE N == {n \in Nat : n <= Len(s) => g[n] \in Seq(T)}
  <2>1. 0 \in N
    BY <1>10, EmptySeq
  <2>2. \A n \in Nat : n \in N => n + 1 \in N
    BY <1>1, <1>2, <1>10
  <2> HIDE DEF N
  <2>3. Nat \subseteq N
    BY <2>1, <2>2, Induct
  <2> QED
    BY <1>1, <2>3 DEF N
<1>12. g \in [0..Len(s) -> Seq(T)]
  BY <1>9, <1>11
<1> QED
  BY <1>3, <1>10, <1>12 DEF g, Step, Filterings

\* What a filter lets through, one amount at a time.
LEMMA ChosenNothing ==
    ASSUME NEW filter
    PROVE  Chosen(<<>>, filter) = <<>>
<1> DEFINE s == <<>>
<1>1. s \in Seq({}) /\ Len(s) = 0
  OBVIOUS
<1> HIDE DEF s
<1>2. PICK f \in Filterings({}, filter, s) : Chosen(s, filter) = f[Len(s)]
  BY <1>1, ChosenRecursion
<1> QED
  BY <1>1, <1>2 DEF s, Filterings

LEMMA ChosenSeq ==
    ASSUME NEW T, NEW filter, NEW s \in Seq(T)
    PROVE  Chosen(s, filter) \in Seq(T)
<1>1. Len(s) \in 0..Len(s)
  OBVIOUS
<1> QED
  BY <1>1, ChosenRecursion DEF Filterings

LEMMA ChosenAppend ==
    ASSUME NEW T, NEW filter, NEW s \in Seq(T), NEW x \in T
    PROVE  Chosen(Append(s, x), filter) =
              IF x \in filter THEN Append(Chosen(s, filter), x) ELSE Chosen(s, filter)
<1> DEFINE t == Append(s, x)
<1>1. /\ t \in Seq(T) /\ Len(t) = Len(s) + 1 /\ t[Len(s) + 1] = x
      /\ \A k \in 1..Len(s) : t[k] = s[k]
      /\ Len(s) \in Nat
  OBVIOUS
<1> HIDE DEF t
<1>2. PICK f \in Filterings(T, filter, s) : Chosen(s, filter) = f[Len(s)]
  BY ChosenRecursion
<1>3. PICK g \in Filterings(T, filter, t) : Chosen(t, filter) = g[Len(t)]
  BY <1>1, ChosenRecursion
<1> USE DEF Filterings
<1> DEFINE N == {n \in Nat : n <= Len(s) => f[n] = g[n]}
<1>4. 0 \in N
  BY <1>2, <1>3
<1>5. ASSUME NEW n \in Nat, n \in N PROVE n + 1 \in N
  <2> SUFFICES ASSUME n + 1 <= Len(s) PROVE f[n + 1] = g[n + 1]
    OBVIOUS
  <2>1. n + 1 \in 1..Len(s) /\ n + 1 \in 1..Len(t) /\ (n + 1) - 1 = n /\ f[n] = g[n]
    BY <1>1, <1>5
  <2>2. f[n + 1] = IF s[n + 1] \in filter THEN Append(f[n], s[n + 1]) ELSE f[n]
    BY <1>2, <2>1
  <2>3. g[n + 1] = IF t[n + 1] \in filter THEN Append(g[n], t[n + 1]) ELSE g[n]
    BY <1>3, <2>1
  <2> QED
    BY <1>1, <2>1, <2>2, <2>3
<1> HIDE DEF N
<1>6. Nat \subseteq N
  BY <1>4, <1>5, Induct
<1>7. f[Len(s)] = g[Len(s)]
  BY <1>1, <1>6 DEF N
<1> QED
  BY <1>1, <1>2, <1>3, <1>7 DEF t

\* Sums and filters of concatenations.
LEMMA AppendToConcat ==
    ASSUME NEW T, NEW s \in Seq(T), NEW t \in Seq(T), NEW x \in T
    PROVE  /\ s \o Append(t, x) = Append(s \o t, x)
           /\ s \o t \in Seq(T) /\ Append(t, x) \in Seq(T)
  OBVIOUS

LEMMA TotalConcat ==
    ASSUME NEW s \in Seq(Nat), NEW t \in Seq(Nat)
    PROVE  Total(s \o t) = Total(s) + Total(t)
<1> DEFINE S == {u \in Seq(Nat) : Total(s \o u) = Total(s) + Total(u)}
<1>1. <<>> \in S
  <2>1. s \o <<>> = s /\ <<>> \in Seq(Nat)
    BY EmptySeq
  <2> QED
    BY <2>1, TotalNothing, TotalNat
<1>2. ASSUME NEW u \in Seq(Nat), NEW x \in Nat, u \in S PROVE Append(u, x) \in S
  <2>1. /\ s \o Append(u, x) = Append(s \o u, x)
        /\ s \o u \in Seq(Nat) /\ Append(u, x) \in Seq(Nat)
    OBVIOUS
  <2>2. Total(Append(s \o u, x)) = Total(s \o u) + x
    BY <2>1, TotalAppend
  <2>3. Total(Append(u, x)) = Total(u) + x /\ Total(u) \in Nat /\ Total(s) \in Nat
    BY TotalAppend, TotalNat
  <2>4. Total(s \o Append(u, x)) = Total(s \o u) + x
    BY <2>1, <2>2, Zenon
  <2>5. Total(s \o u) = Total(s) + Total(u)
    BY <1>2
  <2>6. Total(s \o Append(u, x)) = Total(s) + Total(Append(u, x))
    BY <2>3, <2>4, <2>5
  <2> QED
    BY <2>1, <2>6
<1> HIDE DEF S
<1>3. Seq(Nat) \subseteq S
  BY <1>1, <1>2, InductSeq
<1> QED
  BY <1>3 DEF S

\* Amounts that share the rest are, together, no more than it.
LEMMA TotalAtMost ==
    ASSUME NEW a \in Nat, NEW s \in Seq(0..a)
    PROVE  Total(s) <= Len(s) * a
<1> DEFINE S == {u \in Seq(0..a) : Total(u) <= Len(u) * a}
<1>1. <<>> \in S
  BY TotalNothing, EmptySeq
<1>2. ASSUME NEW u \in Seq(0..a), NEW x \in 0..a, u \in S PROVE Append(u, x) \in S
  <2>1. /\ u \in Seq(Nat) /\ x \in Nat /\ Len(u) \in Nat
        /\ Append(u, x) \in Seq(0..a) /\ Len(Append(u, x)) = Len(u) + 1
    OBVIOUS
  <2>2. (Len(u) + 1) * a = Len(u) * a + a
    BY <2>1
  <2>3. Total(u) \in Nat /\ Total(Append(u, x)) = Total(u) + x
    BY <2>1, TotalNat, TotalAppend
  <2>4. Len(u) * a \in Nat
    BY <2>1
  <2>5. Total(u) <= Len(u) * a /\ x <= a
    BY <1>2
  <2>6. Total(Append(u, x)) <= Len(Append(u, x)) * a
    BY <2>1, <2>2, <2>3, <2>4, <2>5
  <2> QED
    BY <2>1, <2>6
<1> HIDE DEF S
<1>3. Seq(0..a) \subseteq S
  BY <1>1, <1>2, InductSeq
<1> QED
  BY <1>3 DEF S

\* The first amount and the others.
LEMMA TotalFirst ==
    ASSUME NEW s \in Seq(Nat), s # <<>>, NEW x \in Nat
    PROVE  /\ s[1] \in Nat
           /\ Total(s) = s[1] + Total(Tail(s))
           /\ Total([s EXCEPT ![1] = x]) = x + Total(Tail(s))
<1>1. ASSUME NEW y \in Nat PROVE Total(<<y>>) = y
  <2> DEFINE none == <<>>
  <2>1. <<y>> = Append(none, y) /\ none \in Seq(Nat)
    BY EmptySeq
  <2>2. Total(none) = 0
    BY TotalNothing
  <2> HIDE DEF none
  <2>3. Total(Append(none, y)) = Total(none) + y
    BY <2>1, TotalAppend
  <2>4. Total(<<y>>) = Total(none) + y
    BY <2>1, <2>3, Zenon
  <2> QED
    BY <2>2, <2>4
<1>2. /\ s[1] \in Nat /\ Tail(s) \in Seq(Nat) /\ <<x>> \in Seq(Nat) /\ <<s[1]>> \in Seq(Nat)
      /\ s = <<s[1]>> \o Tail(s) /\ [s EXCEPT ![1] = x] = <<x>> \o Tail(s)
  OBVIOUS
<1>3. ASSUME NEW y \in Nat PROVE Total(<<y>> \o Tail(s)) = y + Total(Tail(s))
  <2> DEFINE one == <<y>>
             rest == Tail(s)
  <2>1. one \in Seq(Nat) /\ rest \in Seq(Nat) /\ Total(one) = y
    BY <1>1, <1>2
  <2> HIDE DEF one, rest
  <2>2. Total(one \o rest) = y + Total(rest)
    BY <2>1, TotalConcat
  <2> QED
    BY <2>2 DEF one, rest
<1>4. /\ Total(s) = Total(<<s[1]>> \o Tail(s))
      /\ Total([s EXCEPT ![1] = x]) = Total(<<x>> \o Tail(s))
  BY <1>2, Zenon
<1> QED
  BY <1>2, <1>3, <1>4

\* A filter on amounts that it lets through, and on amounts that it does not.
LEMMA ChosenAllOrNone ==
    ASSUME NEW T, NEW filter
    PROVE  /\ T \subseteq filter => \A s \in Seq(T) : Chosen(s, filter) = s
           /\ T \cap filter = {} => \A s \in Seq(T) : Chosen(s, filter) = <<>>
<1>1. ASSUME T \subseteq filter, NEW s \in Seq(T) PROVE Chosen(s, filter) = s
  <2> DEFINE S == {u \in Seq(T) : Chosen(u, filter) = u}
  <2>1. <<>> \in S
    BY ChosenNothing, EmptySeq
  <2>2. ASSUME NEW u \in Seq(T), NEW x \in T, u \in S PROVE Append(u, x) \in S
    <3>1. x \in filter /\ Append(u, x) \in Seq(T) /\ Chosen(u, filter) = u
      BY <1>1, <2>2
    <3>2. Chosen(Append(u, x), filter) = Append(Chosen(u, filter), x)
      BY <3>1, ChosenAppend
    <3> QED
      BY <3>1, <3>2
  <2> HIDE DEF S
  <2>3. Seq(T) \subseteq S
    BY <2>1, <2>2, InductSeq
  <2> QED
    BY <2>3 DEF S
<1>2. ASSUME T \cap filter = {}, NEW s \in Seq(T) PROVE Chosen(s, filter) = <<>>
  <2> DEFINE S == {u \in Seq(T) : Chosen(u, filter) = <<>>}
  <2>1. <<>> \in S
    BY ChosenNothing, EmptySeq
  <2>2. ASSUME NEW u \in Seq(T), NEW x \in T, u \in S PROVE Append(u, x) \in S
    <3>1. x \notin filter /\ Append(u, x) \in Seq(T) /\ Chosen(u, filter) = <<>>
      BY <1>2, <2>2
    <3>2. Chosen(Append(u, x), filter) = Chosen(u, filter)
      BY <3>1, ChosenAppend
    <3> QED
      BY <3>1, <3>2
  <2> HIDE DEF S
  <2>3. Seq(T) \subseteq S
    BY <2>1, <2>2, InductSeq
  <2> QED
    BY <2>3 DEF S
<1> QED
  BY <1>1, <1>2

\* What a filter lets through satisfies it.
LEMMA ChosenIn ==
    ASSUME NEW T, NEW filter, NEW s \in Seq(T)
    PROVE  Chosen(s, filter) \in Seq(T \cap filter)
<1> DEFINE S == {u \in Seq(T) : Chosen(u, filter) \in Seq(T \cap filter)}
<1>1. <<>> \in S
  BY ChosenNothing, EmptySeq
<1>2. ASSUME NEW u \in Seq(T), NEW x \in T, u \in S PROVE Append(u, x) \in S
  <2>1. Chosen(u, filter) \in Seq(T \cap filter) /\ Append(u, x) \in Seq(T)
    BY <1>2
  <2>2. CASE x \in filter
    <3>1. Chosen(Append(u, x), filter) = Append(Chosen(u, filter), x)
      BY <2>2, ChosenAppend
    <3>2. x \in T \cap filter
      BY <2>2
    <3> DEFINE U == T \cap filter
    <3> HIDE DEF U
    <3>3. Append(Chosen(u, filter), x) \in Seq(U)
      BY <2>1, <3>2 DEF U
    <3> QED
      BY <2>1, <3>1, <3>3 DEF U
  <2>3. CASE x \notin filter
    <3>1. Chosen(Append(u, x), filter) = Chosen(u, filter)
      BY <2>3, ChosenAppend
    <3> QED
      BY <2>1, <3>1
  <2> QED
    BY <2>2, <2>3
<1> HIDE DEF S
<1>3. Seq(T) \subseteq S
  BY <1>1, <1>2, InductSeq
<1> QED
  BY <1>3 DEF S

LEMMA ChosenConcat ==
    ASSUME NEW T, NEW filter, NEW s \in Seq(T), NEW t \in Seq(T)
    PROVE  Chosen(s \o t, filter) = Chosen(s, filter) \o Chosen(t, filter)
<1> DEFINE S == {u \in Seq(T) : Chosen(s \o u, filter) = Chosen(s, filter) \o Chosen(u, filter)}
<1>1. <<>> \in S
  <2>1. s \o <<>> = s /\ <<>> \in Seq(T)
    BY EmptySeq
  <2>2. Chosen(s, filter) \in Seq(T) /\ Chosen(<<>>, filter) = <<>>
    BY ChosenSeq, ChosenNothing
  <2> QED
    BY <2>1, <2>2
<1>2. ASSUME NEW u \in Seq(T), NEW x \in T, u \in S PROVE Append(u, x) \in S
  <2>1. /\ s \o Append(u, x) = Append(s \o u, x)
        /\ s \o u \in Seq(T) /\ Append(u, x) \in Seq(T)
    OBVIOUS
  <2>2. Chosen(s, filter) \in Seq(T) /\ Chosen(u, filter) \in Seq(T)
    BY ChosenSeq
  <2>3. Chosen(s \o u, filter) = Chosen(s, filter) \o Chosen(u, filter)
    BY <1>2
  <2>4. Chosen(s \o Append(u, x), filter) = Chosen(Append(s \o u, x), filter)
    BY <2>1, Zenon
  <2>5. Chosen(s \o Append(u, x), filter) = Chosen(s, filter) \o Chosen(Append(u, x), filter)
    <3>1. CASE x \in filter
      <4>1. /\ Chosen(Append(u, x), filter) = Append(Chosen(u, filter), x)
            /\ Chosen(Append(s \o u, x), filter) = Append(Chosen(s \o u, filter), x)
        BY <2>1, <3>1, ChosenAppend, Zenon
      <4>2. Append(Chosen(s, filter) \o Chosen(u, filter), x) =
               Chosen(s, filter) \o Append(Chosen(u, filter), x)
        <5> DEFINE a == Chosen(s, filter)
                   b == Chosen(u, filter)
        <5>1. a \in Seq(T) /\ b \in Seq(T)
          BY <2>2
        <5> HIDE DEF a, b
        <5>2. a \o Append(b, x) = Append(a \o b, x)
          BY <5>1, AppendToConcat
        <5> QED
          BY <5>2 DEF a, b
      <4> QED
        BY <2>3, <2>4, <4>1, <4>2, Zenon
    <3>2. CASE x \notin filter
      <4>1. /\ Chosen(Append(u, x), filter) = Chosen(u, filter)
            /\ Chosen(Append(s \o u, x), filter) = Chosen(s \o u, filter)
        <5>1. Chosen(Append(u, x), filter) = Chosen(u, filter)
          BY <3>2, ChosenAppend
        <5>2. Chosen(Append(s \o u, x), filter) = Chosen(s \o u, filter)
          <6> DEFINE v == s \o u
          <6>1. v \in Seq(T)
            BY <2>1
          <6> HIDE DEF v
          <6>2. Chosen(Append(v, x), filter) = Chosen(v, filter)
            BY <3>2, <6>1, ChosenAppend
          <6> QED
            BY <6>2 DEF v
        <5> QED
          BY <5>1, <5>2
      <4> QED
        BY <2>3, <2>4, <4>1, Zenon
    <3> QED
      BY <3>1, <3>2
  <2> QED
    BY <2>1, <2>5
<1> HIDE DEF S
<1>3. Seq(T) \subseteq S
  BY <1>1, <1>2, InductSeq
<1> QED
  BY <1>3 DEF S

\* Leaving the zeros out does not change a sum.
LEMMA TotalOfPositive ==
    ASSUME NEW s \in Seq(Nat)
    PROVE  Total(Chosen(s, Positive)) = Total(s)
<1> DEFINE S == {u \in Seq(Nat) : Total(Chosen(u, Positive)) = Total(u)}
<1>1. <<>> \in S
  BY ChosenNothing, TotalNothing, EmptySeq
<1>2. ASSUME NEW u \in Seq(Nat), NEW x \in Nat, u \in S PROVE Append(u, x) \in S
  <2>1. /\ Append(u, x) \in Seq(Nat) /\ Total(Chosen(u, Positive)) = Total(u)
        /\ Total(Append(u, x)) = Total(u) + x /\ Total(u) \in Nat
        /\ Chosen(u, Positive) \in Seq(Nat)
    BY <1>2, TotalAppend, TotalNat, ChosenSeq
  <2>2. CASE x \in Positive
    <3>1. Chosen(Append(u, x), Positive) = Append(Chosen(u, Positive), x)
      BY <2>2, ChosenAppend
    <3>2. Total(Append(Chosen(u, Positive), x)) = Total(Chosen(u, Positive)) + x
      BY <2>1, TotalAppend
    <3> QED
      BY <2>1, <3>1, <3>2
  <2>3. CASE x \notin Positive
    <3>1. Chosen(Append(u, x), Positive) = Chosen(u, Positive) /\ x = 0
      BY <2>3, ChosenAppend DEF Positive
    <3> QED
      BY <2>1, <3>1
  <2> QED
    BY <2>2, <2>3
<1> HIDE DEF S
<1>3. Seq(Nat) \subseteq S
  BY <1>1, <1>2, InductSeq
<1> QED
  BY <1>3 DEF S

\* What a request asks for, as numbers.
LEMMA RequestTyped ==
    ASSUME NEW r \in BalancesRequest
    PROVE  /\ ProvidedAmounts(r) \in Seq(Nat)
           /\ DynamicAccounts(r) \in Nat /\ r.accounts \in Nat
           /\ r.accounts <= DynamicAccounts(r)
           /\ r.maxHarvesterBalance \in Positive
           /\ r.supply \in Nat
           /\ Total(ProvidedAmounts(r)) \in Nat
           /\ Remaining(r) = r.supply - Total(ProvidedAmounts(r))
<1> DEFINE T == Nat \cup {Unasked}
<1>1. /\ r.nodes \in Seq(T) /\ r.fixed \in Seq(Nat) /\ r.accounts \in Nat /\ r.supply \in Nat
      /\ r.maxHarvesterBalance \in Positive
  BY DEF BalancesRequest
<1>2. T \cap Nat = Nat
  OBVIOUS
<1> HIDE DEF T
<1>3. Chosen(r.nodes, Nat) \in Seq(Nat)
  BY <1>1, <1>2, ChosenIn, Zenon
<1>4. Chosen(r.nodes, {Unasked}) \in Seq(T)
  BY <1>1, ChosenSeq
<1>5. ProvidedAmounts(r) \in Seq(Nat)
  BY <1>1, <1>3 DEF ProvidedAmounts
<1>6. Len(Sharing(r)) \in Nat
  BY <1>4 DEF Sharing
<1>7. Total(ProvidedAmounts(r)) \in Nat
  BY <1>5, TotalNat
<1> QED
  BY <1>1, <1>5, <1>6, <1>7 DEF DynamicAccounts, Remaining

\* An equal share of an amount.
LEMMA Share ==
    ASSUME NEW a \in Nat, NEW n \in Nat, n > 0
    PROVE  /\ a \div n \in Nat
           /\ n * (a \div n) <= a
           /\ a < n => a \div n = 0
           /\ a >= n => a \div n >= 1
  OBVIOUS

\* The generated accounts get at most an equal share each.
LEMMA GeneratedTyped ==
    ASSUME NEW r \in BalancesRequest, DynamicAccounts(r) > 0, Remaining(r) >= 0
    PROVE  LET n     == DynamicAccounts(r)
               share == AmountPerAccount(r)
               gen   == GeneratedAccounts(r)
           IN  /\ share \in Nat /\ n * share <= Remaining(r)
               /\ Remaining(r) < n => share = 0
               /\ Remaining(r) >= n => share >= 1
               /\ gen \in Seq(0..share) /\ Len(gen) = n
               /\ share >= 1 => gen \in Seq(Positive)
               /\ \A i \in (r.accounts + 1)..n : gen[i] <= r.maxHarvesterBalance
<1> DEFINE n == DynamicAccounts(r)
           share == AmountPerAccount(r)
           gen == GeneratedAccounts(r)
<1>1. n \in Nat /\ Remaining(r) \in Nat
  BY RequestTyped
<1>2. /\ share \in Nat /\ n * share <= Remaining(r)
      /\ Remaining(r) < n => share = 0
      /\ Remaining(r) >= n => share >= 1
  BY <1>1, Share DEF AmountPerAccount
<1>3. \A i \in 1..n : gen[i] = IF i <= r.accounts THEN share
                             ELSE Smaller(r.maxHarvesterBalance, share)
  BY DEF GeneratedAccounts
<1>4. Len(gen) = n /\ DOMAIN gen = 1..n
  BY <1>1 DEF GeneratedAccounts
<1>5. \A i \in 1..n : gen[i] \in 0..share /\ (share >= 1 => gen[i] \in Positive)
  BY <1>2, <1>3, RequestTyped DEF Smaller, Positive
<1>6. ASSUME NEW i \in (r.accounts + 1)..n
      PROVE  gen[i] <= r.maxHarvesterBalance
  <2>1. i \in 1..n /\ ~(i <= r.accounts) /\ r.maxHarvesterBalance \in Nat
    BY <1>1, RequestTyped DEF Positive
  <2>2. gen[i] = Smaller(r.maxHarvesterBalance, share)
    BY <1>3, <2>1
  <2> QED
    BY <1>2, <2>1, <2>2 DEF Smaller
<1>7. gen \in Seq(0..share) /\ (share >= 1 => gen \in Seq(Positive))
  <2> DEFINE shares == 0..share
  <2>1. gen \in [1..n -> shares] /\ (share >= 1 => gen \in [1..n -> Positive])
    BY <1>5 DEF GeneratedAccounts
  <2>2. n \in Nat
    BY <1>1
  <2> HIDE DEF gen, share, n, shares
  <2>3. gen \in Seq(shares) /\ (share >= 1 => gen \in Seq(Positive))
    BY <2>1, <2>2
  <2> QED
    BY <2>3 DEF shares
<1> QED
  BY <1>2, <1>4, <1>6, <1>7

\* What is distributed, with the zeros left out.
LEMMA DistributionOf ==
    ASSUME NEW r \in BalancesRequest
    PROVE  LET positive == Chosen(GeneratedAccounts(r), Positive) \o
                               Chosen(ProvidedAmounts(r), Positive)
               closed == [positive EXCEPT ![1] = FirstAmount(r)]
           IN  Distribution(r) =
                 IF Remaining(r) < 0 \/ positive = <<>> THEN Refused
                 ELSE IF FirstAmount(r) < 0 \/ Total(closed) # r.supply THEN Refused
                 ELSE closed
<1> DEFINE gen == GeneratedAccounts(r)
           prov == ProvidedAmounts(r)
           share == AmountPerAccount(r)
<1>1. CASE Remaining(r) < 0
  BY <1>1 DEF Distribution
<1>2. CASE ~(Remaining(r) < 0)
  <2>1. gen \in Seq(Nat) /\ prov \in Seq(Nat)
    <3>1. CASE DynamicAccounts(r) = 0
      BY <3>1, RequestTyped DEF GeneratedAccounts
    <3>2. CASE DynamicAccounts(r) > 0
      <4>1. Remaining(r) >= 0
        BY <1>2, RequestTyped
      <4>2. gen \in Seq(0..share) /\ share \in Nat
        BY <3>2, <4>1, GeneratedTyped
      <4> QED
        BY <4>2, RequestTyped
    <3> QED
      BY <3>1, <3>2, RequestTyped
  <2> HIDE DEF gen, prov
  <2>2. Chosen(gen \o prov, Positive) = Chosen(gen, Positive) \o Chosen(prov, Positive)
    BY <2>1, ChosenConcat
  <2> QED
    BY <2>2 DEF Distribution, gen, prov
<1> QED
  BY <1>1, <1>2

\* If no account shares the rest with success, the first of the others gets
\* it instead of its own amount, and the sum is not the supply.
LEMMA InfeasibleRefused ==
    ASSUME NEW r \in BalancesRequest, ~Feasible(r)
    PROVE  Distribution(r) = Refused
<1> DEFINE gen == GeneratedAccounts(r)
           n == DynamicAccounts(r)
           pos == Chosen(ProvidedAmounts(r), Positive)
           closed == [pos EXCEPT ![1] = FirstAmount(r)]
<1> SUFFICES ASSUME Remaining(r) >= 0 PROVE Distribution(r) = Refused
  BY RequestTyped DEF Distribution
<1>1. Chosen(gen, Positive) = <<>> /\ FirstAmount(r) = Remaining(r)
  <2>1. CASE n = 0
    <3>1. gen = <<>>
      BY <2>1 DEF GeneratedAccounts
    <3> QED
      BY <2>1, <3>1, ChosenNothing, RequestTyped DEF FirstAmount
  <2>2. CASE n > 0
    <3>1. Remaining(r) < n
      BY <2>2, RequestTyped DEF Feasible
    <3>2. gen \in Seq(0..0) /\ Len(gen) = n
      BY <2>2, <3>1, GeneratedTyped
    <3>3. (0..0) \cap Positive = {}
      BY DEF Positive
    <3> DEFINE zeros == 0..0
    <3>4. Tail(gen) \in Seq(zeros) /\ Len(Tail(gen)) \in Nat
      BY <2>2, <3>2
    <3> HIDE DEF zeros, gen
    <3>5. Chosen(gen, Positive) = <<>>
      BY <3>2, <3>3, ChosenAllOrNone DEF zeros
    <3>6. Total(Tail(gen)) = 0
      <4>1. Total(Tail(gen)) <= Len(Tail(gen)) * 0
        BY <3>4, TotalAtMost DEF zeros
      <4>2. Tail(gen) \in Seq(Nat)
        <5>1. zeros \subseteq Nat
          BY DEF zeros
        <5> QED
          BY <3>4, <5>1, SeqMonotonic
      <4>3. Total(Tail(gen)) \in Nat
        BY <4>2, TotalNat
      <4> QED
        BY <3>4, <4>1, <4>3
    <3> QED
      BY <2>2, <3>5, <3>6, RequestTyped DEF FirstAmount, gen
  <2> QED
    BY <2>1, <2>2, RequestTyped
<1>2. pos \in Seq(Nat) /\ pos \in Seq(Positive) /\ Total(pos) = Total(ProvidedAmounts(r))
  <2>1. Nat \cap Positive = Positive
    BY DEF Positive
  <2>2. ProvidedAmounts(r) \in Seq(Nat)
    BY RequestTyped
  <2> QED
    BY <2>1, <2>2, ChosenSeq, ChosenIn, TotalOfPositive, Zenon
<1>3. Distribution(r) = IF pos = <<>> THEN Refused
                        ELSE IF FirstAmount(r) < 0 \/ Total(closed) # r.supply THEN Refused
                        ELSE closed
  <2>1. <<>> \o pos = pos
    BY <1>2
  <2> HIDE DEF pos
  <2> QED
    BY <1>1, <2>1, DistributionOf DEF pos
<1>4. ASSUME pos # <<>> PROVE Total(closed) # r.supply
  <2>1. FirstAmount(r) \in Nat
    BY <1>1, RequestTyped
  <2> HIDE DEF pos
  <2>2. Total(pos) = pos[1] + Total(Tail(pos)) /\ Total(closed) = FirstAmount(r) + Total(Tail(pos))
    BY <1>2, <1>4, <2>1, TotalFirst
  <2>3. pos[1] \in Nat /\ pos[1] > 0 /\ Tail(pos) \in Seq(Nat)
    BY <1>2, <1>4 DEF Positive
  <2>4. Total(Tail(pos)) \in Nat
    BY <2>3, TotalNat
  <2> HIDE DEF closed
  <2>5. Remaining(r) \in Nat /\ r.supply = Remaining(r) + Total(pos)
    BY <1>2, RequestTyped
  <2>6. Total(closed) = Remaining(r) + Total(Tail(pos))
    BY <1>1, <2>2
  <2>7. Total(pos) = pos[1] + Total(Tail(pos))
    BY <2>2
  <2> QED
    BY <2>3, <2>4, <2>5, <2>6, <2>7
<1> QED
  BY <1>3, <1>4

\* A sequence whose first element is replaced.
WithFirst(s, x) == [s EXCEPT ![1] = x]

LEMMA WithFirstSeq ==
    ASSUME NEW s \in Seq(Nat), s # <<>>, NEW x \in Nat
    PROVE  /\ WithFirst(s, x) \in Seq(Nat) /\ Len(WithFirst(s, x)) = Len(s)
           /\ \A i \in 2..Len(s) : WithFirst(s, x)[i] = s[i]
<1>1. s \in [1..Len(s) -> Nat] /\ Len(s) \in Nat /\ Len(s) >= 1
  OBVIOUS
<1>2. /\ WithFirst(s, x) \in [1..Len(s) -> Nat]
      /\ \A i \in 2..Len(s) : WithFirst(s, x)[i] = s[i]
  BY <1>1 DEF WithFirst
<1>3. \A c \in [1..Len(s) -> Nat] : c \in Seq(Nat) /\ Len(c) = Len(s)
  BY <1>1
<1> QED
  BY <1>2, <1>3

LEMMA FirstReplaced ==
    ASSUME NEW s \in Seq(Nat), NEW t \in Seq(Nat), s # <<>>, NEW x \in Nat
    PROVE  LET c == WithFirst(s \o t, x)
           IN  /\ s \o t \in Seq(Nat) /\ s \o t # <<>>
               /\ Tail(s \o t) = Tail(s) \o t
               /\ SubSeq(c, Len(s) + 1, Len(c)) = t
               /\ \A i \in 2..Len(s) : c[i] = s[i]
<1> DEFINE u == s \o t
           c == WithFirst(u, x)
<1>1. /\ u \in Seq(Nat) /\ Len(u) = Len(s) + Len(t) /\ Len(s) \in Nat /\ Len(t) \in Nat
      /\ \A i \in 1..Len(u) : u[i] = IF i <= Len(s) THEN s[i] ELSE t[i - Len(s)]
  OBVIOUS
<1>2. Len(s) > 0
  OBVIOUS
<1>3. Tail(u) = Tail(s) \o t
  BY <1>2
<1> HIDE DEF u
<1>4. u # <<>>
  BY <1>1, <1>2
<1>5. c \in Seq(Nat) /\ Len(c) = Len(u) /\ \A i \in 2..Len(u) : c[i] = u[i]
  <2>1. u \in Seq(Nat)
    BY <1>1
  <2> QED
    BY <1>4, <2>1, WithFirstSeq
<1> HIDE DEF c
<1>6. ASSUME NEW i \in 2..Len(s) PROVE c[i] = s[i]
  <2>1. i \in 2..Len(u) /\ i \in 1..Len(u) /\ i <= Len(s)
    BY <1>1
  <2>2. u[i] = s[i]
    BY <1>1, <2>1
  <2>3. c[i] = u[i]
    BY <1>5, <2>1
  <2> QED
    BY <2>2, <2>3
<1>7. SubSeq(c, Len(s) + 1, Len(c)) = t
  <2> DEFINE e == SubSeq(c, Len(s) + 1, Len(c))
  <2>1. e \in Seq(Nat) /\ Len(e) = Len(t) /\ \A i \in 1..Len(t) : e[i] = c[Len(s) + i]
    <3>1. /\ Len(s) + 1 \in 1..(Len(c) + 1) /\ Len(c) \in (Len(s) + 1 - 1)..Len(c)
          /\ Len(c) - (Len(s) + 1) + 1 = Len(t)
      BY <1>1, <1>2, <1>5
    <3>2. \A i \in 1..Len(t) : (Len(s) + 1) + i - 1 = Len(s) + i
      BY <1>1
    <3> DEFINE m == Len(s) + 1
               n == Len(c)
    <3>3. m \in 1..(Len(c) + 1) /\ n \in (m - 1)..Len(c) /\ n - m + 1 = Len(t)
      BY <3>1
    <3>4. \A i \in 1..Len(t) : m + i - 1 = Len(s) + i
      BY <3>2
    <3>5. c \in Seq(Nat)
      BY <1>5
    <3> HIDE DEF m, n
    <3>6. /\ SubSeq(c, m, n) \in Seq(Nat) /\ Len(SubSeq(c, m, n)) = n - m + 1
          /\ \A i \in 1..(n - m + 1) : SubSeq(c, m, n)[i] = c[m + i - 1]
      <4>1. /\ m \in Int /\ n \in Int /\ \A i \in m..n : c[i] \in Nat
            /\ m <= n \/ n - m + 1 = 0
        BY <3>3, <3>5
      <4> QED
        BY <4>1, SubSeqProperties
    <3> QED
      BY <3>3, <3>4, <3>6 DEF m, n
  <2> HIDE DEF e
  <2>2. \A i \in 1..Len(t) : c[Len(s) + i] = t[i]
    <3> SUFFICES ASSUME NEW i \in 1..Len(t) PROVE c[Len(s) + i] = t[i]
      OBVIOUS
    <3>1. /\ Len(s) + i \in 2..Len(u) /\ Len(s) + i \in 1..Len(u)
          /\ ~(Len(s) + i <= Len(s)) /\ (Len(s) + i) - Len(s) = i
      BY <1>1, <1>2
    <3> QED
      BY <1>1, <1>5, <3>1
  <2>3. e = t
    BY <2>1, <2>2, SeqEqual
  <2> QED
    BY <2>3 DEF e
<1> QED
  BY <1>1, <1>3, <1>4, <1>6, <1>7 DEF c, u

\* Otherwise every account that shares the rest has an amount to share, the
\* first of them takes the remainder, and the sum is the supply.
LEMMA FeasibleAsAsked ==
    ASSUME NEW r \in BalancesRequest, Feasible(r)
    PROVE  AsAsked(r, Distribution(r))
<1> DEFINE gen == GeneratedAccounts(r)
           n == DynamicAccounts(r)
           share == AmountPerAccount(r)
           pos == Chosen(ProvidedAmounts(r), Positive)
           all == gen \o pos
           closed == [all EXCEPT ![1] = FirstAmount(r)]
<1>1. n \in Nat /\ n > 0 /\ Remaining(r) \in Nat /\ Remaining(r) >= n
  BY RequestTyped DEF Feasible
<1>2. /\ share \in Nat /\ n * share <= Remaining(r) /\ share >= 1
      /\ gen \in Seq(0..share) /\ gen \in Seq(Positive) /\ Len(gen) = n
      /\ \A i \in (r.accounts + 1)..n : gen[i] <= r.maxHarvesterBalance
  BY <1>1, GeneratedTyped
<1>3. pos \in Seq(Nat) /\ Total(pos) = Total(ProvidedAmounts(r)) /\ Total(pos) \in Nat
  <2>1. ProvidedAmounts(r) \in Seq(Nat)
    BY RequestTyped
  <2> QED
    BY <2>1, ChosenSeq, TotalOfPositive, TotalNat
<1>4. gen \in Seq(Nat) /\ Chosen(gen, Positive) = gen
  <2>1. Positive \subseteq Nat
    BY DEF Positive
  <2> HIDE DEF gen
  <2>2. gen \in Seq(Nat)
    BY <1>2, <2>1, SeqMonotonic
  <2> QED
    BY <1>2, <2>2, ChosenAllOrNone
<1>5. FirstAmount(r) \in Nat /\ FirstAmount(r) + Total(Tail(gen)) = Remaining(r)
  <2> DEFINE rest == Tail(gen)
             shares == 0..share
  <2> HIDE DEF gen, share
  <2>1. rest \in Seq(shares) /\ rest \in Seq(Nat) /\ Len(rest) = n - 1
    BY <1>1, <1>2, <1>4
  <2> HIDE DEF rest
  <2>2. Total(rest) \in Nat /\ Total(rest) <= (n - 1) * share
    BY <1>2, <2>1, TotalAtMost, TotalNat
  <2>3. (n - 1) * share = n * share - share /\ n * share \in Nat
    BY <1>1, <1>2
  <2>4. FirstAmount(r) = Remaining(r) - Total(rest)
    BY <1>1 DEF FirstAmount, rest, gen
  <2>5. Total(rest) <= Remaining(r)
    BY <1>1, <1>2, <2>2, <2>3
  <2> QED
    BY <1>1, <2>2, <2>4, <2>5 DEF rest, gen
<1> HIDE DEF gen, share, pos
<1>6. /\ all \in Seq(Nat) /\ all # <<>>
      /\ Tail(all) = Tail(gen) \o pos
      /\ SubSeq(closed, n + 1, Len(closed)) = pos
      /\ \A i \in 2..n : closed[i] = gen[i]
      /\ Tail(gen) \in Seq(Nat)
  <2>1. gen # <<>>
    BY <1>1, <1>2
  <2>2. Tail(gen) \in Seq(Nat)
    BY <1>4, <2>1
  <2>3. closed = WithFirst(gen \o pos, FirstAmount(r))
    BY DEF WithFirst
  <2>4. FirstAmount(r) \in Nat /\ gen \in Seq(Nat) /\ pos \in Seq(Nat)
    BY <1>3, <1>4, <1>5
  <2> HIDE DEF closed
  <2> DEFINE x == FirstAmount(r)
  <2>5. x \in Nat
    BY <2>4
  <2> HIDE DEF x
  <2>6. LET c == WithFirst(gen \o pos, x)
        IN  /\ gen \o pos \in Seq(Nat) /\ gen \o pos # <<>>
            /\ Tail(gen \o pos) = Tail(gen) \o pos
            /\ SubSeq(c, Len(gen) + 1, Len(c)) = pos
            /\ \A i \in 2..Len(gen) : c[i] = gen[i]
    BY <2>1, <2>4, <2>5, FirstReplaced, Zenon
  <2> HIDE DEF n
  <2> QED
    BY <1>2, <2>2, <2>3, <2>6, Zenon DEF x
<1>7. Total(closed) = r.supply
  <2>1. Total(closed) = FirstAmount(r) + Total(Tail(all))
    <3> HIDE DEF all
    <3> QED
      BY <1>5, <1>6, TotalFirst
  <2>2. Total(Tail(all)) = Total(Tail(gen)) + Total(pos)
    BY <1>3, <1>6, TotalConcat
  <2>3. r.supply = Remaining(r) + Total(pos)
    BY <1>3, RequestTyped DEF pos
  <2>4. Total(Tail(gen)) \in Nat
    BY <1>6, TotalNat
  <2> HIDE DEF closed, all
  <2> QED
    BY <1>1, <1>3, <1>5, <2>1, <2>2, <2>3, <2>4
<1>8. Distribution(r) = closed
  <2>1. Distribution(r) =
          IF Remaining(r) < 0 \/ all = <<>> THEN Refused
          ELSE IF FirstAmount(r) < 0 \/ Total(closed) # r.supply THEN Refused
          ELSE closed
    BY <1>4, DistributionOf DEF gen, pos
  <2> HIDE DEF closed, all
  <2> QED
    BY <1>1, <1>5, <1>6, <1>7, <2>1
<1>9. ASSUME r.accounts > 0, NEW i \in (r.accounts + 1)..n
      PROVE  closed[i] <= r.maxHarvesterBalance
  <2>1. i \in 2..n
    BY <1>1, <1>9, RequestTyped
  <2> HIDE DEF closed
  <2> QED
    BY <1>2, <1>6, <2>1
<1> HIDE DEF closed
<1> QED
  BY <1>6, <1>7, <1>8, <1>9 DEF AsAsked, pos

\* What was given is what is distributed for the request.
BalancesInv ==
    pc = "distributed" => request \in BalancesRequest /\ given = Distribution(request)

\* The balances of a new network are the whole supply and as asked for, or the
\* request cannot be met and is refused, whatever the preset asks for.
THEOREM BalancesAreAsAsked == Spec => []BalancesAsAsked
<1>1. Init => BalancesInv
  BY DEF Init, BalancesInv
<1>2. ASSUME BalancesInv, [Next]_vars PROVE BalancesInv'
  <2>1. CASE DistributeBalances
    BY <2>1, BalancesAssumption DEF DistributeBalances, BalancesInv
  <2>2. CASE UNCHANGED <<pc, request, given>>
    BY <1>2, <2>2 DEF BalancesInv
  <2>3. ASSUME pc' # "distributed" PROVE BalancesInv'
    BY <2>3 DEF BalancesInv
  <2>4. \/ DistributeBalances
        \/ UNCHANGED <<pc, request, given>>
        \/ pc' # "distributed"
    BY <1>2 DEF Next, vars, WriteCustom, Encrypt, Decrypt, Reset, StartConfig,
                GenerateCertificates, GenerateNodes, GenerateNemesis, OpenAddresses,
                FillAddresses, OpenPreset, FillPreset, StartUpdate, Renew, Abort
  <2> QED
    BY <2>1, <2>2, <2>3, <2>4
<1>3. BalancesInv => BalancesAsAsked
  BY InfeasibleRefused, FeasibleAsAsked DEF BalancesInv, BalancesAsAsked
<1> QED
  BY <1>1, <1>2, <1>3, PTL DEF Spec

-----------------------------------------------------------------------------
(* The keys.                                                                *)

USE AddressesAssumption DEF NoPassword, KeysOf

\* The keys of a custom preset are the user's.
Own(c) ==
    \A k \in Kinds : c.keys[k].public <= UserKeys /\ c.keys[k].private <= UserKeys

\* Private keys belong to the public keys beside them.
Paired(accounts) == \A k \in Kinds : accounts[k].private \in {0, accounts[k].public}

Pairs ==
    Paired(addresses.accounts) /\ Paired(memory.old.accounts) /\ Paired(account)

\* The user can know a key.
Available(k, key) == key <= UserKeys \/ <<k, key>> \in seen

\* A key in memory that the user cannot know yet is about to be stored.
Sourced ==
    /\ Own(customFile.custom) /\ Own(preset.custom) /\ Own(memory.custom)
    /\ \A k \in NodeKinds :
         /\ Available(k, addresses.accounts[k].public)
         /\ \/ Available(k, account[k].public)
            \/ account[k].private # 0 /\ k \notin Dropped(memory.custom.mode)

\* What the command has loaded, and what has become of it.
Loaded ==
    /\ memory.command = "config" => CanLoad(memory.old.cipher, memory.password)
    /\ \A k \in Kinds :
         account[k].public = memory.old.accounts[k].public =>
             memory.old.accounts[k].private \in {0, account[k].private}

Running ==
    /\ pc # "idle" => memory.command # "none"
    /\ memory.command = "update" => pc \in {"open", "fill"}

\* config knows all accounts, and has stored them before it writes preset.yml.
Complete ==
    /\ memory.command = "config" =>
         /\ \A k \in Called(memory.custom) : account[k].public # 0
         /\ PrivateNetwork =>
              memory.custom.keys[Signer].public \in {0, account[Signer].public}
    /\ pc \in {"openPreset", "fillPreset"} =>
         \A k \in Kinds : addresses.accounts[k].public = account[k].public

AddressesInv ==
    TypeOK /\ Pairs /\ Sourced /\ Loaded /\ Running /\ Complete /\ PromptsAnswerable

-----------------------------------------------------------------------------
\* The signer is no account of the node.
LEMMA SignerApart == Signer \notin NodeKinds /\ NodeKinds \subseteq Kinds
  BY DEF Signer, Kinds

\* What a configuration takes an account to be: a pair with a public key,
\* which keeps the stored private key if it keeps the public key, and which
\* is provided, stored or, if there is neither, generated.
LEMMA ResolvedAccount ==
    ASSUME NEW k, NEW old \in Account, NEW new \in Account,
           old.private \in {0, old.public}, made \in Nat
    PROVE  LET r == Resolved(k, old, new)
           IN  /\ r \in Account
               /\ r.public # 0
               /\ r.private \in {0, r.public}
               /\ r.public = old.public => old.private \in {0, r.private}
               /\ k # Signer =>
                    \/ r.public \in {old.public, new.public, new.private}
                    \/ old = NoAccount /\ new = NoAccount /\ r.private # 0
               /\ k = Signer /\ IsPair(SignerKeys(old, new).public, SignerKeys(old, new).private) =>
                    new.public \in {0, r.public}
<1> DEFINE keys == SignerKeys(old, new)
<1>1. CASE k = Signer
  <2>1. keys.private \in Nat \ {0} /\ keys.public \in Nat
    BY DEF SignerKeys, Or, Fresh, Account
  <2>2. Resolved(k, old, new) = [public |-> keys.private, private |-> keys.private]
    BY <1>1, <2>1 DEF Resolved, ToAccount, Or, SignerKeys
  <2>3. keys.private = old.private \/ old.private = 0 \/ keys.private = new.private
    BY DEF SignerKeys, Or, Account
  <2>4. IsPair(keys.public, keys.private) => new.public \in {0, keys.private}
    BY <2>1 DEF IsPair, SignerKeys, Or, Account
  <2>5. keys.private = old.public => old.private \in {0, keys.private}
    BY DEF Account
  <2> QED
    BY <1>1, <2>1, <2>2, <2>4, <2>5 DEF Account
<1>2. CASE k # Signer
  <2> DEFINE given1 == ToAccount(new)
  <2>1. /\ given1 \in Account
        /\ given1.private \in {0, given1.public}
        /\ given1.public \in {new.public, new.private}
        /\ given1.public = 0 => new = NoAccount
        /\ new = NoAccount => given1 = NoAccount
    BY DEF ToAccount, Or, Account, NoAccount
  <2>2. old.public = 0 => old = NoAccount
    BY DEF Account, NoAccount
  <2>3. Resolved(k, old, new) = ResolveAccount(old, given1)
    BY <1>2 DEF Resolved
  <2>4. CASE given1 = NoAccount
    <3>1. CASE old = NoAccount
      <4>1. ResolveAccount(old, given1) = Generated /\ Fresh \in Nat \ {0}
        BY <2>4, <3>1 DEF ResolveAccount, Fresh
      <4> QED
        BY <1>2, <2>1, <2>3, <2>4, <3>1, <4>1 DEF Generated, Account, NoAccount
    <3>2. CASE old # NoAccount
      BY <1>2, <2>2, <2>3, <2>4, <3>2 DEF ResolveAccount
    <3> QED BY <3>1, <3>2
  <2>5. CASE given1 # NoAccount
    <3>1. given1.public # 0
      BY <2>1, <2>5
    <3>2. CASE given1.public = old.public
      <4>1. ResolveAccount(old, given1) =
                [public |-> old.public, private |-> Or(given1.private, old.private)]
        BY <2>1, <2>5, <3>2 DEF ResolveAccount, Account
      <4>2. Or(given1.private, old.private) \in {0, old.public}
        BY <2>1, <3>2 DEF Or
      <4>3. old.private \in {0, Or(given1.private, old.private)}
        BY <2>1, <3>2 DEF Or
      <4> QED
        BY <1>2, <2>3, <3>1, <3>2, <4>1, <4>2, <4>3 DEF Account
    <3>3. CASE given1.public # old.public
      BY <1>2, <2>1, <2>3, <2>5, <3>1, <3>3 DEF ResolveAccount
    <3> QED BY <3>2, <3>3
  <2> QED BY <2>4, <2>5
<1> QED BY <1>1, <1>2

\* Keys that are generated are stored.
LEMMA GeneratedStored ==
    ASSUME NEW k \in NodeKinds, NEW mode \in Modes, ~RefusesToGenerate(k, mode)
    PROVE  k \notin Dropped(mode)
  BY DEF RefusesToGenerate, Dropped, Modes

\* What a mode leaves of accounts.
LEMMA WithoutPrivateTyped ==
    ASSUME NEW accounts \in [Kinds -> Account], NEW kinds
    PROVE  LET w == WithoutPrivate(accounts, kinds)
           IN  /\ w \in [Kinds -> Account]
               /\ \A k \in Kinds : w[k].public = accounts[k].public
               /\ \A k \in Kinds :
                    w[k].private = IF k \in kinds THEN 0 ELSE accounts[k].private
  BY DEF WithoutPrivate, Account

\* What addresses.yml gets to store of an account.
LEMMA ReducedAccount ==
    ASSUME NEW accounts \in [Kinds -> Account], NEW mode, NEW k \in Kinds
    PROVE  /\ Reduced(accounts, mode)[k].public = accounts[k].public
           /\ k \notin Dropped(mode) => Reduced(accounts, mode)[k].private = accounts[k].private
  BY WithoutPrivateTyped DEF Reduced

\* What preset.yml gets to store of a custom preset.
LEMMA CachedPreset ==
    ASSUME memory.custom \in CustomPreset, FillPreset
    PROVE  /\ preset'.custom.keys = WithoutPrivate(memory.custom.keys, Kinds)
           /\ preset'.custom.roles = memory.custom.roles
           /\ memory.custom.keys \in [Kinds -> Account]
  BY DEF FillPreset, CustomPreset

\* Passwords are numbers, and so is having none.
LEMMA PasswordTyped ==
    ASSUME NEW p \in Passwords \cup {NoPassword}
    PROVE  p \in Nat
  OBVIOUS

\* What a prompt adds to the accounts in memory.
LEMMA PromptTyped ==
    ASSUME TypeOK, NEW kinds \in SUBSET NodeKinds, Prompt(kinds)
    PROVE  /\ account' \in [Kinds -> Account]
           /\ \A k \in Kinds :
                /\ account'[k].public = account[k].public
                /\ account'[k].private =
                     IF k \in kinds THEN account[k].public ELSE account[k].private
           /\ asked' \subseteq (Kinds \X Nat)
           /\ \A a \in asked' : \E k \in kinds :
                a = <<k, account[k].public>> /\ account[k].private = 0
  BY SignerApart DEF TypeOK, Prompt, Missing, Account

\* The prompts after the certificates: the kinds are the node's.
LEMMA LaterPrompts ==
    ASSUME TypeOK, GenerateNodes \/ GenerateNemesis
    PROVE  \E kinds \in SUBSET NodeKinds :
              /\ Prompt(kinds)
              /\ pc \in {"nodes", "nemesis"} /\ pc' \in {"nemesis", "open"}
              /\ UNCHANGED <<customFile, files, memory, request, given, made, seen>>
<1>1. CASE GenerateNodes
  <2>1. memory.custom.roles \subseteq NodeKinds
    BY DEF TypeOK, CustomPreset, RoleKinds
  <2>2. HarvestingKinds \in SUBSET NodeKinds
    BY <2>1 DEF HarvestingKinds
  <2> QED
    BY <1>1, <2>2 DEF GenerateNodes
<1>2. CASE GenerateNemesis
  <2>1. PICK excluded \in BOOLEAN : Prompt(IF excluded THEN {} ELSE {"Main"})
    BY <1>2 DEF GenerateNemesis
  <2>2. (IF excluded THEN {} ELSE {"Main"}) \in SUBSET NodeKinds
    OBVIOUS
  <2> QED
    BY <1>2, <2>1, <2>2 DEF GenerateNemesis
<1> QED
  BY <1>1, <1>2

\* What resolveNodeAccounts makes of an account.
LEMMA ResolvedAllTyped ==
    ASSUME NEW old, NEW custom, NEW k \in Kinds
    PROVE  /\ k \in Called(custom) =>
                ResolvedAll(old, custom)[k] = Resolved(k, old[k], custom.keys[k])
           /\ k \notin Called(custom) => ResolvedAll(old, custom)[k] = NoAccount
  BY DEF ResolvedAll

LEMMA NothingTyped ==
    /\ NoMemory \in [command : {"none", "config", "update"}, password : Nat,
                     custom : CustomPreset, old : AddressesFile]
    /\ NoAddresses \in AddressesFile
    /\ NoPreset \in [state : States, custom : CustomPreset]
    /\ Nobody \in [Kinds -> Account]
    /\ NoCustomPreset \in CustomPreset /\ Own(NoCustomPreset)
    /\ \A k \in Kinds : Nobody[k] = NoAccount
    /\ NoMemory.old = NoAddresses
    /\ NoMemory.custom = NoCustomPreset /\ NoMemory.command = "none"
    /\ NoAddresses.accounts = Nobody /\ NoPreset.custom = NoCustomPreset
  BY DEF NoMemory, AddressesFile, NoAddresses, NoPreset, NoCustomPreset, CustomPreset, Modes,
         States, Nobody, NoAccount, Account, Own

-----------------------------------------------------------------------------
LEMMA InitInv == Init => AddressesInv
<1> SUFFICES ASSUME Init PROVE AddressesInv
  OBVIOUS
<1> USE NothingTyped
<1>1. TypeOK
  BY DEF Init, TypeOK, NoCert
<1>2. customFile.custom \in CustomPresets
  BY DEF Init
<1>3. Sourced
  BY <1>2, SignerApart DEF Init, Sourced, Available, Own, NoAccount
<1> QED
  BY <1>1, <1>3 DEF Init, AddressesInv, Pairs, Paired, Loaded, Running, Complete,
                    PromptsAnswerable, NoAccount

\* The custom presets that a command can go by.
LEMMA CustomsOwn ==
    ASSUME AddressesInv, NEW p, NEW c \in Customs(p)
    PROVE  c \in CustomPreset /\ Own(c)
  BY DEF AddressesInv, TypeOK, Sourced, Customs

LEMMA TypeStep == TypeOK /\ Sourced /\ [Next]_vars => TypeOK'
<1> SUFFICES ASSUME TypeOK, Sourced, [Next]_vars PROVE TypeOK'
  OBVIOUS
<1> USE NothingTyped
<1>1. CASE WriteCustom
  BY <1>1 DEF TypeOK, WriteCustom, files
<1>2. CASE Encrypt
  BY <1>2 DEF TypeOK, Encrypt, files, Cipher
<1>3. CASE Decrypt
  BY <1>3 DEF TypeOK, Decrypt, files
<1>4. CASE Reset
  BY <1>4 DEF TypeOK, Reset, NoCert
<1>5. CASE StartConfig
  <2>1. PICK p \in Passwords \cup {NoPassword},
             c \in CustomPresets \cup {NoCustomPreset, preset.custom} :
          /\ memory' = [command |-> "config", password |-> p, custom |-> c, old |-> addresses]
          /\ account' = ResolvedAll(addresses.accounts, c)
    BY <1>5 DEF StartConfig
  <2>2. c \in CustomPreset /\ p \in Nat
    <3> HIDE NothingTyped
    <3>1. CustomPresets \subseteq CustomPreset /\ NoCustomPreset \in CustomPreset
      BY NothingTyped
    <3>2. preset.custom \in CustomPreset
      BY DEF TypeOK
    <3>3. p \in Nat
      BY PasswordTyped
    <3> QED
      BY <3>1, <3>2, <3>3
  <2>3. ASSUME NEW k \in Kinds, NEW old \in Account, NEW new \in Account
        PROVE  Resolved(k, old, new) \in Account /\ NoAccount \in Account
    BY DEF Resolved, ToAccount, SignerKeys, ResolveAccount, Generated, Or, Fresh, NoAccount,
           Account, TypeOK
  <2>4. account' \in [Kinds -> Account]
    BY <2>1, <2>2, <2>3 DEF TypeOK, AddressesFile, CustomPreset, ResolvedAll
  <2>5. made' \in Nat /\ asked' = {} /\ pc' \in {"balances", "certificates"}
    BY <1>5 DEF StartConfig, TypeOK
  <2> QED
    BY <1>5, <2>1, <2>2, <2>4, <2>5 DEF TypeOK, StartConfig, files
<1>6. CASE DistributeBalances
  BY <1>6 DEF TypeOK, DistributeBalances, files
<1>7. CASE GenerateCertificates
  <2> DEFINE kinds == IF cert # CertOf(account) THEN {"Main", "Transport"} ELSE {}
  <2>1. Prompt(kinds) /\ kinds \in SUBSET NodeKinds
    BY <1>7 DEF GenerateCertificates
  <2>2. CertOf(account) \in [main : Nat, transport : Nat]
    BY SignerApart DEF CertOf, TypeOK, Account
  <2> QED
    BY <1>7, <2>1, <2>2, PromptTyped DEF TypeOK, GenerateCertificates
<1>8. CASE GenerateNodes \/ GenerateNemesis
  <2>1. PICK kinds \in SUBSET NodeKinds :
           /\ Prompt(kinds) /\ pc' \in {"nemesis", "open"}
           /\ UNCHANGED <<customFile, files, memory, request, given, made, seen>>
    BY <1>8, LaterPrompts
  <2> QED
    BY <2>1, PromptTyped DEF TypeOK, files
<1>9. CASE OpenAddresses
  BY <1>9 DEF TypeOK, OpenAddresses, AddressesFile, States
<1>10. CASE FillAddresses
  <2> DEFINE stored == Reduced(account, memory.custom.mode)
  <2>1. stored \in [Kinds -> Account]
    BY WithoutPrivateTyped DEF Reduced, TypeOK
  <2>2. addresses' \in AddressesFile
    BY <1>10, <2>1 DEF FillAddresses, UpdateCipher, Cipher, AddressesFile, States, TypeOK
  <2>3. seen' \subseteq (Kinds \X Nat)
    BY <1>10, <2>1 DEF FillAddresses, TypeOK, Account
  <2> QED
    BY <1>10, <2>2, <2>3 DEF TypeOK, FillAddresses
<1>11. CASE OpenPreset
  BY <1>11 DEF TypeOK, OpenPreset, States
<1>12. CASE FillPreset
  <2>1. WithoutPrivate(memory.custom.keys, Kinds) \in [Kinds -> Account]
    BY WithoutPrivateTyped DEF TypeOK, CustomPreset
  <2>2. preset'.custom \in CustomPreset
    BY <1>12, <2>1 DEF TypeOK, FillPreset, CustomPreset
  <2>3. preset' \in [state : States, custom : CustomPreset]
    BY <1>12, <2>2 DEF FillPreset, States
  <2> QED
    BY <1>12, <2>3 DEF TypeOK, FillPreset
<1>13. CASE StartUpdate
  BY <1>13 DEF TypeOK, StartUpdate, files, AddressesFile
<1>14. CASE Renew
  <2>1. CertOf(addresses.accounts) \in [main : Nat, transport : Nat]
    BY SignerApart DEF CertOf, TypeOK, AddressesFile, Account
  <2>2. asked' \subseteq (Kinds \X Nat)
    BY <1>14, SignerApart DEF Renew, Missing, TypeOK, AddressesFile, Account
  <2> QED
    BY <1>14, <2>1, <2>2 DEF TypeOK, Renew
<1>15. CASE Abort
  BY <1>15 DEF TypeOK, Abort, files
<1>16. CASE UNCHANGED vars
  BY <1>16 DEF TypeOK, vars, files
<1> QED
  BY <1>1, <1>2, <1>3, <1>4, <1>5, <1>6, <1>7, <1>8, <1>9, <1>10, <1>11, <1>12, <1>13, <1>14,
     <1>15, <1>16 DEF Next

\* What StartConfig makes of each account.
LEMMA StartConfigAccounts ==
    ASSUME AddressesInv, StartConfig
    PROVE  /\ memory'.old = addresses /\ memory'.command = "config"
           /\ CanLoad(memory'.old.cipher, memory'.password)
           /\ memory'.custom \in CustomPreset /\ Own(memory'.custom)
           /\ Resolves(addresses.accounts, memory'.custom)
           /\ \A k \in Kinds :
                /\ addresses.accounts[k] \in Account /\ memory'.custom.keys[k] \in Account
                /\ addresses.accounts[k].private \in {0, addresses.accounts[k].public}
                /\ k \in Called(memory'.custom) =>
                     account'[k] = Resolved(k, addresses.accounts[k], memory'.custom.keys[k])
                /\ k \notin Called(memory'.custom) => account'[k] = NoAccount
<1>1. PICK p \in Passwords \cup {NoPassword},
           c \in CustomPresets \cup {NoCustomPreset, preset.custom} :
        /\ CanLoad(addresses.cipher, p)
        /\ c \in Customs(p)
        /\ Resolves(addresses.accounts, c)
        /\ memory' = [command |-> "config", password |-> p, custom |-> c, old |-> addresses]
        /\ account' = ResolvedAll(addresses.accounts, c)
  BY DEF StartConfig
<1>2. c \in CustomPreset /\ Own(c)
  BY <1>1, CustomsOwn
<1>3. \A k \in Kinds : /\ addresses.accounts[k] \in Account /\ c.keys[k] \in Account
                       /\ addresses.accounts[k].private \in {0, addresses.accounts[k].public}
  BY <1>2 DEF AddressesInv, TypeOK, Pairs, Paired, AddressesFile, CustomPreset
<1>4. memory'.custom = c /\ memory'.password = p /\ memory'.old = addresses
      /\ memory'.command = "config"
  BY <1>1
<1> QED
  BY <1>1, <1>2, <1>3, <1>4, ResolvedAllTyped

LEMMA PairsStep == AddressesInv /\ [Next]_vars => Pairs'
<1> SUFFICES ASSUME AddressesInv, [Next]_vars PROVE Pairs'
  OBVIOUS
<1>1. Paired(Nobody)
  BY NothingTyped DEF Paired, NoAccount
<1>2. CASE StartConfig
  <2>1. Paired(account')
    <3> SUFFICES ASSUME NEW k \in Kinds PROVE account'[k].private \in {0, account'[k].public}
      BY DEF Paired
    <3>1. CASE k \in Called(memory'.custom)
      BY <1>2, <3>1, StartConfigAccounts, ResolvedAccount DEF AddressesInv, TypeOK
    <3>2. CASE k \notin Called(memory'.custom)
      BY <1>2, <3>2, StartConfigAccounts DEF NoAccount
    <3> QED
      BY <3>1, <3>2
  <2> QED
    BY <1>2, <2>1, StartConfigAccounts DEF AddressesInv, Pairs, StartConfig, files
<1>3. ASSUME NEW kinds \in SUBSET NodeKinds, Prompt(kinds) PROVE Paired(account')
  BY <1>3, PromptTyped DEF AddressesInv, Pairs, Paired
<1>4. CASE GenerateCertificates
  <2>1. Paired(account')
    BY <1>3, <1>4 DEF GenerateCertificates
  <2> QED
    BY <1>4, <2>1 DEF AddressesInv, Pairs, GenerateCertificates
<1>5. CASE GenerateNodes \/ GenerateNemesis
  <2>1. Paired(account') /\ UNCHANGED <<addresses, memory>>
    BY <1>3, <1>5, LaterPrompts DEF AddressesInv, files
  <2> QED
    BY <2>1 DEF AddressesInv, Pairs
<1>6. CASE FillAddresses
  <2> DEFINE stored == Reduced(account, memory.custom.mode)
  <2>1. account \in [Kinds -> Account] /\ Paired(account)
    BY DEF AddressesInv, TypeOK, Pairs
  <2>2. Paired(stored)
    BY <2>1, WithoutPrivateTyped DEF Reduced, Paired
  <2>3. addresses'.accounts = stored
    BY <1>6 DEF FillAddresses
  <2>4. \/ account' = account /\ memory' = memory
        \/ account' = Nobody /\ memory' = NoMemory
    BY <1>6 DEF FillAddresses
  <2> QED
    BY <1>1, <2>2, <2>3, <2>4, NothingTyped DEF AddressesInv, Pairs
<1>7. CASE StartUpdate
  BY <1>7 DEF AddressesInv, Pairs, StartUpdate, files
<1>8. CASE \/ WriteCustom \/ Encrypt \/ Decrypt \/ DistributeBalances \/ OpenPreset \/ Renew
           \/ UNCHANGED vars
  BY <1>8 DEF AddressesInv, Pairs, WriteCustom, Encrypt, Decrypt, DistributeBalances, OpenPreset,
              Renew, vars, files
<1>9. CASE Reset \/ OpenAddresses \/ FillPreset \/ Abort
  BY <1>1, <1>9, NothingTyped
     DEF AddressesInv, Pairs, Reset, OpenAddresses, FillPreset, Abort, files
<1> QED
  BY <1>2, <1>4, <1>5, <1>6, <1>7, <1>8, <1>9 DEF Next

LEMMA LoadedStep == AddressesInv /\ [Next]_vars => Loaded'
<1> SUFFICES ASSUME AddressesInv, [Next]_vars PROVE Loaded'
  OBVIOUS
<1> DEFINE Kept(old, new) ==
      \A k \in Kinds : new[k].public = old[k].public => old[k].private \in {0, new[k].private}
<1>1. Loaded <=> /\ memory.command = "config" => CanLoad(memory.old.cipher, memory.password)
                 /\ Kept(memory.old.accounts, account)
  BY DEF Loaded
<1>2. CASE StartConfig
  <2>1. ASSUME NEW k \in Kinds, account'[k].public = addresses.accounts[k].public
        PROVE  addresses.accounts[k].private \in {0, account'[k].private}
    <3>1. CASE k \in Called(memory'.custom)
      BY <1>2, <2>1, <3>1, StartConfigAccounts, ResolvedAccount DEF AddressesInv, TypeOK
    <3>2. CASE k \notin Called(memory'.custom)
      BY <1>2, <2>1, <3>2, StartConfigAccounts DEF NoAccount
    <3> QED
      BY <3>1, <3>2
  <2> QED
    BY <1>2, <2>1, StartConfigAccounts DEF Loaded
<1>3. ASSUME NEW kinds \in SUBSET NodeKinds, Prompt(kinds), UNCHANGED memory PROVE Loaded'
  <2>1. Kept(memory.old.accounts, account) /\ Paired(memory.old.accounts)
    BY DEF AddressesInv, Loaded, Pairs
  <2>2. Kept(memory.old.accounts, account')
    BY <1>3, <2>1, PromptTyped DEF AddressesInv, Paired
  <2> QED
    BY <1>3, <2>2 DEF AddressesInv, Loaded
<1>4. CASE GenerateCertificates
  BY <1>3, <1>4 DEF GenerateCertificates
<1>5. CASE GenerateNodes \/ GenerateNemesis
  BY <1>3, <1>5, LaterPrompts DEF AddressesInv
<1>6. CASE StartUpdate
  BY <1>6 DEF AddressesInv, Pairs, Paired, Loaded, StartUpdate
<1>7. CASE UNCHANGED <<memory, account>>
  BY <1>7 DEF AddressesInv, Loaded
<1>8. CASE memory' = NoMemory /\ account' = Nobody
  BY <1>8, NothingTyped DEF Loaded, NoAccount
<1>9. \/ StartConfig \/ GenerateCertificates \/ GenerateNodes \/ GenerateNemesis \/ StartUpdate
      \/ UNCHANGED <<memory, account>>
      \/ memory' = NoMemory /\ account' = Nobody
  BY DEF Next, vars, WriteCustom, Encrypt, Decrypt, Reset, DistributeBalances, OpenAddresses,
         FillAddresses, OpenPreset, FillPreset, Renew, Abort
<1> QED
  BY <1>2, <1>4, <1>5, <1>6, <1>7, <1>8, <1>9

LEMMA RunningStep == AddressesInv /\ [Next]_vars => Running'
<1> SUFFICES ASSUME AddressesInv, [Next]_vars PROVE Running'
  OBVIOUS
<1>1. CASE StartConfig
  BY <1>1, StartConfigAccounts DEF StartConfig, Running
<1>2. CASE FillAddresses
  BY <1>2, NothingTyped DEF AddressesInv, Running, FillAddresses
<1>3. CASE FillPreset \/ Abort
  BY <1>3, NothingTyped DEF Running, FillPreset, Abort
<1>4. CASE StartUpdate
  BY <1>4 DEF Running, StartUpdate
<1>5. CASE WriteCustom \/ Encrypt \/ Decrypt \/ Reset \/ Renew \/ UNCHANGED vars
  BY <1>5 DEF AddressesInv, Running, WriteCustom, Encrypt, Decrypt, Reset, Renew, vars
<1>6. CASE \/ DistributeBalances \/ GenerateCertificates \/ GenerateNodes \/ GenerateNemesis
           \/ OpenAddresses \/ OpenPreset
  BY <1>6 DEF AddressesInv, Running, DistributeBalances, GenerateCertificates, GenerateNodes,
              GenerateNemesis, OpenAddresses, OpenPreset
<1> QED
  BY <1>1, <1>2, <1>3, <1>4, <1>5, <1>6 DEF Next

LEMMA CompleteStep == AddressesInv /\ [Next]_vars => Complete'
<1> SUFFICES ASSUME AddressesInv, [Next]_vars PROVE Complete'
  OBVIOUS
<1>1. CASE StartConfig
  <2>1. ASSUME NEW k \in Called(memory'.custom) PROVE account'[k].public # 0
    <3>1. k \in Kinds
      BY DEF Called
    <3> QED
      BY <1>1, <3>1, StartConfigAccounts, ResolvedAccount DEF AddressesInv, TypeOK
  <2>2. ASSUME PrivateNetwork
        PROVE  memory'.custom.keys[Signer].public \in {0, account'[Signer].public}
    <3> DEFINE old == addresses.accounts[Signer]
               new == memory'.custom.keys[Signer]
    <3>1. Signer \in Kinds /\ Signer \in Called(memory'.custom)
      BY <2>2, SignerApart DEF Kinds, Called, RoleKinds
    <3>2. /\ old \in Account /\ new \in Account /\ old.private \in {0, old.public}
          /\ account'[Signer] = Resolved(Signer, old, new)
      BY <1>1, <3>1, StartConfigAccounts
    <3>3. IsPair(SignerKeys(old, new).public, SignerKeys(old, new).private)
      BY <1>1, <2>2, StartConfigAccounts DEF Resolves
    <3> QED
      BY <3>2, <3>3, ResolvedAccount DEF AddressesInv, TypeOK
  <2> QED
    BY <1>1, <2>1, <2>2 DEF Complete, StartConfig
<1>2. ASSUME NEW kinds \in SUBSET NodeKinds, Prompt(kinds), UNCHANGED memory,
             pc' \notin {"openPreset", "fillPreset"}
      PROVE  Complete'
  <2>1. /\ PrivateNetwork => Signer \in Kinds
        /\ Called(memory.custom) \subseteq Kinds
    BY DEF Kinds, Called
  <2> QED
    BY <1>2, <2>1, PromptTyped DEF AddressesInv, Complete
<1>3. CASE GenerateCertificates
  BY <1>2, <1>3 DEF GenerateCertificates
<1>4. CASE GenerateNodes \/ GenerateNemesis
  BY <1>2, <1>4, LaterPrompts DEF AddressesInv
<1>5. CASE FillAddresses
  <2>1. \A k \in Kinds : addresses'.accounts[k].public = account[k].public
    BY <1>5, WithoutPrivateTyped DEF FillAddresses, Reduced, AddressesInv, TypeOK
  <2>2. CASE UNCHANGED <<memory, account>>
    BY <2>1, <2>2 DEF AddressesInv, Complete
  <2>3. CASE memory' = NoMemory /\ pc' = "idle"
    BY <2>3, NothingTyped DEF Complete
  <2> QED
    BY <1>5, <2>2, <2>3 DEF FillAddresses
<1>6. CASE FillPreset \/ Abort
  BY <1>6, NothingTyped DEF Complete, FillPreset, Abort
<1>7. CASE StartUpdate
  BY <1>7 DEF Complete, StartUpdate
<1>8. CASE \/ WriteCustom \/ Encrypt \/ Decrypt \/ Reset \/ DistributeBalances \/ OpenAddresses
           \/ Renew
  BY <1>8 DEF AddressesInv, Complete, WriteCustom, Encrypt, Decrypt, Reset, DistributeBalances,
              OpenAddresses, Renew
<1>9. CASE OpenPreset \/ UNCHANGED vars
  BY <1>9 DEF AddressesInv, Complete, OpenPreset, vars, files
<1> QED
  BY <1>1, <1>3, <1>4, <1>5, <1>6, <1>7, <1>8, <1>9 DEF Next

LEMMA SourcedStep == AddressesInv /\ [Next]_vars => Sourced'
<1> SUFFICES ASSUME AddressesInv, [Next]_vars PROVE Sourced'
  OBVIOUS
<1> DEFINE Sure(k) == Available(k, addresses.accounts[k].public)
           Safe(k) == \/ Available(k, account[k].public)
                      \/ account[k].private # 0 /\ k \notin Dropped(memory.custom.mode)
<1>1. /\ Own(customFile.custom) /\ Own(preset.custom) /\ Own(memory.custom)
      /\ \A k \in NodeKinds : Sure(k) /\ Safe(k)
  BY DEF AddressesInv, Sourced
<1>2. ASSUME NEW k, NEW key, Available(k, key), seen \subseteq seen' PROVE Available(k, key)'
  BY <1>2 DEF Available
<1>3. \A k \in NodeKinds : Available(k, 0) /\ Available(k, 0)'
  BY DEF Available
<1>4. \A k \in NodeKinds : Nobody[k].public = 0
  BY NothingTyped, SignerApart DEF NoAccount
<1>5. CASE StartConfig
  <2>1. ASSUME NEW k \in NodeKinds PROVE Safe(k)'
    <3> DEFINE old == addresses.accounts[k]
               new == memory'.custom.keys[k]
    <3>1. k \in Kinds /\ k # Signer
      BY SignerApart
    <3>0. CASE k \notin Called(memory'.custom)
      BY <1>3, <1>5, <3>0, <3>1, StartConfigAccounts DEF NoAccount
    <3>2. /\ old \in Account /\ new \in Account /\ old.private \in {0, old.public}
          /\ k \in Called(memory'.custom) => account'[k] = Resolved(k, old, new)
          /\ new.public <= UserKeys /\ new.private <= UserKeys
          /\ memory'.custom \in CustomPreset
      BY <1>5, <3>1, StartConfigAccounts DEF Own
    <3>3. CASE account'[k].public \in {old.public, new.public, new.private}
      BY <1>1, <1>5, <3>2, <3>3 DEF Available, StartConfig
    <3>4. CASE /\ k \in Called(memory'.custom)
               /\ old = NoAccount /\ new = NoAccount /\ account'[k].private # 0
      <4>1. k \in Generates(addresses.accounts, memory'.custom)
        BY <3>1, <3>4 DEF Generates
      <4>2. ~RefusesToGenerate(k, memory'.custom.mode)
        BY <1>5, <4>1, StartConfigAccounts DEF Resolves
      <4>3. memory'.custom.mode \in Modes
        BY <3>2 DEF CustomPreset
      <4> QED
        BY <3>4, <4>2, <4>3, GeneratedStored
    <3> QED
      BY <3>0, <3>1, <3>2, <3>3, <3>4, ResolvedAccount DEF AddressesInv, TypeOK
  <2> QED
    BY <1>1, <1>5, <2>1, StartConfigAccounts DEF Sourced, StartConfig, files, Available
<1>6. ASSUME NEW kinds \in SUBSET NodeKinds, Prompt(kinds),
             UNCHANGED <<customFile, addresses, preset, memory, seen>>
      PROVE  Sourced'
  <2>1. ASSUME NEW k \in NodeKinds PROVE Safe(k)'
    <3>1. k \in Kinds
      BY SignerApart
    <3>2. /\ account'[k].public = account[k].public
          /\ account'[k].private \in {account[k].private, account[k].public}
      BY <1>6, <3>1, PromptTyped DEF AddressesInv
    <3>3. account[k].private \in {0, account[k].public}
      BY <3>1 DEF AddressesInv, Pairs, Paired
    <3> QED
      BY <1>1, <1>6, <3>2, <3>3 DEF Available
  <2> QED
    BY <1>1, <1>6, <2>1 DEF Sourced, Available
<1>7. CASE GenerateCertificates
  BY <1>6, <1>7 DEF GenerateCertificates
<1>8. CASE GenerateNodes \/ GenerateNemesis
  BY <1>6, <1>8, LaterPrompts DEF AddressesInv, files
<1>9. CASE FillAddresses
  <2> DEFINE stored == Reduced(account, memory.custom.mode)
  <2>1. /\ addresses'.accounts = stored
        /\ seen' = seen \cup {<<k, stored[k].private>> : k \in Kinds}
        /\ UNCHANGED <<customFile, preset>>
    BY <1>9 DEF FillAddresses
  <2>2. ASSUME NEW k \in NodeKinds PROVE Sure(k)'
    <3>1. k \in Kinds
      BY SignerApart
    <3>2. /\ stored[k].public = account[k].public
          /\ k \notin Dropped(memory.custom.mode) => stored[k].private = account[k].private
      <4>1. account \in [Kinds -> Account]
        BY DEF AddressesInv, TypeOK
      <4> QED
        BY <3>1, <4>1, ReducedAccount
    <3>3. account[k].private \in {0, account[k].public}
      BY <3>1 DEF AddressesInv, Pairs, Paired
    <3>4. CASE Available(k, account[k].public)
      BY <2>1, <3>2, <3>4 DEF Available
    <3>5. CASE account[k].private # 0 /\ k \notin Dropped(memory.custom.mode)
      <4>1. <<k, stored[k].private>> \in seen'
        BY <2>1, <3>1
      <4> QED
        BY <2>1, <3>2, <3>3, <3>5, <4>1 DEF Available
    <3> QED
      BY <1>1, <3>4, <3>5
  <2>3. CASE UNCHANGED <<memory, account>>
    BY <1>1, <2>1, <2>2, <2>3 DEF Sourced, Available
  <2>4. CASE memory' = NoMemory /\ account' = Nobody
    BY <1>1, <1>3, <1>4, <2>1, <2>2, <2>4, NothingTyped DEF Sourced
  <2> QED
    BY <1>9, <2>3, <2>4 DEF FillAddresses
<1>10. CASE FillPreset
  <2>1. Own(preset'.custom)
    <3>1. /\ preset'.custom.keys = WithoutPrivate(memory.custom.keys, Kinds)
          /\ memory.custom.keys \in [Kinds -> Account]
      BY <1>10, CachedPreset DEF AddressesInv, TypeOK
    <3> QED
      BY <1>1, <3>1, WithoutPrivateTyped DEF Own
  <2> QED
    BY <1>1, <1>3, <1>4, <1>10, <2>1, NothingTyped DEF Sourced, FillPreset, Available
<1>11. CASE StartUpdate
  BY <1>1, <1>11 DEF Sourced, StartUpdate, files, Available
<1>12. CASE WriteCustom \/ Encrypt \/ Decrypt
  <2>1. Own(customFile'.custom)
    BY <1>1, <1>12 DEF WriteCustom, Encrypt, Decrypt, Own
  <2> QED
    BY <1>1, <1>12, <2>1 DEF Sourced, WriteCustom, Encrypt, Decrypt, files, Available
<1>13. CASE DistributeBalances \/ Renew \/ UNCHANGED vars
  BY <1>1, <1>13 DEF Sourced, DistributeBalances, Renew, vars, files, Available
<1>14. CASE Reset \/ OpenAddresses \/ OpenPreset
  <2>a. seen' = seen /\ addresses'.accounts \in {addresses.accounts, Nobody}
    BY <1>14, NothingTyped DEF Reset, OpenAddresses, OpenPreset
  <2>1. \A k \in NodeKinds : Sure(k)'
    BY <1>1, <1>3, <1>4, <2>a DEF Available
  <2>2. Own(preset'.custom)
    BY <1>1, <1>14, NothingTyped DEF Reset, OpenAddresses, OpenPreset
  <2> QED
    BY <1>1, <1>14, <2>1, <2>2 DEF Sourced, Reset, OpenAddresses, OpenPreset, Available
<1>15. CASE Abort
  BY <1>1, <1>3, <1>4, <1>15, NothingTyped DEF Sourced, Abort, files, Available
<1> QED
  BY <1>5, <1>7, <1>8, <1>9, <1>10, <1>11, <1>12, <1>13, <1>14, <1>15 DEF Next

\* Prompts are about keys of the node whose private keys are not at hand.
LEMMA PromptsStep == AddressesInv /\ [Next]_vars => PromptsAnswerable'
<1> SUFFICES ASSUME AddressesInv, [Next]_vars PROVE PromptsAnswerable'
  OBVIOUS
<1>1. ASSUME asked' = {} PROVE PromptsAnswerable'
  BY <1>1 DEF PromptsAnswerable
<1>2. ASSUME NEW kinds \in SUBSET NodeKinds, Prompt(kinds), seen' = seen
      PROVE  PromptsAnswerable'
  <2> SUFFICES ASSUME NEW a \in asked' PROVE a[2] <= UserKeys \/ a \in seen
    BY <1>2 DEF PromptsAnswerable
  <2>1. PICK k \in kinds : a = <<k, account[k].public>> /\ account[k].private = 0
    BY <1>2, PromptTyped DEF AddressesInv
  <2> QED
    BY <1>2, <2>1 DEF AddressesInv, Sourced, Available
<1>3. CASE GenerateCertificates
  BY <1>2, <1>3 DEF GenerateCertificates
<1>4. CASE GenerateNodes \/ GenerateNemesis
  BY <1>2, <1>4, LaterPrompts DEF AddressesInv
<1>5. CASE Renew
  <2> SUFFICES ASSUME NEW a \in asked' PROVE a[2] <= UserKeys \/ a \in seen
    BY <1>5 DEF PromptsAnswerable, Renew
  <2>1. PICK k \in {"Main", "Transport"} : a = <<k, addresses.accounts[k].public>>
    BY <1>5 DEF Renew, Missing
  <2> QED
    BY <2>1 DEF AddressesInv, Sourced, Available
<1>6. CASE UNCHANGED vars
  BY <1>6 DEF AddressesInv, PromptsAnswerable, vars
<1>7. \/ asked' = {} \/ GenerateCertificates \/ GenerateNodes \/ GenerateNemesis \/ Renew
      \/ UNCHANGED vars
  BY DEF Next, WriteCustom, Encrypt, Decrypt, Reset, StartConfig, DistributeBalances,
         OpenAddresses, FillAddresses, OpenPreset, FillPreset, StartUpdate, Abort
<1> QED
  BY <1>1, <1>3, <1>4, <1>5, <1>6, <1>7

THEOREM Invariance == Spec => []AddressesInv
<1>1. AddressesInv /\ [Next]_vars => AddressesInv'
  BY TypeStep, PairsStep, SourcedStep, LoadedStep, RunningStep, CompleteStep, PromptsStep
     DEF AddressesInv
<1> QED
  BY <1>1, InitInv, PTL DEF Spec

\* The model is type correct, for all presets, passwords and balances.
THEOREM TypeCorrect == Spec => []TypeOK
<1>1. AddressesInv => TypeOK
  BY DEF AddressesInv
<1> QED
  BY <1>1, Invariance, PTL

\* The program asks for no private key that it has kept to itself.
THEOREM PromptsAreAnswerable == Spec => []PromptsAnswerable
<1>1. AddressesInv => PromptsAnswerable
  BY DEF AddressesInv
<1> QED
  BY <1>1, Invariance, PTL

\* No command writes encrypted keys back in plain.
THEOREM EncryptedStaysEncrypted == Spec => NeverPlainAgain
<1>1. ASSUME AddressesInv, FillAddresses
      PROVE  \/ memory.old.cipher = NoPassword
             \/ addresses'.cipher = memory.old.cipher
             \/ \A k \in Kinds : addresses'.accounts[k].private = 0
  <2> DEFINE stored == Reduced(account, memory.custom.mode)
  <2>1. /\ addresses'.accounts = stored
        /\ addresses'.cipher = IF memory.command = "update" THEN UpdateCipher(stored)
                              ELSE Cipher(stored, memory.password)
    BY <1>1 DEF FillAddresses
  <2>2. CASE memory.command = "update"
    BY <2>1, <2>2 DEF UpdateCipher, Cipher
  <2>3. CASE memory.command = "config"
    BY <1>1, <2>1, <2>3 DEF Cipher, AddressesInv, Loaded, CanLoad
  <2>4. memory.command \in {"update", "config"}
    BY <1>1 DEF AddressesInv, TypeOK, Running, FillAddresses
  <2> QED
    BY <2>2, <2>3, <2>4
<1> QED
  BY <1>1, Invariance, PTL DEF NeverPlainAgain

\* No command loses a stored private key that its mode stores.
THEOREM StoredKeysKept == Spec => StoredKept
<1>1. ASSUME AddressesInv, FillAddresses
      PROVE  \A k \in Kinds \ Dropped(memory.custom.mode) :
                addresses'.accounts[k].public = memory.old.accounts[k].public =>
                    memory.old.accounts[k].private \in {0, addresses'.accounts[k].private}
  <2>1. account \in [Kinds -> Account]
    BY <1>1 DEF AddressesInv, TypeOK
  <2>2. \A k \in Kinds \ Dropped(memory.custom.mode) :
           /\ addresses'.accounts[k].public = account[k].public
           /\ addresses'.accounts[k].private = account[k].private
    BY <1>1, <2>1, WithoutPrivateTyped DEF FillAddresses, Reduced
  <2> QED
    BY <1>1, <2>2 DEF AddressesInv, Loaded
<1> QED
  BY <1>1, Invariance, PTL DEF StoredKept

\* A completed configuration can be upgraded, if the signer's key is stored.
THEOREM CompletedFoldersUpgrade == Spec => CompletedUpgrades
<1>1. ASSUME AddressesInv, FillPreset,
             PrivateNetwork => addresses.accounts[Signer].private # 0
      PROVE  Resolves(addresses.accounts, preset'.custom)
  <2> DEFINE cached == preset'.custom.keys
  <2>1. /\ cached = WithoutPrivate(memory.custom.keys, Kinds)
        /\ memory.custom.keys \in [Kinds -> Account]
        /\ preset'.custom.roles = memory.custom.roles
    BY <1>1, CachedPreset DEF AddressesInv, TypeOK
  <2>2. \A k \in Kinds : cached[k].private = 0 /\ cached[k].public = memory.custom.keys[k].public
    BY <2>1, WithoutPrivateTyped
  <2>3. memory.command = "config"
    BY <1>1 DEF AddressesInv, TypeOK, Running, FillPreset
  <2>0. /\ Called(preset'.custom) = Called(memory.custom)
        /\ Called(memory.custom) \subseteq Kinds
        /\ PrivateNetwork => Signer \in Called(memory.custom)
    BY <2>1, SignerApart DEF Called, Kinds, RoleKinds
  <2>4. /\ \A k \in Called(memory.custom) : addresses.accounts[k].public # 0
        /\ \A k \in Kinds : addresses.accounts[k].public = account[k].public
    BY <1>1, <2>0, <2>3 DEF AddressesInv, Complete, FillPreset
  <2>5. \A k \in NodeKinds : IsPair(cached[k].public, cached[k].private)
    BY <2>2, SignerApart DEF IsPair
  <2>6. Generates(addresses.accounts, preset'.custom) \cap NodeKinds = {}
    <3>1. \A k \in NodeKinds : k # Signer
      BY SignerApart
    <3>2. \A k \in Called(preset'.custom) : addresses.accounts[k] # NoAccount
      BY <2>0, <2>4 DEF NoAccount
    <3> QED
      BY <3>1, <3>2 DEF Generates
  <2>7. ASSUME PrivateNetwork
        PROVE  LET keys == SignerKeys(addresses.accounts[Signer], cached[Signer])
               IN  IsPair(keys.public, keys.private)
    <3>1. Signer \in Kinds
      BY <2>7 DEF Kinds
    <3>2. addresses.accounts[Signer].private = addresses.accounts[Signer].public
      BY <1>1, <2>7, <3>1 DEF AddressesInv, Pairs, Paired
    <3>3. cached[Signer].public \in {0, addresses.accounts[Signer].public}
      BY <1>1, <2>2, <2>3, <2>4, <2>7, <3>1 DEF AddressesInv, Complete
    <3> QED
      BY <1>1, <2>2, <2>7, <3>1, <3>2, <3>3 DEF SignerKeys, Or, IsPair
  <2> QED
    BY <2>5, <2>6, <2>7 DEF Resolves
<1> QED
  BY <1>1, Invariance, PTL DEF CompletedUpgrades
=============================================================================

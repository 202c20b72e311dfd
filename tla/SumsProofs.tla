----------------------------- MODULE SumsProofs -----------------------------
(***************************************************************************)
(* What SumBelow computes, for every bound, set and weight.                *)
(***************************************************************************)
EXTENDS Sums, TLAPS, WellFoundedInduction

(***************************************************************************)
(* A set of numbers has a least element.                                   *)
(***************************************************************************)
LEMMA LeastIn ==
    ASSUME NEW S \in SUBSET Nat, S # {}
    PROVE  \E x \in S : \A y \in S : x <= y
<1> DEFINE R == OpToRel(<, Nat)
<1>1. PICK x \in S : \A y \in S : ~ (<<y, x>> \in R)
    <2>1. IsWellFoundedOn(R, Nat) BY NatLessThanWellFounded
    <2> HIDE DEF R
    <2> QED BY <2>1, WFMin
<1>2. ASSUME NEW y \in S PROVE x <= y
    <2>1. <<y, x>> \in Nat \X Nat OBVIOUS
    <2>2. ~ (y < x) BY <1>1, <2>1 DEF OpToRel
    <2> QED BY <2>2
<1> QED BY <1>2

(***************************************************************************)
(* Induction over a set of numbers.  A set takes the place of the          *)
(* predicate that the library's theorem has as a parameter.                *)
(***************************************************************************)
LEMMA Induction ==
    ASSUME NEW T \in SUBSET Nat, 0 \in T, \A n \in T : n + 1 \in T
    PROVE  T = Nat
<1> SUFFICES ASSUME Nat \ T # {} PROVE FALSE OBVIOUS
<1>1. PICK x \in Nat \ T : \A y \in Nat \ T : x <= y BY LeastIn
<1>2. x \in Nat /\ x # 0 OBVIOUS
<1>3. x - 1 \in Nat /\ ~ (x <= x - 1) /\ (x - 1) + 1 = x BY <1>2
<1>4. x - 1 \in T BY <1>1, <1>3
<1>5. (x - 1) + 1 \in T BY <1>4
<1> QED BY <1>3, <1>5

(***************************************************************************)
(* The recursion of SumBelow, unfolded: there is a function that obeys it, *)
(* put together from functions that obey it up to a bound.                 *)
(***************************************************************************)
LEMMA SumUnfold ==
    ASSUME NEW S, NEW weight, NEW i \in Nat
    PROVE  /\ SumBelow(0, S, weight) = 0
           /\ SumBelow(i + 1, S, weight) =
                  SumBelow(i, S, weight) + IF i \in S THEN weight[i] ELSE 0
<1> DEFINE term(m) == IF m \in S THEN weight[m] ELSE 0
           step(f, m) == IF m = 0 THEN 0 ELSE f[m - 1] + term(m - 1)
           IsPart(f, n) == f = [m \in 0 .. n |-> step(f, m)]
<1>1. \A n \in Nat : \E f : IsPart(f, n)
    <2> DEFINE T == {n \in Nat : \E f : IsPart(f, n)}
    <2>1. 0 \in T
        <3> DEFINE f == [m \in 0 .. 0 |-> 0]
        <3>1. IsPart(f, 0) OBVIOUS
        <3> QED BY <3>1
    <2>2. ASSUME NEW n \in T PROVE n + 1 \in T
        <3>1. PICK f : IsPart(f, n) OBVIOUS
        <3> DEFINE g == [m \in 0 .. n + 1 |-> IF m <= n THEN f[m] ELSE f[n] + term(n)]
        <3> HIDE DEF term
        <3>2. ASSUME NEW m \in 0 .. n + 1 PROVE g[m] = step(g, m)
            <4>1. CASE m = 0 BY <3>1, <4>1
            <4>2. CASE m # 0 /\ m <= n
                <5>1. m - 1 \in 0 .. n /\ m \in 0 .. n BY <4>2
                <5>2. g[m] = f[m] /\ g[m - 1] = f[m - 1] BY <4>2, <5>1
                <5>3. f[m] = step(f, m) BY <3>1, <5>1
                <5> QED BY <4>2, <5>2, <5>3
            <4>3. CASE m = n + 1
                <5>1. g[m - 1] = f[n] /\ m - 1 = n BY <4>3
                <5>2. g[m] = f[n] + term(n) BY <4>3
                <5> QED BY <4>3, <5>1, <5>2
            <4> QED BY <4>1, <4>2, <4>3
        <3>3. IsPart(g, n + 1) BY <3>2
        <3> HIDE DEF g
        <3> QED BY <3>3
    <2> HIDE DEF IsPart
    <2>3. T = Nat BY <2>1, <2>2, Induction
    <2> QED BY <2>3
<1>2. ASSUME NEW n \in Nat, NEW k \in Nat, NEW f, NEW g, IsPart(f, n), IsPart(g, k)
      PROVE  \A m \in Nat : m <= n /\ m <= k => f[m] = g[m]
    <2> DEFINE T == {m \in Nat : m <= n /\ m <= k => f[m] = g[m]}
    <2> HIDE DEF term
    <2>1. 0 \in T BY <1>2
    <2>2. ASSUME NEW m \in T PROVE m + 1 \in T
        <3> SUFFICES ASSUME m + 1 <= n, m + 1 <= k PROVE f[m + 1] = g[m + 1] OBVIOUS
        <3>1. m + 1 \in 0 .. n /\ m + 1 \in 0 .. k /\ (m + 1) - 1 = m /\ m + 1 # 0 OBVIOUS
        <3>2. f[m + 1] = f[m] + term(m) BY <1>2, <3>1
        <3>3. g[m + 1] = g[m] + term(m) BY <1>2, <3>1
        <3> QED BY <3>2, <3>3
    <2> HIDE DEF T
    <2>3. T = Nat BY <2>1, <2>2, Induction DEF T
    <2> QED BY <2>3 DEF T
<1> DEFINE part(n) == CHOOSE f : IsPart(f, n)
           G == [m \in Nat |-> part(m)[m]]
<1>3. \A n \in Nat : IsPart(part(n), n)
    <2> HIDE DEF IsPart
    <2> QED BY <1>1
<1>4. G = [m \in Nat |-> step(G, m)]
    <2> SUFFICES ASSUME NEW m \in Nat PROVE G[m] = step(G, m)
        <3>1. PICK g : g = G OBVIOUS
        <3> HIDE DEF part, step
        <3>2. g = [m \in Nat |-> part(m)[m]] BY <3>1
        <3>3. \A m \in Nat : g[m] = step(g, m) BY <3>1
        <3>4. g = [m \in Nat |-> step(g, m)] BY <3>2, <3>3
        <3> HIDE DEF G
        <3> QED BY ONLY <3>1, <3>4
    <2> HIDE DEF part, term
    <2>1. part(m)[m] = step(part(m), m) BY <1>3
    <2>2. CASE m = 0 BY <2>1, <2>2
    <2>3. CASE m # 0
        <3>1. m - 1 \in Nat /\ m - 1 <= m BY <2>3
        <3>2. IsPart(part(m), m) /\ IsPart(part(m - 1), m - 1) BY <1>3, <3>1
        <3> HIDE DEF IsPart
        <3>3. part(m)[m - 1] = part(m - 1)[m - 1] BY <1>2, <3>1, <3>2
        <3> QED BY <2>1, <2>3, <3>1, <3>3
    <2> QED BY <2>2, <2>3
<1> DEFINE sum == CHOOSE f : f = [m \in Nat |-> step(f, m)]
<1>5. sum = [m \in Nat |-> step(sum, m)]
    <2> HIDE DEF G, step
    <2> QED BY <1>4
<1>6. \A n : SumBelow(n, S, weight) = sum[n] BY DEF SumBelow
<1> HIDE DEF sum, term
<1>7. sum[0] = 0 BY <1>5
<1>8. sum[i + 1] = sum[i] + term(i)
    <2>1. i + 1 \in Nat /\ i + 1 # 0 /\ (i + 1) - 1 = i OBVIOUS
    <2> QED BY <1>5, <2>1
<1> QED BY <1>6, <1>7, <1>8 DEF term

LEMMA SumEmpty == ASSUME NEW S, NEW weight PROVE SumBelow(0, S, weight) = 0
BY SumUnfold, 0 \in Nat

\* A sum of integers is an integer, and one of natural numbers natural.
LEMMA SumType ==
    ASSUME NEW D \in {Nat, Int}, NEW S, NEW weight, NEW n \in Nat,
           \A i \in 0 .. n - 1 : i \in S => weight[i] \in D
    PROVE  SumBelow(n, S, weight) \in D
<1> DEFINE T == {m \in Nat : m <= n => SumBelow(m, S, weight) \in D}
<1>1. 0 \in T BY SumEmpty
<1>2. ASSUME NEW m \in T PROVE m + 1 \in T
    <2> SUFFICES ASSUME m + 1 <= n PROVE SumBelow(m + 1, S, weight) \in D OBVIOUS
    <2>1. m \in 0 .. n - 1 /\ SumBelow(m, S, weight) \in D OBVIOUS
    <2>2. SumBelow(m + 1, S, weight) =
              SumBelow(m, S, weight) + IF m \in S THEN weight[m] ELSE 0 BY SumUnfold
    <2> QED BY <2>1, <2>2
<1> HIDE DEF T
<1>3. T = Nat BY <1>1, <1>2, Induction DEF T
<1> QED BY <1>3 DEF T

\* A sum depends on the weights of its indices below the bound, and on nothing else.
LEMMA SumSame ==
    ASSUME NEW S, NEW U, NEW weight, NEW other, NEW n \in Nat,
           \A i \in 0 .. n - 1 : (i \in S <=> i \in U) /\ (i \in S => weight[i] = other[i])
    PROVE  SumBelow(n, S, weight) = SumBelow(n, U, other)
<1> DEFINE T == {m \in Nat : m <= n => SumBelow(m, S, weight) = SumBelow(m, U, other)}
<1>1. 0 \in T BY SumEmpty
<1>2. ASSUME NEW m \in T PROVE m + 1 \in T
    <2> SUFFICES ASSUME m + 1 <= n
                 PROVE  SumBelow(m + 1, S, weight) = SumBelow(m + 1, U, other)
        OBVIOUS
    <2>1. m \in 0 .. n - 1 /\ SumBelow(m, S, weight) = SumBelow(m, U, other) OBVIOUS
    <2>2. SumBelow(m + 1, S, weight) =
              SumBelow(m, S, weight) + IF m \in S THEN weight[m] ELSE 0 BY SumUnfold
    <2>3. SumBelow(m + 1, U, other) =
              SumBelow(m, U, other) + IF m \in U THEN other[m] ELSE 0 BY SumUnfold
    <2>4. (IF m \in S THEN weight[m] ELSE 0) = IF m \in U THEN other[m] ELSE 0 BY <2>1
    <2> QED BY <2>1, <2>2, <2>3, <2>4
<1> HIDE DEF T
<1>3. T = Nat BY <1>1, <1>2, Induction DEF T
<1> QED BY <1>3 DEF T

\* A sum over no index is 0.
LEMMA SumNone ==
    ASSUME NEW S, NEW weight, NEW n \in Nat, \A i \in 0 .. n - 1 : i \notin S
    PROVE  SumBelow(n, S, weight) = 0
<1> DEFINE T == {m \in Nat : m <= n => SumBelow(m, S, weight) = 0}
<1>1. 0 \in T BY SumEmpty
<1>2. ASSUME NEW m \in T PROVE m + 1 \in T
    <2> SUFFICES ASSUME m + 1 <= n PROVE SumBelow(m + 1, S, weight) = 0 OBVIOUS
    <2>1. m \in 0 .. n - 1 /\ SumBelow(m, S, weight) = 0 OBVIOUS
    <2> QED BY <2>1, SumUnfold
<1> HIDE DEF T
<1>3. T = Nat BY <1>1, <1>2, Induction DEF T
<1> QED BY <1>3 DEF T

\* A sum over one index is its weight.
LEMMA SumOne ==
    ASSUME NEW weight, NEW n \in Nat, NEW k \in 0 .. n - 1, weight[k] \in Int
    PROVE  SumBelow(n, {k}, weight) = weight[k]
<1> DEFINE T == {m \in Nat : SumBelow(m, {k}, weight) = IF m <= k THEN 0 ELSE weight[k]}
<1>1. 0 \in T BY SumEmpty
<1>2. ASSUME NEW m \in T PROVE m + 1 \in T
    <2>1. SumBelow(m + 1, {k}, weight) =
              SumBelow(m, {k}, weight) + IF m \in {k} THEN weight[m] ELSE 0 BY SumUnfold
    <2>2. SumBelow(m, {k}, weight) = IF m <= k THEN 0 ELSE weight[k] OBVIOUS
    <2> QED BY <2>1, <2>2
<1> HIDE DEF T
<1>3. T = Nat BY <1>1, <1>2, Induction DEF T
<1>4. n \in T BY <1>3
<1> QED BY <1>4 DEF T

\* The sum over two sets that do not meet is the sum of the sums.
LEMMA SumSplit ==
    ASSUME NEW S, NEW U, S \cap U = {}, NEW weight, NEW n \in Nat,
           \A i \in 0 .. n - 1 : i \in S \cup U => weight[i] \in Int
    PROVE  SumBelow(n, S \cup U, weight) = SumBelow(n, S, weight) + SumBelow(n, U, weight)
<1> DEFINE sum(m, V) == SumBelow(m, V, weight)
           T == {m \in Nat : m <= n =>
                     /\ sum(m, S) \in Int /\ sum(m, U) \in Int
                     /\ sum(m, S \cup U) = sum(m, S) + sum(m, U)}
<1>1. 0 \in T BY SumEmpty
<1>2. ASSUME NEW m \in T PROVE m + 1 \in T
    <2> SUFFICES ASSUME m + 1 <= n
                 PROVE  /\ sum(m + 1, S) \in Int /\ sum(m + 1, U) \in Int
                        /\ sum(m + 1, S \cup U) = sum(m + 1, S) + sum(m + 1, U)
        OBVIOUS
    <2>1. /\ m \in 0 .. n - 1
          /\ sum(m, S) \in Int /\ sum(m, U) \in Int
          /\ sum(m, S \cup U) = sum(m, S) + sum(m, U)
        OBVIOUS
    <2>2. \A V : sum(m + 1, V) = sum(m, V) + IF m \in V THEN weight[m] ELSE 0 BY SumUnfold
    <2> HIDE DEF sum
    <2>3. /\ sum(m + 1, S) = sum(m, S) + IF m \in S THEN weight[m] ELSE 0
          /\ sum(m + 1, U) = sum(m, U) + IF m \in U THEN weight[m] ELSE 0
          /\ sum(m + 1, S \cup U) = sum(m, S \cup U) + IF m \in S \cup U THEN weight[m] ELSE 0
        BY <2>2
    <2>4. m \in S \cup U => weight[m] \in Int BY <2>1
    <2>5. ~ (m \in S /\ m \in U) OBVIOUS
    <2> QED BY <2>1, <2>3, <2>4, <2>5
<1> HIDE DEF T
<1>3. T = Nat BY <1>1, <1>2, Induction DEF T
<1>4. n \in T BY <1>3
<1> QED BY <1>4 DEF T

\* One index more adds its weight.
LEMMA SumAdd ==
    ASSUME NEW S, NEW weight, NEW n \in Nat, NEW k \in 0 .. n - 1, k \notin S,
           \A i \in 0 .. n - 1 : i \in S \cup {k} => weight[i] \in Int
    PROVE  SumBelow(n, S \cup {k}, weight) = SumBelow(n, S, weight) + weight[k]
<1>1. SumBelow(n, S \cup {k}, weight) = SumBelow(n, S, weight) + SumBelow(n, {k}, weight)
    BY SumSplit
<1>2. weight[k] \in Int OBVIOUS
<1> QED BY <1>1, <1>2, SumOne
=============================================================================

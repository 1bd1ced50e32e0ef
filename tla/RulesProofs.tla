----------------------------- MODULE RulesProofs -----------------------------
(***************************************************************************)
(* What the pure functions of MCRules guarantee for every input a caller   *)
(* can give them: any error text, any times, any witness and any           *)
(* configuration, not only the small sets the run enumerates.  Each lemma  *)
(* is about a broad class of inputs, named by an operator; the theorems    *)
(* put the inputs of the run into those classes.                           *)
(***************************************************************************)
EXTENDS MCRules, WellFoundedInduction, FiniteSetTheorems, TLAPS

(***************************************************************************)
(* Min finds the smallest of any numbers.  Subsets of Nat that are finite  *)
(* are well-founded under inclusion, and a smaller number has a smaller    *)
(* interval below it.                                                      *)
(***************************************************************************)
LEMMA Smallest ==
  ASSUME NEW S \in SUBSET Nat, S # {}
  PROVE  Min(S) \in S /\ \A y \in S : Min(S) <= y
  <1> DEFINE Below == {0..x : x \in S}
             Order == StrictSubsetOrdering(Nat)
  <1>1. Below \subseteq FiniteSubsetsOf(Nat)
    <2>1. \A x \in S : 0..x \subseteq Nat /\ IsFiniteSet(0..x)
      BY FS_Interval
    <2>2. QED
      BY <2>1 DEF FiniteSubsetsOf
  <1>2. Below # {}
    OBVIOUS
  <1>3. PICK T \in Below : \A U \in Below : ~(<<U, T>> \in Order)
    <2> HIDE DEF Below, Order
    <2>1. IsWellFoundedOn(Order, FiniteSubsetsOf(Nat))
      BY FS_StrictSubsetOrderingWellFounded DEF Order
    <2>2. QED
      BY <1>1, <1>2, <2>1, WFMin
  <1>4. PICK x \in S : T = 0..x
    BY <1>3
  <1>5. \A y \in S : x <= y
    <2> SUFFICES ASSUME NEW y \in S, y < x PROVE FALSE
      OBVIOUS
    <2>1. 0..y \subseteq 0..x /\ 0..y # 0..x /\ 0..y \in SUBSET Nat /\ 0..x \in SUBSET Nat
      OBVIOUS
    <2>2. <<0..y, 0..x>> \in Order
      BY <2>1 DEF StrictSubsetOrdering
    <2>3. QED
      BY <1>3, <1>4, <2>2
  <1>6. QED
    BY <1>5 DEF Min

\* Max finds the largest of any numbers up to some bound.
LEMMA Largest ==
  ASSUME NEW n \in Nat, NEW S \in SUBSET (0..n), S # {}
  PROVE  Max(S) \in S /\ \A y \in S : y <= Max(S)
  <1> DEFINE below == {n - x : x \in S}
  <1>1. below \in SUBSET Nat /\ below # {}
    <2>1. \A x \in S : x \in 0..n /\ n - x \in Nat
      OBVIOUS
    <2>2. QED
      BY <2>1
  <1>2. Min(below) \in below /\ \A y \in below : Min(below) <= y
    <2> HIDE DEF below
    <2>1. QED
      BY <1>1, Smallest
  <1>3. PICK x \in S : Min(below) = n - x
    BY <1>2
  <1>4. \A y \in S : y <= x
    <2> SUFFICES ASSUME NEW y \in S PROVE y <= x
      OBVIOUS
    <2>1. n - y \in below /\ y \in Nat /\ x \in Nat
      OBVIOUS
    <2>2. n - x <= n - y
      BY <1>2, <1>3, <2>1
    <2>3. QED
      BY <2>1, <2>2
  <1>5. \A y \in S : x >= y
    BY <1>4
  <1>6. QED
    BY <1>5 DEF Max

\* iter gives the sums of v over the sets of numbers up to n.
SumsOver(iter, v, n) ==
  iter = [s \in SUBSET (1..n) |-> IF s = {} THEN 0 ELSE iter[s \ {Max(s)}] + v[Max(s)]]

\* There are such sums.
LEMMA SumsExist ==
  ASSUME NEW v, NEW m \in Nat
  PROVE  \E iter : SumsOver(iter, v, m)
  <1> DEFINE Has(k) == \E iter : SumsOver(iter, v, k)
             stuck == {k \in 0..m : ~Has(k)}
  <1>1. SUFFICES ASSUME stuck # {} PROVE FALSE
    <2>1. m \in 0..m
      OBVIOUS
    <2> HIDE DEF Has
    <2>2. stuck = {} => Has(m)
      BY <2>1
    <2>3. QED
      BY <2>2 DEF Has
  <1>2. PICK k \in 0..m : k \in stuck /\ \A j \in stuck : k <= j
    <2>1. stuck \in SUBSET Nat /\ stuck \subseteq 0..m
      OBVIOUS
    <2> HIDE DEF stuck
    <2>2. QED
      BY <1>1, <2>1, Smallest
  <1>3. ~Has(k)
    BY <1>2
  <1>4. CASE k = 0
    <2>1. SUBSET (1..0) = {{}}
      OBVIOUS
    <2> DEFINE none == [s \in SUBSET (1..0) |-> 0]
    <2>2. none = [s \in SUBSET (1..0) |-> IF s = {} THEN 0 ELSE none[s \ {Max(s)}] + v[Max(s)]]
      BY <2>1
    <2>3. SumsOver(none, v, 0)
      BY <2>2 DEF SumsOver
    <2>4. QED
      BY <1>3, <1>4, <2>3
  <1>5. CASE k # 0
    <2>1. k \in Nat /\ k >= 1 /\ k - 1 \in 0..m /\ k - 1 \notin stuck
      BY <1>2, <1>5
    <2>2. PICK f : SumsOver(f, v, k - 1)
      BY <2>1
    <2> DEFINE longer == [s \in SUBSET (1..k) |-> IF k \in s THEN f[s \ {k}] + v[k] ELSE f[s]]
    <2>3. longer = [s \in SUBSET (1..k) |-> longer[s]]
      OBVIOUS
    <2>4. \A s \in SUBSET (1..k) : longer[s] = IF k \in s THEN f[s \ {k}] + v[k] ELSE f[s]
      OBVIOUS
    <2> HIDE DEF longer
    <2>5. \A s \in SUBSET (1..(k - 1)) : f[s] = IF s = {} THEN 0 ELSE f[s \ {Max(s)}] + v[Max(s)]
      BY <2>2 DEF SumsOver
    <2>6. \A s \in SUBSET (1..k) : s # {} => Max(s) \in s /\ \A y \in s : y <= Max(s)
      <3> SUFFICES ASSUME NEW s \in SUBSET (1..k), s # {} PROVE Max(s) \in s /\ \A y \in s : y <= Max(s)
        OBVIOUS
      <3>1. s \in SUBSET (0..k)
        OBVIOUS
      <3>2. QED
        BY <2>1, <3>1, Largest
    <2>7. \A s \in SUBSET (1..k) : longer[s] = IF s = {} THEN 0 ELSE longer[s \ {Max(s)}] + v[Max(s)]
      <3> SUFFICES ASSUME NEW s \in SUBSET (1..k)
                   PROVE  longer[s] = IF s = {} THEN 0 ELSE longer[s \ {Max(s)}] + v[Max(s)]
        OBVIOUS
      <3>1. CASE k \in s
        <4>1. Max(s) = k
          <5>1. Max(s) \in 1..k /\ k <= Max(s)
            BY <2>6, <3>1
          <5>2. QED
            BY <2>1, <5>1
        <4>2. s \ {k} \in SUBSET (1..k) /\ k \notin s \ {k}
          OBVIOUS
        <4>3. longer[s \ {k}] = f[s \ {k}]
          BY <2>4, <4>2
        <4>4. QED
          BY <2>4, <3>1, <4>1, <4>3
      <3>2. CASE k \notin s
        <4>1. s \in SUBSET (1..(k - 1))
          <5>1. \A x \in 1..k : x # k => x \in 1..(k - 1)
            BY <2>1
          <5>2. QED
            BY <3>2, <5>1
        <4>2. s \ {Max(s)} \in SUBSET (1..k) /\ k \notin s \ {Max(s)}
          BY <3>2
        <4>3. longer[s] = f[s] /\ longer[s \ {Max(s)}] = f[s \ {Max(s)}]
          BY <2>4, <3>2, <4>2
        <4>4. QED
          BY <2>5, <4>1, <4>3
      <3>3. QED
        BY <3>1, <3>2
    <2>8. SumsOver(longer, v, k)
      BY <2>3, <2>7 DEF SumsOver
    <2>9. QED
      BY <1>3, <2>8
  <1>6. QED
    BY <1>4, <1>5

\* sum gives the sums of v up to any place.
Adds(sum, v, n) == sum[0] = 0 /\ \A k \in 1..n : sum[k] = sum[k - 1] + v[k]

\* The total of a sequence is reached by adding one member after another.
LEMMA TotalAdds ==
  ASSUME NEW v, NEW n \in Nat, DOMAIN v = 1..n
  PROVE  \E sum : Adds(sum, v, n) /\ Total(v) = sum[n]
  <1> DEFINE Sums(iter) == iter = [s \in SUBSET DOMAIN v |-> IF s = {} THEN 0 ELSE iter[s \ {Max(s)}] + v[Max(s)]]
             all == CHOOSE iter : Sums(iter)
  <1>1. \E iter : Sums(iter)
    <2>1. PICK iter : SumsOver(iter, v, n)
      BY SumsExist
    <2>2. Sums(iter)
      BY <2>1 DEF SumsOver
    <2>3. QED
      BY <2>2
  <1>2. Total(v) = all[DOMAIN v]
    BY Zenon DEF Total, FoldLeft, MapThenFoldSet
  <1>3. Sums(all)
    <2> HIDE DEF Sums
    <2>1. QED
      BY <1>1
  <1> HIDE DEF all
  <1>4. \A s \in SUBSET (1..n) : all[s] = IF s = {} THEN 0 ELSE all[s \ {Max(s)}] + v[Max(s)]
    BY <1>3
  <1> DEFINE sum == [k \in 0..n |-> all[1..k]]
  <1>5. sum[0] = 0
    <2>1. 1..0 = {} /\ {} \in SUBSET (1..n) /\ 0 \in 0..n
      OBVIOUS
    <2>2. sum[0] = all[{}]
      BY <2>1
    <2>3. QED
      BY <1>4, <2>1, <2>2
  <1>6. \A k \in 1..n : sum[k] = sum[k - 1] + v[k]
    <2> SUFFICES ASSUME NEW k \in 1..n PROVE sum[k] = sum[k - 1] + v[k]
      OBVIOUS
    <2>1. 1..k \in SUBSET (1..n) /\ 1..k \in SUBSET (0..k) /\ k \in 1..k /\ k \in Nat
      OBVIOUS
    <2>2. Max(1..k) \in 1..k /\ k <= Max(1..k)
      BY <2>1, Largest
    <2>3. Max(1..k) = k
      BY <2>2
    <2>4. (1..k) \ {k} = 1..(k - 1)
      OBVIOUS
    <2>5. all[1..k] = all[1..(k - 1)] + v[k]
      BY <1>4, <2>1, <2>3, <2>4
    <2>6. QED
      BY <2>5
  <1>7. Total(v) = sum[n]
    BY <1>2
  <1> HIDE DEF sum
  <1>8. QED
    BY <1>5, <1>6, <1>7 DEF Adds

\* What holds of nothing, and of a sum when it holds of the sum before it, holds of the last one.
LEMMA AnyTotal ==
  ASSUME NEW fine, NEW n \in Nat, 0 \in fine, \A k \in 1..n : k - 1 \in fine => k \in fine
  PROVE  n \in fine
  <1> DEFINE wrong == {k \in 0..n : k \notin fine}
  <1>1. SUFFICES ASSUME wrong # {} PROVE FALSE
    OBVIOUS
  <1>2. PICK k \in 0..n : k \in wrong /\ \A j \in wrong : k <= j
    <2>1. wrong \in SUBSET Nat /\ wrong \subseteq 0..n
      OBVIOUS
    <2> HIDE DEF wrong
    <2>2. QED
      BY <1>1, <2>1, Smallest
  <1>3. k # 0
    BY <1>2
  <1>4. k \in 1..n /\ k - 1 \in 0..n /\ ~(k <= k - 1)
    BY <1>3
  <1>5. k - 1 \notin wrong
    BY <1>2, <1>4
  <1>6. QED
    BY <1>2, <1>4, <1>5

\* Integers have an integer total.
LEMMA TotalIsInteger ==
  ASSUME NEW v, NEW n \in Nat, DOMAIN v = 1..n, \A i \in 1..n : v[i] \in Int
  PROVE  Total(v) \in Int
  <1>1. PICK sum : Adds(sum, v, n) /\ Total(v) = sum[n]
    BY TotalAdds
  <1> DEFINE fine == {k \in 0..n : sum[k] \in Int}
  <1>2. 0 \in fine
    BY <1>1 DEF Adds
  <1>3. \A k \in 1..n : k - 1 \in fine => k \in fine
    BY <1>1 DEF Adds
  <1>4. n \in fine
    <2> HIDE DEF fine
    <2>1. QED
      BY <1>2, <1>3, AnyTotal
  <1>5. QED
    BY <1>1, <1>4

\* The total of amounts is an amount, at least each of them, and nothing only if all of them are.
LEMMA TotalIsAmount ==
  ASSUME NEW v, NEW n \in Nat, DOMAIN v = 1..n, \A i \in 1..n : v[i] \in Nat
  PROVE  /\ Total(v) \in Nat
         /\ \A i \in 1..n : v[i] <= Total(v)
         /\ (\A i \in 1..n : v[i] = 0) => Total(v) = 0
  <1>1. PICK sum : Adds(sum, v, n) /\ Total(v) = sum[n]
    BY TotalAdds
  <1> DEFINE fine == {k \in 0..n : /\ sum[k] \in Nat
                                   /\ \A i \in 1..k : v[i] <= sum[k]
                                   /\ (\A i \in 1..n : v[i] = 0) => sum[k] = 0}
  <1>2. 0 \in fine
    BY <1>1 DEF Adds
  <1>3. \A k \in 1..n : k - 1 \in fine => k \in fine
    <2> SUFFICES ASSUME NEW k \in 1..n, k - 1 \in fine PROVE k \in fine
      OBVIOUS
    <2>1. sum[k] = sum[k - 1] + v[k] /\ v[k] \in Nat /\ sum[k - 1] \in Nat
      BY <1>1 DEF Adds
    <2>2. \A i \in 1..k : v[i] <= sum[k]
      <3> SUFFICES ASSUME NEW i \in 1..k PROVE v[i] <= sum[k]
        OBVIOUS
      <3>1. v[i] \in Nat
        OBVIOUS
      <3>2. i # k => i \in 1..(k - 1)
        OBVIOUS
      <3>3. i # k => v[i] <= sum[k - 1]
        BY <3>2
      <3>4. QED
        BY <2>1, <3>1, <3>3
    <2>3. (\A i \in 1..n : v[i] = 0) => sum[k] = 0
      BY <2>1
    <2>4. QED
      BY <2>1, <2>2, <2>3
  <1>4. n \in fine
    <2> HIDE DEF fine
    <2>1. QED
      BY <1>2, <1>3, AnyTotal
  <1>5. QED
    BY <1>1, <1>4

(***************************************************************************)
(* A validator reports the code of the first check that applies, or what   *)
(* it reports when none does.                                              *)
(***************************************************************************)
LEMMA FirstThatApplies ==
  ASSUME NEW checks, NEW o, DOMAIN checks \subseteq Nat
  PROVE  \/ FirstOf(checks, o) = o /\ \A i \in DOMAIN checks : ~checks[i][1]
         \/ \E i \in DOMAIN checks :
              /\ checks[i][1] /\ FirstOf(checks, o) = checks[i][2]
              /\ \A j \in DOMAIN checks : j < i => ~checks[j][1]
  <1> DEFINE applies == {i \in DOMAIN checks : checks[i][1]}
  <1>1. CASE applies = {}
    BY <1>1 DEF FirstOf
  <1>2. CASE applies # {}
    <2>1. Min(applies) \in applies /\ \A y \in applies : Min(applies) <= y
      BY <1>2, Smallest
    <2>2. FirstOf(checks, o) = checks[Min(applies)][2]
      BY <1>2 DEF FirstOf
    <2> DEFINE first == Min(applies)
    <2>3. first \in DOMAIN checks /\ checks[first][1] /\ first \in Nat
      BY <2>1
    <2>4. \A j \in DOMAIN checks : j < first => ~checks[j][1]
      <3> SUFFICES ASSUME NEW j \in DOMAIN checks, j < first, checks[j][1] PROVE FALSE
        OBVIOUS
      <3>1. j \in applies /\ j \in Nat
        OBVIOUS
      <3>2. first <= j
        BY <2>1, <3>1
      <3>3. QED
        BY <2>3, <3>1, <3>2
    <2> HIDE DEF first
    <2>5. QED
      BY <2>2, <2>3, <2>4 DEF first
  <1>3. QED
    BY <1>1, <1>2

\* A validator that reports none of its codes found nothing.
LEMMA NothingFound ==
  ASSUME NEW checks, NEW o, DOMAIN checks \subseteq Nat, FirstOf(checks, o) = o,
         \A i \in DOMAIN checks : checks[i][2] # o
  PROVE  \A i \in DOMAIN checks : ~checks[i][1]
  BY FirstThatApplies

\* A list of three checks is a chain of three conditions.
LEMMA ThreeChecks ==
  ASSUME NEW p1, NEW p2, NEW p3,
         NEW x1, NEW x2, NEW x3, NEW o
  PROVE  FirstOf(<< <<p1, x1>>, <<p2, x2>>, <<p3, x3>> >>, o)
           = IF p1 THEN x1 ELSE IF p2 THEN x2 ELSE IF p3 THEN x3 ELSE o
  <1> DEFINE list == << <<p1, x1>>, <<p2, x2>>, <<p3, x3>> >>
             found == FirstOf(list, o)
  <1>1. DOMAIN list = 1..3
    OBVIOUS
  <1>2. list[1] = <<p1, x1>> /\ list[2] = <<p2, x2>> /\ list[3] = <<p3, x3>>
    OBVIOUS
  <1> HIDE DEF list
  <1>3. DOMAIN list \subseteq Nat
    BY <1>1
  <1>4. \/ found = o /\ \A i \in DOMAIN list : ~list[i][1]
        \/ \E i \in DOMAIN list : list[i][1] /\ found = list[i][2] /\ \A j \in DOMAIN list : j < i => ~list[j][1]
    BY <1>3, FirstThatApplies
  <1> HIDE DEF found
  <1>5. CASE found = o /\ \A i \in DOMAIN list : ~list[i][1]
    <2>1. ~p1 /\ ~p2 /\ ~p3
      BY <1>1, <1>2, <1>5
    <2>2. QED
      BY <1>5, <2>1 DEF found, list
  <1>6. ASSUME NEW i \in DOMAIN list, list[i][1], found = list[i][2], \A j \in DOMAIN list : j < i => ~list[j][1]
        PROVE  found = IF p1 THEN x1 ELSE IF p2 THEN x2 ELSE IF p3 THEN x3 ELSE o
    <2>1. CASE i = 1
      BY <1>1, <1>2, <1>6, <2>1
    <2>2. CASE i = 2
      BY <1>1, <1>2, <1>6, <2>2
    <2>3. CASE i = 3
      BY <1>1, <1>2, <1>6, <2>3
    <2>4. QED
      BY <1>1, <1>6, <2>1, <2>2, <2>3
  <1>7. QED
    BY <1>4, <1>5, <1>6 DEF found, list

\* A list of five checks is a chain of five conditions.
LEMMA FiveChecks ==
  ASSUME NEW p1, NEW p2, NEW p3, NEW p4, NEW p5,
         NEW x1, NEW x2, NEW x3, NEW x4, NEW x5, NEW o
  PROVE  FirstOf(<< <<p1, x1>>, <<p2, x2>>, <<p3, x3>>, <<p4, x4>>, <<p5, x5>> >>, o)
           = IF p1 THEN x1 ELSE IF p2 THEN x2 ELSE IF p3 THEN x3 ELSE IF p4 THEN x4 ELSE IF p5 THEN x5 ELSE o
  <1> DEFINE list == << <<p1, x1>>, <<p2, x2>>, <<p3, x3>>, <<p4, x4>>, <<p5, x5>> >>
             found == FirstOf(list, o)
  <1>1. DOMAIN list = 1..5
    OBVIOUS
  <1>2. list[1] = <<p1, x1>> /\ list[2] = <<p2, x2>> /\ list[3] = <<p3, x3>> /\ list[4] = <<p4, x4>> /\ list[5] = <<p5, x5>>
    OBVIOUS
  <1> HIDE DEF list
  <1>3. DOMAIN list \subseteq Nat
    BY <1>1
  <1>4. \/ found = o /\ \A i \in DOMAIN list : ~list[i][1]
        \/ \E i \in DOMAIN list : list[i][1] /\ found = list[i][2] /\ \A j \in DOMAIN list : j < i => ~list[j][1]
    BY <1>3, FirstThatApplies
  <1> HIDE DEF found
  <1>5. CASE found = o /\ \A i \in DOMAIN list : ~list[i][1]
    <2>1. ~p1 /\ ~p2 /\ ~p3 /\ ~p4 /\ ~p5
      BY <1>1, <1>2, <1>5
    <2>2. QED
      BY <1>5, <2>1 DEF found, list
  <1>6. ASSUME NEW i \in DOMAIN list, list[i][1], found = list[i][2], \A j \in DOMAIN list : j < i => ~list[j][1]
        PROVE  found = IF p1 THEN x1 ELSE IF p2 THEN x2 ELSE IF p3 THEN x3 ELSE IF p4 THEN x4 ELSE IF p5 THEN x5 ELSE o
    <2>1. CASE i = 1
      BY <1>1, <1>2, <1>6, <2>1
    <2>2. CASE i = 2
      BY <1>1, <1>2, <1>6, <2>2
    <2>3. CASE i = 3
      BY <1>1, <1>2, <1>6, <2>3
    <2>4. CASE i = 4
      BY <1>1, <1>2, <1>6, <2>4
    <2>5. CASE i = 5
      BY <1>1, <1>2, <1>6, <2>5
    <2>6. QED
      BY <1>1, <1>6, <2>1, <2>2, <2>3, <2>4, <2>5
  <1>7. QED
    BY <1>4, <1>5, <1>6 DEF found, list

\* A list of six checks is a chain of six conditions.
LEMMA SixChecks ==
  ASSUME NEW p1, NEW p2, NEW p3, NEW p4, NEW p5, NEW p6,
         NEW x1, NEW x2, NEW x3, NEW x4, NEW x5, NEW x6, NEW o
  PROVE  FirstOf(<< <<p1, x1>>, <<p2, x2>>, <<p3, x3>>, <<p4, x4>>, <<p5, x5>>, <<p6, x6>> >>, o)
           = IF p1 THEN x1 ELSE IF p2 THEN x2 ELSE IF p3 THEN x3 ELSE IF p4 THEN x4 ELSE IF p5 THEN x5 ELSE IF p6 THEN x6 ELSE o
  <1> DEFINE list == << <<p1, x1>>, <<p2, x2>>, <<p3, x3>>, <<p4, x4>>, <<p5, x5>>, <<p6, x6>> >>
             found == FirstOf(list, o)
  <1>1. DOMAIN list = 1..6
    OBVIOUS
  <1>2. list[1] = <<p1, x1>> /\ list[2] = <<p2, x2>> /\ list[3] = <<p3, x3>> /\ list[4] = <<p4, x4>> /\ list[5] = <<p5, x5>> /\ list[6] = <<p6, x6>>
    OBVIOUS
  <1> HIDE DEF list
  <1>3. DOMAIN list \subseteq Nat
    BY <1>1
  <1>4. \/ found = o /\ \A i \in DOMAIN list : ~list[i][1]
        \/ \E i \in DOMAIN list : list[i][1] /\ found = list[i][2] /\ \A j \in DOMAIN list : j < i => ~list[j][1]
    BY <1>3, FirstThatApplies
  <1> HIDE DEF found
  <1>5. CASE found = o /\ \A i \in DOMAIN list : ~list[i][1]
    <2>1. ~p1 /\ ~p2 /\ ~p3 /\ ~p4 /\ ~p5 /\ ~p6
      BY <1>1, <1>2, <1>5
    <2>2. QED
      BY <1>5, <2>1 DEF found, list
  <1>6. ASSUME NEW i \in DOMAIN list, list[i][1], found = list[i][2], \A j \in DOMAIN list : j < i => ~list[j][1]
        PROVE  found = IF p1 THEN x1 ELSE IF p2 THEN x2 ELSE IF p3 THEN x3 ELSE IF p4 THEN x4 ELSE IF p5 THEN x5 ELSE IF p6 THEN x6 ELSE o
    <2>1. CASE i = 1
      BY <1>1, <1>2, <1>6, <2>1
    <2>2. CASE i = 2
      BY <1>1, <1>2, <1>6, <2>2
    <2>3. CASE i = 3
      BY <1>1, <1>2, <1>6, <2>3
    <2>4. CASE i = 4
      BY <1>1, <1>2, <1>6, <2>4
    <2>5. CASE i = 5
      BY <1>1, <1>2, <1>6, <2>5
    <2>6. CASE i = 6
      BY <1>1, <1>2, <1>6, <2>6
    <2>7. QED
      BY <1>1, <1>6, <2>1, <2>2, <2>3, <2>4, <2>5, <2>6
  <1>7. QED
    BY <1>4, <1>5, <1>6 DEF found, list

\* A list of seven checks is a chain of seven conditions.
LEMMA SevenChecks ==
  ASSUME NEW p1, NEW p2, NEW p3, NEW p4, NEW p5, NEW p6, NEW p7,
         NEW x1, NEW x2, NEW x3, NEW x4, NEW x5, NEW x6, NEW x7, NEW o
  PROVE  FirstOf(<< <<p1, x1>>, <<p2, x2>>, <<p3, x3>>, <<p4, x4>>, <<p5, x5>>, <<p6, x6>>, <<p7, x7>> >>, o)
           = IF p1 THEN x1 ELSE IF p2 THEN x2 ELSE IF p3 THEN x3 ELSE IF p4 THEN x4 ELSE IF p5 THEN x5 ELSE IF p6 THEN x6 ELSE IF p7 THEN x7 ELSE o
  <1> DEFINE list == << <<p1, x1>>, <<p2, x2>>, <<p3, x3>>, <<p4, x4>>, <<p5, x5>>, <<p6, x6>>, <<p7, x7>> >>
             found == FirstOf(list, o)
  <1>1. DOMAIN list = 1..7
    OBVIOUS
  <1>2. list[1] = <<p1, x1>> /\ list[2] = <<p2, x2>> /\ list[3] = <<p3, x3>> /\ list[4] = <<p4, x4>> /\ list[5] = <<p5, x5>> /\ list[6] = <<p6, x6>> /\ list[7] = <<p7, x7>>
    OBVIOUS
  <1> HIDE DEF list
  <1>3. DOMAIN list \subseteq Nat
    BY <1>1
  <1>4. \/ found = o /\ \A i \in DOMAIN list : ~list[i][1]
        \/ \E i \in DOMAIN list : list[i][1] /\ found = list[i][2] /\ \A j \in DOMAIN list : j < i => ~list[j][1]
    BY <1>3, FirstThatApplies
  <1> HIDE DEF found
  <1>5. CASE found = o /\ \A i \in DOMAIN list : ~list[i][1]
    <2>1. ~p1 /\ ~p2 /\ ~p3 /\ ~p4 /\ ~p5 /\ ~p6 /\ ~p7
      BY <1>1, <1>2, <1>5
    <2>2. QED
      BY <1>5, <2>1 DEF found, list
  <1>6. ASSUME NEW i \in DOMAIN list, list[i][1], found = list[i][2], \A j \in DOMAIN list : j < i => ~list[j][1]
        PROVE  found = IF p1 THEN x1 ELSE IF p2 THEN x2 ELSE IF p3 THEN x3 ELSE IF p4 THEN x4 ELSE IF p5 THEN x5 ELSE IF p6 THEN x6 ELSE IF p7 THEN x7 ELSE o
    <2>1. CASE i = 1
      BY <1>1, <1>2, <1>6, <2>1
    <2>2. CASE i = 2
      BY <1>1, <1>2, <1>6, <2>2
    <2>3. CASE i = 3
      BY <1>1, <1>2, <1>6, <2>3
    <2>4. CASE i = 4
      BY <1>1, <1>2, <1>6, <2>4
    <2>5. CASE i = 5
      BY <1>1, <1>2, <1>6, <2>5
    <2>6. CASE i = 6
      BY <1>1, <1>2, <1>6, <2>6
    <2>7. CASE i = 7
      BY <1>1, <1>2, <1>6, <2>7
    <2>8. QED
      BY <1>1, <1>6, <2>1, <2>2, <2>3, <2>4, <2>5, <2>6, <2>7
  <1>7. QED
    BY <1>4, <1>5, <1>6 DEF found, list

\* A list of two checks is a chain of two conditions.
LEMMA TwoChecks ==
  ASSUME NEW p1, NEW p2,
         NEW x1, NEW x2, NEW o
  PROVE  FirstOf(<< <<p1, x1>>, <<p2, x2>> >>, o)
           = IF p1 THEN x1 ELSE IF p2 THEN x2 ELSE o
  <1> DEFINE list == << <<p1, x1>>, <<p2, x2>> >>
             found == FirstOf(list, o)
  <1>1. DOMAIN list = 1..2
    OBVIOUS
  <1>2. list[1] = <<p1, x1>> /\ list[2] = <<p2, x2>>
    OBVIOUS
  <1> HIDE DEF list
  <1>3. DOMAIN list \subseteq Nat
    BY <1>1
  <1>4. \/ found = o /\ \A i \in DOMAIN list : ~list[i][1]
        \/ \E i \in DOMAIN list : list[i][1] /\ found = list[i][2] /\ \A j \in DOMAIN list : j < i => ~list[j][1]
    BY <1>3, FirstThatApplies
  <1> HIDE DEF found
  <1>5. CASE found = o /\ \A i \in DOMAIN list : ~list[i][1]
    <2>1. ~p1 /\ ~p2
      BY <1>1, <1>2, <1>5
    <2>2. QED
      BY <1>5, <2>1 DEF found, list
  <1>6. ASSUME NEW i \in DOMAIN list, list[i][1], found = list[i][2], \A j \in DOMAIN list : j < i => ~list[j][1]
        PROVE  found = IF p1 THEN x1 ELSE IF p2 THEN x2 ELSE o
    <2>1. CASE i = 1
      BY <1>1, <1>2, <1>6, <2>1
    <2>2. CASE i = 2
      BY <1>1, <1>2, <1>6, <2>2
    <2>3. QED
      BY <1>1, <1>6, <2>1, <2>2
  <1>7. QED
    BY <1>4, <1>5, <1>6 DEF found, list

\* A list of four checks is a chain of four conditions.
LEMMA FourChecks ==
  ASSUME NEW p1, NEW p2, NEW p3, NEW p4,
         NEW x1, NEW x2, NEW x3, NEW x4, NEW o
  PROVE  FirstOf(<< <<p1, x1>>, <<p2, x2>>, <<p3, x3>>, <<p4, x4>> >>, o)
           = IF p1 THEN x1 ELSE IF p2 THEN x2 ELSE IF p3 THEN x3 ELSE IF p4 THEN x4 ELSE o
  <1> DEFINE list == << <<p1, x1>>, <<p2, x2>>, <<p3, x3>>, <<p4, x4>> >>
             found == FirstOf(list, o)
  <1>1. DOMAIN list = 1..4
    OBVIOUS
  <1>2. list[1] = <<p1, x1>> /\ list[2] = <<p2, x2>> /\ list[3] = <<p3, x3>> /\ list[4] = <<p4, x4>>
    OBVIOUS
  <1> HIDE DEF list
  <1>3. DOMAIN list \subseteq Nat
    BY <1>1
  <1>4. \/ found = o /\ \A i \in DOMAIN list : ~list[i][1]
        \/ \E i \in DOMAIN list : list[i][1] /\ found = list[i][2] /\ \A j \in DOMAIN list : j < i => ~list[j][1]
    BY <1>3, FirstThatApplies
  <1> HIDE DEF found
  <1>5. CASE found = o /\ \A i \in DOMAIN list : ~list[i][1]
    <2>1. ~p1 /\ ~p2 /\ ~p3 /\ ~p4
      BY <1>1, <1>2, <1>5
    <2>2. QED
      BY <1>5, <2>1 DEF found, list
  <1>6. ASSUME NEW i \in DOMAIN list, list[i][1], found = list[i][2], \A j \in DOMAIN list : j < i => ~list[j][1]
        PROVE  found = IF p1 THEN x1 ELSE IF p2 THEN x2 ELSE IF p3 THEN x3 ELSE IF p4 THEN x4 ELSE o
    <2>1. CASE i = 1
      BY <1>1, <1>2, <1>6, <2>1
    <2>2. CASE i = 2
      BY <1>1, <1>2, <1>6, <2>2
    <2>3. CASE i = 3
      BY <1>1, <1>2, <1>6, <2>3
    <2>4. CASE i = 4
      BY <1>1, <1>2, <1>6, <2>4
    <2>5. QED
      BY <1>1, <1>6, <2>1, <2>2, <2>3, <2>4
  <1>7. QED
    BY <1>4, <1>5, <1>6 DEF found, list

\* A list of eight checks is a chain of eight conditions.
LEMMA EightChecks ==
  ASSUME NEW p1, NEW p2, NEW p3, NEW p4, NEW p5, NEW p6, NEW p7, NEW p8,
         NEW x1, NEW x2, NEW x3, NEW x4, NEW x5, NEW x6, NEW x7, NEW x8, NEW o
  PROVE  FirstOf(<< <<p1, x1>>, <<p2, x2>>, <<p3, x3>>, <<p4, x4>>, <<p5, x5>>, <<p6, x6>>, <<p7, x7>>, <<p8, x8>> >>, o)
           = IF p1 THEN x1 ELSE IF p2 THEN x2 ELSE IF p3 THEN x3 ELSE IF p4 THEN x4 ELSE IF p5 THEN x5 ELSE IF p6 THEN x6 ELSE IF p7 THEN x7 ELSE IF p8 THEN x8 ELSE o
  <1> DEFINE list == << <<p1, x1>>, <<p2, x2>>, <<p3, x3>>, <<p4, x4>>, <<p5, x5>>, <<p6, x6>>, <<p7, x7>>, <<p8, x8>> >>
             found == FirstOf(list, o)
  <1>1. DOMAIN list = 1..8
    OBVIOUS
  <1>2. list[1] = <<p1, x1>> /\ list[2] = <<p2, x2>> /\ list[3] = <<p3, x3>> /\ list[4] = <<p4, x4>> /\ list[5] = <<p5, x5>> /\ list[6] = <<p6, x6>> /\ list[7] = <<p7, x7>> /\ list[8] = <<p8, x8>>
    OBVIOUS
  <1> HIDE DEF list
  <1>3. DOMAIN list \subseteq Nat
    BY <1>1
  <1>4. \/ found = o /\ \A i \in DOMAIN list : ~list[i][1]
        \/ \E i \in DOMAIN list : list[i][1] /\ found = list[i][2] /\ \A j \in DOMAIN list : j < i => ~list[j][1]
    BY <1>3, FirstThatApplies
  <1> HIDE DEF found
  <1>5. CASE found = o /\ \A i \in DOMAIN list : ~list[i][1]
    <2>1. ~p1 /\ ~p2 /\ ~p3 /\ ~p4 /\ ~p5 /\ ~p6 /\ ~p7 /\ ~p8
      BY <1>1, <1>2, <1>5
    <2>2. QED
      BY <1>5, <2>1 DEF found, list
  <1>6. ASSUME NEW i \in DOMAIN list, list[i][1], found = list[i][2], \A j \in DOMAIN list : j < i => ~list[j][1]
        PROVE  found = IF p1 THEN x1 ELSE IF p2 THEN x2 ELSE IF p3 THEN x3 ELSE IF p4 THEN x4 ELSE IF p5 THEN x5 ELSE IF p6 THEN x6 ELSE IF p7 THEN x7 ELSE IF p8 THEN x8 ELSE o
    <2>1. CASE i = 1
      BY <1>1, <1>2, <1>6, <2>1
    <2>2. CASE i = 2
      BY <1>1, <1>2, <1>6, <2>2
    <2>3. CASE i = 3
      BY <1>1, <1>2, <1>6, <2>3
    <2>4. CASE i = 4
      BY <1>1, <1>2, <1>6, <2>4
    <2>5. CASE i = 5
      BY <1>1, <1>2, <1>6, <2>5
    <2>6. CASE i = 6
      BY <1>1, <1>2, <1>6, <2>6
    <2>7. CASE i = 7
      BY <1>1, <1>2, <1>6, <2>7
    <2>8. CASE i = 8
      BY <1>1, <1>2, <1>6, <2>8
    <2>9. QED
      BY <1>1, <1>6, <2>1, <2>2, <2>3, <2>4, <2>5, <2>6, <2>7, <2>8
  <1>7. QED
    BY <1>4, <1>5, <1>6 DEF found, list

\* A collector that reports nothing found nothing.
LEMMA NothingCollected ==
  ASSUME NEW checks, AllOf(checks) = {}
  PROVE  \A i \in DOMAIN checks : ~checks[i][1]
  BY DEF AllOf

\* Of three checks that reported nothing none applied.
LEMMA ThreeCollected ==
  ASSUME NEW p1, NEW p2, NEW p3, NEW x1, NEW x2, NEW x3,
         AllOf(<< <<p1, x1>>, <<p2, x2>>, <<p3, x3>> >>) = {}
  PROVE  ~p1 /\ ~p2 /\ ~p3
  <1> DEFINE list == << <<p1, x1>>, <<p2, x2>>, <<p3, x3>> >>
  <1>1. DOMAIN list = 1..3 /\ list[1] = <<p1, x1>> /\ list[2] = <<p2, x2>> /\ list[3] = <<p3, x3>>
    OBVIOUS
  <1> HIDE DEF list
  <1>2. \A i \in DOMAIN list : ~list[i][1]
    BY NothingCollected DEF list
  <1>3. QED
    BY <1>1, <1>2

\* Of four checks that reported nothing none applied.
LEMMA FourCollected ==
  ASSUME NEW p1, NEW p2, NEW p3, NEW p4, NEW x1, NEW x2, NEW x3, NEW x4,
         AllOf(<< <<p1, x1>>, <<p2, x2>>, <<p3, x3>>, <<p4, x4>> >>) = {}
  PROVE  ~p1 /\ ~p2 /\ ~p3 /\ ~p4
  <1> DEFINE list == << <<p1, x1>>, <<p2, x2>>, <<p3, x3>>, <<p4, x4>> >>
  <1>1. DOMAIN list = 1..4 /\ list[1] = <<p1, x1>> /\ list[2] = <<p2, x2>> /\ list[3] = <<p3, x3>> /\ list[4] = <<p4, x4>>
    OBVIOUS
  <1> HIDE DEF list
  <1>2. \A i \in DOMAIN list : ~list[i][1]
    BY NothingCollected DEF list
  <1>3. QED
    BY <1>1, <1>2

\* Of two checks that reported nothing none applied.
LEMMA TwoCollected ==
  ASSUME NEW p1, NEW p2, NEW x1, NEW x2,
         AllOf(<< <<p1, x1>>, <<p2, x2>> >>) = {}
  PROVE  ~p1 /\ ~p2
  <1> DEFINE list == << <<p1, x1>>, <<p2, x2>> >>
  <1>1. DOMAIN list = 1..2 /\ list[1] = <<p1, x1>> /\ list[2] = <<p2, x2>>
    OBVIOUS
  <1> HIDE DEF list
  <1>2. \A i \in DOMAIN list : ~list[i][1]
    BY NothingCollected DEF list
  <1>3. QED
    BY <1>1, <1>2

\* Of five checks that reported nothing none applied.
LEMMA FiveCollected ==
  ASSUME NEW p1, NEW p2, NEW p3, NEW p4, NEW p5, NEW x1, NEW x2, NEW x3, NEW x4, NEW x5,
         AllOf(<< <<p1, x1>>, <<p2, x2>>, <<p3, x3>>, <<p4, x4>>, <<p5, x5>> >>) = {}
  PROVE  ~p1 /\ ~p2 /\ ~p3 /\ ~p4 /\ ~p5
  <1> DEFINE list == << <<p1, x1>>, <<p2, x2>>, <<p3, x3>>, <<p4, x4>>, <<p5, x5>> >>
  <1>1. DOMAIN list = 1..5 /\ list[1] = <<p1, x1>> /\ list[2] = <<p2, x2>> /\ list[3] = <<p3, x3>> /\ list[4] = <<p4, x4>> /\ list[5] = <<p5, x5>>
    OBVIOUS
  <1> HIDE DEF list
  <1>2. \A i \in DOMAIN list : ~list[i][1]
    BY NothingCollected DEF list
  <1>3. QED
    BY <1>1, <1>2

\* What each of seven checks reports, and of four.
LEMMA SevenReported ==
  ASSUME NEW p1, NEW p2, NEW p3, NEW p4, NEW p5, NEW p6, NEW p7, NEW x1, NEW x2, NEW x3, NEW x4, NEW x5, NEW x6, NEW x7, NEW x
  PROVE  x \in AllOf(<< <<p1, x1>>, <<p2, x2>>, <<p3, x3>>, <<p4, x4>>, <<p5, x5>>, <<p6, x6>>, <<p7, x7>> >>)
           <=> (p1 /\ x = x1) \/ (p2 /\ x = x2) \/ (p3 /\ x = x3) \/ (p4 /\ x = x4) \/ (p5 /\ x = x5) \/ (p6 /\ x = x6) \/ (p7 /\ x = x7)
  <1> DEFINE list == << <<p1, x1>>, <<p2, x2>>, <<p3, x3>>, <<p4, x4>>, <<p5, x5>>, <<p6, x6>>, <<p7, x7>> >>
  <1>1. DOMAIN list = 1..7
    OBVIOUS
  <1>2. list[1] = <<p1, x1>> /\ list[2] = <<p2, x2>> /\ list[3] = <<p3, x3>> /\ list[4] = <<p4, x4>> /\ list[5] = <<p5, x5>> /\ list[6] = <<p6, x6>> /\ list[7] = <<p7, x7>>
    OBVIOUS
  <1> HIDE DEF list
  <1>3. x \in AllOf(list) <=> \E i \in DOMAIN list : list[i][1] /\ x = list[i][2]
    BY DEF AllOf
  <1>4. (\E i \in DOMAIN list : list[i][1] /\ x = list[i][2]) <=> (p1 /\ x = x1) \/ (p2 /\ x = x2) \/ (p3 /\ x = x3) \/ (p4 /\ x = x4) \/ (p5 /\ x = x5) \/ (p6 /\ x = x6) \/ (p7 /\ x = x7)
    BY <1>1, <1>2
  <1>5. QED
    BY <1>3, <1>4 DEF list

\* The same of four.
LEMMA FourReported ==
  ASSUME NEW p1, NEW p2, NEW p3, NEW p4, NEW x1, NEW x2, NEW x3, NEW x4, NEW x
  PROVE  x \in AllOf(<< <<p1, x1>>, <<p2, x2>>, <<p3, x3>>, <<p4, x4>> >>)
           <=> (p1 /\ x = x1) \/ (p2 /\ x = x2) \/ (p3 /\ x = x3) \/ (p4 /\ x = x4)
  <1> DEFINE list == << <<p1, x1>>, <<p2, x2>>, <<p3, x3>>, <<p4, x4>> >>
  <1>1. DOMAIN list = 1..4
    OBVIOUS
  <1>2. list[1] = <<p1, x1>> /\ list[2] = <<p2, x2>> /\ list[3] = <<p3, x3>> /\ list[4] = <<p4, x4>>
    OBVIOUS
  <1> HIDE DEF list
  <1>3. x \in AllOf(list) <=> \E i \in DOMAIN list : list[i][1] /\ x = list[i][2]
    BY DEF AllOf
  <1>4. (\E i \in DOMAIN list : list[i][1] /\ x = list[i][2]) <=> (p1 /\ x = x1) \/ (p2 /\ x = x2) \/ (p3 /\ x = x3) \/ (p4 /\ x = x4)
    BY <1>1, <1>2
  <1>5. QED
    BY <1>3, <1>4 DEF list

\* A collector reports nothing when nothing applies.
LEMMA NothingToCollect ==
  ASSUME NEW checks, \A i \in DOMAIN checks : ~checks[i][1]
  PROVE  AllOf(checks) = {}
  BY DEF AllOf

\* Of four checks none of which applies nothing is reported.
LEMMA FourToCollect ==
  ASSUME NEW p1, NEW p2, NEW p3, NEW p4, NEW x1, NEW x2, NEW x3, NEW x4, ~p1 /\ ~p2 /\ ~p3 /\ ~p4
  PROVE  AllOf(<< <<p1, x1>>, <<p2, x2>>, <<p3, x3>>, <<p4, x4>> >>) = {}
  <1> DEFINE list == << <<p1, x1>>, <<p2, x2>>, <<p3, x3>>, <<p4, x4>> >>
  <1>1. DOMAIN list = 1..4 /\ list[1] = <<p1, x1>> /\ list[2] = <<p2, x2>> /\ list[3] = <<p3, x3>> /\ list[4] = <<p4, x4>>
    OBVIOUS
  <1> HIDE DEF list
  <1>2. \A i \in DOMAIN list : ~list[i][1]
    BY <1>1
  <1>3. QED
    BY <1>2, NothingToCollect DEF list

-----------------------------------------------------------------------------
(***************************************************************************)
(* Errors of the SDK and of its callers: any message and any HTTP status.  *)
(* A contract error has one of its class's codes, a network error the only *)
(* one of its class, and an error that is not the SDK's has none           *)
(* (core/errors.ts, error-codes.ts).                                       *)
(***************************************************************************)
AnyError(e) ==
  \/ e.class \in NotOfTheSdk /\ e.code = "none"
  \/ e.class = "Contract" /\ e.code \in ContractErrorCodes
  \/ e.class = "Network" /\ e.code = "NETWORK_ERROR"

\* mapRpcError of an error that is not a contract error: a contract error with one of the eight codes, and which words lead to
\* the codes of a timeout and to those that are never retried.
LEMMA MappedCode ==
  ASSUME NEW e, e.class # "Contract"
  PROVE  /\ mapRpcError(e).class = "Contract" /\ mapRpcError(e).words = e.words
         /\ mapRpcError(e).code \in ContractErrorCodes
         /\ e.words \cap RpcTimeoutWords # {} => mapRpcError(e).code \in {"TRANSACTION_TIMEOUT", "RPC_TIMEOUT"}
         /\ mapRpcError(e).code \in {"INSUFFICIENT_FEE", "CONTRACT_REVERT"} <=>
              e.words \cap (RpcTimeoutWords \cup {"invalid", "simulate"}) = {} /\ e.words \cap {"fee", "revert"} # {}
  <1> DEFINE list == << <<{"transaction", "timeout"} \subseteq e.words, "TRANSACTION_TIMEOUT">>, <<e.words \cap RpcTimeoutWords # {}, "RPC_TIMEOUT">>,
                        <<"invalid" \in e.words, "INVALID_RESPONSE">>, <<"simulate" \in e.words, "SIMULATION_FAILED">>,
                        <<"fee" \in e.words, "INSUFFICIENT_FEE">>, <<"revert" \in e.words, "CONTRACT_REVERT">>,
                        <<"submit" \in e.words, "TRANSACTION_SUBMISSION_FAILED">> >>
             code == FirstOf(list, "UNKNOWN_RPC_ERROR")
             timedOut == e.words \cap RpcTimeoutWords # {}
  <1>1. DOMAIN list = 1..7
    OBVIOUS
  <1>2. /\ list[1][2] = "TRANSACTION_TIMEOUT" /\ list[2][2] = "RPC_TIMEOUT" /\ list[3][2] = "INVALID_RESPONSE"
        /\ list[4][2] = "SIMULATION_FAILED" /\ list[5][2] = "INSUFFICIENT_FEE" /\ list[6][2] = "CONTRACT_REVERT"
        /\ list[7][2] = "TRANSACTION_SUBMISSION_FAILED"
    OBVIOUS
  <1>a. list[1][1] => timedOut
    BY DEF RpcTimeoutWords
  <1>b. /\ list[2][1] <=> timedOut
        /\ list[3][1] <=> "invalid" \in e.words
        /\ list[4][1] <=> "simulate" \in e.words
        /\ list[5][1] <=> "fee" \in e.words
        /\ list[6][1] <=> "revert" \in e.words
    OBVIOUS
  <1>c. e.words \cap (RpcTimeoutWords \cup {"invalid", "simulate"}) = {} <=> ~timedOut /\ "invalid" \notin e.words /\ "simulate" \notin e.words
    BY DEF RpcTimeoutWords
  <1>d. e.words \cap {"fee", "revert"} # {} <=> "fee" \in e.words \/ "revert" \in e.words
    OBVIOUS
  <1>3. mapRpcError(e) = [class |-> "Contract", code |-> code, status |-> 0, words |-> e.words]
    BY DEF mapRpcError, Thrown
  <1> HIDE DEF list, timedOut
  <1>4. DOMAIN list \subseteq Nat
    BY <1>1
  <1>5. \/ code = "UNKNOWN_RPC_ERROR" /\ \A i \in DOMAIN list : ~list[i][1]
        \/ \E i \in DOMAIN list : list[i][1] /\ code = list[i][2] /\ \A j \in DOMAIN list : j < i => ~list[j][1]
    BY <1>4, FirstThatApplies
  <1> HIDE DEF code
  <1>6. code \in ContractErrorCodes
    BY <1>1, <1>2, <1>5 DEF ContractErrorCodes
  <1>7. timedOut => code \in {"TRANSACTION_TIMEOUT", "RPC_TIMEOUT"}
    BY <1>1, <1>2, <1>5, <1>a, <1>b
  <1>8. code \in {"INSUFFICIENT_FEE", "CONTRACT_REVERT"} <=>
          ~timedOut /\ "invalid" \notin e.words /\ "simulate" \notin e.words /\ ("fee" \in e.words \/ "revert" \in e.words)
    BY <1>1, <1>2, <1>5, <1>a, <1>b
  <1>9. QED
    BY <1>3, <1>6, <1>7, <1>8, <1>c, <1>d DEF timedOut

\* What mapRpcError takes for a timeout stays retryable, and it writes off nothing but a fee or a revert
\* (retry.ts classifyError, core/errors.ts mapRpcError).
LEMMA AnyTimeoutStaysRetryable ==
  ASSUME NEW e, e.class \in NotOfTheSdk
  PROVE  /\ e.words \cap RpcTimeoutWords # {} =>
              classifyError(e) # "NON_RETRYABLE" /\ classifyError(mapRpcError(e)) # "NON_RETRYABLE" /\ classifyTimeoutFailure(mapRpcError(e)) # "TERMINAL"
         /\ classifyError(mapRpcError(e)) = "NON_RETRYABLE" <=>
              e.words \cap (RpcTimeoutWords \cup {"invalid", "simulate"}) = {} /\ e.words \cap {"fee", "revert"} # {}
  <1> DEFINE mapped == mapRpcError(e)
             writtenOff == e.words \cap (RpcTimeoutWords \cup {"invalid", "simulate"}) = {} /\ e.words \cap {"fee", "revert"} # {}
             timedOut == e.words \cap RpcTimeoutWords # {}
  <1>0. e.class # "Contract"
    BY DEF NotOfTheSdk
  <1>1. /\ mapped.class = "Contract"
        /\ timedOut => mapped.code \in {"TRANSACTION_TIMEOUT", "RPC_TIMEOUT"}
        /\ mapped.code \in {"INSUFFICIENT_FEE", "CONTRACT_REVERT"} <=> writtenOff
    BY <1>0, MappedCode
  <1>2. classifyError(e) # "NON_RETRYABLE"
    BY DEF classifyError, classifyGenericError, NotOfTheSdk
  <1> HIDE DEF mapped, writtenOff, timedOut
  <1>3. classifyError(mapped) = "NON_RETRYABLE" <=> mapped.code \in {"INSUFFICIENT_FEE", "CONTRACT_REVERT"}
    BY <1>1 DEF classifyError, classifyContractError, NotOfTheSdk
  <1>4. timedOut => classifyTimeoutFailure(mapped) # "TERMINAL"
    BY <1>1 DEF classifyTimeoutFailure, classifyContractErrorCode
  <1>5. timedOut => classifyError(mapped) # "NON_RETRYABLE"
    BY <1>1, <1>3
  <1>6. QED
    BY <1>1, <1>2, <1>3, <1>4, <1>5 DEF mapped, writtenOff, timedOut

\* The registry of codes, the failure states and the classifiers agree on what is final.
LEMMA AnyTerminalIsNotAdvertised ==
  ASSUME NEW e, AnyError(e)
  PROVE  /\ e.class = "Contract" => (isRetryableErrorCode(e.code) <=> classifyTimeoutFailure(e) # "TERMINAL")
         /\ e.code = "CONTRACT_REVERT" => classifyError(e) = "NON_RETRYABLE"
         /\ extractSdkErrorCode(e) \in ContractErrorCodes \cup {"NETWORK_ERROR"}
  <1>1. e.class = "Contract" => (isRetryableErrorCode(e.code) <=> classifyTimeoutFailure(e) # "TERMINAL")
    BY DEF AnyError, NotOfTheSdk, ContractErrorCodes, isRetryableErrorCode, RetryableCodes, classifyTimeoutFailure, classifyContractErrorCode
  <1>2. e.code = "CONTRACT_REVERT" => classifyError(e) = "NON_RETRYABLE"
    BY DEF AnyError, NotOfTheSdk, classifyError, classifyContractError
  <1>3. CASE e.code = "none"
    <2>1. e.class # "Contract"
      BY <1>3 DEF AnyError, NotOfTheSdk, ContractErrorCodes
    <2>2. QED
      BY <1>1, <1>2, <1>3, <2>1, MappedCode DEF extractSdkErrorCode
  <1>4. CASE e.code # "none"
    BY <1>1, <1>2, <1>4 DEF extractSdkErrorCode, AnyError
  <1>5. QED
    BY <1>3, <1>4

-----------------------------------------------------------------------------
\* The report of an operation, for any observer and any validator (operationResult.ts runSdkOperation).
AnyOperation(q) == q.returns \in BOOLEAN /\ q.validate \in {"absent", "ok", "invalid", "malformed", "throws"}

\* What runSdkOperation reports is what happened, for any operation.
LEMMA AnyOutcomeIsTruthful ==
  ASSUME NEW q, AnyOperation(q), NEW r, r = runSdkOperation(q)
  PROVE  /\ (r.end = "failed" /\ ~r.attempted) => ~r.ran
         /\ r.end = "ok" => r.ran /\ q.returns
         /\ (q.loud = {} /\ q.validate # "throws") => (r.end = "ok" <=> (q.returns /\ q.validate \in {"absent", "ok"}))
  <1> DEFINE rejected(ran) == [end |-> "rejected", ran |-> ran, attempted |-> ran]
             failure(ran) == IF "failed" \in q.loud THEN rejected(ran) ELSE [end |-> "failed", ran |-> ran, attempted |-> ran]
  <1>1. r = IF q.validate # "absent" /\ ("validating" \in q.loud \/ q.validate = "throws") THEN rejected(FALSE)
            ELSE IF q.validate \in {"invalid", "malformed"} THEN failure(FALSE)
            ELSE IF "executing" \in q.loud THEN rejected(FALSE)
            ELSE IF q.returns /\ "succeeded" \notin q.loud THEN [end |-> "ok", ran |-> TRUE, attempted |-> TRUE]
            ELSE failure(TRUE)
    BY DEF runSdkOperation
  <1>2. \A ran \in BOOLEAN : rejected(ran).end = "rejected"
    OBVIOUS
  <1>3. \A ran \in BOOLEAN : failure(ran).end \in {"rejected", "failed"} /\ failure(ran).attempted = ran /\ failure(ran).ran = ran
    OBVIOUS
  <1>4. q.loud = {} => \A ran \in BOOLEAN : failure(ran).end = "failed"
    OBVIOUS
  <1> HIDE DEF rejected, failure
  <1>5. CASE r = rejected(FALSE)
    <2>1. ~(q.loud = {} /\ q.validate # "throws")
      <3> SUFFICES ASSUME q.loud = {}, q.validate # "throws" PROVE FALSE
        OBVIOUS
      <3>1. r.end = "rejected"
        BY <1>2, <1>5
      <3>2. r = failure(FALSE) \/ r = failure(TRUE) \/ r = [end |-> "ok", ran |-> TRUE, attempted |-> TRUE]
        BY <1>1
      <3>3. failure(FALSE).end = "failed" /\ failure(TRUE).end = "failed"
        BY <1>4
      <3>4. r # [end |-> "ok", ran |-> TRUE, attempted |-> TRUE]
        BY <3>1
      <3>5. QED
        BY <3>1, <3>2, <3>3, <3>4
    <2>2. QED
      BY <1>2, <1>5, <2>1
  <1>6. CASE r = failure(FALSE) /\ q.validate \in {"invalid", "malformed"}
    BY <1>3, <1>4, <1>6
  <1>7. CASE r = [end |-> "ok", ran |-> TRUE, attempted |-> TRUE] /\ q.returns /\ q.validate \notin {"invalid", "malformed"}
    <2>1. r.end = "ok" /\ r.ran /\ r.attempted
      BY <1>7
    <2>2. QED
      BY <1>7, <2>1 DEF AnyOperation
  <1>8. CASE r = failure(TRUE) /\ q.validate \notin {"invalid", "malformed"} /\ ~(q.returns /\ "succeeded" \notin q.loud)
    BY <1>3, <1>4, <1>8
  <1>9. QED
    BY <1>1, <1>5, <1>6, <1>7, <1>8

-----------------------------------------------------------------------------
\* A typed refusal carries one of the six codes of its class (errors/permissions.ts).
AnyRefusal(e) ==
  e.class = "Permission" => e.code \in {"SUSPENDED", "ORG_MISMATCH", "QUORUM_REQUIRED", "UNREGISTERED", "UNAUTHORIZED", "ROLE_REQUIRED"}

\* The remediation of a typed refusal is decided by its code alone.
LEMMA TypedRemediation ==
  ASSUME NEW e, e.class = "Permission"
  PROVE  getBatchCreatorRemediation(e) = IF e.code \in {"SUSPENDED", "ORG_MISMATCH", "QUORUM_REQUIRED", "UNREGISTERED"} THEN e.code ELSE "UNAUTHORIZED"
  <1>1. isBatchCreatorPermissionError(e)
    BY DEF isBatchCreatorPermissionError
  <1>2. \A code, word : isRefusal(e, code, word) <=> e.code = code
    BY DEF isRefusal
  <1>3. getBatchCreatorRemediation(e) =
          IF isRefusal(e, "SUSPENDED", "suspended") THEN "SUSPENDED" ELSE IF isRefusal(e, "ORG_MISMATCH", "organization") THEN "ORG_MISMATCH"
          ELSE IF isRefusal(e, "QUORUM_REQUIRED", "quorum") THEN "QUORUM_REQUIRED" ELSE IF isRefusal(e, "UNREGISTERED", "unregistered") THEN "UNREGISTERED"
          ELSE IF isBatchCreatorPermissionError(e) THEN "UNAUTHORIZED" ELSE "general"
    BY FiveChecks DEF getBatchCreatorRemediation
  <1>4. QED
    BY <1>1, <1>2, <1>3

\* Typing a refusal does not change what its reader is told to do (errors/permissions.ts mapBatchCreatorPermissionError).
LEMMA AnyRemediationFitsCode ==
  ASSUME NEW e, AnyRefusal(e), NEW mapped, mapped = mapBatchCreatorPermissionError(e), mapped.class = "Permission"
  PROVE  /\ getBatchCreatorRemediation(e) = getBatchCreatorRemediation(mapped)
         /\ mapped.code \in {getBatchCreatorRemediation(e), "ROLE_REQUIRED"}
  <1> DEFINE suspended == isRefusal(e, "SUSPENDED", "suspended")
             foreign == isRefusal(e, "ORG_MISMATCH", "organization")
             quorum == isRefusal(e, "QUORUM_REQUIRED", "quorum")
             unknown == isRefusal(e, "UNREGISTERED", "unregistered")
             code == IF suspended THEN "SUSPENDED" ELSE IF foreign THEN "ORG_MISMATCH" ELSE IF quorum THEN "QUORUM_REQUIRED"
                     ELSE IF unknown THEN "UNREGISTERED" ELSE IF "role" \in e.words THEN "ROLE_REQUIRED" ELSE "UNAUTHORIZED"
  <1>1. CASE e.class = "Permission"
    <2>1. mapped = e
      BY <1>1 DEF mapBatchCreatorPermissionError
    <2>2. QED
      BY <1>1, <2>1, TypedRemediation DEF AnyRefusal
  <1>2. CASE e.class # "Permission"
    <2>1. isBatchCreatorPermissionError(e)
      <3> SUFFICES ASSUME ~isBatchCreatorPermissionError(e) PROVE FALSE
        OBVIOUS
      <3>1. mapped = e \/ mapped = Thrown("Contract", "UNKNOWN_RPC_ERROR", 0, e.words)
        BY <1>2 DEF mapBatchCreatorPermissionError
      <3>2. QED
        BY <1>2, <3>1 DEF Thrown
    <2>2. mapped = Thrown("Permission", code, 0, e.words)
      <3>1. FirstOf(<< <<suspended, "SUSPENDED">>, <<foreign, "ORG_MISMATCH">>, <<quorum, "QUORUM_REQUIRED">>, <<unknown, "UNREGISTERED">>,
                       <<"role" \in e.words, "ROLE_REQUIRED">> >>, "UNAUTHORIZED") = code
        <4> DEFINE roleless == "role" \in e.words
        <4> HIDE DEF suspended, foreign, quorum, unknown, roleless
        <4>1. FirstOf(<< <<suspended, "SUSPENDED">>, <<foreign, "ORG_MISMATCH">>, <<quorum, "QUORUM_REQUIRED">>, <<unknown, "UNREGISTERED">>,
                         <<roleless, "ROLE_REQUIRED">> >>, "UNAUTHORIZED")
                = IF suspended THEN "SUSPENDED" ELSE IF foreign THEN "ORG_MISMATCH" ELSE IF quorum THEN "QUORUM_REQUIRED"
                  ELSE IF unknown THEN "UNREGISTERED" ELSE IF roleless THEN "ROLE_REQUIRED" ELSE "UNAUTHORIZED"
          BY FiveChecks
        <4>2. QED
          BY <4>1, Zenon DEF roleless
      <3>2. QED
        BY <1>2, <2>1, <3>1 DEF mapBatchCreatorPermissionError
    <2>3. getBatchCreatorRemediation(e) =
            IF suspended THEN "SUSPENDED" ELSE IF foreign THEN "ORG_MISMATCH" ELSE IF quorum THEN "QUORUM_REQUIRED"
            ELSE IF unknown THEN "UNREGISTERED" ELSE IF isBatchCreatorPermissionError(e) THEN "UNAUTHORIZED" ELSE "general"
      BY FiveChecks DEF getBatchCreatorRemediation
    <2> HIDE DEF suspended, foreign, quorum, unknown
    <2>4. mapped.class = "Permission" /\ mapped.code = code
      BY <2>2 DEF Thrown
    <2>5. getBatchCreatorRemediation(mapped) =
            IF code \in {"SUSPENDED", "ORG_MISMATCH", "QUORUM_REQUIRED", "UNREGISTERED"} THEN code ELSE "UNAUTHORIZED"
      BY <2>4, TypedRemediation
    <2>6. QED
      BY <2>1, <2>3, <2>4, <2>5
  <1>3. QED
    BY <1>1, <1>2

-----------------------------------------------------------------------------
\* Every reader of a role matrix gives the same answer, whatever the matrix (roles/).
LEMMA AnyCapabilityListsAgree ==
  ASSUME NEW m, NEW users, NEW a, NEW conditional
  PROVE  /\ a \in getEffectiveCapabilities(m, users, conditional) <=> hasUserCapability(m, users, a, conditional)
         /\ users \cap getRolesWithCapability(m, a, conditional) # {} <=> hasUserCapability(m, users, a, conditional)
  <1>1. \A r : hasCapability(m, r, a, conditional)
               <=> /\ r \in DOMAIN m /\ a \in DOMAIN m[r]
                   /\ m[r][a] = "allowed" \/ (m[r][a] = "conditional" /\ conditional)
    BY DEF hasCapability, getPermission
  <1>2. \A r : a \in getCapabilitiesForRole(m, r, conditional) <=> hasCapability(m, r, a, conditional)
    BY <1>1 DEF getCapabilitiesForRole
  <1>3. a \in getEffectiveCapabilities(m, users, conditional) <=> \E r \in users : a \in getCapabilitiesForRole(m, r, conditional)
    BY DEF getEffectiveCapabilities
  <1>4. users \cap getRolesWithCapability(m, a, conditional) # {} <=> \E r \in users : hasCapability(m, r, a, conditional)
    BY <1>1 DEF getRolesWithCapability
  <1>5. QED
    BY <1>2, <1>3, <1>4 DEF hasUserCapability

-----------------------------------------------------------------------------
(***************************************************************************)
(* withRetry, for any errors, delays, late timers and deadline (retry.ts). *)
(* The loop is a function of the number of attempts; it is shown to exist, *)
(* and to keep an invariant, by looking at the first attempt where that    *)
(* would fail.                                                             *)
(***************************************************************************)
AnyRetry(q) ==
  /\ \E Faults : q.errors \in Seq(Faults)
  /\ q.took \in Nat /\ q.delay \in Nat /\ q.lag \in Nat /\ q.deadline \in Nat \cup {NoDeadline}

Started(q) == [calls |-> <<>>, at |-> 0, delay |-> q.delay, over |-> FALSE]

\* loop gives the states of the loop up to attempt m.
LoopsUpTo(loop, q, m) == loop = [n \in 0..m |-> IF n = 0 THEN Started(q) ELSE attempt(loop[n - 1], q, n)]

\* The retry loop has a state after any number of attempts.
LEMMA LoopExists ==
  ASSUME NEW q, NEW m \in Nat
  PROVE  \E loop : LoopsUpTo(loop, q, m)
  <1> DEFINE Run(k) == \E loop : LoopsUpTo(loop, q, k)
             stuck == {k \in 0..m : ~Run(k)}
  <1>1. SUFFICES ASSUME stuck # {} PROVE FALSE
    <2>1. m \in 0..m
      OBVIOUS
    <2> HIDE DEF Run
    <2>2. stuck = {} => Run(m)
      BY <2>1
    <2>3. QED
      BY <2>2 DEF Run
  <1>2. PICK k \in 0..m : k \in stuck /\ \A j \in stuck : k <= j
    <2>1. stuck \in SUBSET Nat /\ stuck \subseteq 0..m
      OBVIOUS
    <2> HIDE DEF stuck
    <2>2. QED
      BY <1>1, <2>1, Smallest
  <1>3. ~Run(k)
    BY <1>2
  <1>4. CASE k = 0
    <2>1. LoopsUpTo([n \in 0..0 |-> Started(q)], q, 0)
      BY DEF LoopsUpTo
    <2>2. QED
      BY <1>3, <1>4, <2>1
  <1>5. CASE k # 0
    <2>1. k \in Nat /\ k - 1 \in 0..m /\ k - 1 \notin stuck /\ k - 1 \in 0..(k - 1) /\ k \in 0..k
      BY <1>2, <1>5
    <2>2. PICK f : LoopsUpTo(f, q, k - 1)
      BY <2>1
    <2> DEFINE longer == [n \in 0..k |-> IF n = k THEN attempt(f[k - 1], q, k) ELSE f[n]]
    <2>3. longer[k] = attempt(f[k - 1], q, k) /\ DOMAIN longer = 0..k
      BY <2>1
    <2>4. \A n \in 0..(k - 1) : longer[n] = f[n]
      BY <2>1
    <2>5. longer = [n \in 0..k |-> longer[n]]
      OBVIOUS
    <2> HIDE DEF longer
    <2>6. \A n \in 0..(k - 1) : f[n] = IF n = 0 THEN Started(q) ELSE attempt(f[n - 1], q, n)
      BY <2>2 DEF LoopsUpTo
    <2>7. \A n \in 0..k : longer[n] = IF n = 0 THEN Started(q) ELSE attempt(longer[n - 1], q, n)
      <3> SUFFICES ASSUME NEW n \in 0..k PROVE longer[n] = IF n = 0 THEN Started(q) ELSE attempt(longer[n - 1], q, n)
        OBVIOUS
      <3>1. CASE n = k
        BY <1>5, <2>1, <2>3, <2>4, <3>1
      <3>2. CASE n # k
        <4>1. n \in 0..(k - 1) /\ (n # 0 => n - 1 \in 0..(k - 1))
          BY <2>1, <3>2
        <4>2. QED
          BY <2>4, <2>6, <4>1
      <3>3. QED
        BY <3>1, <3>2
    <2>8. LoopsUpTo(longer, q, k)
      BY <2>5, <2>7 DEF LoopsUpTo
    <2>9. QED
      BY <1>3, <2>8
  <1>6. QED
    BY <1>4, <1>5

\* withRetry makes the calls its loop has made after the last attempt.
LEMMA CallsOfTheLoop ==
  ASSUME NEW q, AnyRetry(q)
  PROVE  \E loop : LoopsUpTo(loop, q, Len(q.errors)) /\ withRetry(q) = loop[Len(q.errors)].calls
  <1> DEFINE Recurs(loop) ==
               loop = [n \in 0..Len(q.errors) |->
                         IF n = 0 THEN [calls |-> <<>>, at |-> 0, delay |-> q.delay, over |-> FALSE] ELSE attempt(loop[n - 1], q, n)]
             total == CHOOSE loop : Recurs(loop)
  <1>1. \E loop : Recurs(loop)
    <2>1. Len(q.errors) \in Nat
      BY DEF AnyRetry
    <2>2. PICK loop : LoopsUpTo(loop, q, Len(q.errors))
      BY <2>1, LoopExists
    <2>3. Recurs(loop)
      BY <2>2 DEF LoopsUpTo, Started
    <2>4. QED
      BY <2>3
  <1>2. withRetry(q) = total[Len(q.errors)].calls
    BY Zenon DEF withRetry
  <1>3. Recurs(total)
    <2> HIDE DEF Recurs
    <2>1. QED
      BY <1>1
  <1> HIDE DEF total
  <1>4. LoopsUpTo(total, q, Len(q.errors))
    BY <1>3 DEF LoopsUpTo, Started
  <1>5. QED
    BY <1>2, <1>4

RetryCategories == {"RETRYABLE", "NON_RETRYABLE", "UNKNOWN"}

\* Every error has one of the three categories.
LEMMA CategoryOfError ==
  ASSUME NEW e
  PROVE  classifyError(e) \in RetryCategories
  BY DEF classifyError, classifyNetworkError, classifyContractError, classifyGenericError, RetryCategories

Calls == [at : Nat, category : RetryCategories]
LoopStates == [calls : Seq(Calls), at : Nat, delay : Nat, over : BOOLEAN]

\* Two calls in a row: the first may be repeated, and the second waits for it and for the delay.
Follows(q, call, at) == call.category # "NON_RETRYABLE" /\ at >= call.at + q.took + q.delay

\* What holds of the loop after n attempts: while it is not over the next call may follow the last one.
LoopInv(q, n, s) ==
  /\ s \in LoopStates /\ s.delay >= q.delay
  /\ n = 0 => s = Started(q)
  /\ Len(s.calls) <= n /\ (n > 0 /\ q.deadline # 0 => s.calls # <<>>)
  /\ \A i \in DOMAIN s.calls : q.deadline = NoDeadline \/ s.calls[i].at < q.deadline
  /\ \A i \in DOMAIN s.calls : i < Len(s.calls) => Follows(q, s.calls[i], s.calls[i + 1].at)
  /\ ~s.over /\ s.calls # <<>> => Follows(q, s.calls[Len(s.calls)], s.at)

\* The next attempt begins no earlier than the delay asks for, and delays do not shrink.
LEMMA DelaysGrow ==
  ASSUME NEW at \in Nat, NEW took \in Nat, NEW delay \in Nat, NEW lag \in Nat, NEW first \in Nat, delay >= first
  PROVE  /\ at + took + delay + lag \in Nat /\ at + took + delay + lag >= at + took + first
         /\ delay * 2 \in Nat /\ delay * 2 >= first
  OBVIOUS

\* An attempt of withRetry keeps the loop invariant.
LEMMA AttemptKeepsInv ==
  ASSUME NEW q, AnyRetry(q), NEW n \in 1..Len(q.errors), NEW s, LoopInv(q, n - 1, s)
  PROVE  LoopInv(q, n, attempt(s, q, n))
  <1> DEFINE now == s.at + q.took
             category == classifyError(q.errors[n])
             call == [at |-> s.at, category |-> category]
             stops == n = Len(q.errors) \/ category = "NON_RETRYABLE" \/ (q.deadline # NoDeadline /\ now + s.delay >= q.deadline)
             next == attempt(s, q, n)
  <1>1. /\ q.took \in Nat /\ q.delay \in Nat /\ q.lag \in Nat /\ q.deadline \in Nat \cup {NoDeadline} /\ Len(q.errors) \in Nat
    BY DEF AnyRetry
  <1>2. /\ s \in LoopStates /\ s.calls \in Seq(Calls) /\ s.at \in Nat /\ s.delay \in Nat /\ s.over \in BOOLEAN /\ Len(s.calls) \in Nat
    BY DEF LoopInv, LoopStates
  <1>3. n - 1 = 0 => s.at = 0 /\ ~s.over
    BY DEF LoopInv, Started
  <1>4. CASE s.over \/ ~mayStart(s.at, q.deadline)
    <2>1. next = [s EXCEPT !.over = TRUE]
      BY <1>4 DEF attempt
    <2>2. next \in LoopStates /\ next.calls = s.calls /\ next.delay = s.delay /\ next.over = TRUE
      BY <1>2, <2>1 DEF LoopStates
    <2>3. n - 1 = 0 => q.deadline = 0
      BY <1>1, <1>3, <1>4 DEF mayStart, NoDeadline
    <2> HIDE DEF next
    <2>4. Len(next.calls) <= n /\ (n > 0 /\ q.deadline # 0 => next.calls # <<>>)
      BY <1>2, <2>2, <2>3 DEF LoopInv
    <2>5. QED
      BY <2>2, <2>4 DEF LoopInv, next
  <1>5. CASE ~s.over /\ mayStart(s.at, q.deadline)
    <2>1. next = [calls |-> Append(s.calls, call), at |-> now + s.delay + q.lag, delay |-> s.delay * 2, over |-> stops]
      BY <1>5 DEF attempt
    <2>2. call \in Calls /\ call.at = s.at /\ call.category = category
      BY <1>2, CategoryOfError DEF Calls
    <2>3. /\ next.calls = Append(s.calls, call) /\ next.at = now + s.delay + q.lag /\ next.delay = s.delay * 2
          /\ next.over = stops /\ next \in LoopStates
      <3>1. now + s.delay + q.lag \in Nat /\ s.delay * 2 \in Nat
        BY <1>1, <1>2, DelaysGrow DEF LoopInv
      <3>2. Append(s.calls, call) \in Seq(Calls)
        BY <1>2, <2>2
      <3> HIDE DEF call, now
      <3>3. stops \in BOOLEAN
        OBVIOUS
      <3> HIDE DEF stops
      <3>4. QED
        BY <2>1, <3>1, <3>2, <3>3 DEF LoopStates
    <2> DEFINE calls == next.calls
    <2>4. /\ calls \in Seq(Calls) /\ Len(calls) = Len(s.calls) + 1 /\ calls[Len(calls)] = call
          /\ DOMAIN calls = 1..(Len(s.calls) + 1) /\ DOMAIN s.calls = 1..Len(s.calls)
          /\ \A i \in DOMAIN s.calls : calls[i] = s.calls[i]
      <3> HIDE DEF call, next
      <3>1. QED
        BY SMTT(40), <1>2, <2>2, <2>3
    <2>5. ~stops => Follows(q, call, next.at)
      <3>1. next.at >= s.at + q.took + q.delay
        <4>1. s.delay >= q.delay
          BY DEF LoopInv
        <4>2. s.at + q.took + s.delay + q.lag >= s.at + q.took + q.delay
          BY <1>1, <1>2, <4>1, DelaysGrow
        <4>3. next.at = s.at + q.took + s.delay + q.lag
          BY <2>3
        <4> HIDE DEF next
        <4>4. QED
          BY <4>2, <4>3
      <3>2. QED
        BY <2>2, <3>1 DEF Follows
    <2> HIDE DEF next, call, now, category, stops
    <2>6. next.delay >= q.delay
      BY <1>1, <1>2, <2>3, DelaysGrow DEF LoopInv
    <2>7. Len(calls) <= n /\ calls # <<>>
      BY <1>2, <2>4 DEF LoopInv
    <2> HIDE DEF calls
    <2>8. \A i \in DOMAIN calls : q.deadline = NoDeadline \/ calls[i].at < q.deadline
      <3> SUFFICES ASSUME NEW i \in DOMAIN calls PROVE q.deadline = NoDeadline \/ calls[i].at < q.deadline
        OBVIOUS
      <3>1. CASE i \in DOMAIN s.calls
        BY <2>4, <3>1 DEF LoopInv
      <3>2. CASE i \notin DOMAIN s.calls
        <4>1. i = Len(calls)
          BY <1>2, <2>4, <3>2
        <4>2. QED
          BY <1>5, <2>2, <2>4, <4>1 DEF mayStart
      <3>3. QED
        BY <3>1, <3>2
    <2>9. \A i \in DOMAIN calls : i < Len(calls) => Follows(q, calls[i], calls[i + 1].at)
      <3> SUFFICES ASSUME NEW i \in DOMAIN calls, i < Len(calls) PROVE Follows(q, calls[i], calls[i + 1].at)
        OBVIOUS
      <3>1. i \in DOMAIN s.calls /\ calls[i] = s.calls[i] /\ i \in Nat
        BY <1>2, <2>4
      <3>2. CASE i < Len(s.calls)
        <4>1. calls[i + 1] = s.calls[i + 1]
          <5>1. i + 1 \in 1..Len(s.calls)
            BY <1>2, <3>1, <3>2
          <5>2. QED
            BY <2>4, <5>1
        <4>2. QED
          BY <3>1, <3>2, <4>1 DEF LoopInv
      <3>3. CASE i = Len(s.calls)
        <4>1. calls[i + 1] = call /\ s.calls # <<>>
          BY <1>2, <2>4, <3>1, <3>3
        <4>2. Follows(q, s.calls[Len(s.calls)], s.at)
          BY <1>5, <4>1 DEF LoopInv
        <4>3. QED
          BY <2>2, <3>1, <3>3, <4>1, <4>2
      <3>4. QED
        BY <1>2, <2>4, <3>1, <3>2, <3>3
    <2>10. ~next.over /\ calls # <<>> => Follows(q, calls[Len(calls)], next.at)
      BY <2>3, <2>4, <2>5
    <2>11. QED
      BY <2>3, <2>6, <2>7, <2>8, <2>9, <2>10 DEF LoopInv, calls, next
  <1>6. QED
    BY <1>2, <1>4, <1>5

(***************************************************************************)
(* However the calls fail and whenever their timers fire, withRetry makes  *)
(* no call at or after the deadline, none after an error that must not be  *)
(* repeated, none early, and at most one for each attempt it is allowed.   *)
(***************************************************************************)
LEMMA AnyRetriesEnd ==
  ASSUME NEW q, AnyRetry(q), NEW calls, calls = withRetry(q)
  PROVE  /\ Len(calls) <= Len(q.errors) /\ (q.errors # <<>> /\ q.deadline # 0 => calls # <<>>)
         /\ \A i \in DOMAIN calls : /\ q.deadline = NoDeadline \/ calls[i].at < q.deadline
                                    /\ i < Len(calls) => calls[i].category # "NON_RETRYABLE" /\ calls[i + 1].at >= calls[i].at + q.took + q.delay
  <1>1. Len(q.errors) \in Nat /\ q.took \in Nat /\ q.delay \in Nat /\ q.lag \in Nat
    BY DEF AnyRetry
  <1>2. PICK loop : LoopsUpTo(loop, q, Len(q.errors)) /\ calls = loop[Len(q.errors)].calls
    BY CallsOfTheLoop
  <1> DEFINE odd == {n \in 0..Len(q.errors) : ~LoopInv(q, n, loop[n])}
  <1>3. odd = {}
    <2> SUFFICES ASSUME odd # {} PROVE FALSE
      OBVIOUS
    <2>1. PICK n \in 0..Len(q.errors) : n \in odd /\ \A k \in odd : n <= k
      <3>1. odd \in SUBSET Nat /\ odd \subseteq 0..Len(q.errors)
        OBVIOUS
      <3> HIDE DEF odd
      <3>2. QED
        BY <3>1, Smallest
    <2>2. loop[n] = IF n = 0 THEN Started(q) ELSE attempt(loop[n - 1], q, n)
      BY <1>2 DEF LoopsUpTo
    <2>3. CASE n = 0
      <3>1. Started(q) \in LoopStates
        BY <1>1 DEF Started, LoopStates
      <3>2. LoopInv(q, 0, Started(q))
        BY <1>1, <3>1 DEF LoopInv, Started
      <3>3. QED
        BY <2>1, <2>2, <2>3, <3>2
    <2>4. CASE n # 0
      <3>1. n - 1 \in 0..Len(q.errors) /\ n \in 1..Len(q.errors) /\ n - 1 \notin odd
        BY <2>1, <2>4
      <3>2. LoopInv(q, n - 1, loop[n - 1])
        BY <3>1
      <3>3. LoopInv(q, n, loop[n])
        BY <2>2, <2>4, <3>1, <3>2, AttemptKeepsInv
      <3>4. QED
        BY <2>1, <3>3
    <2>5. QED
      BY <2>3, <2>4
  <1>4. LoopInv(q, Len(q.errors), loop[Len(q.errors)])
    BY <1>1, <1>3
  <1>5. q.errors # <<>> => Len(q.errors) > 0
    BY DEF AnyRetry
  <1>6. QED
    BY <1>1, <1>2, <1>4, <1>5 DEF LoopInv, Follows

-----------------------------------------------------------------------------
(***************************************************************************)
(* The run asks about inputs of these classes.  A question of a topic is   *)
(* asked with an input of that topic, whatever the other topics are.       *)
(***************************************************************************)
Asked(topic, inputs) == About(topic) => subject.input \in inputs

ErrorsAsked ==
  /\ Asked("error", ErrorInputs) /\ Asked("retries", RetryInputs) /\ Asked("operation", OperationInputs)
  /\ Asked("refusal", RefusalInputs) /\ Asked("roles", RoleInputs)

\* What is asked about errors, retries and operations is one of their inputs.
LEMMA ErrorsAreAsked == RulesSpec => []ErrorsAsked
  <1>1. RulesInit => ErrorsAsked
    BY DEF RulesInit, Unasked, ErrorsAsked, Asked, About
  <1>2. ErrorsAsked /\ [RulesNext]_subject => ErrorsAsked'
    <2> SUFFICES ASSUME ErrorsAsked, [RulesNext]_subject PROVE ErrorsAsked'
      OBVIOUS
    <2>1. CASE UNCHANGED subject
      BY <2>1 DEF ErrorsAsked, Asked, About
    <2>2. CASE RulesNext
      <3>1. Asked("error", ErrorInputs)'
        BY <2>2 DEF RulesNext, Ask, Asked, About
      <3>2. Asked("retries", RetryInputs)'
        BY <2>2 DEF RulesNext, Ask, Asked, About
      <3>3. Asked("operation", OperationInputs)'
        BY <2>2 DEF RulesNext, Ask, Asked, About
      <3>4. Asked("refusal", RefusalInputs)'
        BY <2>2 DEF RulesNext, Ask, Asked, About
      <3>5. Asked("roles", RoleInputs)'
        BY <2>2 DEF RulesNext, Ask, Asked, About
      <3>6. QED
        BY <3>1, <3>2, <3>3, <3>4, <3>5 DEF ErrorsAsked
    <2>3. QED
      BY <2>1, <2>2
  <1>3. QED
    BY <1>1, <1>2, PTL DEF RulesSpec

\* The inputs of the run belong to the classes the lemmas above are about.
LEMMA ErrorClasses ==
  ASSUME ErrorsAsked
  PROVE  /\ About("error") => AnyError(subject.input)
         /\ About("retries") => AnyRetry(subject.input)
         /\ About("operation") => AnyOperation(subject.input)
         /\ About("refusal") => AnyRefusal(subject.input)
  <1>1. \A e \in ErrorInputs : AnyError(e)
    <2> SUFFICES ASSUME NEW e \in ErrorInputs PROVE AnyError(e)
      OBVIOUS
    <2>1. CASE e \in MessageInputs
      BY <2>1 DEF MessageInputs, Thrown, AnyError
    <2>2. CASE e \in {Thrown("Contract", c, 0, {}) : c \in ContractErrorCodes}
      BY <2>2 DEF Thrown, AnyError
    <2>3. CASE e \in {Thrown("Network", "NETWORK_ERROR", s, w) : s \in {0, 302, 400, 404, 429, 499, 500}, w \in {{}, {"timeout"}}}
      BY <2>3 DEF Thrown, AnyError
    <2>4. QED
      BY <2>1, <2>2, <2>3 DEF ErrorInputs
  <1>2. \A q \in RetryInputs : AnyRetry(q)
    <2> SUFFICES ASSUME NEW q \in RetryInputs PROVE AnyRetry(q)
      OBVIOUS
    <2>1. q.errors \in SeqOf(SomeErrors, 4) /\ q.took \in {0, 1, 3} /\ q.delay \in {0, 1, 2} /\ q.lag \in {0, 2} /\ q.deadline \in {0, 3, 5, NoDeadline}
      BY DEF RetryInputs
    <2>2. q.errors \in Seq(SomeErrors)
      <3>1. PICK m \in 0..4 : q.errors \in [1..m -> SomeErrors]
        BY <2>1 DEF SeqOf
      <3>2. QED
        BY <3>1
    <2>3. QED
      BY <2>1, <2>2 DEF AnyRetry
  <1>3. \A q \in OperationInputs : AnyOperation(q)
    BY DEF OperationInputs, AnyOperation
  <1>4. \A e \in RefusalInputs : AnyRefusal(e)
    <2> SUFFICES ASSUME NEW e \in RefusalInputs PROVE AnyRefusal(e)
      OBVIOUS
    <2>1. CASE e \in {Thrown(c, k, 0, w) : c \in {"Error", "Contract", "Sdk"}, k \in {"none", "SUSPENDED", "UNKNOWN_RPC_ERROR"}, w \in SUBSET PermissionWords}
      BY <2>1 DEF Thrown, AnyRefusal
    <2>2. CASE e \in {Thrown("Permission", k, 0, w) : k \in {"SUSPENDED", "ORG_MISMATCH", "QUORUM_REQUIRED", "UNREGISTERED", "ROLE_REQUIRED"}, w \in {{}, {"quorum"}}}
      BY <2>2 DEF Thrown, AnyRefusal
    <2>3. QED
      BY <2>1, <2>2 DEF RefusalInputs
  <1>5. QED
    BY <1>1, <1>2, <1>3, <1>4 DEF ErrorsAsked, Asked

(***************************************************************************)
(* Timeouts stay retryable, what is final is not advertised as retryable,  *)
(* a retry loop ends in time, the report of an operation says whether it   *)
(* ran, a refusal keeps its remediation and the role matrix reads the same *)
(* everywhere: the lemmas above, for the questions of the run.             *)
(***************************************************************************)
THEOREM ErrorsKeepTheirMeaning == RulesSpec => []ErrorsKeepMeaning
  <1>1. ErrorsAsked => ErrorsKeepMeaning
    <2> SUFFICES ASSUME ErrorsAsked PROVE ErrorsKeepMeaning
      OBVIOUS
    <2>1. TimeoutsStayRetryable
      BY AnyTimeoutStaysRetryable DEF TimeoutsStayRetryable
    <2>2. TerminalIsNotAdvertised
      BY ErrorClasses, AnyTerminalIsNotAdvertised DEF TerminalIsNotAdvertised
    <2>3. RetriesEnd
      <3> SUFFICES ASSUME About("retries") PROVE RetriesEnd
        BY DEF RetriesEnd
      <3>1. AnyRetry(subject.input)
        BY ErrorClasses
      <3>2. QED
        BY <3>1, AnyRetriesEnd DEF RetriesEnd
    <2>4. OutcomeIsTruthful
      BY ErrorClasses, AnyOutcomeIsTruthful DEF OutcomeIsTruthful
    <2>5. RemediationFitsCode
      BY ErrorClasses, AnyRemediationFitsCode DEF RemediationFitsCode
    <2>6. CapabilityListsAgree
      BY AnyCapabilityListsAgree DEF CapabilityListsAgree
    <2>7. QED
      BY <2>1, <2>2, <2>3, <2>4, <2>5, <2>6 DEF ErrorsKeepMeaning
  <1>2. QED
    BY <1>1, ErrorsAreAsked, PTL

-----------------------------------------------------------------------------
(***************************************************************************)
(* Proofs that are said to be possible.  Any location whose file, if there *)
(* is one, may be read; any permits; hashes that are absent, of the file,  *)
(* in capitals, of another file (the witness program's only) or malformed  *)
(* (proof-readiness/checker.ts, configValidation.ts, the resolvers).       *)
(***************************************************************************)
AnyProofConfig(c) ==
  /\ c.wasm.file # "denied" /\ c.zkey.file # "denied" /\ c.wasm.ext \in BOOLEAN /\ c.zkey.ext \in BOOLEAN
  /\ c.wasmHash \in {"absent", "match", "upper", "other", "malformed"} /\ c.zkeyHash \in {"absent", "match", "upper", "malformed"}

\* What a location without problems looks like (crypto/).
LEMMA LocationHasNoProblem ==
  ASSUME NEW l, locationProblems(l, TRUE) = {}
  PROVE  /\ l.form \notin {"absent", "blank", "badurl"}
         /\ l.form # "remote" => l.ext /\ l.file \notin {"dir", "empty", "missing"}
  <1> DEFINE p1 == ~l.ext
             p2 == TRUE /\ l.file = "dir"
             p3 == TRUE /\ l.file = "empty"
             p4 == TRUE /\ l.file = "missing"
             list == << <<p1, "extension">>, <<p2, "not a file">>, <<p3, "empty">>, <<p4, "not found">> >>
  <1>1. l.form \notin {"absent", "blank", "badurl"}
    BY DEF locationProblems
  <1>2. CASE l.form = "remote"
    BY <1>1, <1>2
  <1>3. CASE l.form # "remote"
    <2>1. AllOf(list) = {}
      BY <1>1, <1>3 DEF locationProblems
    <2>2. ~p1 /\ ~p2 /\ ~p3 /\ ~p4
      <3> HIDE DEF p1, p2, p3, p4
      <3>1. QED
        BY <2>1, FourCollected
    <2>3. QED
      BY <1>1, <2>2
  <1>4. QED
    BY <1>2, <1>3

\* What settings without problems look like.
LEMMA EnvironmentHasNoProblem ==
  ASSUME NEW c, checkEnvironmentSettings(c) = {}
  PROVE  c.permits \in {"absent", "positive"} /\ c.wasmHash # "malformed" /\ c.zkeyHash # "malformed"
  <1> DEFINE p1 == c.wasm.form = "absent" /\ c.zkey.form = "absent"
             p2 == c.permits # "absent" /\ c.permits # "positive"
             p3 == "malformed" \in {c.wasmHash, c.zkeyHash}
             list == << <<p1, "no sources">>, <<p2, "maxConcurrency">>, <<p3, "hash">> >>
  <1>1. AllOf(list) = {}
    BY DEF checkEnvironmentSettings
  <1>2. ~p1 /\ ~p2 /\ ~p3
    <2> HIDE DEF p1, p2, p3
    <2>1. QED
      BY <1>1, ThreeCollected
  <1>3. QED
    BY <1>2

\* A local artifact without a problem is loaded (LocalArtifactResolver.ts loadFile).
LEMMA GoodFileLoads ==
  ASSUME NEW l, l.ext, l.file \notin {"dir", "empty", "missing", "denied"}
  PROVE  loadFile(l) = "ok"
  <1> DEFINE p1 == ~l.ext
             p2 == l.file = "missing"
             p3 == l.file = "denied"
             p4 == l.file = "dir"
             p5 == l.file = "empty"
  <1>1. loadFile(l) = FirstOf(<< <<p1, "ArtifactCorruptError">>, <<p2, "ArtifactNotFoundError">>, <<p3, "ArtifactAccessError">>, <<p4, "EISDIR">>,
                                 <<p5, "ArtifactCorruptError">> >>, "ok")
    BY DEF loadFile
  <1>2. ~p1 /\ ~p2 /\ ~p3 /\ ~p4 /\ ~p5
    OBVIOUS
  <1> HIDE DEF p1, p2, p3, p4, p5
  <1>3. loadFile(l) = IF p1 THEN "ArtifactCorruptError" ELSE IF p2 THEN "ArtifactNotFoundError" ELSE IF p3 THEN "ArtifactAccessError"
                      ELSE IF p4 THEN "EISDIR" ELSE IF p5 THEN "ArtifactCorruptError" ELSE "ok"
    BY <1>1, FiveChecks
  <1>4. QED
    BY <1>2, <1>3

\* A configuration that is found ready can generate, whatever is required of it.
LEMMA AnyReadyProofGenerates ==
  ASSUME NEW c, AnyProofConfig(c), NEW input, NEW required, NEW mode, checkProofReadiness(c, input, required, mode) = {}
  PROVE  /\ validateProofConfig(c) = "ok"
         /\ c.wasm.form = "local" /\ c.zkey.form = "local" => (resolveLocal(c, "match") = "ok" <=> c.wasmHash # "other")
         /\ resolveLocal(c, "match") = "ok" => resolveRemote(c, TRUE, "match") = "ok"
         /\ resolveProofConfig(NoLocation, c.wasm) = resolveProofConfig(c.wasm, c.zkey)
  <1>1. locationProblems(c.wasm, TRUE) = {} /\ locationProblems(c.zkey, TRUE) = {} /\ checkEnvironmentSettings(c) = {}
    BY DEF checkProofReadiness, checkArtifactAvailability
  <1>2. /\ c.wasm.form \notin {"absent", "blank", "badurl"} /\ c.zkey.form \notin {"absent", "blank", "badurl"}
        /\ c.wasm.form = "local" => c.wasm.ext /\ c.wasm.file \notin {"dir", "empty", "missing"}
        /\ c.zkey.form = "local" => c.zkey.ext /\ c.zkey.file \notin {"dir", "empty", "missing"}
    BY <1>1, LocationHasNoProblem
  <1>3. c.permits \in {"absent", "positive"} /\ c.wasmHash # "malformed" /\ c.zkeyHash # "malformed"
    BY <1>1, EnvironmentHasNoProblem
  <1>4. validateProofConfig(c) = "ok"
    <2> DEFINE p1 == c.wasm.form \in {"absent", "blank"}
               p2 == c.zkey.form \in {"absent", "blank"}
               p3 == c.wasm.form = "badurl"
               p4 == c.zkey.form = "badurl"
               p5 == c.permits = "zero"
    <2>1. validateProofConfig(c) = FirstOf(<< <<p1, "wasmUrl">>, <<p2, "zkeyUrl">>, <<p3, "wasmUrl">>, <<p4, "zkeyUrl">>, <<p5, "permits">> >>, "ok")
      BY DEF validateProofConfig
    <2>2. ~p1 /\ ~p2 /\ ~p3 /\ ~p4 /\ ~p5
      BY <1>2, <1>3
    <2> HIDE DEF p1, p2, p3, p4, p5
    <2>3. validateProofConfig(c) = IF p1 THEN "wasmUrl" ELSE IF p2 THEN "zkeyUrl" ELSE IF p3 THEN "wasmUrl" ELSE IF p4 THEN "zkeyUrl"
                                   ELSE IF p5 THEN "permits" ELSE "ok"
      BY <2>1, FiveChecks
    <2>4. QED
      BY <2>2, <2>3
  <1>5. c.wasm.form = "local" /\ c.zkey.form = "local" => (resolveLocal(c, "match") = "ok" <=> c.wasmHash # "other")
    <2> SUFFICES ASSUME c.wasm.form = "local", c.zkey.form = "local" PROVE resolveLocal(c, "match") = "ok" <=> c.wasmHash # "other"
      OBVIOUS
    <2>1. loadFile(c.wasm) = "ok" /\ loadFile(c.zkey) = "ok"
      BY <1>2, GoodFileLoads DEF AnyProofConfig
    <2>2. verifyArtifactHash(c.zkeyHash, "match") /\ (verifyArtifactHash(c.wasmHash, "match") <=> c.wasmHash # "other")
      BY <1>3 DEF AnyProofConfig, verifyArtifactHash
    <2>3. QED
      BY <2>1, <2>2 DEF resolveLocal
  <1>6. resolveLocal(c, "match") = "ok" => resolveRemote(c, TRUE, "match") = "ok"
    BY DEF resolveLocal, resolveRemote
  <1>7. resolveProofConfig(NoLocation, c.wasm) = resolveProofConfig(c.wasm, c.zkey)
    <2>1. c.wasm # NoLocation
      BY <1>2 DEF NoLocation, Location
    <2>2. QED
      BY <2>1 DEF resolveProofConfig
  <1>8. QED
    BY <1>4, <1>5, <1>6, <1>7

\* Any detected environment on a network of the SDK (proofs/capabilities.ts).
AnyContext(x) ==
  /\ x.wasm \in BOOLEAN /\ x.bigInt \in BOOLEAN /\ x.crypto \in BOOLEAN /\ x.artifacts \in BOOLEAN
  /\ x.network \in {"mainnet", "testnet", "futurenet", "standalone", "local"}

\* A mode that is available has its prerequisites and is permitted on the network.
LEMMA AnyAvailableModePermitted ==
  ASSUME NEW x, AnyContext(x), NEW mode \in getAvailableProofModes(x), NEW p, p = prerequisites(mode, x)
  PROVE  (\A f \in DOMAIN p : p[f]) /\ x.network \in permittedNetworks(mode)
  <1>1. mode \in {"groth16", "mock"} /\ modeAvailable(mode, x)
    BY DEF getAvailableProofModes, ProofModes, modeAvailable
  <1>2. DOMAIN p = {"wasm", "bigInt", "crypto", "artifacts", "network", "environment"}
    BY <1>1 DEF prerequisites
  <1>3. p.wasm /\ p.bigInt /\ p.crypto /\ p.artifacts /\ p.network /\ p.environment
    BY <1>1 DEF modeAvailable, prerequisites
  <1>4. x.network \in permittedNetworks(mode)
    BY <1>1 DEF modeAvailable, prerequisites, permittedNetworks, AnyContext
  <1>5. QED
    BY <1>2, <1>3, <1>4

-----------------------------------------------------------------------------
(***************************************************************************)
(* Witnesses: fields of any type and with any value, and any other fields  *)
(* (crypto/proofInputSanitizer.ts).                                        *)
(***************************************************************************)
IsValue(x) == x = Value(x.type, x.v) /\ x.v \in Int

AnyWitness(w) ==
  /\ w = [recipient |-> w.recipient, amount |-> w.amount, asset |-> w.asset, extra |-> w.extra]
  /\ IsValue(w.recipient) /\ IsValue(w.amount) /\ IsValue(w.asset)

keptText(x) == IF Missing(x) THEN Value("undefined", 0) ELSE cleanText(x)
keptAmount(x) == IF Missing(x) THEN Value("undefined", 0) ELSE Value("string", normalizeAmount(x))

badAmount(x) == ~Missing(x) /\ normalizeAmount(x) = NoAmount

\* sanitizeProofInput keeps three fields and drops the others.
LEMMA SanitizedForm ==
  ASSUME NEW w
  PROVE  sanitizeProofInput(w) = [recipient |-> keptText(w.recipient), amount |-> keptAmount(w.amount), asset |-> keptText(w.asset),
                                  extra |-> w.extra \ FORBIDDEN_WITNESS_FIELDS]
  BY DEF sanitizeProofInput, keptText, keptAmount

\* A witness is refused for a bad field or a missing one.
LEMMA WitnessErrors ==
  ASSUME NEW w
  PROVE  sanitizeErrors(w) = {} <=>
           w.extra \cap FORBIDDEN_WITNESS_FIELDS = {} /\ ~badText(w.recipient) /\ ~badAmount(w.amount) /\ ~badText(w.asset)
  <1> DEFINE p1 == w.extra \cap FORBIDDEN_WITNESS_FIELDS # {}
             p2 == badText(w.recipient)
             p3 == badAmount(w.amount)
             p4 == badText(w.asset)
  <1>1. sanitizeErrors(w) = AllOf(<< <<p1, "extra">>, <<p2, "recipient">>, <<p3, "amount">>, <<p4, "asset">> >>)
    BY DEF sanitizeErrors, badAmount
  <1>2. (~p1 /\ ~p2 /\ ~p3 /\ ~p4) <=>
          (w.extra \cap FORBIDDEN_WITNESS_FIELDS = {} /\ ~badText(w.recipient) /\ ~badAmount(w.amount) /\ ~badText(w.asset))
    OBVIOUS
  <1> HIDE DEF p1, p2, p3, p4
  <1>3. AllOf(<< <<p1, "extra">>, <<p2, "recipient">>, <<p3, "amount">>, <<p4, "asset">> >>) = {} => ~p1 /\ ~p2 /\ ~p3 /\ ~p4
    BY FourCollected
  <1>4. ~p1 /\ ~p2 /\ ~p3 /\ ~p4 => AllOf(<< <<p1, "extra">>, <<p2, "recipient">>, <<p3, "amount">>, <<p4, "asset">> >>) = {}
    BY FourToCollect
  <1>5. QED
    BY <1>1, <1>2, <1>3, <1>4

\* A text that is accepted is still accepted, and unchanged, when it is sanitized again.
LEMMA TextIsKept ==
  ASSUME NEW x, IsValue(x), ~badText(x)
  PROVE  /\ ~badText(keptText(x)) /\ keptText(keptText(x)) = keptText(x)
         /\ ~Missing(x) => keptText(x).type = "string" /\ keptText(Value("padded", x.v)) = keptText(x) /\ ~badText(Value("padded", x.v))
  <1>1. \A type, v : Value(type, v).type = type /\ Value(type, v).v = v
    BY DEF Value
  <1>2. CASE Missing(x)
    <2>1. keptText(x) = Value("undefined", 0) /\ Missing(Value("undefined", 0))
      BY <1>1, <1>2 DEF keptText, Missing
    <2>2. QED
      BY <1>2, <2>1 DEF keptText, badText
  <1>3. CASE ~Missing(x)
    <2>1. x.type \in {"string", "padded"} /\ x.v # 0
      BY <1>3 DEF badText
    <2>2. keptText(x) = Value("string", x.v)
      BY <1>3, <2>1 DEF keptText, cleanText, IsValue
    <2>3. keptText(Value("string", x.v)) = Value("string", x.v) /\ keptText(Value("padded", x.v)) = Value("string", x.v)
      BY <1>1 DEF keptText, cleanText, Missing
    <2>4. ~badText(Value("string", x.v)) /\ ~badText(Value("padded", x.v))
      BY <1>1, <2>1 DEF badText
    <2>5. QED
      BY <1>1, <2>2, <2>3, <2>4
  <1>4. QED
    BY <1>2, <1>3

\* An amount likewise.
LEMMA AmountIsKept ==
  ASSUME NEW x, IsValue(x), ~badAmount(x)
  PROVE  /\ ~badAmount(keptAmount(x)) /\ keptAmount(keptAmount(x)) = keptAmount(x)
         /\ ~Missing(x) => /\ keptAmount(x).type = "string"
                           /\ \A t \in {"bigint", "number", "padded"} : keptAmount(Value(t, x.v)) = keptAmount(x)
  <1>1. \A type, v : Value(type, v).type = type /\ Value(type, v).v = v
    BY DEF Value
  <1>2. CASE Missing(x)
    <2>1. keptAmount(x) = Value("undefined", 0) /\ Missing(Value("undefined", 0))
      BY <1>1, <1>2 DEF keptAmount, Missing
    <2>2. QED
      BY <1>2, <2>1 DEF keptAmount, badAmount
  <1>3. CASE ~Missing(x)
    <2>1. normalizeAmount(x) = x.v /\ x.v >= 0 /\ x.v \in Int
      BY <1>3 DEF badAmount, normalizeAmount, IsValue
    <2>2. \A t \in {"string", "bigint", "number", "padded"} : normalizeAmount(Value(t, x.v)) = x.v /\ ~Missing(Value(t, x.v))
      BY <1>1, <2>1 DEF normalizeAmount, Missing
    <2>3. keptAmount(x) = Value("string", x.v)
      BY <1>3, <2>1 DEF keptAmount
    <2>4. \A t \in {"string", "bigint", "number", "padded"} : keptAmount(Value(t, x.v)) = Value("string", x.v)
      BY <2>2 DEF keptAmount
    <2>5. ~badAmount(Value("string", x.v))
      BY <2>1, <2>2 DEF badAmount, NoAmount
    <2>6. QED
      BY <1>1, <2>3, <2>4, <2>5
  <1>4. QED
    BY <1>2, <1>3

\* Sanitizing is done once: its result is accepted, unchanged and without secrets.
LEMMA AnySanitizedIsCanonical ==
  ASSUME NEW w, AnyWitness(w), NEW s, s = sanitizeProofInput(w), sanitizeErrors(w) = {}
  PROVE  /\ sanitizeErrors(s) = {} /\ sanitizeProofInput(s) = s /\ s.extra \cap FORBIDDEN_WITNESS_FIELDS = {}
         /\ assertValidPayrollWitness(w) = {} => \A f \in {"recipient", "amount", "asset"} : s[f].type = "string"
         /\ ~Missing(w.recipient) => sanitizeProofInput([w EXCEPT !.recipient = Value("padded", w.recipient.v)]) = s
         /\ ~Missing(w.amount) =>
              \A t \in {"bigint", "number", "padded"} : sanitizeProofInput([w EXCEPT !.amount = Value(t, w.amount.v)]) = s
  <1>1. s = [recipient |-> keptText(w.recipient), amount |-> keptAmount(w.amount), asset |-> keptText(w.asset),
             extra |-> w.extra \ FORBIDDEN_WITNESS_FIELDS]
    BY SanitizedForm
  <1>2. ~badText(w.recipient) /\ ~badAmount(w.amount) /\ ~badText(w.asset)
    BY WitnessErrors
  <1>3. IsValue(w.recipient) /\ IsValue(w.amount) /\ IsValue(w.asset)
    BY DEF AnyWitness
  <1>4. s.recipient = keptText(w.recipient) /\ s.amount = keptAmount(w.amount) /\ s.asset = keptText(w.asset) /\ s.extra = w.extra \ FORBIDDEN_WITNESS_FIELDS
    BY <1>1
  <1>5. sanitizeErrors(s) = {} /\ s.extra \cap FORBIDDEN_WITNESS_FIELDS = {}
    BY <1>2, <1>3, <1>4, TextIsKept, AmountIsKept, WitnessErrors
  <1>6. sanitizeProofInput(s) = s
    <2>1. s.extra \ FORBIDDEN_WITNESS_FIELDS = s.extra
      BY <1>4
    <2>2. keptText(s.recipient) = s.recipient /\ keptAmount(s.amount) = s.amount /\ keptText(s.asset) = s.asset
      BY <1>2, <1>3, <1>4, TextIsKept, AmountIsKept
    <2>3. s = [recipient |-> s.recipient, amount |-> s.amount, asset |-> s.asset, extra |-> s.extra]
      BY <1>1
    <2>4. QED
      BY <2>1, <2>2, <2>3, SanitizedForm
  <1>7. ASSUME assertValidPayrollWitness(w) = {} PROVE \A f \in {"recipient", "amount", "asset"} : s[f].type = "string"
    <2>1. \A f \in {"recipient", "amount", "asset"} : ~Missing(w[f])
      BY <1>7 DEF assertValidPayrollWitness
    <2>2. ~Missing(w.recipient) /\ ~Missing(w.amount) /\ ~Missing(w.asset)
      BY <2>1
    <2>3. s.recipient.type = "string" /\ s.amount.type = "string" /\ s.asset.type = "string"
      BY <1>2, <1>3, <1>4, <2>2, TextIsKept, AmountIsKept
    <2>4. QED
      BY <2>3
  <1>8. ASSUME ~Missing(w.recipient) PROVE sanitizeProofInput([w EXCEPT !.recipient = Value("padded", w.recipient.v)]) = s
    <2> DEFINE other == [w EXCEPT !.recipient = Value("padded", w.recipient.v)]
    <2>1. other.recipient = Value("padded", w.recipient.v) /\ other.amount = w.amount /\ other.asset = w.asset /\ other.extra = w.extra
      BY DEF AnyWitness
    <2>2. keptText(other.recipient) = keptText(w.recipient)
      BY <1>2, <1>3, <1>8, <2>1, TextIsKept
    <2> HIDE DEF other
    <2>3. sanitizeProofInput(other) = s
      BY <1>1, <2>1, <2>2, SanitizedForm
    <2>4. QED
      BY <2>3 DEF other
  <1>9. ASSUME ~Missing(w.amount), NEW t \in {"bigint", "number", "padded"}
        PROVE  sanitizeProofInput([w EXCEPT !.amount = Value(t, w.amount.v)]) = s
    <2> DEFINE other == [w EXCEPT !.amount = Value(t, w.amount.v)]
    <2>1. other.recipient = w.recipient /\ other.amount = Value(t, w.amount.v) /\ other.asset = w.asset /\ other.extra = w.extra
      BY DEF AnyWitness
    <2>2. keptAmount(other.amount) = keptAmount(w.amount)
      BY <1>2, <1>3, <1>9, <2>1, AmountIsKept
    <2> HIDE DEF other
    <2>3. sanitizeProofInput(other) = s
      BY <1>1, <2>1, <2>2, SanitizedForm
    <2>4. QED
      BY <2>3 DEF other
  <1>10. QED
    BY <1>5, <1>6, <1>7, <1>8, <1>9

-----------------------------------------------------------------------------
(***************************************************************************)
(* Freshness, for any clock, validity, period and limit of age             *)
(* (proofs/freshness.ts, verifierAdapter.ts).                              *)
(***************************************************************************)
IsProof(p) ==
  /\ p = [metadata |-> p.metadata, wellFormed |-> p.wellFormed, createdAt |-> p.createdAt, expiresAt |-> p.expiresAt, start |-> p.start, end |-> p.end]
  /\ p.metadata \in BOOLEAN /\ p.createdAt \in Int /\ p.expiresAt \in Int /\ p.start \in Int /\ p.end \in Int

IsPeriod(target) == target = [start |-> target.start, end |-> target.end] /\ target.start \in Int /\ target.end \in Int

AnyFreshness(i) == IsProof(i.proof) /\ IsPeriod(i.target) /\ i.now \in Int /\ i.maxAge \in Int

\* validateProofFreshness as a chain of conditions.
LEMMA FreshnessIs ==
  ASSUME NEW p, NEW target, NEW now, NEW maxAge
  PROVE  validateProofFreshness(p, target, now, maxAge) =
           IF ~p.metadata THEN "MISSING_METADATA"
           ELSE IF p.expiresAt <= p.createdAt \/ p.end <= p.start \/ target.end <= target.start THEN "INVALID_METADATA"
           ELSE IF p.createdAt > now THEN "NOT_YET_VALID" ELSE IF now >= p.expiresAt THEN "EXPIRED"
           ELSE IF maxAge # NoAmount /\ maxAge < 0 THEN "INVALID_METADATA"
           ELSE IF maxAge # NoAmount /\ now - p.createdAt > maxAge THEN "TOO_OLD"
           ELSE IF p.start # target.start \/ p.end # target.end THEN "PERIOD_MISMATCH" ELSE "fresh"
  <1> DEFINE p1 == ~p.metadata
             p2 == p.expiresAt <= p.createdAt \/ p.end <= p.start \/ target.end <= target.start
             p3 == p.createdAt > now
             p4 == now >= p.expiresAt
             p5 == maxAge # NoAmount /\ maxAge < 0
             p6 == maxAge # NoAmount /\ now - p.createdAt > maxAge
             p7 == p.start # target.start \/ p.end # target.end
  <1>1. validateProofFreshness(p, target, now, maxAge) =
          FirstOf(<< <<p1, "MISSING_METADATA">>, <<p2, "INVALID_METADATA">>, <<p3, "NOT_YET_VALID">>, <<p4, "EXPIRED">>,
                     <<p5, "INVALID_METADATA">>, <<p6, "TOO_OLD">>, <<p7, "PERIOD_MISMATCH">> >>, "fresh")
    BY DEF validateProofFreshness
  <1> HIDE DEF p1, p2, p3, p4, p5, p6, p7
  <1>2. validateProofFreshness(p, target, now, maxAge) =
          IF p1 THEN "MISSING_METADATA" ELSE IF p2 THEN "INVALID_METADATA" ELSE IF p3 THEN "NOT_YET_VALID" ELSE IF p4 THEN "EXPIRED"
          ELSE IF p5 THEN "INVALID_METADATA" ELSE IF p6 THEN "TOO_OLD" ELSE IF p7 THEN "PERIOD_MISMATCH" ELSE "fresh"
    BY <1>1, SevenChecks
  <1>3. QED
    BY <1>2, Zenon DEF p1, p2, p3, p4, p5, p6, p7

\* verifyProof as a chain of conditions.
LEMMA VerdictIs ==
  ASSUME NEW p, NEW now, NEW adapter
  PROVE  verifyProof(p, now, adapter) =
           IF adapter = "down" THEN "unavailable" ELSE IF ~p.wellFormed THEN "malformed" ELSE IF now > p.expiresAt THEN "expired" ELSE adapter
  <1> DEFINE p1 == adapter = "down"
             p2 == ~p.wellFormed
             p3 == now > p.expiresAt
  <1>1. verifyProof(p, now, adapter) = FirstOf(<< <<p1, "unavailable">>, <<p2, "malformed">>, <<p3, "expired">> >>, adapter)
    BY DEF verifyProof
  <1> HIDE DEF p1, p2, p3
  <1>2. verifyProof(p, now, adapter) = IF p1 THEN "unavailable" ELSE IF p2 THEN "malformed" ELSE IF p3 THEN "expired" ELSE adapter
    BY <1>1, ThreeChecks
  <1>3. QED
    BY <1>2, Zenon DEF p1, p2, p3

\* A proof found fresh is not refused as expired, at any time.
LEMMA AnyFreshIsNotExpired ==
  ASSUME NEW i, AnyFreshness(i)
  PROVE  /\ validateProofFreshness(i.proof, i.target, i.now, i.maxAge) = "fresh" =>
              /\ verifyProof(i.proof, i.now, "valid") \in {"valid", "malformed"}
              /\ verifyProof([i.proof EXCEPT !.wellFormed = TRUE], i.proof.expiresAt + 1, "valid") = "expired"
              /\ validateProofFreshness(i.proof, [i.target EXCEPT !.end = @ + 1], i.now, i.maxAge) = "PERIOD_MISMATCH"
         /\ validateProofFreshness(i.proof, i.target, i.now, i.maxAge) \in {"EXPIRED", "TOO_OLD"}
              => validateProofFreshness(i.proof, i.target, i.now + 1, i.maxAge) \in {"EXPIRED", "TOO_OLD"}
  <1> DEFINE p == i.proof
             target == i.target
             now == i.now
             maxAge == i.maxAge
  <1>1. /\ p.createdAt \in Int /\ p.expiresAt \in Int /\ p.start \in Int /\ p.end \in Int /\ target.start \in Int /\ target.end \in Int
        /\ now \in Int /\ maxAge \in Int
    BY DEF AnyFreshness, IsProof, IsPeriod
  <1>2. ASSUME validateProofFreshness(p, target, now, maxAge) = "fresh"
        PROVE  /\ verifyProof(p, now, "valid") \in {"valid", "malformed"}
               /\ verifyProof([p EXCEPT !.wellFormed = TRUE], p.expiresAt + 1, "valid") = "expired"
               /\ validateProofFreshness(p, [target EXCEPT !.end = @ + 1], now, maxAge) = "PERIOD_MISMATCH"
    <2>1. /\ p.metadata /\ ~(p.expiresAt <= p.createdAt \/ p.end <= p.start \/ target.end <= target.start) /\ ~(p.createdAt > now) /\ ~(now >= p.expiresAt)
          /\ ~(maxAge # NoAmount /\ maxAge < 0) /\ ~(maxAge # NoAmount /\ now - p.createdAt > maxAge) /\ p.start = target.start /\ p.end = target.end
      BY <1>2, FreshnessIs
    <2>2. verifyProof(p, now, "valid") \in {"valid", "malformed"}
      BY <1>1, <2>1, VerdictIs
    <2>3. verifyProof([p EXCEPT !.wellFormed = TRUE], p.expiresAt + 1, "valid") = "expired"
      <3> DEFINE good == [p EXCEPT !.wellFormed = TRUE]
      <3>1. good.wellFormed = TRUE /\ good.expiresAt = p.expiresAt
        BY DEF AnyFreshness, IsProof
      <3> HIDE DEF good
      <3>2. p.expiresAt + 1 > p.expiresAt
        BY <1>1
      <3>3. verifyProof(good, p.expiresAt + 1, "valid") = "expired"
        BY <3>1, <3>2, VerdictIs
      <3>4. QED
        BY <3>3 DEF good
    <2>4. validateProofFreshness(p, [target EXCEPT !.end = @ + 1], now, maxAge) = "PERIOD_MISMATCH"
      <3> DEFINE next == [target EXCEPT !.end = @ + 1]
      <3>1. next.start = target.start /\ next.end = target.end + 1
        BY DEF AnyFreshness, IsPeriod
      <3> HIDE DEF next
      <3>2. ~(next.end <= next.start) /\ p.end # next.end
        BY <1>1, <2>1, <3>1
      <3>3. validateProofFreshness(p, next, now, maxAge) = "PERIOD_MISMATCH"
        BY <2>1, <3>2, FreshnessIs
      <3>4. QED
        BY <3>3 DEF next
    <2>5. QED
      BY <2>2, <2>3, <2>4
  <1>3. ASSUME validateProofFreshness(p, target, now, maxAge) \in {"EXPIRED", "TOO_OLD"}
        PROVE  validateProofFreshness(p, target, now + 1, maxAge) \in {"EXPIRED", "TOO_OLD"}
    <2>1. p.metadata /\ ~(p.expiresAt <= p.createdAt \/ p.end <= p.start \/ target.end <= target.start) /\ ~(p.createdAt > now)
      BY <1>3, FreshnessIs
    <2>2. \/ now >= p.expiresAt
          \/ ~(maxAge # NoAmount /\ maxAge < 0) /\ maxAge # NoAmount /\ now - p.createdAt > maxAge
      BY <1>3, FreshnessIs
    <2>3. ~(p.createdAt > now + 1) /\ (now >= p.expiresAt => now + 1 >= p.expiresAt) /\ (now - p.createdAt > maxAge => now + 1 - p.createdAt > maxAge)
      BY <1>1, <2>1
    <2>4. CASE now + 1 >= p.expiresAt
      <3>1. validateProofFreshness(p, target, now + 1, maxAge) = "EXPIRED"
        BY <2>1, <2>3, <2>4, FreshnessIs
      <3>2. QED
        BY <3>1
    <2>5. CASE ~(now + 1 >= p.expiresAt)
      <3>1. ~(maxAge # NoAmount /\ maxAge < 0) /\ maxAge # NoAmount /\ now + 1 - p.createdAt > maxAge
        BY <2>2, <2>3, <2>5
      <3> DEFINE later == now + 1
      <3>2. ~(p.createdAt > later) /\ ~(later >= p.expiresAt) /\ later - p.createdAt > maxAge
        BY <1>1, <2>3, <2>5, <3>1
      <3> HIDE DEF later
      <3>3. validateProofFreshness(p, target, later, maxAge) = "TOO_OLD"
        BY <2>1, <3>1, <3>2, FreshnessIs
      <3>4. QED
        BY <3>3 DEF later
    <2>6. QED
      BY <2>4, <2>5
  <1>4. QED
    BY <1>2, <1>3

\* Of all pairs of parts, only a valid circuit id and a valid hash are read back (proofs/reference.ts).
LEMMA AnyReferenceRoundTrips ==
  ASSUME NEW circuit, NEW hash
  PROVE  parseProofReference(formatProofReference(circuit, hash)) = "ok" <=> circuit = "circuit" /\ hash = "hash"
  <1>1. CASE circuit = "with colon"
    <2>1. formatProofReference(circuit, hash) = <<"circuit", "circuit", hash>>
      BY <1>1 DEF formatProofReference
    <2>2. parseProofReference(<<"circuit", "circuit", hash>>) = "form"
      BY DEF parseProofReference
    <2>3. QED
      BY <1>1, <2>1, <2>2
  <1>2. CASE circuit # "with colon"
    <2>1. formatProofReference(circuit, hash) = <<circuit, hash>>
      BY <1>2 DEF formatProofReference
    <2>2. parseProofReference(<<circuit, hash>>) = "ok" <=> circuit = "circuit" /\ hash = "hash"
      BY DEF parseProofReference
    <2>3. QED
      BY <2>1, <2>2
  <1>3. QED
    BY <1>1, <1>2

-----------------------------------------------------------------------------
ProofsAsked ==
  /\ Asked("proofconfig", ProofConfigInputs) /\ Asked("witness", Witnessed) /\ Asked("mode", ModeInputs)
  /\ Asked("freshness", FreshnessInputs) /\ Asked("reference", ReferenceInputs)

\* What is asked about proofs is one of their inputs.
LEMMA ProofsAreAsked == RulesSpec => []ProofsAsked
  <1>1. RulesInit => ProofsAsked
    BY DEF RulesInit, Unasked, ProofsAsked, Asked, About
  <1>2. ProofsAsked /\ [RulesNext]_subject => ProofsAsked'
    <2> SUFFICES ASSUME ProofsAsked, [RulesNext]_subject PROVE ProofsAsked'
      OBVIOUS
    <2>1. CASE UNCHANGED subject
      BY <2>1 DEF ProofsAsked, Asked, About
    <2>2. CASE RulesNext
      <3>1. Asked("proofconfig", ProofConfigInputs)'
        BY <2>2 DEF RulesNext, Ask, Asked, About
      <3>2. Asked("witness", Witnessed)'
        BY <2>2 DEF RulesNext, Ask, Asked, About
      <3>3. Asked("mode", ModeInputs)'
        BY <2>2 DEF RulesNext, Ask, Asked, About
      <3>4. Asked("freshness", FreshnessInputs)'
        BY <2>2 DEF RulesNext, Ask, Asked, About
      <3>5. Asked("reference", ReferenceInputs)'
        BY <2>2 DEF RulesNext, Ask, Asked, About
      <3>6. QED
        BY <3>1, <3>2, <3>3, <3>4, <3>5 DEF ProofsAsked
    <2>3. QED
      BY <2>1, <2>2
  <1>3. QED
    BY <1>1, <1>2, PTL DEF RulesSpec

\* The inputs of the run belong to the classes the lemmas above are about.
LEMMA ProofClasses ==
  ASSUME ProofsAsked
  PROVE  /\ About("proofconfig") => AnyProofConfig(subject.input)
         /\ About("witness") => AnyWitness(subject.input)
         /\ About("mode") => AnyContext(subject.input)
         /\ About("freshness") => AnyFreshness(subject.input)
         /\ About("reference") => subject.input = <<subject.input[1], subject.input[2]>>
  <1>1. \A c \in ProofConfigInputs : AnyProofConfig(c)
    <2>1. \A l \in Locations : l.file # "denied" /\ l.ext \in BOOLEAN
      <3> SUFFICES ASSUME NEW l \in Locations PROVE l.file # "denied" /\ l.ext \in BOOLEAN
        OBVIOUS
      <3>1. CASE l = NoLocation
        BY <3>1 DEF NoLocation, Location
      <3>2. CASE l = Location("blank", FALSE, "missing")
        BY <3>2 DEF Location
      <3>3. CASE l \in [form : {"remote", "badurl"}, ext : {TRUE}, file : {"ok"}]
        BY <3>3
      <3>4. CASE l \in [form : {"local"}, ext : BOOLEAN, file : {"ok", "empty", "missing", "dir"}]
        BY <3>4
      <3>5. QED
        BY <3>1, <3>2, <3>3, <3>4 DEF Locations
    <2>2. \A c \in ProofConfigInputs : /\ c.wasm \in Locations /\ c.zkey \in Locations
                                        /\ c.wasmHash \in {"absent", "match", "upper", "other", "malformed"} /\ c.zkeyHash \in {"absent", "match"}
      BY DEF ProofConfigInputs
    <2>3. QED
      BY <2>1, <2>2 DEF AnyProofConfig
  <1>2. \A w \in Witnessed : AnyWitness(w)
    <2> SUFFICES ASSUME NEW w \in Witnessed PROVE AnyWitness(w)
      OBVIOUS
    <2> DEFINE texts == {Value("undefined", 0), Value("null", 0), Value("string", 0), Value("string", 1), Value("padded", 1), Value("number", 1)}
               amounts == {Value("undefined", 0), Value("null", 0), Value("other", 0)}
                          \cup {Value(t, v) : t \in {"string", "padded", "bigint", "number"}, v \in {-1, 0, 5}} \cup {Value("string", 105)}
    <2>1. \A x \in texts : IsValue(x)
      BY DEF Value, IsValue
    <2>2. \A x \in amounts : IsValue(x)
      BY DEF Value, IsValue
    <2>3. w \in [recipient : texts, amount : amounts, asset : texts, extra : {{}, {"memo"}, {"secret"}}]
      BY DEF Witnessed
    <2> HIDE DEF texts, amounts
    <2>4. w.recipient \in texts /\ w.amount \in amounts /\ w.asset \in texts
          /\ w = [recipient |-> w.recipient, amount |-> w.amount, asset |-> w.asset, extra |-> w.extra]
      BY <2>3
    <2>5. QED
      BY <2>1, <2>2, <2>4 DEF AnyWitness
  <1>3. \A x \in ModeInputs : AnyContext(x)
    BY DEF ModeInputs, AnyContext
  <1>4. \A i \in FreshnessInputs : AnyFreshness(i)
    <2> SUFFICES ASSUME NEW i \in FreshnessInputs PROVE AnyFreshness(i)
      OBVIOUS
    <2>1. /\ i.proof \in [metadata : BOOLEAN, wellFormed : BOOLEAN, createdAt : {1, 2}, expiresAt : 1..3, start : {1}, end : 1..2]
          /\ i.target \in [start : {1, 2}, end : {2}] /\ i.now \in 0..4 /\ i.maxAge \in {NoAmount, -1, 1}
      BY DEF FreshnessInputs
    <2>2. IsProof(i.proof)
      BY <2>1 DEF IsProof
    <2>3. IsPeriod(i.target)
      BY <2>1 DEF IsPeriod
    <2>4. QED
      BY <2>1, <2>2, <2>3 DEF AnyFreshness, NoAmount
  <1>5. \A r \in ReferenceInputs : r = <<r[1], r[2]>>
    <2> DEFINE circuits == {"circuit", "with colon", "Bad", ""}
               hashes == {"hash", "short", ""}
    <2>1. ReferenceInputs = circuits \X hashes
      BY Zenon DEF ReferenceInputs
    <2> HIDE DEF circuits, hashes
    <2>2. QED
      BY <2>1
  <1>6. QED
    BY <1>1, <1>2, <1>3, <1>4, <1>5 DEF ProofsAsked, Asked

(***************************************************************************)
(* What is said to be ready can be generated, one payment has one witness, *)
(* an available mode is permitted, and a fresh proof is not expired: the   *)
(* lemmas above, for the questions of the run.                             *)
(***************************************************************************)
THEOREM ReadyProofsAreHeld == RulesSpec => []ReadyProofsHold
  <1>1. ProofsAsked => ReadyProofsHold
    <2> SUFFICES ASSUME ProofsAsked PROVE ReadyProofsHold
      OBVIOUS
    <2>1. ReadyProofsGenerate
      BY ProofClasses, AnyReadyProofGenerates DEF ReadyProofsGenerate
    <2>2. SanitizedIsCanonical
      BY ProofClasses, AnySanitizedIsCanonical DEF SanitizedIsCanonical
    <2>3. AvailableModesPermitted
      BY ProofClasses, AnyAvailableModePermitted DEF AvailableModesPermitted
    <2>4. FreshIsNotExpired
      BY ProofClasses, AnyFreshIsNotExpired DEF FreshIsNotExpired
    <2>5. ReferencesRoundTrip
      <3> SUFFICES ASSUME About("reference") PROVE ReferencesRoundTrip
        BY DEF ReferencesRoundTrip
      <3> DEFINE circuit == subject.input[1]
                 hash == subject.input[2]
      <3>1. parseProofReference(formatProofReference(circuit, hash)) = "ok" <=> circuit = "circuit" /\ hash = "hash"
        BY AnyReferenceRoundTrips
      <3>2. subject.input = <<circuit, hash>>
        BY ProofClasses
      <3>3. subject.input = <<"circuit", "hash">> <=> circuit = "circuit" /\ hash = "hash"
        BY <3>2
      <3>4. QED
        BY <3>1, <3>3 DEF ReferencesRoundTrip
    <2>6. QED
      BY <2>1, <2>2, <2>3, <2>4, <2>5 DEF ReadyProofsHold
  <1>2. QED
    BY <1>1, ProofsAreAsked, PTL

-----------------------------------------------------------------------------
(***************************************************************************)
(* Who is paid (eligibility/, employees/).  An employee is eligible when   *)
(* none of the reasons collected is an error; the rules hand on sequences  *)
(* of codes, which are joined one behind the other.                        *)
(***************************************************************************)
Codes ==
  {"MISSING_EMPLOYEE_ID", "MISSING_RECIPIENT_ADDRESS", "INVALID_RECIPIENT_ADDRESS", "ZERO_OR_NEGATIVE_SALARY",
   "SALARY_BELOW_MIN_LIMIT", "SALARY_EXCEEDS_MAX_LIMIT", "MISSING_ASSET_IDENTIFIER", "UNSUPPORTED_ASSET",
   "INACTIVE_EMPLOYEE_STATUS", "EMPLOYEE_SUSPENDED", "EMPLOYEE_TERMINATED", "EFFECTIVE_DATE_FUTURE",
   "EFFECTIVE_DATE_EXPIRED", "COMPLIANCE_BLOCKED", "PAYROLL_LOCKED", "SANCTION_LISTED", "DUPLICATE_EMPLOYEE_ID",
   "DUPLICATE_RECIPIENT_ADDRESS", "REGISTRY_RECORD_NOT_FOUND", "REGISTRY_RECORD_DEACTIVATED",
   "REGISTRY_SALARY_MISMATCH", "REGISTRY_TOKEN_MISMATCH", "CUSTOM", "CUSTOM_INELIGIBILITY_RULE"}
Reasons == [code : Codes, severity : {"error", "warning"}]
Clean(s) == \A k \in DOMAIN s : s[k].severity = "warning"
CodesOf(s) == {s[k].code : k \in DOMAIN s}

\* An employee is eligible when no reason is an error.
LEMMA EligibleIsClean ==
  ASSUME NEW s
  PROVE  (buildResult(s).isEligible <=> Clean(s)) /\ buildResult(s).reasons = s
  <1> DEFINE errors == {k \in DOMAIN s : s[k].severity # "warning"}
             p == IF errors = {} THEN Nil ELSE s[Min(errors)].code
             status == IF errors = {} THEN "eligible" ELSE "ineligible"
  <1>1. buildResult(s) = [isEligible |-> errors = {}, status |-> status, reasons |-> s, primary |-> p]
    BY Zenon DEF buildResult
  <1> HIDE DEF p, status
  <1>2. buildResult(s).isEligible <=> errors = {}
    <2> DEFINE none == errors = {}
    <2>1. buildResult(s) = [isEligible |-> none, status |-> status, reasons |-> s, primary |-> p]
      BY <1>1
    <2> HIDE DEF none
    <2>2. buildResult(s).isEligible = none
      BY <2>1
    <2>3. QED
      BY Zenon, <2>2 DEF none
  <1>3. errors = {} <=> Clean(s)
    BY DEF Clean
  <1>4. buildResult(s).reasons = s
    <2> HIDE DEF errors
    <2> DEFINE none == errors = {}
    <2> HIDE DEF none
    <2>1. buildResult(s) = [isEligible |-> none, status |-> status, reasons |-> s, primary |-> p]
      BY Zenon, <1>1 DEF none
    <2>2. QED
      BY <2>1
  <1>5. QED
    BY <1>2, <1>3, <1>4

\* Of two sequences of reasons one behind the other: it is clean when both are, and has the codes of both.
LEMMA Joined ==
  ASSUME NEW s \in Seq(Reasons), NEW t \in Seq(Reasons)
  PROVE  /\ s \o t \in Seq(Reasons)
         /\ Clean(s \o t) <=> Clean(s) /\ Clean(t)
         /\ CodesOf(s \o t) = CodesOf(s) \cup CodesOf(t)
  <1> DEFINE u == s \o t
  <1>1. /\ u \in Seq(Reasons) /\ DOMAIN u = 1..(Len(s) + Len(t))
        /\ DOMAIN s = 1..Len(s) /\ DOMAIN t = 1..Len(t) /\ Len(s) \in Nat /\ Len(t) \in Nat
    OBVIOUS
  <1>2. \A k \in 1..Len(s) : u[k] = s[k]
    OBVIOUS
  <1>3. \A k \in 1..Len(t) : u[Len(s) + k] = t[k]
    OBVIOUS
  <1> HIDE DEF u
  <1>4. \A k \in DOMAIN u : \/ k \in DOMAIN s /\ u[k] = s[k]
                            \/ k - Len(s) \in DOMAIN t /\ u[k] = t[k - Len(s)]
    <2> SUFFICES ASSUME NEW k \in DOMAIN u, k \notin DOMAIN s
                 PROVE  k - Len(s) \in DOMAIN t /\ u[k] = t[k - Len(s)]
      BY <1>1, <1>2
    <2>1. k - Len(s) \in 1..Len(t) /\ Len(s) + (k - Len(s)) = k
      BY <1>1
    <2>2. QED
      BY <1>1, <1>3, <2>1
  <1>5. \A k \in DOMAIN s : k \in DOMAIN u /\ u[k] = s[k]
    BY <1>1, <1>2
  <1>6. \A k \in DOMAIN t : \E j \in DOMAIN u : u[j] = t[k]
    <2> TAKE k \in DOMAIN t
    <2>1. Len(s) + k \in DOMAIN u
      BY <1>1
    <2>2. QED
      BY <1>1, <1>3, <2>1
  <1>7. Clean(u) <=> Clean(s) /\ Clean(t)
    BY <1>4, <1>5, <1>6 DEF Clean
  <1>8. CodesOf(u) = CodesOf(s) \cup CodesOf(t)
    BY <1>4, <1>5, <1>6 DEF CodesOf
  <1>9. QED
    BY <1>1, <1>7, <1>8 DEF u

\* Refusals turns codes into errors and keeps the codes.
LEMMA CodesBecomeReasons ==
  ASSUME NEW codes \in Seq(Codes)
  PROVE  /\ Refusals(codes) \in Seq(Reasons)
         /\ Clean(Refusals(codes)) <=> codes = <<>>
         /\ CodesOf(Refusals(codes)) = {codes[k] : k \in DOMAIN codes}
  <1>1. /\ DOMAIN Refusals(codes) = 1..Len(codes) /\ DOMAIN codes = 1..Len(codes) /\ Len(codes) \in Nat
        /\ \A k \in 1..Len(codes) : Refusals(codes)[k] = [code |-> codes[k], severity |-> "error"]
    BY DEF Refusals, Reason
  <1>2. \A k \in 1..Len(codes) : Refusals(codes)[k] \in Reasons
    <2> TAKE k \in 1..Len(codes)
    <2>1. codes[k] \in Codes
      BY <1>1
    <2>2. Refusals(codes)[k] = [code |-> codes[k], severity |-> "error"]
      BY <1>1
    <2>3. QED
      BY <2>1, <2>2 DEF Reasons
  <1>3. Refusals(codes) \in Seq(Reasons)
    <2>1. Refusals(codes) = [k \in 1..Len(codes) |-> Refusals(codes)[k]]
      BY <1>1 DEF Refusals
    <2>2. QED
      BY <1>1, <1>2, <2>1
  <1>4. Clean(Refusals(codes)) <=> codes = <<>>
    <2>1. CASE codes = <<>>
      BY <1>1, <2>1 DEF Clean
    <2>2. CASE codes # <<>>
      <3>1. 1 \in 1..Len(codes)
        BY <2>2
      <3>2. QED
        BY <1>1, <2>2, <3>1 DEF Clean
    <2>3. QED
      BY <2>1, <2>2
  <1>5. CodesOf(Refusals(codes)) = {codes[k] : k \in DOMAIN codes}
    BY <1>1 DEF CodesOf
  <1>6. QED
    BY <1>3, <1>4, <1>5

\* What a validator reports is one of its codes, or what it reports when no check applies.
LEMMA ReportedIsListed ==
  ASSUME NEW S, NEW checks, NEW o \in S, DOMAIN checks \subseteq Nat,
         \A i \in DOMAIN checks : checks[i][2] \in S
  PROVE  FirstOf(checks, o) \in S
  BY FirstThatApplies

\* A rule that reports one code reports a sequence of codes.
LEMMA OneCode ==
  ASSUME NEW x \in Codes
  PROVE  <<x>> \in Seq(Codes)
  OBVIOUS

\* Every rule hands on a sequence of codes.
LEMMA RulesGiveCodes ==
  ASSUME NEW r, NEW o, NEW ref
  PROVE  /\ validateEmployeeIdRule(r) \in Seq(Codes) /\ validateRecipientRule(r, o) \in Seq(Codes)
         /\ validateSalaryRule(r, o) \in Seq(Codes) /\ validateAssetRule(r, o) \in Seq(Codes)
         /\ validateStatusRule(r, o) \in Seq(Codes) /\ validateLifecycleDatesRule(r, ref) \in Seq(Codes)
         /\ validateComplianceRule(r, o) \in Seq(Codes)
  <1>1. \A x \in {"MISSING_EMPLOYEE_ID", "MISSING_RECIPIENT_ADDRESS", "INVALID_RECIPIENT_ADDRESS", "ZERO_OR_NEGATIVE_SALARY",
                 "SALARY_BELOW_MIN_LIMIT", "SALARY_EXCEEDS_MAX_LIMIT", "MISSING_ASSET_IDENTIFIER", "UNSUPPORTED_ASSET",
                 "INACTIVE_EMPLOYEE_STATUS", "EMPLOYEE_SUSPENDED", "EMPLOYEE_TERMINATED", "EFFECTIVE_DATE_FUTURE",
                 "EFFECTIVE_DATE_EXPIRED", "COMPLIANCE_BLOCKED", "PAYROLL_LOCKED", "SANCTION_LISTED"} : <<x>> \in Seq(Codes)
    BY OneCode DEF Codes
  <1>2. <<>> \in Seq(Codes)
    OBVIOUS
  <1>3. \A s, t \in Seq(Codes) : s \o t \in Seq(Codes)
    OBVIOUS
  <1>4. validateEmployeeIdRule(r) \in Seq(Codes) /\ validateRecipientRule(r, o) \in Seq(Codes)
    BY <1>1, <1>2 DEF validateEmployeeIdRule, validateRecipientRule
  <1>5. validateSalaryRule(r, o) \in Seq(Codes)
    BY <1>1, <1>2, <1>3 DEF validateSalaryRule
  <1>6. validateAssetRule(r, o) \in Seq(Codes)
    BY <1>1, <1>2 DEF validateAssetRule
  <1>7. validateLifecycleDatesRule(r, ref) \in Seq(Codes)
    BY <1>1, <1>2, <1>3 DEF validateLifecycleDatesRule
  <1>8. validateStatusRule(r, o) \in Seq(Codes)
    <2> DEFINE p1 == statusNow(r) = "inactive"
               p2 == statusNow(r) = "suspended"
               p3 == statusNow(r) \in {"terminated", "offboarded"}
               p4 == o.allowedStatuses # {} /\ statusNow(r) \notin o.allowedStatuses
               list == << <<p1, <<"INACTIVE_EMPLOYEE_STATUS">> >>, <<p2, <<"EMPLOYEE_SUSPENDED">> >>,
                          <<p3, <<"EMPLOYEE_TERMINATED">> >>, <<p4, <<"INACTIVE_EMPLOYEE_STATUS">> >> >>
    <2>1. validateStatusRule(r, o) = FirstOf(list, <<>>)
      BY Zenon DEF validateStatusRule
    <2> HIDE DEF p1, p2, p3, p4
    <2>2. DOMAIN list \subseteq Nat /\ \A i \in DOMAIN list : list[i][2] \in Seq(Codes)
      BY <1>1
    <2> HIDE DEF list
    <2>3. FirstOf(list, <<>>) \in Seq(Codes)
      BY <1>2, <2>2, ReportedIsListed
    <2>4. QED
      BY <2>1, <2>3
  <1>9. validateComplianceRule(r, o) \in Seq(Codes)
    <2> DEFINE p1 == r.compliance = "sanctioned"
               p2 == r.compliance \in {"failed", "blocked"}
               p3 == r.compliance = "pending" /\ o.strictCompliance
               list == << <<p1, <<"SANCTION_LISTED">> >>, <<p2, <<"COMPLIANCE_BLOCKED">> >>, <<p3, <<"COMPLIANCE_BLOCKED">> >> >>
               blocked == IF r.isBlocked THEN <<"COMPLIANCE_BLOCKED">> ELSE <<>>
               locked == IF r.isLocked THEN <<"PAYROLL_LOCKED">> ELSE <<>>
               checked == FirstOf(list, <<>>)
    <2>1. validateComplianceRule(r, o) = blocked \o locked \o checked
      BY Zenon DEF validateComplianceRule
    <2>2. blocked \in Seq(Codes) /\ locked \in Seq(Codes)
      BY <1>1, <1>2
    <2> HIDE DEF p1, p2, p3, blocked, locked, checked
    <2>3. DOMAIN list \subseteq Nat /\ \A i \in DOMAIN list : list[i][2] \in Seq(Codes)
      BY <1>1
    <2> HIDE DEF list
    <2>4. checked \in Seq(Codes)
      BY <1>2, <2>3, ReportedIsListed DEF checked
    <2>5. QED
      BY <1>3, <2>1, <2>2, <2>4
  <1>10. QED
    BY <1>4, <1>5, <1>6, <1>7, <1>8, <1>9

\* A custom rule gives reasons, and none when there is no rule.
LEMMA CustomAreReasons ==
  ASSUME NEW rule, NEW heard
  PROVE  /\ CustomReasons(rule, heard) \in Seq(Reasons)
         /\ rule = "none" /\ "none" \notin heard => CustomReasons(rule, heard) = <<>>
  <1>1. Warning("CUSTOM") \in Reasons /\ Reason("CUSTOM_INELIGIBILITY_RULE") \in Reasons
    BY DEF Reasons, Codes, Warning, Reason
  <1>2. <<Warning("CUSTOM")>> \in Seq(Reasons) /\ <<Reason("CUSTOM_INELIGIBILITY_RULE")>> \in Seq(Reasons) /\ <<>> \in Seq(Reasons)
    BY <1>1
  <1>3. QED
    BY <1>2 DEF CustomReasons

\* The synchronous pass accepts when every rule does, and reports what the rules report.
LEMMA SyncPass ==
  ASSUME NEW r, NEW o, NEW ref, NEW rule
  PROVE  /\ evaluateSyncRules(r, o, ref, rule) \in Seq(Reasons)
         /\ Clean(evaluateSyncRules(r, o, ref, rule)) =>
              validateEmployeeIdRule(r) = <<>> /\ validateRecipientRule(r, o) = <<>> /\ validateStatusRule(r, o) = <<>>
         /\ CodesOf(evaluateSyncRules(r, o, ref, rule))
              = CodesOf(Refusals(validateEmployeeIdRule(r))) \cup CodesOf(Refusals(validateRecipientRule(r, o)))
                \cup CodesOf(Refusals(validateSalaryRule(r, o))) \cup CodesOf(Refusals(validateAssetRule(r, o)))
                \cup CodesOf(Refusals(validateStatusRule(r, o))) \cup CodesOf(Refusals(validateLifecycleDatesRule(r, ref)))
                \cup CodesOf(Refusals(validateComplianceRule(r, o))) \cup CodesOf(CustomReasons(rule, {"refuses", "warns", "throws"}))
  <1> DEFINE c1 == validateEmployeeIdRule(r)
             c2 == validateRecipientRule(r, o)
             c3 == validateSalaryRule(r, o)
             c4 == validateAssetRule(r, o)
             c5 == validateStatusRule(r, o)
             c6 == validateLifecycleDatesRule(r, ref)
             c7 == validateComplianceRule(r, o)
             s8 == CustomReasons(rule, {"refuses", "warns", "throws"})
             s1 == Refusals(c1)
             s2 == Refusals(c2)
             s3 == Refusals(c3)
             s4 == Refusals(c4)
             s5 == Refusals(c5)
             s6 == Refusals(c6)
             s7 == Refusals(c7)
             all == evaluateSyncRules(r, o, ref, rule)
  <1>1. all = s1 \o s2 \o s3 \o s4 \o s5 \o s6 \o s7 \o s8
    BY DEF evaluateSyncRules
  <1>2. /\ c1 \in Seq(Codes) /\ c2 \in Seq(Codes) /\ c3 \in Seq(Codes) /\ c4 \in Seq(Codes)
        /\ c5 \in Seq(Codes) /\ c6 \in Seq(Codes) /\ c7 \in Seq(Codes)
    BY RulesGiveCodes
  <1> HIDE DEF c1, c2, c3, c4, c5, c6, c7
  <1>3. /\ s1 \in Seq(Reasons) /\ s2 \in Seq(Reasons) /\ s3 \in Seq(Reasons) /\ s4 \in Seq(Reasons)
        /\ s5 \in Seq(Reasons) /\ s6 \in Seq(Reasons) /\ s7 \in Seq(Reasons)
    BY <1>2, CodesBecomeReasons
  <1>4. s8 \in Seq(Reasons)
    BY CustomAreReasons
  <1>5. (Clean(s1) => c1 = <<>>) /\ (Clean(s2) => c2 = <<>>) /\ (Clean(s5) => c5 = <<>>)
    BY <1>2, CodesBecomeReasons
  <1> HIDE DEF s1, s2, s3, s4, s5, s6, s7, s8, all
  <1> DEFINE t2 == s1 \o s2
             t3 == t2 \o s3
             t4 == t3 \o s4
             t5 == t4 \o s5
             t6 == t5 \o s6
             t7 == t6 \o s7
             t8 == t7 \o s8
  <1>6. all = t8
    BY <1>1
  <1>7. t2 \in Seq(Reasons) /\ CodesOf(t2) = CodesOf(s1) \cup CodesOf(s2) /\ (Clean(t2) => Clean(s1) /\ Clean(s2))
    BY <1>3, Joined
  <1>8. t3 \in Seq(Reasons) /\ CodesOf(t3) = CodesOf(t2) \cup CodesOf(s3) /\ (Clean(t3) => Clean(t2))
    <2> HIDE DEF t2
    <2>1. QED
      BY <1>3, <1>7, Joined
  <1>9. t4 \in Seq(Reasons) /\ CodesOf(t4) = CodesOf(t3) \cup CodesOf(s4) /\ (Clean(t4) => Clean(t3))
    <2> HIDE DEF t3
    <2>1. QED
      BY <1>3, <1>8, Joined
  <1>10. t5 \in Seq(Reasons) /\ CodesOf(t5) = CodesOf(t4) \cup CodesOf(s5) /\ (Clean(t5) => Clean(t4) /\ Clean(s5))
    <2> HIDE DEF t4
    <2>1. QED
      BY <1>3, <1>9, Joined
  <1>11. t6 \in Seq(Reasons) /\ CodesOf(t6) = CodesOf(t5) \cup CodesOf(s6) /\ (Clean(t6) => Clean(t5))
    <2> HIDE DEF t5
    <2>1. QED
      BY <1>3, <1>10, Joined
  <1>12. t7 \in Seq(Reasons) /\ CodesOf(t7) = CodesOf(t6) \cup CodesOf(s7) /\ (Clean(t7) => Clean(t6))
    <2> HIDE DEF t6
    <2>1. QED
      BY <1>3, <1>11, Joined
  <1>13. t8 \in Seq(Reasons) /\ CodesOf(t8) = CodesOf(t7) \cup CodesOf(s8) /\ (Clean(t8) => Clean(t7))
    <2> HIDE DEF t7
    <2>1. QED
      BY <1>4, <1>12, Joined
  <1> HIDE DEF t2, t3, t4, t5, t6, t7, t8
  <1>14. /\ all \in Seq(Reasons) /\ (Clean(all) => c1 = <<>> /\ c2 = <<>> /\ c5 = <<>>)
         /\ CodesOf(all) = CodesOf(s1) \cup CodesOf(s2) \cup CodesOf(s3) \cup CodesOf(s4) \cup CodesOf(s5)
                           \cup CodesOf(s6) \cup CodesOf(s7) \cup CodesOf(s8)
    BY <1>5, <1>6, <1>7, <1>8, <1>9, <1>10, <1>11, <1>12, <1>13
  <1>15. QED
    BY Zenon, <1>14 DEF all, c1, c2, c3, c4, c5, c6, c7, s1, s2, s3, s4, s5, s6, s7, s8

\* A status the rule lets pass is none of those it refuses; "active" always passes.
LEMMA StatusAccepted ==
  ASSUME NEW r, NEW o
  PROVE  /\ validateStatusRule(r, o) = <<>> => statusNow(r) # "suspended"
         /\ statusNow(r) = "active" /\ o.allowedStatuses = {} => validateStatusRule(r, o) = <<>>
  <1> DEFINE p1 == statusNow(r) = "inactive"
             p2 == statusNow(r) = "suspended"
             p3 == statusNow(r) \in {"terminated", "offboarded"}
             p4 == o.allowedStatuses # {} /\ statusNow(r) \notin o.allowedStatuses
             list == << <<p1, <<"INACTIVE_EMPLOYEE_STATUS">> >>, <<p2, <<"EMPLOYEE_SUSPENDED">> >>,
                        <<p3, <<"EMPLOYEE_TERMINATED">> >>, <<p4, <<"INACTIVE_EMPLOYEE_STATUS">> >> >>
  <1>1. validateStatusRule(r, o) = FirstOf(list, <<>>)
    BY Zenon DEF validateStatusRule
  <1>2. statusNow(r) = "active" /\ o.allowedStatuses = {} => ~p1 /\ ~p2 /\ ~p3 /\ ~p4
    OBVIOUS
  <1> HIDE DEF p1, p2, p3, p4
  <1>3. DOMAIN list = 1..4 /\ list[1][1] = p1 /\ list[2][1] = p2 /\ list[3][1] = p3 /\ list[4][1] = p4
    OBVIOUS
  <1>4. \A i \in DOMAIN list : list[i][2] # <<>>
    OBVIOUS
  <1> HIDE DEF list
  <1>5. DOMAIN list \subseteq Nat
    BY <1>3
  <1>6. validateStatusRule(r, o) = <<>> => ~p2
    BY <1>1, <1>3, <1>4, <1>5, NothingFound
  <1>7. ~p1 /\ ~p2 /\ ~p3 /\ ~p4 => \A i \in DOMAIN list : ~list[i][1]
    BY <1>3
  <1>8. ~p1 /\ ~p2 /\ ~p3 /\ ~p4 => FirstOf(list, <<>>) = <<>>
    BY <1>5, <1>7, FirstThatApplies
  <1>9. QED
    BY <1>1, <1>2, <1>6, <1>8 DEF p2

\* Only an active employee may be put on drafts.
LEMMA DraftsTakeTheActive ==
  ASSUME NEW status, canUseInDrafts(status)
  PROVE  status = "active"
  <1> DEFINE p1 == status \in {"active", "suspended", "inactive"}
             p2 == status \in {"pending", "terminated"}
             list == << <<p1, status>>, <<p2, "inactive">> >>
  <1>1. FirstOf(list, "unknown") = "active"
    BY DEF canUseInDrafts, isEmployeeActive
  <1> HIDE DEF p1, p2
  <1>2. DOMAIN list = 1..2 /\ list[1][2] = status /\ list[2][2] = "inactive"
    OBVIOUS
  <1> HIDE DEF list
  <1>3. DOMAIN list \subseteq Nat
    BY <1>2
  <1>4. \E i \in DOMAIN list : list[i][2] = "active"
    BY <1>1, <1>3, FirstThatApplies
  <1>5. QED
    BY <1>2, <1>4

\* A payout of a suspended employee is for those whose record says suspended.
LEMMA NobodyElseIsPaidOut ==
  ASSUME NEW r, NEW blocked, NEW failed, NEW ref, r.status # "suspended"
  PROVE  ~shouldPayout(evaluateSuspensionPayout(r, blocked, failed, ref))
  <1> DEFINE p1 == r.status # "suspended"
             p2 == r.isBlocked /\ ~blocked
             p3 == r.isLocked
             p4 == r.compliance = "failed" /\ ~failed
             p5 == r.pay = NoPay
             p6 == r.compliance = "pending"
             p7 == r.expiryDate # NoDate /\ r.expiryDate <= ref
  <1>1. evaluateSuspensionPayout(r, blocked, failed, ref)
          = FirstOf(<< <<p1, "NOT_SUSPENDED">>, <<p2, "ACCOUNT_BLOCKED">>, <<p3, "ACCOUNT_LOCKED">>, <<p4, "COMPLIANCE_FAILED">>,
                       <<p5, "NO_SALARY_CONFIGURED">>, <<p6, "PENDING_REVIEW">>, <<p7, "FINAL_SETTLEMENT_DUE">> >>, "ACCRUED_WAGES_DUE")
    BY Zenon DEF evaluateSuspensionPayout
  <1>2. p1
    OBVIOUS
  <1> HIDE DEF p1, p2, p3, p4, p5, p6, p7
  <1>3. evaluateSuspensionPayout(r, blocked, failed, ref) =
          IF p1 THEN "NOT_SUSPENDED" ELSE IF p2 THEN "ACCOUNT_BLOCKED" ELSE IF p3 THEN "ACCOUNT_LOCKED" ELSE IF p4 THEN "COMPLIANCE_FAILED"
          ELSE IF p5 THEN "NO_SALARY_CONFIGURED" ELSE IF p6 THEN "PENDING_REVIEW" ELSE IF p7 THEN "FINAL_SETTLEMENT_DUE"
          ELSE "ACCRUED_WAGES_DUE"
    BY <1>1, SevenChecks
  <1>4. QED
    BY <1>2, <1>3 DEF shouldPayout

\* The rules that are awaited give reasons.
LEMMA AwaitedAreReasons ==
  ASSUME NEW r, NEW o, NEW rule
  PROVE  /\ AwaitedReasons(r, o, rule) \in Seq(Reasons)
         /\ o.registry.kind = "unused" /\ rule = "none" => Clean(AwaitedReasons(r, o, rule))
  <1> DEFINE codes == validateOnChainRegistryRule(r, o)
             custom == CustomReasons(rule, {"refuses", "warns", "promises"})
  <1>1. \A x \in {"REGISTRY_RECORD_NOT_FOUND", "REGISTRY_RECORD_DEACTIVATED", "REGISTRY_SALARY_MISMATCH",
               "REGISTRY_TOKEN_MISMATCH"} : <<x>> \in Seq(Codes)
    BY OneCode DEF Codes
  <1>2. <<>> \in Seq(Codes) /\ \A s, t \in Seq(Codes) : s \o t \in Seq(Codes)
    OBVIOUS
  <1>3. codes \in Seq(Codes) /\ (o.registry.kind = "unused" => codes = <<>>)
    BY <1>1, <1>2 DEF validateOnChainRegistryRule
  <1>4. custom \in Seq(Reasons) /\ (rule = "none" => custom = <<>>)
    BY CustomAreReasons
  <1> HIDE DEF codes, custom
  <1>5. Refusals(codes) \in Seq(Reasons) /\ (codes = <<>> => Clean(Refusals(codes)))
    BY <1>3, CodesBecomeReasons
  <1>6. custom = <<>> => Clean(custom)
    BY DEF Clean
  <1>7. AwaitedReasons(r, o, rule) = Refusals(codes) \o custom
    BY DEF AwaitedReasons, codes, custom
  <1>8. QED
    BY <1>3, <1>4, <1>5, <1>6, <1>7, Joined

(***************************************************************************)
(* An employee the payroll accepts is not also owed a suspension payout,   *)
(* and the awaited evaluation accepts nobody the synchronous one refuses:  *)
(* for any record, any custom rule and any answer of the registry          *)
(* (EmployeeEligibilityEvaluator.ts, suspensionPayoutEvaluator.ts).        *)
(***************************************************************************)
LEMMA AnyEmployeeIsPaidOneWay ==
  ASSUME NEW r, NEW o, NEW ref, NEW rule, o.allowedStatuses = {}
  PROVE  /\ evaluate(r, o, ref, rule).isEligible => ~shouldPayout(evaluateSuspensionPayout(r, TRUE, TRUE, ref))
         /\ evaluateAsync(r, o, ref, rule).isEligible => evaluate(r, o, ref, rule).isEligible
         /\ canUseInDrafts(r.status) => validateStatusRule(r, o) = <<>>
  <1> DEFINE s == evaluateSyncRules(r, o, ref, rule)
             t == AwaitedReasons(r, o, rule)
  <1>1. s \in Seq(Reasons) /\ t \in Seq(Reasons) /\ (Clean(s) => validateStatusRule(r, o) = <<>>)
    BY SyncPass, AwaitedAreReasons
  <1>2. evaluate(r, o, ref, rule).isEligible <=> Clean(s)
    BY EligibleIsClean DEF evaluate
  <1>3. evaluateAsync(r, o, ref, rule).isEligible => Clean(s)
    <2>1. CASE rule = "throws"
      BY <2>1 DEF evaluateAsync, Rejected
    <2>2. CASE rule # "throws"
      <3>1. evaluateAsync(r, o, ref, rule) = buildResult(s \o t)
        BY <2>2 DEF evaluateAsync
      <3> HIDE DEF s, t
      <3>2. evaluateAsync(r, o, ref, rule).isEligible <=> Clean(s \o t)
        BY <3>1, EligibleIsClean
      <3>3. QED
        BY <1>1, <3>2, Joined
    <2>3. QED
      BY <2>1, <2>2
  <1>4. Clean(s) => r.status # "suspended"
    BY <1>1, StatusAccepted DEF statusNow, Nil
  <1>5. canUseInDrafts(r.status) => validateStatusRule(r, o) = <<>>
    <2> SUFFICES ASSUME canUseInDrafts(r.status) PROVE validateStatusRule(r, o) = <<>>
      OBVIOUS
    <2>1. statusNow(r) = "active"
      BY DraftsTakeTheActive DEF statusNow
    <2>2. QED
      BY <2>1, StatusAccepted
  <1>6. QED
    BY <1>2, <1>3, <1>4, <1>5, NobodyElseIsPaidOut

(***************************************************************************)
(* Of all rules only the one about dates looks at the clock, and only its  *)
(* "not yet" goes away with time: it is listed as retryable                *)
(* (eligibility/rules.ts, reasonCodes.ts).                                 *)
(***************************************************************************)
LEMMA AnyFinalReasonLasts ==
  ASSUME NEW r, NEW o, NEW rule, NEW ref \in Int, r.effectiveDate \in Int, r.expiryDate \in Int
  PROVE  CodesOf(evaluateSyncRules(r, o, ref, rule)) \ RetryableReasons \subseteq CodesOf(evaluateSyncRules(r, o, ref + 1, rule))
  <1> DEFINE dates(now) == CodesOf(Refusals(validateLifecycleDatesRule(r, now)))
  <1>1. \A now \in Int : /\ "EFFECTIVE_DATE_EXPIRED" \in dates(now) <=> r.expiryDate # NoDate /\ r.expiryDate < now
                         /\ dates(now) \subseteq {"EFFECTIVE_DATE_FUTURE", "EFFECTIVE_DATE_EXPIRED"}
    <2> TAKE now \in Int
    <2> DEFINE tooSoon == r.effectiveDate # NoDate /\ r.effectiveDate > now
               expired == r.expiryDate # NoDate /\ r.expiryDate < now
               codes == (IF tooSoon THEN <<"EFFECTIVE_DATE_FUTURE">> ELSE <<>>) \o (IF expired THEN <<"EFFECTIVE_DATE_EXPIRED">> ELSE <<>>)
    <2>1. dates(now) = {codes[k] : k \in DOMAIN codes}
      <3>1. validateLifecycleDatesRule(r, now) = codes
        BY DEF validateLifecycleDatesRule
      <3>2. codes \in Seq(Codes)
        BY <3>1, RulesGiveCodes
      <3> HIDE DEF codes
      <3>3. QED
        BY <3>1, <3>2, CodesBecomeReasons
    <2> HIDE DEF tooSoon, expired, dates
    <2>2. DOMAIN codes = 1..((IF tooSoon THEN 1 ELSE 0) + (IF expired THEN 1 ELSE 0))
      OBVIOUS
    <2>3. CASE ~tooSoon /\ ~expired
      <3>1. DOMAIN codes = {}
        BY <2>2, <2>3
      <3>2. QED
        BY <2>1, <2>3, <3>1 DEF expired
    <2>4. CASE tooSoon /\ ~expired
      <3>1. DOMAIN codes = {1} /\ codes[1] = "EFFECTIVE_DATE_FUTURE"
        BY <2>2, <2>4
      <3> HIDE DEF codes
      <3>2. QED
        BY <2>1, <2>4, <3>1 DEF expired
    <2>5. CASE ~tooSoon /\ expired
      <3>1. DOMAIN codes = {1} /\ codes[1] = "EFFECTIVE_DATE_EXPIRED"
        BY <2>2, <2>5
      <3> HIDE DEF codes
      <3>2. QED
        BY <2>1, <2>5, <3>1 DEF expired
    <2>6. CASE tooSoon /\ expired
      <3>1. DOMAIN codes = {1, 2} /\ codes[1] = "EFFECTIVE_DATE_FUTURE" /\ codes[2] = "EFFECTIVE_DATE_EXPIRED"
        BY <2>2, <2>6
      <3> HIDE DEF codes
      <3>2. QED
        BY <2>1, <2>6, <3>1 DEF expired
    <2>7. QED
      BY <2>3, <2>4, <2>5, <2>6
  <1> DEFINE others == CodesOf(Refusals(validateEmployeeIdRule(r))) \cup CodesOf(Refusals(validateRecipientRule(r, o)))
                \cup CodesOf(Refusals(validateSalaryRule(r, o))) \cup CodesOf(Refusals(validateAssetRule(r, o)))
                \cup CodesOf(Refusals(validateStatusRule(r, o)))
             last == CodesOf(Refusals(validateComplianceRule(r, o))) \cup CodesOf(CustomReasons(rule, {"refuses", "warns", "throws"}))
  <1>2. \A now \in Int : CodesOf(evaluateSyncRules(r, o, now, rule)) = others \cup dates(now) \cup last
    BY SyncPass
  <1> HIDE DEF others, last, dates
  <1>3. dates(ref) \ RetryableReasons \subseteq dates(ref + 1)
    <2>1. ref + 1 \in Int /\ (r.expiryDate < ref => r.expiryDate < ref + 1)
      OBVIOUS
    <2>2. QED
      BY <1>1, <2>1 DEF RetryableReasons
  <1>4. ref + 1 \in Int
    OBVIOUS
  <1>5. QED
    BY <1>2, <1>3, <1>4

(***************************************************************************)
(* A row of a batch is eligible when the synchronous pass accepts it and   *)
(* no row before it has its identifier or its recipient.                   *)
(***************************************************************************)
Repeats(batch, rows, i, field) ==
  /\ Trim(batch[i][field]) # Nil
  /\ \E j \in 1..(i - 1) : j \in rows /\ Trim(batch[j][field]) = Trim(batch[i][field])

Repeated(batch, rows, i, o) ==
  o.checkDuplicates /\ (Repeats(batch, rows, i, "employeeId") \/ Repeats(batch, rows, i, "recipient"))

\* The rule on duplicates reports a row that repeats an earlier one.
LEMMA DuplicatesAre ==
  ASSUME NEW batch, NEW rows, NEW i, NEW o
  PROVE  /\ validateBatchDuplicatesRule(batch, rows, i, o) \in Seq(Codes)
         /\ validateBatchDuplicatesRule(batch, rows, i, o) = <<>> <=> ~Repeated(batch, rows, i, o)
  <1> DEFINE p == Repeats(batch, rows, i, "employeeId")
             q == Repeats(batch, rows, i, "recipient")
             c == o.checkDuplicates
             s == IF p THEN <<"DUPLICATE_EMPLOYEE_ID">> ELSE <<>>
             t == IF q THEN <<"DUPLICATE_RECIPIENT_ADDRESS">> ELSE <<>>
  <1>1. validateBatchDuplicatesRule(batch, rows, i, o) = IF ~c THEN <<>> ELSE s \o t
    BY Zenon DEF validateBatchDuplicatesRule, Repeats
  <1>2. Repeated(batch, rows, i, o) <=> c /\ (p \/ q)
    BY Zenon DEF Repeated
  <1> HIDE DEF p, q, c
  <1>3. <<"DUPLICATE_EMPLOYEE_ID">> \in Seq(Codes) /\ <<"DUPLICATE_RECIPIENT_ADDRESS">> \in Seq(Codes) /\ <<>> \in Seq(Codes)
    BY OneCode DEF Codes
  <1>4. s \in Seq(Codes) /\ t \in Seq(Codes)
    BY <1>3
  <1>5. (s = <<>> <=> ~p) /\ (t = <<>> <=> ~q)
    OBVIOUS
  <1> HIDE DEF s, t
  <1>6. s \o t \in Seq(Codes) /\ Len(s \o t) = Len(s) + Len(t) /\ Len(s) \in Nat /\ Len(t) \in Nat
    BY <1>4
  <1>7. s \o t = <<>> <=> s = <<>> /\ t = <<>>
    BY <1>4, <1>6
  <1>8. QED
    BY <1>1, <1>2, <1>3, <1>5, <1>6, <1>7

\* The reasons of a row of a batch are those of the row and those about duplicates.
LEMMA RowReasons ==
  ASSUME NEW batch, NEW rows, NEW i, NEW o, NEW ref
  PROVE  /\ BatchReasons(batch, rows, i, o, ref) \in Seq(Reasons)
         /\ Clean(BatchReasons(batch, rows, i, o, ref)) <=>
              Clean(evaluateSyncRules(batch[i], o, ref, "none")) /\ ~Repeated(batch, rows, i, o)
  <1> DEFINE s == evaluateSyncRules(batch[i], o, ref, "none")
             codes == validateBatchDuplicatesRule(batch, rows, i, o)
  <1>1. s \in Seq(Reasons)
    BY SyncPass
  <1>2. codes \in Seq(Codes) /\ (codes = <<>> <=> ~Repeated(batch, rows, i, o))
    BY DuplicatesAre
  <1>3. BatchReasons(batch, rows, i, o, ref) = s \o Refusals(codes)
    BY DEF BatchReasons
  <1> HIDE DEF s, codes
  <1>4. Refusals(codes) \in Seq(Reasons) /\ (Clean(Refusals(codes)) <=> codes = <<>>)
    BY <1>2, CodesBecomeReasons
  <1>5. BatchReasons(batch, rows, i, o, ref) \in Seq(Reasons)
        /\ (Clean(BatchReasons(batch, rows, i, o, ref)) <=> Clean(s) /\ Clean(Refusals(codes)))
    BY <1>1, <1>3, <1>4, Joined
  <1>6. QED
    BY <1>2, <1>4, <1>5 DEF s

\* The rows evaluateBatch calls eligible are those whose reasons are clean.
LEMMA EligibleRows ==
  ASSUME NEW batch, NEW rows, NEW o, NEW ref
  PROVE  evaluateBatch(batch, rows, o, ref).eligible
           = {i \in rows : Clean(evaluateSyncRules(batch[i], o, ref, "none")) /\ ~Repeated(batch, rows, i, o)}
  <1> DEFINE results == [i \in rows |-> buildResult(BatchReasons(batch, rows, i, o, ref))]
             eligible == {i \in rows : results[i].isEligible}
             summary == reasonCodeSummary(results)
  <1>1. evaluateBatch(batch, rows, o, ref) = [results |-> results, eligible |-> eligible, summary |-> summary]
    BY Zenon DEF evaluateBatch
  <1>2. \A i \in rows : results[i].isEligible <=>
          Clean(evaluateSyncRules(batch[i], o, ref, "none")) /\ ~Repeated(batch, rows, i, o)
    <2> TAKE i \in rows
    <2>1. results[i] = buildResult(BatchReasons(batch, rows, i, o, ref))
      OBVIOUS
    <2> HIDE DEF results
    <2>2. QED
      BY <2>1, EligibleIsClean, RowReasons
  <1> HIDE DEF results, summary
  <1>3. eligible = {i \in rows : Clean(evaluateSyncRules(batch[i], o, ref, "none")) /\ ~Repeated(batch, rows, i, o)}
    BY <1>2
  <1> HIDE DEF eligible
  <1>4. evaluateBatch(batch, rows, o, ref).eligible = eligible
    BY <1>1
  <1>5. QED
    BY <1>3, <1>4

\* An eligible row has an identifier and a recipient.
LEMMA EligibleIsNamed ==
  ASSUME NEW r, NEW o, NEW ref, NEW rule, Clean(evaluateSyncRules(r, o, ref, rule))
  PROVE  Trim(r.employeeId) # Nil /\ Trim(r.recipient) # Nil
  <1>1. validateEmployeeIdRule(r) = <<>> /\ validateRecipientRule(r, o) = <<>>
    BY SyncPass
  <1>2. Trim(r.employeeId) # Nil
    BY <1>1 DEF validateEmployeeIdRule
  <1>3. Trim(r.recipient) # Nil
    BY <1>1 DEF validateRecipientRule
  <1>4. QED
    BY <1>2, <1>3

(***************************************************************************)
(* For any batch: no two eligible rows share an identifier or a recipient; *)
(* a row refused although it would be accepted alone repeats an earlier    *)
(* one; the awaited form accepts the same rows; a query over part of the   *)
(* rows refuses none the whole batch accepts; and a batch accepted as a    *)
(* whole has no duplicate onboarding reference                             *)
(* (EmployeeEligibilityEvaluator.ts, registry.ts, onboardingDuplicates.ts).*)
(***************************************************************************)
AnyRoster(batch) == \E n \in Nat : DOMAIN batch = 1..n
Like(batch, i, j) ==
  \/ Trim(batch[i].employeeId) = Trim(batch[j].employeeId)
  \/ Trim(batch[i].recipient) = Trim(batch[j].recipient)
Accepted(batch, ref) == evaluateBatch(batch, DOMAIN batch, Options, ref).eligible

\* A row is reported as repeated only when it is like an earlier one.
LEMMA FieldsOfARow ==
  ASSUME NEW batch, NEW rows, NEW i
  PROVE  /\ Repeated(batch, rows, i, Options) => \E j \in 1..(i - 1) : Like(batch, i, j)
         /\ \A j \in rows : /\ j \in 1..(i - 1) /\ Like(batch, i, j)
                            /\ Trim(batch[i].employeeId) # Nil /\ Trim(batch[i].recipient) # Nil
                            => Repeated(batch, rows, i, Options)
  <1>1. Options.checkDuplicates
    BY Zenon DEF Options
  <1>2. batch[i]["employeeId"] = batch[i].employeeId /\ batch[i]["recipient"] = batch[i].recipient
    OBVIOUS
  <1>3. QED
    BY <1>1, <1>2 DEF Repeated, Repeats, Like

\* No two accepted rows have the same identifier or recipient.
LEMMA AcceptedRowsDiffer ==
  ASSUME NEW batch, NEW ref, AnyRoster(batch), NEW i \in Accepted(batch, ref), NEW j \in Accepted(batch, ref), i # j
  PROVE  ~Like(batch, i, j)
  <1>1. PICK n \in Nat : DOMAIN batch = 1..n
    BY DEF AnyRoster
  <1>2. /\ i \in 1..n /\ Clean(evaluateSyncRules(batch[i], Options, ref, "none")) /\ ~Repeated(batch, DOMAIN batch, i, Options)
        /\ j \in 1..n /\ Clean(evaluateSyncRules(batch[j], Options, ref, "none")) /\ ~Repeated(batch, DOMAIN batch, j, Options)
    BY <1>1, EligibleRows DEF Accepted
  <1>3. /\ Trim(batch[i].employeeId) # Nil /\ Trim(batch[i].recipient) # Nil
        /\ Trim(batch[j].employeeId) # Nil /\ Trim(batch[j].recipient) # Nil
    BY <1>2, EligibleIsNamed
  <1>4. CASE i < j
    <2>1. i \in 1..(j - 1)
      BY <1>2, <1>4
    <2>2. ~Like(batch, j, i)
      BY <1>1, <1>2, <1>3, <2>1, FieldsOfARow
    <2>3. QED
      BY <2>2 DEF Like
  <1>5. CASE j < i
    <2>1. j \in 1..(i - 1)
      BY <1>2, <1>5
    <2>2. QED
      BY <1>1, <1>2, <1>3, <2>1, FieldsOfARow
  <1>6. QED
    BY <1>2, <1>4, <1>5

\* A row that is fine by itself is refused only for repeating an earlier one.
LEMMA AnyRefusedRowRepeats ==
  ASSUME NEW batch, NEW ref, NEW i \in DOMAIN batch, i \notin Accepted(batch, ref), evaluate(batch[i], Options, ref, "none").isEligible
  PROVE  \E j \in 1..(i - 1) : Like(batch, i, j)
  <1>1. Clean(evaluateSyncRules(batch[i], Options, ref, "none"))
    BY EligibleIsClean DEF evaluate
  <1>2. Repeated(batch, DOMAIN batch, i, Options)
    BY <1>1, EligibleRows DEF Accepted
  <1>3. QED
    BY <1>2, FieldsOfARow

\* A batch is judged alike with and without awaiting.
LEMMA AnyBatchAwaitedAlike ==
  ASSUME NEW batch, NEW ref
  PROVE  evaluateBatchAsync(batch, Options, ref) = Accepted(batch, ref)
  <1> DEFINE s(i) == BatchReasons(batch, DOMAIN batch, i, Options, ref)
             t(i) == AwaitedReasons(batch[i], Options, "none")
  <1>1. Options.registry.kind = "unused"
    BY DEF Options
  <1>2. \A i : buildResult(s(i) \o t(i)).isEligible <=> Clean(s(i))
    <2> TAKE i
    <2>1. s(i) \in Seq(Reasons) /\ t(i) \in Seq(Reasons) /\ Clean(t(i))
      BY <1>1, RowReasons, AwaitedAreReasons
    <2> HIDE DEF s, t
    <2>2. Clean(s(i) \o t(i)) <=> Clean(s(i))
      BY <2>1, Joined
    <2>3. QED
      BY <2>2, EligibleIsClean
  <1>3. evaluateBatchAsync(batch, Options, ref) = {i \in DOMAIN batch : buildResult(s(i) \o t(i)).isEligible}
    BY DEF evaluateBatchAsync
  <1>4. \A i : Clean(s(i)) <=> Clean(evaluateSyncRules(batch[i], Options, ref, "none")) /\ ~Repeated(batch, DOMAIN batch, i, Options)
    BY RowReasons
  <1> HIDE DEF s, t
  <1>5. evaluateBatchAsync(batch, Options, ref) = {i \in DOMAIN batch : Clean(s(i))}
    BY <1>2, <1>3
  <1>6. Accepted(batch, ref) = {i \in DOMAIN batch : Clean(s(i))}
    BY <1>4, EligibleRows DEF Accepted
  <1>7. QED
    BY <1>5, <1>6

\* Whoever is accepted is found by a query for their status.
LEMMA AnyQueryKeepsAccepted ==
  ASSUME NEW list, NEW ref, NEW i \in Accepted(list, ref)
  PROVE  list[i] \in query(list, statusNow(list[i]), Options, ref)
  <1> DEFINE matches == {k \in DOMAIN list : statusNow(list[k]) = statusNow(list[i])}
  <1>1. i \in DOMAIN list /\ Clean(evaluateSyncRules(list[i], Options, ref, "none")) /\ ~Repeated(list, DOMAIN list, i, Options)
    BY EligibleRows DEF Accepted
  <1>2. i \in matches /\ matches \subseteq DOMAIN list
    BY <1>1
  <1> HIDE DEF matches
  <1>3. ~Repeated(list, matches, i, Options)
    BY <1>1, <1>2 DEF Repeated, Repeats
  <1>4. i \in evaluateBatch(list, matches, Options, ref).eligible
    BY <1>1, <1>2, <1>3, EligibleRows
  <1>5. query(list, statusNow(list[i]), Options, ref) = {list[k] : k \in evaluateBatch(list, matches, Options, ref).eligible}
    BY DEF query, matches
  <1>6. QED
    BY <1>4, <1>5

\* A batch whose rows are all eligible holds no employee twice.
LEMMA AnyAcceptedBatchIsOnboardedOnce ==
  ASSUME NEW batch, NEW ref, AnyRoster(batch), assertBatchEligible(batch, Options, ref)
  PROVE  detectDuplicateOnboardingReferences([k \in DOMAIN batch |-> batch[k].employeeId], TRUE).duplicates = {}
  <1> DEFINE refs == [k \in DOMAIN batch |-> batch[k].employeeId]
             key(i) == FoldCase(refs[i], TRUE)
             given == {i \in DOMAIN refs : key(i) # Nil}
             unique == {key(i) : i \in given}
             twice == {k \in unique : \E i, j \in given : i # j /\ key(i) = k /\ key(j) = k}
             total == Cardinality(given)
             different == Cardinality(unique)
             less == total - different
  <1>1. detectDuplicateOnboardingReferences(refs, TRUE) = [total |-> total, unique |-> different, duplicateCount |-> less, duplicates |-> twice]
    BY Zenon DEF detectDuplicateOnboardingReferences
  <1>2. Accepted(batch, ref) = DOMAIN batch
    BY DEF Accepted, assertBatchEligible
  <1>3. \A i \in DOMAIN batch : key(i) = Trim(batch[i].employeeId)
    BY DEF FoldCase
  <1>4. given \subseteq DOMAIN batch
    OBVIOUS
  <1>5. \A i, j \in given : key(i) = key(j) => i = j
    <2> SUFFICES ASSUME NEW i \in given, NEW j \in given, key(i) = key(j), i # j PROVE FALSE
      OBVIOUS
    <2>1. i \in DOMAIN batch /\ j \in DOMAIN batch
      BY <1>4
    <2>2. Like(batch, i, j)
      BY <1>3, <2>1 DEF Like
    <2>3. QED
      BY <1>2, <2>1, <2>2, AcceptedRowsDiffer
  <1> HIDE DEF given, key
  <1>6. twice = {}
    BY <1>5
  <1> HIDE DEF refs, twice, total, different, less, unique
  <1>7. detectDuplicateOnboardingReferences(refs, TRUE).duplicates = {}
    <2> DEFINE found == detectDuplicateOnboardingReferences(refs, TRUE)
    <2>1. found = [total |-> total, unique |-> different, duplicateCount |-> less, duplicates |-> twice]
      BY <1>1
    <2> HIDE DEF found
    <2>2. found.duplicates = {}
      BY <1>6, <2>1
    <2>3. QED
      BY <2>2 DEF found
  <1>8. QED
    BY Zenon, <1>7 DEF refs

(***************************************************************************)
(* A wallet rotation is blocked for the reasons that are errors: the       *)
(* cooldown unless it is overridden, and everything else regardless        *)
(* (employees/walletRotation.ts).                                          *)
(***************************************************************************)
Cooling(q, cooldown) == q.sinceRotation # NoDate /\ cooldown - q.sinceRotation > 0

\* x is a reason that stands whatever the clock and the override say.
Stands(q, x) ==
  \/ (q.newWallet = Nil /\ x = Reason("MISSING_NEW_WALLET"))
  \/ (q.newWallet # Nil /\ ~ValidAddress(q.newWallet) /\ x = Reason("INVALID_NEW_WALLET_FORMAT"))
  \/ (ValidAddress(q.newWallet) /\ q.currentWallet # Nil /\ Trim(q.currentWallet) = Trim(q.newWallet)
      /\ x = Reason("NEW_WALLET_SAME_AS_CURRENT"))
  \/ (q.hasActiveBatch /\ x = Reason("ACTIVE_BATCH_IN_PROGRESS"))
  \/ (q.hasPendingRotation /\ x = Reason("DUPLICATE_PENDING_ROTATION"))
  \/ (q.role = "none" /\ x = Reason("MISSING_AUTHORIZATION_CONTEXT"))
  \/ (q.role = "guest" /\ x = Reason("UNAUTHORIZED_REQUESTER"))

\* The blockers of a wallet rotation, one condition each.
LEMMA BlockersAre ==
  ASSUME NEW q, NEW cooldown
  PROVE  \A x : x \in rotationBlockers(q, cooldown) <=>
           Stands(q, x) \/ (Cooling(q, cooldown) /\ ~q.emergencyOverride /\ x = Reason("COOLDOWN_ACTIVE"))
  <1> DEFINE p1 == q.newWallet = Nil
             p2 == q.newWallet # Nil /\ ~ValidAddress(q.newWallet)
             p3 == ValidAddress(q.newWallet) /\ q.currentWallet # Nil /\ Trim(q.currentWallet) = Trim(q.newWallet)
             p4 == Cooling(q, cooldown) /\ q.emergencyOverride
             p5 == Cooling(q, cooldown) /\ ~q.emergencyOverride
             p6 == q.hasActiveBatch
             p7 == q.hasPendingRotation
             p8 == q.role = "none" /\ TRUE
             p9 == q.role = "guest"
             x1 == Reason("MISSING_NEW_WALLET")
             x2 == Reason("INVALID_NEW_WALLET_FORMAT")
             x3 == Reason("NEW_WALLET_SAME_AS_CURRENT")
             x4 == Warning("EMERGENCY_OVERRIDE_APPLIED")
             x5 == Reason("COOLDOWN_ACTIVE")
             x6 == Reason("ACTIVE_BATCH_IN_PROGRESS")
             x7 == Reason("DUPLICATE_PENDING_ROTATION")
             x8 == Reason("MISSING_AUTHORIZATION_CONTEXT")
             x9 == Reason("UNAUTHORIZED_REQUESTER")
             list == << <<p1, x1>>, <<p2, x2>>, <<p3, x3>>, <<p4, x4>>, <<p5, x5>>, <<p6, x6>>, <<p7, x7>>, <<p8, x8>>, <<p9, x9>> >>
  <1>1. validateWalletRotation(q, cooldown, TRUE) = AllOf(list)
    BY Zenon DEF validateWalletRotation, Cooling
  <1>2. rotationBlockers(q, cooldown) = {x \in AllOf(list) : x.severity = "error"}
    BY <1>1 DEF rotationBlockers
  <1>3. /\ x1.severity = "error" /\ x2.severity = "error" /\ x3.severity = "error" /\ x4.severity # "error" /\ x5.severity = "error"
        /\ x6.severity = "error" /\ x7.severity = "error" /\ x8.severity = "error" /\ x9.severity = "error"
    BY DEF Reason, Warning
  <1> HIDE DEF p1, p2, p3, p4, p5, p6, p7, p8, p9, x1, x2, x3, x4, x5, x6, x7, x8, x9
  <1>4. DOMAIN list = 1..9
    OBVIOUS
  <1>5. /\ list[1] = <<p1, x1>> /\ list[2] = <<p2, x2>> /\ list[3] = <<p3, x3>> /\ list[4] = <<p4, x4>> /\ list[5] = <<p5, x5>>
        /\ list[6] = <<p6, x6>> /\ list[7] = <<p7, x7>> /\ list[8] = <<p8, x8>> /\ list[9] = <<p9, x9>>
    OBVIOUS
  <1> HIDE DEF list
  <1>6. \A x : x \in AllOf(list) <=> \E k \in 1..9 : list[k][1] /\ x = list[k][2]
    BY <1>4 DEF AllOf
  <1>7. \A x : x \in AllOf(list) <=>
          \/ (p1 /\ x = x1) \/ (p2 /\ x = x2) \/ (p3 /\ x = x3) \/ (p4 /\ x = x4)
          \/ (p5 /\ x = x5) \/ (p6 /\ x = x6) \/ (p7 /\ x = x7) \/ (p8 /\ x = x8)
          \/ (p9 /\ x = x9)
    <2> TAKE x
    <2>1. (\E k \in 1..9 : list[k][1] /\ x = list[k][2]) <=>
            \/ (list[1][1] /\ x = list[1][2]) \/ (list[2][1] /\ x = list[2][2]) \/ (list[3][1] /\ x = list[3][2]) \/ (list[4][1] /\ x = list[4][2])
            \/ (list[5][1] /\ x = list[5][2]) \/ (list[6][1] /\ x = list[6][2]) \/ (list[7][1] /\ x = list[7][2]) \/ (list[8][1] /\ x = list[8][2])
            \/ (list[9][1] /\ x = list[9][2])
      OBVIOUS
    <2>2. QED
      BY <1>5, <1>6, <2>1
  <1>8. \A x : x \in rotationBlockers(q, cooldown) <=>
          \/ (p1 /\ x = x1) \/ (p2 /\ x = x2) \/ (p3 /\ x = x3) \/ (p5 /\ x = x5)
          \/ (p6 /\ x = x6) \/ (p7 /\ x = x7) \/ (p8 /\ x = x8) \/ (p9 /\ x = x9)
    BY <1>2, <1>3, <1>7
  <1>9. QED
    BY <1>8 DEF Stands, p1, p2, p3, p5, p6, p7, p8, p9, x1, x2, x3, x5, x6, x7, x8, x9

AnyRotation(i) ==
  /\ i.request = [newWallet |-> i.request.newWallet, currentWallet |-> i.request.currentWallet, sinceRotation |-> i.request.sinceRotation,
                  emergencyOverride |-> i.request.emergencyOverride, hasActiveBatch |-> i.request.hasActiveBatch,
                  hasPendingRotation |-> i.request.hasPendingRotation, role |-> i.request.role]
  /\ i.request.sinceRotation \in Nat \cup {NoDate} /\ i.cooldown \in Nat /\ i.later \in Nat

\* q and p are requests about the same wallets, made by the same person.
SameRequest(q, p) ==
  /\ p.newWallet = q.newWallet /\ p.currentWallet = q.currentWallet /\ p.hasActiveBatch = q.hasActiveBatch
  /\ p.hasPendingRotation = q.hasPendingRotation /\ p.role = q.role

\* What stands against a request does not depend on when it is made or who overrides.
LEMMA StandingReasons ==
  ASSUME NEW q, NEW p, SameRequest(q, p)
  PROVE  \A x : Stands(p, x) <=> Stands(q, x)
  BY ZenonT(60) DEF SameRequest, Stands

\* The cooldown is not one of the standing reasons.
LEMMA CooldownDoesNotStand ==
  ASSUME NEW q
  PROVE  ~Stands(q, Reason("COOLDOWN_ACTIVE"))
  BY DEF Stands, Reason

\* Requests that differ in their time and override: an override lifts the cooldown and nothing else.
LEMMA RotationsCompared ==
  ASSUME NEW q, NEW regular, NEW urgent, NEW later, NEW cooldown,
         SameRequest(q, regular), SameRequest(q, urgent), SameRequest(q, later),
         ~regular.emergencyOverride, urgent.emergencyOverride, ~later.emergencyOverride,
         Cooling(later, cooldown) => Cooling(regular, cooldown)
  PROVE  /\ rotationBlockers(urgent, cooldown) = rotationBlockers(regular, cooldown) \ {Reason("COOLDOWN_ACTIVE")}
         /\ rotationBlockers(later, cooldown) \subseteq rotationBlockers(regular, cooldown)
  <1>1. \A x : x \in rotationBlockers(regular, cooldown) <=> Stands(q, x) \/ (Cooling(regular, cooldown) /\ x = Reason("COOLDOWN_ACTIVE"))
    BY BlockersAre, StandingReasons
  <1>2. \A x : x \in rotationBlockers(urgent, cooldown) <=> Stands(q, x)
    BY BlockersAre, StandingReasons
  <1>3. \A x : x \in rotationBlockers(later, cooldown) <=> Stands(q, x) \/ (Cooling(later, cooldown) /\ x = Reason("COOLDOWN_ACTIVE"))
    BY BlockersAre, StandingReasons
  <1>4. ~Stands(q, Reason("COOLDOWN_ACTIVE"))
    BY CooldownDoesNotStand
  <1>5. QED
    BY <1>1, <1>2, <1>3, <1>4

\* The request without and with the override, and the first of them again some time later.
Compared(i, regular, urgent, later) ==
  /\ regular = [i.request EXCEPT !.emergencyOverride = FALSE]
  /\ urgent = [i.request EXCEPT !.emergencyOverride = TRUE]
  /\ later = [regular EXCEPT !.sinceRotation = IF @ = NoDate THEN @ ELSE @ + i.later]

(***************************************************************************)
(* The emergency override lifts the cooldown and nothing else, and waiting *)
(* never adds a reason: for any wallets, any cooldown and any wait.        *)
(***************************************************************************)
LEMMA AnyOverrideLiftsCooldownOnly ==
  ASSUME NEW i, AnyRotation(i), NEW regular, NEW urgent, NEW later, Compared(i, regular, urgent, later)
  PROVE  /\ rotationBlockers(urgent, i.cooldown) = rotationBlockers(regular, i.cooldown) \ {Reason("COOLDOWN_ACTIVE")}
         /\ rotationBlockers(later, i.cooldown) \subseteq rotationBlockers(regular, i.cooldown)
         /\ i.request.hasPendingRotation => rotationBlockers(i.request, i.cooldown) # {}
  <1> DEFINE q == i.request
  <1>1. SameRequest(q, regular) /\ regular.sinceRotation = q.sinceRotation /\ regular.emergencyOverride = FALSE
    BY DEF AnyRotation, SameRequest, Compared
  <1>2. SameRequest(q, urgent) /\ urgent.emergencyOverride = TRUE
    BY DEF AnyRotation, SameRequest, Compared
  <1>3. /\ SameRequest(q, later) /\ later.emergencyOverride = FALSE
        /\ later.sinceRotation = IF q.sinceRotation = NoDate THEN NoDate ELSE q.sinceRotation + i.later
    BY DEF AnyRotation, SameRequest, Compared
  <1>4. Cooling(later, i.cooldown) => Cooling(regular, i.cooldown)
    <2>1. CASE q.sinceRotation = NoDate
      BY <1>1, <1>3, <2>1 DEF Cooling
    <2>2. CASE q.sinceRotation # NoDate
      <3>1. q.sinceRotation \in Nat /\ i.cooldown \in Nat /\ i.later \in Nat
        BY <2>2 DEF AnyRotation
      <3>2. i.cooldown - (q.sinceRotation + i.later) > 0 => i.cooldown - q.sinceRotation > 0
        BY <3>1
      <3>3. QED
        BY <1>1, <1>3, <2>2, <3>2 DEF Cooling
    <2>3. QED
      BY <2>1, <2>2
  <1>5. ~regular.emergencyOverride /\ urgent.emergencyOverride /\ ~later.emergencyOverride
    BY Zenon, <1>1, <1>2, <1>3
  <1>6. /\ rotationBlockers(urgent, i.cooldown) = rotationBlockers(regular, i.cooldown) \ {Reason("COOLDOWN_ACTIVE")}
        /\ rotationBlockers(later, i.cooldown) \subseteq rotationBlockers(regular, i.cooldown)
    BY <1>1, <1>2, <1>3, <1>4, <1>5, RotationsCompared
  <1>7. q.hasPendingRotation => Reason("DUPLICATE_PENDING_ROTATION") \in rotationBlockers(q, i.cooldown)
    BY BlockersAre DEF Stands
  <1>8. QED
    BY <1>6, <1>7

-----------------------------------------------------------------------------
PeopleAsked ==
  /\ Asked("employee", EmployeeInputs) /\ Asked("roster", RosterInputs) /\ Asked("rotation", RotationInputs)

\* What is asked about employees is one of their inputs.
LEMMA PeopleAreAsked == RulesSpec => []PeopleAsked
  <1>1. RulesInit => PeopleAsked
    BY DEF RulesInit, Unasked, PeopleAsked, Asked, About
  <1>2. PeopleAsked /\ [RulesNext]_subject => PeopleAsked'
    <2> SUFFICES ASSUME PeopleAsked, [RulesNext]_subject PROVE PeopleAsked'
      OBVIOUS
    <2>1. CASE UNCHANGED subject
      BY <2>1 DEF PeopleAsked, Asked, About
    <2>2. CASE RulesNext
      <3>1. Asked("employee", EmployeeInputs)'
        BY <2>2 DEF RulesNext, Ask, Asked, About
      <3>2. Asked("roster", RosterInputs)'
        BY <2>2 DEF RulesNext, Ask, Asked, About
      <3>3. Asked("rotation", RotationInputs)'
        BY <2>2 DEF RulesNext, Ask, Asked, About
      <3>4. QED
        BY <3>1, <3>2, <3>3 DEF PeopleAsked
    <2>3. QED
      BY <2>1, <2>2
  <1>3. QED
    BY <1>1, <1>2, PTL DEF RulesSpec

\* The inputs of the run belong to the classes the lemmas above are about.
LEMMA PeopleClasses ==
  ASSUME PeopleAsked
  PROVE  /\ About("employee") => /\ subject.input.record.effectiveDate \in Int /\ subject.input.record.expiryDate \in Int
                                 /\ subject.input.ref \in Int
         /\ About("roster") => AnyRoster(subject.input.batch)
         /\ About("rotation") => AnyRotation(subject.input)
  <1>1. \A i \in EmployeeInputs : i.record.effectiveDate \in Int /\ i.record.expiryDate \in Int /\ i.ref \in Int
    BY DEF EmployeeInputs, EmployeeEligibilityRecord, NoDate
  <1>2. \A i \in RosterInputs : AnyRoster(i.batch)
    <2> SUFFICES ASSUME NEW i \in RosterInputs PROVE AnyRoster(i.batch)
      OBVIOUS
    <2>1. i.batch \in SeqOf(RosterRecords, 3)
      BY DEF RosterInputs
    <2>2. PICK m \in 0..3 : i.batch \in [1..m -> RosterRecords]
      BY <2>1 DEF SeqOf
    <2>3. QED
      BY <2>2 DEF AnyRoster
  <1>3. \A i \in RotationInputs : AnyRotation(i)
    <2> SUFFICES ASSUME NEW i \in RotationInputs PROVE AnyRotation(i)
      OBVIOUS
    <2>1. /\ i.request \in WalletRotationRequest({Nil, "bad", "G1", "G2"}, {NoDate, 0, 1, 2, 3})
          /\ i.cooldown \in 1..2 /\ i.later \in 0..2
      BY DEF RotationInputs
    <2>2. /\ i.request.sinceRotation \in {NoDate, 0, 1, 2, 3}
          /\ i.request = [newWallet |-> i.request.newWallet, currentWallet |-> i.request.currentWallet,
                          sinceRotation |-> i.request.sinceRotation, emergencyOverride |-> i.request.emergencyOverride,
                          hasActiveBatch |-> i.request.hasActiveBatch, hasPendingRotation |-> i.request.hasPendingRotation,
                          role |-> i.request.role]
      BY <2>1 DEF WalletRotationRequest
    <2>3. QED
      BY <2>1, <2>2 DEF AnyRotation
  <1>4. QED
    BY <1>1, <1>2, <1>3 DEF PeopleAsked, Asked

(***************************************************************************)
(* Nobody is paid twice: not through payroll and suspension payout, not by *)
(* two rows of a batch, and not to a wallet whose rotation is blocked; and *)
(* a refusal called final lasts.  The lemmas above, for the questions of   *)
(* the run.                                                                *)
(***************************************************************************)
THEOREM EachIsPaidOnce == RulesSpec => []EachPaidOnce
  <1>1. PeopleAsked => EachPaidOnce
    <2> SUFFICES ASSUME PeopleAsked PROVE EachPaidOnce
      OBVIOUS
    <2>1. Options.allowedStatuses = {}
      BY DEF Options
    <2>2. PaidOneWay
      <3> SUFFICES ASSUME About("employee") PROVE PaidOneWay
        BY DEF PaidOneWay
      <3> DEFINE i == subject.input
                 o == [Options EXCEPT !.registry = i.registry]
      <3>1. o.allowedStatuses = {}
        BY DEF Options
      <3> HIDE DEF o
      <3>2. /\ evaluate(i.record, o, i.ref, i.rule).isEligible => ~shouldPayout(evaluateSuspensionPayout(i.record, TRUE, TRUE, i.ref))
            /\ evaluateAsync(i.record, o, i.ref, i.rule).isEligible => evaluate(i.record, o, i.ref, i.rule).isEligible
            /\ canUseInDrafts(i.record.status) => validateStatusRule(i.record, o) = <<>>
        BY <3>1, AnyEmployeeIsPaidOneWay
      <3>3. QED
        BY Zenon, <3>2 DEF PaidOneWay, o
    <2>3. FinalReasonsLast
      <3> SUFFICES ASSUME About("employee") PROVE FinalReasonsLast
        BY DEF FinalReasonsLast
      <3> DEFINE i == subject.input
      <3>1. i.record.effectiveDate \in Int /\ i.record.expiryDate \in Int /\ i.ref \in Int
        BY PeopleClasses
      <3>2. \A ref : CodesOf(evaluate(i.record, Options, ref, i.rule).reasons) = CodesOf(evaluateSyncRules(i.record, Options, ref, i.rule))
        BY EligibleIsClean DEF evaluate
      <3>3. CodesOf(evaluate(i.record, Options, i.ref, i.rule).reasons) \ RetryableReasons
              \subseteq CodesOf(evaluate(i.record, Options, i.ref + 1, i.rule).reasons)
        BY <3>1, <3>2, AnyFinalReasonLasts
      <3>4. QED
        BY Zenon, <3>3 DEF FinalReasonsLast, CodesOf
    <2>4. BatchPaysEachOnce
      <3> SUFFICES ASSUME About("roster") PROVE BatchPaysEachOnce
        BY DEF BatchPaysEachOnce
      <3> DEFINE batch == subject.input.batch
                 list == addMany(batch)
      <3>1. AnyRoster(batch)
        BY PeopleClasses
      <3> HIDE DEF batch, list
      <3>2. \A i, j \in Accepted(batch, 1) : i # j => ~Like(batch, i, j)
        BY <3>1, AcceptedRowsDiffer
      <3>3. \A i \in DOMAIN batch \ Accepted(batch, 1) :
              evaluate(batch[i], Options, 1, "none").isEligible => \E j \in 1..(i - 1) : Like(batch, i, j)
        BY AnyRefusedRowRepeats
      <3>4. evaluateBatchAsync(batch, Options, 1) = Accepted(batch, 1)
        BY AnyBatchAwaitedAlike
      <3>5. \A i \in Accepted(list, 1) : list[i] \in query(list, statusNow(list[i]), Options, 1)
        BY AnyQueryKeepsAccepted
      <3>6. assertBatchEligible(batch, Options, 1) =>
              detectDuplicateOnboardingReferences([k \in DOMAIN batch |-> batch[k].employeeId], TRUE).duplicates = {}
        BY <3>1, AnyAcceptedBatchIsOnboardedOnce
      <3>7. QED
        BY Zenon, <3>2, <3>3, <3>4, <3>5, <3>6 DEF BatchPaysEachOnce, Accepted, Like, batch, list
    <2>5. OverrideLiftsCooldownOnly
      <3> SUFFICES ASSUME About("rotation") PROVE OverrideLiftsCooldownOnly
        BY DEF OverrideLiftsCooldownOnly
      <3> DEFINE i == subject.input
                 regular == [i.request EXCEPT !.emergencyOverride = FALSE]
                 urgent == [i.request EXCEPT !.emergencyOverride = TRUE]
                 later == [regular EXCEPT !.sinceRotation = IF @ = NoDate THEN @ ELSE @ + i.later]
      <3>1. AnyRotation(i)
        BY PeopleClasses
      <3>2. Compared(i, regular, urgent, later)
        BY DEF Compared
      <3> HIDE DEF regular, urgent, later
      <3>3. /\ rotationBlockers(urgent, i.cooldown) = rotationBlockers(regular, i.cooldown) \ {Reason("COOLDOWN_ACTIVE")}
            /\ rotationBlockers(later, i.cooldown) \subseteq rotationBlockers(regular, i.cooldown)
            /\ i.request.hasPendingRotation => rotationBlockers(i.request, i.cooldown) # {}
        BY <3>1, <3>2, AnyOverrideLiftsCooldownOnly
      <3>4. QED
        BY Zenon, <3>3 DEF OverrideLiftsCooldownOnly, regular, urgent, later
    <2>6. QED
      BY <2>2, <2>3, <2>4, <2>5 DEF EachPaidOnce
  <1>2. QED
    BY <1>1, PeopleAreAsked, PTL

-----------------------------------------------------------------------------
(***************************************************************************)
(* Readiness of an employer (sanity.ts, employer-readiness.ts).  With the  *)
(* configuration in order the first diagnostic about the contract is the   *)
(* one about the form of its identifier, which has passed, and the first   *)
(* about the endpoint says whether it is up.                               *)
(***************************************************************************)
LEMMA FirstDiagnostics ==
  ASSUME NEW c, NEW w, c.proof = "none", c.networkUrl = "http", isValidContractId(c.contractId)
  PROVE  /\ StatusOf("rpc", validateEnvironment(c, w).diagnostics) = IF w.rpcUp THEN "success" ELSE "error"
         /\ StatusOf("contract", validateEnvironment(c, w).diagnostics) = "success"
  <1> DEFINE rpc == rpcDiagnostic(c, w)
             deep == IF rpc.status # "success" THEN "warning" ELSE IF w.deployed /\ w.simulates THEN "success" ELSE "error"
             form == Diagnostic("contract", "success")
             reach == Diagnostic("contract", deep)
             all == <<rpc>> \o contractDiagnostics(c, w) \o artifactDiagnostics(c, w)
             valid == \A k \in DOMAIN all : all[k].status # "error"
  <1>1. validateEnvironment(c, w) = [isValid |-> valid, diagnostics |-> all]
    BY Zenon DEF validateEnvironment
  <1>2. contractDiagnostics(c, w) = <<form, reach>> /\ artifactDiagnostics(c, w) = <<>>
    BY DEF contractDiagnostics, artifactDiagnostics
  <1>3. /\ rpc.component = "rpc" /\ rpc.status = (IF w.rpcUp THEN "success" ELSE "error")
        /\ form.component = "contract" /\ form.status = "success" /\ reach.component = "contract"
    BY DEF rpcDiagnostic, Diagnostic
  <1> HIDE DEF rpc, form, reach
  <1>4. DOMAIN (<<rpc>> \o <<form, reach>> \o <<>>) = 1..3
    OBVIOUS
  <1>5. all = <<rpc>> \o <<form, reach>> \o <<>>
    BY <1>2
  <1>6. all[1] = rpc /\ all[2] = form /\ all[3] = reach
    BY <1>5
  <1>7. DOMAIN all = 1..3 /\ all[1] = rpc /\ all[2] = form /\ all[3] = reach
    BY <1>4, <1>5, <1>6
  <1> HIDE DEF all, valid
  <1>8. validateEnvironment(c, w).diagnostics = all
    BY <1>1
  <1>9. StatusOf("rpc", all) = rpc.status
    <2> DEFINE those == {k \in DOMAIN all : all[k].component = "rpc"}
    <2>1. those = {1}
      BY <1>3, <1>7
    <2>2. those \in SUBSET Nat /\ those # {}
      BY <2>1
    <2> HIDE DEF those
    <2>3. Min(those) = 1
      BY <2>1, <2>2, Smallest
    <2>4. StatusOf("rpc", all) = all[Min(those)].status
      BY DEF StatusOf, those
    <2>5. QED
      BY <1>7, <2>3, <2>4
  <1>10. StatusOf("contract", all) = form.status
    <2> DEFINE those == {k \in DOMAIN all : all[k].component = "contract"}
    <2>1. those = {2, 3}
      BY <1>3, <1>7
    <2>2. those \in SUBSET Nat /\ those # {}
      BY <2>1
    <2> HIDE DEF those
    <2>3. Min(those) = 2
      BY <2>1, <2>2, Smallest
    <2>4. StatusOf("contract", all) = all[Min(those)].status
      BY DEF StatusOf, those
    <2>5. QED
      BY <1>7, <2>3, <2>4
  <1>11. QED
    BY <1>3, <1>8, <1>9, <1>10

\* The verdict as a chain of conditions.
LEMMA EmployerVerdict ==
  ASSUME NEW q, NEW c, NEW w, c = [networkUrl |-> c.networkUrl, contractId |-> c.contractId, proof |-> c.proof]
  PROVE  checkEmployerReadiness(q, c, w) =
           IF ~q.employerValid THEN Verdict("blocked", "INVALID_EMPLOYER_ADDRESS")
           ELSE IF c.networkUrl # "http" \/ ~isValidContractId(c.contractId) THEN Verdict("blocked", "INVALID_PAYROLL_CONFIGURATION")
           ELSE IF q.signer = "unavailable" THEN Verdict("blocked", "EMPLOYER_SIGNER_UNAVAILABLE")
           ELSE IF q.signer = "invalid" THEN Verdict("blocked", "INVALID_EMPLOYER_SIGNER")
           ELSE IF q.signer = "other" THEN Verdict("blocked", "EMPLOYER_SIGNER_MISMATCH")
           ELSE IF ~w.rpcUp THEN Verdict("unavailable", "RPC_UNAVAILABLE")
           ELSE IF w.account = "missing" THEN Verdict("blocked", "EMPLOYER_ACCOUNT_NOT_FOUND")
           ELSE IF w.account = "unread" THEN Verdict("unavailable", "EMPLOYER_ACCOUNT_UNVERIFIED")
           ELSE Verdict("ready", "READY")
  <1>1. CASE ~q.employerValid
    BY <1>1 DEF checkEmployerReadiness
  <1>2. CASE q.employerValid /\ (c.networkUrl # "http" \/ ~isValidContractId(c.contractId))
    BY <1>2 DEF checkEmployerReadiness
  <1>3. CASE q.employerValid /\ c.networkUrl = "http" /\ isValidContractId(c.contractId)
    <2> DEFINE regular == [c EXCEPT !.proof = "none"]
               env == validateEnvironment(regular, w).diagnostics
               p1 == q.signer = "unavailable"
               p2 == q.signer = "invalid"
               p3 == q.signer = "other"
               p4 == StatusOf("rpc", env) # "success"
               p5 == StatusOf("contract", env) = "warning"
               p6 == StatusOf("contract", env) # "success"
               p7 == w.account = "missing"
               p8 == w.account = "unread"
               x1 == Verdict("blocked", "EMPLOYER_SIGNER_UNAVAILABLE")
               x2 == Verdict("blocked", "INVALID_EMPLOYER_SIGNER")
               x3 == Verdict("blocked", "EMPLOYER_SIGNER_MISMATCH")
               x4 == Verdict("unavailable", "RPC_UNAVAILABLE")
               x5 == Verdict("unavailable", "PAYROLL_CONTRACT_UNAVAILABLE")
               x6 == Verdict("blocked", "PAYROLL_CONTRACT_UNAVAILABLE")
               x7 == Verdict("blocked", "EMPLOYER_ACCOUNT_NOT_FOUND")
               x8 == Verdict("unavailable", "EMPLOYER_ACCOUNT_UNVERIFIED")
               o == Verdict("ready", "READY")
               list == << <<p1, x1>>, <<p2, x2>>, <<p3, x3>>, <<p4, x4>>, <<p5, x5>>, <<p6, x6>>, <<p7, x7>>, <<p8, x8>> >>
    <2>1. checkEmployerReadiness(q, c, w) = FirstOf(list, o)
      BY Zenon, <1>3 DEF checkEmployerReadiness
    <2>2. regular.proof = "none" /\ regular.networkUrl = "http" /\ isValidContractId(regular.contractId)
      <3>1. regular.proof = "none" /\ regular.networkUrl = c.networkUrl /\ regular.contractId = c.contractId
        OBVIOUS
      <3>2. QED
        BY <1>3, <3>1
    <2> HIDE DEF regular
    <2>3. StatusOf("rpc", env) = (IF w.rpcUp THEN "success" ELSE "error") /\ StatusOf("contract", env) = "success"
      BY <2>2, FirstDiagnostics
    <2> HIDE DEF env
    <2>4. (p4 <=> ~w.rpcUp) /\ ~p5 /\ ~p6
      BY <2>3
    <2> HIDE DEF p1, p2, p3, p4, p5, p6, p7, p8, x1, x2, x3, x4, x5, x6, x7, x8, o
    <2>5. FirstOf(list, o) = IF p1 THEN x1 ELSE IF p2 THEN x2 ELSE IF p3 THEN x3 ELSE IF p4 THEN x4 ELSE IF p5 THEN x5
                             ELSE IF p6 THEN x6 ELSE IF p7 THEN x7 ELSE IF p8 THEN x8 ELSE o
      BY EightChecks
    <2> HIDE DEF list
    <2>6. checkEmployerReadiness(q, c, w) = IF p1 THEN x1 ELSE IF p2 THEN x2 ELSE IF p3 THEN x3 ELSE IF ~w.rpcUp THEN x4
                                            ELSE IF p7 THEN x7 ELSE IF p8 THEN x8 ELSE o
      BY <2>1, <2>4, <2>5
    <2>7. QED
      BY Zenon, <1>3, <2>6 DEF p1, p2, p3, p7, p8, x1, x2, x3, x4, x7, x8, o
  <1>4. QED
    BY <1>1, <1>2, <1>3

\* An endpoint that is down or a read that fails leaves the verdict open, whatever is asked
\* and however the client is configured.
LEMMA AnyBlockIsLasting ==
  ASSUME NEW q, q.signer \in {"employer", "other", "invalid", "unavailable"},
         NEW c, c = [networkUrl |-> c.networkUrl, contractId |-> c.contractId, proof |-> c.proof],
         NEW w, w.account \in {"found", "missing", "unread"}
  PROVE  LET v == checkEmployerReadiness(q, c, w)
         IN  /\ v.status = "ready" => q.signer = "employer" /\ w.rpcUp /\ w.account = "found"
             /\ v.status = "blocked" /\ v.code # "EMPLOYER_ACCOUNT_NOT_FOUND" =>
                  \A z \in Worlds : checkEmployerReadiness(q, c, z) = v
             /\ v.status = "unavailable" => ~w.rpcUp \/ w.account = "unread"
             /\ v.status = "blocked" /\ w.account = "unread" => v.code # "EMPLOYER_ACCOUNT_NOT_FOUND"
  <1> DEFINE verdict(z) == checkEmployerReadiness(q, c, z)
             request ==
               IF ~q.employerValid THEN "INVALID_EMPLOYER_ADDRESS"
               ELSE IF c.networkUrl # "http" \/ ~isValidContractId(c.contractId) THEN "INVALID_PAYROLL_CONFIGURATION"
               ELSE IF q.signer = "unavailable" THEN "EMPLOYER_SIGNER_UNAVAILABLE"
               ELSE IF q.signer = "invalid" THEN "INVALID_EMPLOYER_SIGNER"
               ELSE IF q.signer = "other" THEN "EMPLOYER_SIGNER_MISMATCH"
               ELSE "none"
  <1>1. \A z : verdict(z) = IF request # "none" THEN Verdict("blocked", request)
                            ELSE IF ~z.rpcUp THEN Verdict("unavailable", "RPC_UNAVAILABLE")
                            ELSE IF z.account = "missing" THEN Verdict("blocked", "EMPLOYER_ACCOUNT_NOT_FOUND")
                            ELSE IF z.account = "unread" THEN Verdict("unavailable", "EMPLOYER_ACCOUNT_UNVERIFIED")
                            ELSE Verdict("ready", "READY")
    <2> TAKE z
    <2>1. CASE ~q.employerValid
      BY <2>1, EmployerVerdict
    <2>2. CASE q.employerValid /\ (c.networkUrl # "http" \/ ~isValidContractId(c.contractId))
      BY <2>2, EmployerVerdict
    <2>3. CASE q.employerValid /\ ~(c.networkUrl # "http" \/ ~isValidContractId(c.contractId))
      BY <2>3, EmployerVerdict
    <2>4. QED
      BY <2>1, <2>2, <2>3
  <1>2. request = "none" => q.signer = "employer"
    OBVIOUS
  <1>3. request # "EMPLOYER_ACCOUNT_NOT_FOUND"
    OBVIOUS
  <1> HIDE DEF verdict, request
  <1>4. CASE request # "none"
    BY <1>1, <1>3, <1>4 DEF Verdict, verdict
  <1>5. CASE request = "none"
    BY <1>1, <1>2, <1>5 DEF Verdict, verdict
  <1>6. QED
    BY <1>4, <1>5

\* What the operation table lets run the guard lets run, for any globals and any capabilities disabled.
LEMMA AnyCapabilityViewsAgree ==
  ASSUME NEW r, NEW g, NEW d
  PROVE  LET caps == detectEnvironment(r, g)
             guard(c) == guardAllows(c, r, caps, d)
         IN  /\ canRunOperation("signTransaction", caps) /\ "signing" \notin d => guard("signing")
             /\ "polling" \notin d => (guard("polling") <=> canRunOperation("pollTransaction", caps))
             /\ "proof_generation" \notin d => (guard("proof_generation") <=> canRunOperation("generateProof", caps))
  <1> DEFINE caps == detectEnvironment(r, g)
  <1> HIDE DEF caps
  <1>1. /\ canRunOperation("signTransaction", caps) <=> "wallet_connection" \in caps
        /\ canRunOperation("pollTransaction", caps) <=> "rpc_call" \in caps
        /\ canRunOperation("generateProof", caps) <=> "proof_generation" \in caps
    BY DEF canRunOperation, SDK_OPERATIONS
  <1>2. /\ "signing" \notin d => (guardAllows("signing", r, caps, d) <=> ("wallet_connection" \in caps \/ r = "node"))
        /\ "polling" \notin d => (guardAllows("polling", r, caps, d) <=> "rpc_call" \in caps)
        /\ "proof_generation" \notin d => (guardAllows("proof_generation", r, caps, d) <=> "proof_generation" \in caps)
    BY DEF guardAllows
  <1>3. QED
    BY <1>1, <1>2 DEF caps

(***************************************************************************)
(* The fields validateConfig names.                                        *)
(***************************************************************************)
UrlOf(c) == Or(c.rpcUrl, c.networkUrl)

FieldInError(c, x) ==
  \/ x = "networkUrl" /\ UrlOf(c) \in {Nil, Absent, "malformed", "ftp"}
  \/ x = "network" /\ c.network = Nil
  \/ x = "contractId" /\ IF c.contractId \in {Nil, Absent} THEN c.contractIds = <<>> ELSE ~isValidContractId(c.contractId)
  \/ x = "contractIds" /\ \E i \in DOMAIN c.contractIds : ~isValidContractId(c.contractIds[i])
  \/ x = "proofConfig" /\ c.proof \in {"missing", "source"}
  \/ x \in validateRetryPolicyConfig(c.retry)

\* validateConfig names the fields that are in error and no others.
LEMMA ErrorsOfConfig ==
  ASSUME NEW c, NEW x
  PROVE  x \in validateConfig(c) <=> FieldInError(c, x)
  <1> DEFINE url == Or(c.rpcUrl, c.networkUrl)
             p1 == url \in {Nil, Absent}
             p2 == url \in {"malformed", "ftp"}
             p3 == c.network = Nil
             p4 == c.contractId \in {Nil, Absent} /\ c.contractIds = <<>>
             p5 == c.contractId \notin {Nil, Absent} /\ ~isValidContractId(c.contractId)
             p6 == Some(LAMBDA id : ~isValidContractId(id), c.contractIds)
             p7 == c.proof \in {"missing", "source"}
             retry == validateRetryPolicyConfig(c.retry)
             list == << <<p1, "networkUrl">>, <<p2, "networkUrl">>, <<p3, "network">>, <<p4, "contractId">>,
                        <<p5, "contractId">>, <<p6, "contractIds">>, <<p7, "proofConfig">> >>
  <1>1. validateConfig(c) = AllOf(list) \union retry
    BY Zenon DEF validateConfig
  <1>2. p6 <=> \E i \in DOMAIN c.contractIds : ~isValidContractId(c.contractIds[i])
    BY Zenon DEF Some
  <1>3. /\ (p1 \/ p2) <=> UrlOf(c) \in {Nil, Absent, "malformed", "ftp"}
        /\ (p4 \/ p5) <=> IF c.contractId \in {Nil, Absent} THEN c.contractIds = <<>> ELSE ~isValidContractId(c.contractId)
    BY DEF UrlOf
  <1> HIDE DEF p1, p2, p4, p5, p6, retry
  <1>4. x \in AllOf(list)
          <=> (p1 /\ x = "networkUrl") \/ (p2 /\ x = "networkUrl") \/ (p3 /\ x = "network") \/ (p4 /\ x = "contractId")
              \/ (p5 /\ x = "contractId") \/ (p6 /\ x = "contractIds") \/ (p7 /\ x = "proofConfig")
    <2> HIDE DEF p3, p7
    <2>1. QED
      BY SevenReported
  <1> HIDE DEF list
  <1>5. QED
    BY <1>1, <1>2, <1>3, <1>4 DEF FieldInError, retry

\* A retry policy has only fields of its own in error.
LEMMA ErrorsOfPolicy ==
  ASSUME NEW r, NEW x \in validateRetryPolicyConfig(r)
  PROVE  x \in {"maxAttempts", "initialDelayMs", "maxDelayMs"}
  <1> DEFINE p1 == r.maxAttempts # NoLimit /\ r.maxAttempts < 1
             p2 == r.initialDelay # NoLimit /\ r.initialDelay < 0
             p3 == r.maxDelay # NoLimit /\ r.maxDelay < 0
             p4 == r.initialDelay # NoLimit /\ r.maxDelay # NoLimit /\ r.maxDelay < r.initialDelay
             list == << <<p1, "maxAttempts">>, <<p2, "initialDelayMs">>, <<p3, "maxDelayMs">>, <<p4, "maxDelayMs">> >>
  <1>1. validateRetryPolicyConfig(r) = AllOf(list)
    BY Zenon DEF validateRetryPolicyConfig
  <1> HIDE DEF p1, p2, p3, p4
  <1>2. x \in AllOf(list)
          <=> (p1 /\ x = "maxAttempts") \/ (p2 /\ x = "initialDelayMs") \/ (p3 /\ x = "maxDelayMs") \/ (p4 /\ x = "maxDelayMs")
    BY FourReported
  <1> HIDE DEF list
  <1>3. QED
    BY <1>1, <1>2

\* What the checklist passes the client accepts, for any configuration and any options.
LEMMA AnyReadyConfigLoads ==
  ASSUME NEW c, NEW o, noBlockers(generateSetupChecklist(c, o)), c.proof # "source"
  PROVE  assertValidConfig(c).ok
  <1>1. "fail" \notin buildConfigChecks(c) /\ "fail" \notin buildProofsChecks(c)
    BY DEF noBlockers, generateSetupChecklist
  <1>2. validateConfig(c) \ {"proofConfig"} = {}
    BY <1>1 DEF buildConfigChecks
  <1>3. c.proof # "missing"
    BY <1>1 DEF buildProofsChecks
  <1>4. "proofConfig" \notin validateConfig(c)
    <2>1. "proofConfig" \notin validateRetryPolicyConfig(c.retry)
      BY ErrorsOfPolicy
    <2>2. ~FieldInError(c, "proofConfig")
      BY <1>3, <2>1 DEF FieldInError
    <2>3. QED
      BY <2>2, ErrorsOfConfig
  <1>5. validateConfig(c) = {}
    BY <1>2, <1>4
  <1>6. QED
    BY <1>5 DEF assertValidConfig

\* Configurations with the fields config.ts declares, the deprecated ones among them.
AnyConfig(c) ==
  c = [networkUrl |-> c.networkUrl, rpcUrl |-> c.rpcUrl, network |-> c.network, contractId |-> c.contractId,
       contractIds |-> c.contractIds, proof |-> c.proof, retry |-> c.retry, nodeUrl |-> c.nodeUrl,
       serverUrl |-> c.serverUrl, contractAddress |-> c.contractAddress]

\* The configuration migrate validates: deprecated names folded in, defaults not yet.
Folded(c) ==
  LET url == Renamed(c.serverUrl, Renamed(c.nodeUrl, c.networkUrl)) IN
  [networkUrl |-> IF url = Absent THEN c.rpcUrl ELSE url, rpcUrl |-> c.rpcUrl, network |-> c.network,
   contractId |-> Renamed(c.contractAddress, c.contractId), contractIds |-> c.contractIds, proof |-> c.proof,
   retry |-> c.retry, nodeUrl |-> Absent, serverUrl |-> Absent, contractAddress |-> Absent]

Defaulted(c) ==
  [c EXCEPT !.networkUrl = Coalesce(@, Nil), !.rpcUrl = Coalesce(@, Coalesce(c.networkUrl, Nil)), !.contractId = Coalesce(@, Nil)]

\* The fields of a configuration after the five that migrate overwrites.
LEMMA FieldsReplaced ==
  ASSUME NEW c, AnyConfig(c), NEW a, NEW b, NEW n
  PROVE  [c EXCEPT !.networkUrl = a, !.contractId = b, !.nodeUrl = n, !.serverUrl = n, !.contractAddress = n]
           = [networkUrl |-> a, rpcUrl |-> c.rpcUrl, network |-> c.network, contractId |-> b, contractIds |-> c.contractIds,
              proof |-> c.proof, retry |-> c.retry, nodeUrl |-> n, serverUrl |-> n, contractAddress |-> n]
  <1> DEFINE e == [c EXCEPT !.networkUrl = a, !.contractId = b, !.nodeUrl = n, !.serverUrl = n, !.contractAddress = n]
             Keys == {"networkUrl", "rpcUrl", "network", "contractId", "contractIds", "proof", "retry", "nodeUrl", "serverUrl",
                      "contractAddress"}
  <1>1. DOMAIN c = Keys
    BY DEF AnyConfig
  <1>2. DOMAIN e = Keys /\ e = [k \in Keys |-> e[k]]
    BY <1>1
  <1>3. /\ e.networkUrl = a /\ e.contractId = b /\ e.nodeUrl = n /\ e.serverUrl = n /\ e.contractAddress = n
        /\ e.rpcUrl = c.rpcUrl /\ e.network = c.network /\ e.contractIds = c.contractIds /\ e.proof = c.proof /\ e.retry = c.retry
    BY <1>1
  <1> HIDE DEF e
  <1>4. e = [networkUrl |-> a, rpcUrl |-> c.rpcUrl, network |-> c.network, contractId |-> b, contractIds |-> c.contractIds,
             proof |-> c.proof, retry |-> c.retry, nodeUrl |-> n, serverUrl |-> n, contractAddress |-> n]
    BY <1>2, <1>3
  <1>5. QED
    BY <1>4 DEF e

\* migrate folds the deprecated names in, validates, and fills in the defaults.
LEMMA Migrated ==
  ASSUME NEW c, AnyConfig(c)
  PROVE  /\ migrate(c).config = Defaulted(Folded(c)) /\ migrate(c).errors = validateConfig(Folded(c))
         /\ \A x \in migrate(c).warnings :
              c.nodeUrl # Absent \/ c.serverUrl # Absent \/ c.contractAddress # Absent
              \/ (Renamed(c.serverUrl, Renamed(c.nodeUrl, c.networkUrl)) = Absent /\ c.rpcUrl # Absent)
  <1> DEFINE url == Renamed(c.serverUrl, Renamed(c.nodeUrl, c.networkUrl))
             first == [c EXCEPT !.networkUrl = IF url = Absent THEN c.rpcUrl ELSE url,
                                !.contractId = Renamed(c.contractAddress, @),
                                !.nodeUrl = Absent, !.serverUrl = Absent, !.contractAddress = Absent]
             p1 == c.nodeUrl # Absent
             p2 == c.serverUrl # Absent
             p3 == c.contractAddress # Absent
             p4 == url = Absent /\ c.rpcUrl # Absent
             cautioned == AllOf(<< <<p1, "nodeUrl">>, <<p2, "serverUrl">>, <<p3, "contractAddress">>, <<p4, "rpcUrl">> >>)
             final == [first EXCEPT !.networkUrl = Coalesce(@, Nil), !.rpcUrl = Coalesce(@, Coalesce(first.networkUrl, Nil)),
                                    !.contractId = Coalesce(@, Nil)]
  <1>1. migrate(c) = [config |-> final, warnings |-> cautioned, errors |-> validateConfig(first)]
    BY Zenon DEF migrate
  <1>2. first = Folded(c)
    <2> DEFINE either == IF url = Absent THEN c.rpcUrl ELSE url
               id == Renamed(c.contractAddress, c.contractId)
    <2>1. first = [c EXCEPT !.networkUrl = either, !.contractId = id,
                            !.nodeUrl = Absent, !.serverUrl = Absent, !.contractAddress = Absent]
      OBVIOUS
    <2>2. Folded(c) = [networkUrl |-> either, rpcUrl |-> c.rpcUrl, network |-> c.network, contractId |-> id,
                       contractIds |-> c.contractIds, proof |-> c.proof, retry |-> c.retry,
                       nodeUrl |-> Absent, serverUrl |-> Absent, contractAddress |-> Absent]
      BY DEF Folded
    <2> HIDE DEF first, either, id
    <2>3. QED
      BY <2>1, <2>2, FieldsReplaced
  <1> HIDE DEF first
  <1>3. final = Defaulted(Folded(c))
    BY Zenon, <1>2 DEF Defaulted
  <1> HIDE DEF p1, p2, p3, p4
  <1>4. \A x \in cautioned : p1 \/ p2 \/ p3 \/ p4
    BY FourReported
  <1> HIDE DEF final, cautioned
  <1>5. migrate(c).config = final /\ migrate(c).errors = validateConfig(first) /\ migrate(c).warnings = cautioned
    BY <1>1
  <1>6. QED
    BY <1>2, <1>3, <1>4, <1>5 DEF p1, p2, p3, p4

\* The fields of a configuration after the defaults.
LEMMA DefaultedFields ==
  ASSUME NEW c, AnyConfig(c)
  PROVE  LET d == Defaulted(c)
         IN  /\ AnyConfig(d)
             /\ d.networkUrl = Coalesce(c.networkUrl, Nil) /\ d.contractId = Coalesce(c.contractId, Nil)
             /\ d.rpcUrl = Coalesce(c.rpcUrl, Coalesce(c.networkUrl, Nil))
             /\ d.network = c.network /\ d.contractIds = c.contractIds /\ d.proof = c.proof /\ d.retry = c.retry
             /\ d.nodeUrl = c.nodeUrl /\ d.serverUrl = c.serverUrl /\ d.contractAddress = c.contractAddress
  <1> DEFINE d == Defaulted(c)
             url == Coalesce(c.networkUrl, Nil)
             rpc == Coalesce(c.rpcUrl, url)
             id == Coalesce(c.contractId, Nil)
             fields == [networkUrl |-> url, rpcUrl |-> rpc, network |-> c.network, contractId |-> id,
                        contractIds |-> c.contractIds, proof |-> c.proof, retry |-> c.retry, nodeUrl |-> c.nodeUrl,
                        serverUrl |-> c.serverUrl, contractAddress |-> c.contractAddress]
  <1>1. d = [c EXCEPT !.networkUrl = url, !.rpcUrl = rpc, !.contractId = id]
    BY DEF Defaulted
  <1> HIDE DEF d, url, rpc, id
  <1>2. d = fields
    BY <1>1 DEF AnyConfig
  <1>3. AnyConfig(d)
    BY <1>2 DEF AnyConfig
  <1>4. QED
    BY <1>2, <1>3 DEF d, url, rpc, id

\* A second migration finds nothing to do, for any configuration.
LEMMA AnyMigrationSettles ==
  ASSUME NEW c, AnyConfig(c)
  PROVE  LET once == migrate(c)
             twice == migrate(once.config)
         IN  /\ twice.config = once.config /\ twice.warnings = {}
             /\ once.errors = {} => validateConfig(once.config) = {}
             /\ c.contractId # Absent => once.config.contractId = c.contractId
  <1> DEFINE f == Folded(c)
             d == Defaulted(f)
  <1>1. /\ AnyConfig(f) /\ f.nodeUrl = Absent /\ f.serverUrl = Absent /\ f.contractAddress = Absent
        /\ f.contractId = Renamed(c.contractAddress, c.contractId)
    BY DEF Folded, AnyConfig
  <1> HIDE DEF f
  <1>2. /\ AnyConfig(d)
        /\ d.networkUrl = Coalesce(f.networkUrl, Nil) /\ d.contractId = Coalesce(f.contractId, Nil)
        /\ d.rpcUrl = Coalesce(f.rpcUrl, Coalesce(f.networkUrl, Nil))
        /\ d.network = f.network /\ d.contractIds = f.contractIds /\ d.proof = f.proof /\ d.retry = f.retry
        /\ d.nodeUrl = Absent /\ d.serverUrl = Absent /\ d.contractAddress = Absent
    BY <1>1, DefaultedFields
  <1> HIDE DEF d
  <1>3. d.networkUrl # Absent /\ d.rpcUrl # Absent /\ d.contractId # Absent
    BY <1>2 DEF Coalesce, Nil, Absent
  <1>4. Renamed(d.serverUrl, Renamed(d.nodeUrl, d.networkUrl)) = d.networkUrl /\ Renamed(d.contractAddress, d.contractId) = d.contractId
    BY <1>2, <1>3 DEF Renamed
  <1>5. Folded(d) = d
    BY <1>2, <1>3, <1>4 DEF Folded, AnyConfig
  <1>6. Defaulted(d) = d
    <2> DEFINE e == Defaulted(d)
    <2>1. /\ AnyConfig(e)
          /\ e.networkUrl = Coalesce(d.networkUrl, Nil) /\ e.contractId = Coalesce(d.contractId, Nil)
          /\ e.rpcUrl = Coalesce(d.rpcUrl, Coalesce(d.networkUrl, Nil))
          /\ e.network = d.network /\ e.contractIds = d.contractIds /\ e.proof = d.proof /\ e.retry = d.retry
          /\ e.nodeUrl = d.nodeUrl /\ e.serverUrl = d.serverUrl /\ e.contractAddress = d.contractAddress
      BY <1>2, DefaultedFields
    <2> HIDE DEF e
    <2>2. e.networkUrl = d.networkUrl /\ e.contractId = d.contractId /\ e.rpcUrl = d.rpcUrl
      BY <1>3, <2>1 DEF Coalesce
    <2>3. e = d
      BY <1>2, <2>1, <2>2 DEF AnyConfig
    <2>4. QED
      BY <2>3 DEF e
  <1>7. migrate(c).config = d /\ migrate(c).errors = validateConfig(f)
    BY Migrated DEF d, f
  <1>8. migrate(d).config = d /\ migrate(d).warnings = {}
    <2>1. \A x \in migrate(d).warnings : FALSE
      BY <1>2, <1>3, <1>4, Migrated
    <2>2. QED
      BY <1>2, <1>5, <1>6, <2>1, Migrated
  <1>9. ASSUME validateConfig(f) = {} PROVE validateConfig(d) = {}
    <2>1. UrlOf(f) \notin {Nil, Absent, "malformed", "ftp"}
      BY <1>9, ErrorsOfConfig DEF FieldInError
    <2>2. UrlOf(d) = UrlOf(f)
      BY <1>2, <2>1 DEF UrlOf, Or, Coalesce, Nil, Absent
    <2>3. d.contractId \in {Nil, Absent} <=> f.contractId \in {Nil, Absent}
      BY <1>2 DEF Coalesce
    <2>4. f.contractId \notin {Nil, Absent} => d.contractId = f.contractId
      BY <1>2 DEF Coalesce
    <2>5. \A x : FieldInError(d, x) => FieldInError(f, x)
      BY <1>2, <2>2, <2>3, <2>4 DEF FieldInError
    <2>6. QED
      BY <1>9, <2>5, ErrorsOfConfig
  <1>10. c.contractId # Absent => d.contractId = c.contractId
    BY <1>1, <1>2 DEF Renamed, Coalesce
  <1>11. QED
    BY <1>7, <1>8, <1>9, <1>10

-----------------------------------------------------------------------------
(***************************************************************************)
(* Attempts of withRpcRetry and the waits between them.  The waits are a   *)
(* function defined by recursion: that there is one is proved by the       *)
(* first number of attempts that would have none.                          *)
(***************************************************************************)
DoublesUpTo(waits, base, n) == waits = [k \in 1..n |-> IF k = 1 THEN base ELSE 2 * waits[k - 1]]

\* There are waits for any number of attempts.
LEMMA DoublesExist ==
  ASSUME NEW base, NEW m \in Nat
  PROVE  \E waits : DoublesUpTo(waits, base, m)
  <1> DEFINE Has(k) == \E waits : DoublesUpTo(waits, base, k)
             stuck == {k \in 0..m : ~Has(k)}
  <1>1. SUFFICES ASSUME stuck # {} PROVE FALSE
    <2>1. m \in 0..m
      OBVIOUS
    <2> HIDE DEF Has
    <2>2. stuck = {} => Has(m)
      BY <2>1
    <2>3. QED
      BY <2>2 DEF Has
  <1>2. PICK k \in 0..m : k \in stuck /\ \A j \in stuck : k <= j
    <2>1. stuck \in SUBSET Nat /\ stuck \subseteq 0..m
      OBVIOUS
    <2> HIDE DEF stuck
    <2>2. QED
      BY <1>1, <2>1, Smallest
  <1>3. ~Has(k)
    BY <1>2
  <1>4. CASE k = 0
    <2>1. DoublesUpTo([n \in 1..0 |-> base], base, 0)
      BY DEF DoublesUpTo
    <2>2. QED
      BY <1>3, <1>4, <2>1
  <1>5. CASE k # 0
    <2>1. k \in Nat /\ k >= 1 /\ k - 1 \in 0..m /\ k - 1 \notin stuck /\ k \in 1..k
      BY <1>2, <1>5
    <2>2. PICK f : DoublesUpTo(f, base, k - 1)
      BY <2>1
    <2> DEFINE longer == [n \in 1..k |-> IF n = 1 THEN base ELSE 2 * f[n - 1]]
    <2>3. longer = [n \in 1..k |-> longer[n]]
      OBVIOUS
    <2>4. \A n \in 1..k : longer[n] = IF n = 1 THEN base ELSE 2 * f[n - 1]
      OBVIOUS
    <2> HIDE DEF longer
    <2>5. \A n \in 1..(k - 1) : f[n] = IF n = 1 THEN base ELSE 2 * f[n - 1]
      BY <2>2 DEF DoublesUpTo
    <2>6. \A n \in 1..(k - 1) : longer[n] = f[n]
      BY <2>1, <2>4, <2>5
    <2>7. \A n \in 1..k : longer[n] = IF n = 1 THEN base ELSE 2 * longer[n - 1]
      <3> SUFFICES ASSUME NEW n \in 1..k, n # 1 PROVE longer[n] = 2 * longer[n - 1]
        BY <2>4
      <3>1. n - 1 \in 1..(k - 1)
        BY <2>1
      <3>2. QED
        BY <2>4, <2>6, <3>1
    <2>8. DoublesUpTo(longer, base, k)
      BY <2>3, <2>7 DEF DoublesUpTo
    <2>9. QED
      BY <1>3, <2>8
  <1>6. QED
    BY <1>4, <1>5

\* rpcWaits are such waits.
LEMMA WaitsDouble ==
  ASSUME NEW base, NEW m \in Nat
  PROVE  DoublesUpTo(rpcWaits(m, base), base, m)
  <1> DEFINE Doubles(waits) == waits = [k \in 1..m |-> IF k = 1 THEN base ELSE 2 * waits[k - 1]]
             total == CHOOSE waits : Doubles(waits)
  <1>1. \E waits : Doubles(waits)
    <2>1. PICK waits : DoublesUpTo(waits, base, m)
      BY DoublesExist
    <2>2. Doubles(waits)
      BY <2>1 DEF DoublesUpTo
    <2>3. QED
      BY <2>2
  <1>2. rpcWaits(m, base) = total
    BY Zenon DEF rpcWaits
  <1>3. Doubles(total)
    <2> HIDE DEF Doubles
    <2>1. QED
      BY <1>1
  <1> HIDE DEF total
  <1>4. QED
    BY <1>2, <1>3 DEF DoublesUpTo

\* However many attempts there may be, the wait after the k-th is the same.
LEMMA WaitsAgree ==
  ASSUME NEW base \in Nat, NEW m \in Nat, NEW n \in Nat, NEW k \in Nat, 1 <= k, k <= m, k <= n
  PROVE  rpcWaits(m, base)[k] \in Nat /\ rpcWaits(m, base)[k] = rpcWaits(n, base)[k]
  <1> DEFINE f == rpcWaits(m, base)
             g == rpcWaits(n, base)
             Fine(j) == f[j] \in Nat /\ f[j] = g[j]
             wrong == {j \in 1..k : ~Fine(j)}
  <1>1. /\ \A j \in 1..m : f[j] = IF j = 1 THEN base ELSE 2 * f[j - 1]
        /\ \A j \in 1..n : g[j] = IF j = 1 THEN base ELSE 2 * g[j - 1]
    BY WaitsDouble DEF DoublesUpTo
  <1> HIDE DEF f, g
  <1>2. SUFFICES ASSUME wrong # {} PROVE FALSE
    BY DEF f, g
  <1>3. PICK j \in 1..k : j \in wrong /\ \A i \in wrong : j <= i
    <2>1. wrong \in SUBSET Nat /\ wrong \subseteq 1..k
      OBVIOUS
    <2> HIDE DEF wrong
    <2>2. QED
      BY <1>2, <2>1, Smallest
  <1>4. ~Fine(j) /\ j \in 1..m /\ j \in 1..n
    BY <1>3
  <1>5. CASE j = 1
    BY <1>1, <1>4, <1>5
  <1>6. CASE j # 1
    <2>1. j - 1 \in 1..k /\ j - 1 \notin wrong
      BY <1>3, <1>6
    <2>2. f[j - 1] \in Nat /\ f[j - 1] = g[j - 1]
      BY <2>1
    <2>3. f[j] = 2 * f[j - 1] /\ g[j] = 2 * g[j - 1]
      BY <1>1, <1>4, <1>6
    <2>4. QED
      BY <1>4, <2>2, <2>3
  <1>7. QED
    BY <1>5, <1>6

\* No wait is shorter than the one before it or longer than the ceiling.
LEMMA WaitsNeverShrink ==
  ASSUME NEW base \in Nat, NEW max \in Nat, NEW k \in Nat, 1 <= k
  PROVE  rpcDelay(k, base, max) <= rpcDelay(k + 1, base, max) /\ rpcDelay(k, base, max) <= max
  <1> DEFINE a == rpcWaits(k, base)[k]
             b == rpcWaits(k + 1, base)[k + 1]
  <1>1. a \in Nat /\ a = rpcWaits(k + 1, base)[k]
    BY WaitsAgree
  <1>2. b = 2 * rpcWaits(k + 1, base)[k]
    <2>1. DoublesUpTo(rpcWaits(k + 1, base), base, k + 1)
      BY WaitsDouble
    <2>2. k + 1 \in 1..(k + 1) /\ k + 1 # 1 /\ (k + 1) - 1 = k
      OBVIOUS
    <2> DEFINE w == rpcWaits(k + 1, base)
    <2> HIDE DEF w
    <2>3. w[k + 1] = 2 * w[k]
      BY <2>1, <2>2 DEF DoublesUpTo, w
    <2>4. QED
      BY <2>3 DEF w
  <1>3. rpcDelay(k, base, max) = (IF a < max THEN a ELSE max) /\ rpcDelay(k + 1, base, max) = (IF b < max THEN b ELSE max)
    BY DEF rpcDelay
  <1> HIDE DEF a, b
  <1>4. b = 2 * a
    BY <1>1, <1>2
  <1>5. QED
    BY <1>1, <1>3, <1>4

\* Any outcomes of at least as many attempts as are allowed.
AnyRpc(i) ==
  \E m \in Nat :
    /\ i.outcomes \in [1..m -> {"ok", "transient", "fatal"}] /\ i.maxAttempts \in 1..m
    /\ i.abortAt \in Nat /\ i.base \in Nat /\ i.max \in Nat

\* A call is repeated only for an error that may pass, and not beyond its attempts.
LEMMA AnyRetriesEarned ==
  ASSUME NEW i, AnyRpc(i)
  PROVE  LET n == rpcAttempts(i.outcomes, i.maxAttempts, i.abortAt)
         IN  /\ n <= i.maxAttempts
             /\ i.abortAt > 0 => n < i.abortAt
             /\ \A k \in 1..(n - 1) : i.outcomes[k] = "transient"
             /\ withRpcRetry(i.outcomes, i.maxAttempts, i.abortAt) = "ok"
                  <=> (n > 0 /\ i.outcomes[IF n = 0 THEN 1 ELSE n] = "ok")
             /\ \A k \in 1..n : rpcDelay(k, i.base, i.max) <= rpcDelay(k + 1, i.base, i.max)
                                /\ rpcDelay(k, i.base, i.max) <= i.max
  <1>1. PICK m \in Nat : /\ i.outcomes \in [1..m -> {"ok", "transient", "fatal"}] /\ i.maxAttempts \in 1..m
                         /\ i.abortAt \in Nat /\ i.base \in Nat /\ i.max \in Nat
    BY DEF AnyRpc
  <1> DEFINE o == i.outcomes
             last == i.maxAttempts
             abort == i.abortAt
             n == rpcAttempts(o, last, abort)
             stops == {j \in DOMAIN o : Decisive(o[j]) \/ j = last \/ j + 1 = abort}
  <1>2. DOMAIN o = 1..m /\ last \in 1..m /\ abort \in Nat
    BY <1>1
  <1>3. n \in Nat /\ n <= last /\ (abort > 0 => n < abort) /\ (n > 0 => n \in 1..m) /\ \A k \in 1..(n - 1) : k \in 1..m /\ k \notin stops
    <2>1. CASE abort = 1
      <3>1. n = 0
        BY <2>1 DEF rpcAttempts
      <3>2. QED
        BY <1>2, <2>1, <3>1
    <2>2. CASE abort # 1
      <3>1. n = Min(stops)
        BY <2>2 DEF rpcAttempts
      <3>2. stops \in SUBSET Nat /\ last \in stops /\ stops \subseteq 1..m
        BY <1>2
      <3>3. abort > 1 /\ abort <= last => abort - 1 \in stops
        BY <1>2
      <3> HIDE DEF n, stops
      <3>4. n \in stops /\ \A y \in stops : n <= y
        BY <3>1, <3>2, Smallest
      <3>5. n \in 1..m /\ n <= last
        BY <3>2, <3>4
      <3>6. abort > 0 => n < abort
        BY <1>2, <2>2, <3>3, <3>4, <3>5
      <3>7. \A k \in 1..(n - 1) : k \in 1..m /\ k \notin stops
        BY <3>4, <3>5
      <3>8. QED
        BY <3>5, <3>6, <3>7
    <2>3. QED
      BY <2>1, <2>2
  <1>4. \A k \in 1..(n - 1) : o[k] = "transient"
    <2> SUFFICES ASSUME NEW k \in 1..(n - 1) PROVE o[k] = "transient"
      OBVIOUS
    <2>1. k \in DOMAIN o /\ k \notin stops
      BY <1>2, <1>3
    <2>2. ~Decisive(o[k])
      BY <2>1
    <2>3. o[k] \in {"ok", "transient", "fatal"}
      BY <1>1, <2>1
    <2>4. QED
      BY <2>2, <2>3 DEF Decisive
  <1>5. withRpcRetry(o, last, abort) = "ok" <=> (n > 0 /\ o[IF n = 0 THEN 1 ELSE n] = "ok")
    <2>1. withRpcRetry(o, last, abort)
            = IF n = 0 THEN "aborted" ELSE IF Decisive(o[n]) THEN o[n] ELSE IF n = last THEN "transient" ELSE "aborted"
      BY DEF withRpcRetry
    <2> HIDE DEF n
    <2>2. QED
      BY <1>3, <2>1 DEF Decisive
  <1>6. \A k \in 1..n : rpcDelay(k, i.base, i.max) <= rpcDelay(k + 1, i.base, i.max) /\ rpcDelay(k, i.base, i.max) <= i.max
    <2> SUFFICES ASSUME NEW k \in 1..n
                 PROVE  rpcDelay(k, i.base, i.max) <= rpcDelay(k + 1, i.base, i.max) /\ rpcDelay(k, i.base, i.max) <= i.max
      OBVIOUS
    <2>1. k \in Nat /\ 1 <= k
      BY <1>3
    <2>2. QED
      BY <1>1, <2>1, WaitsNeverShrink
  <1>7. QED
    BY <1>3, <1>4, <1>5, <1>6

-----------------------------------------------------------------------------
SetupAsked ==
  Asked("config", ConfigInputs) /\ Asked("employer", EmployerInputs) /\ Asked("rpc", RpcInputs)

\* What is asked about the setup is one of its inputs.
LEMMA SetupIsAsked == RulesSpec => []SetupAsked
  <1>1. RulesInit => SetupAsked
    BY DEF RulesInit, Unasked, SetupAsked, Asked, About
  <1>2. SetupAsked /\ [RulesNext]_subject => SetupAsked'
    <2> SUFFICES ASSUME SetupAsked, [RulesNext]_subject PROVE SetupAsked'
      OBVIOUS
    <2>1. CASE UNCHANGED subject
      BY <2>1 DEF SetupAsked, Asked, About
    <2>2. CASE RulesNext
      <3>1. Asked("config", ConfigInputs)'
        BY <2>2 DEF RulesNext, Ask, Asked, About
      <3>2. Asked("employer", EmployerInputs)'
        BY <2>2 DEF RulesNext, Ask, Asked, About
      <3>3. Asked("rpc", RpcInputs)'
        BY <2>2 DEF RulesNext, Ask, Asked, About
      <3>4. QED
        BY <3>1, <3>2, <3>3 DEF SetupAsked
    <2>3. QED
      BY <2>1, <2>2
  <1>3. QED
    BY <1>1, <1>2, PTL DEF RulesSpec

\* A request of an employer, a client's configuration and a state of the network.
AnyEmployer(i) ==
  /\ i.request.signer \in {"employer", "other", "invalid", "unavailable"}
  /\ i.config = [networkUrl |-> i.config.networkUrl, contractId |-> i.config.contractId, proof |-> i.config.proof]
  /\ i.world.account \in {"found", "missing", "unread"}

\* The inputs of the run belong to the classes the lemmas above are about.
LEMMA SetupClasses ==
  ASSUME SetupAsked
  PROVE  /\ About("config") => AnyConfig(subject.input.config)
         /\ About("employer") => AnyEmployer(subject.input)
         /\ About("rpc") => AnyRpc(subject.input)
  <1>1. \A i \in ConfigInputs : AnyConfig(i.config)
    <2> SUFFICES ASSUME NEW i \in ConfigInputs PROVE AnyConfig(i.config)
      OBVIOUS
    <2> DEFINE Retries == {NoRetry, [maxAttempts |-> 0, initialDelay |-> 2, maxDelay |-> 1]}
               Lists == {<<>>, <<"C2">>, <<"C2", "bad">>}
               c == i.config
    <2>1. c \in [networkUrl : {Absent, "http", "ftp"}, rpcUrl : {Absent, Nil, "http", "malformed"}, network : {Absent, Nil, "testnet"},
                 contractId : {Absent, Nil, "bad", "C1"}, contractIds : Lists, proof : {"none", "url", "source"},
                 retry : Retries, nodeUrl : {Absent, "http"}, serverUrl : {Absent}, contractAddress : {Absent, "C1"}]
      BY Zenon DEF ConfigInputs
    <2> HIDE DEF c, Retries, Lists
    <2>2. AnyConfig(c)
      BY <2>1 DEF AnyConfig
    <2>3. QED
      BY <2>2 DEF c
  <1>2. \A i \in EmployerInputs : AnyEmployer(i)
    <2> SUFFICES ASSUME NEW i \in EmployerInputs PROVE AnyEmployer(i)
      OBVIOUS
    <2>1. i.request.signer \in {"employer", "other", "invalid", "unavailable"}
      BY DEF EmployerInputs
    <2>2. i.config \in [networkUrl : {Nil, "http", "ws"}, contractId : {Nil, "bad", "C1"}, proof : {"none", "url"}]
      BY DEF EmployerInputs
    <2>3. i.world.account \in {"found", "missing", "unread"}
      BY DEF EmployerInputs, Worlds
    <2> DEFINE c == i.config
    <2> HIDE DEF c
    <2>4. c = [networkUrl |-> c.networkUrl, contractId |-> c.contractId, proof |-> c.proof]
      BY <2>2 DEF c
    <2>5. QED
      BY <2>1, <2>3, <2>4 DEF AnyEmployer, c
  <1>3. \A i \in RpcInputs : AnyRpc(i)
    <2> SUFFICES ASSUME NEW i \in RpcInputs PROVE AnyRpc(i)
      OBVIOUS
    <2>1. i.outcomes \in [1..4 -> {"ok", "transient", "fatal"}]
      BY DEF RpcInputs
    <2>2. i.maxAttempts \in 1..4 /\ i.abortAt \in Nat /\ i.base \in Nat /\ i.max \in Nat
      BY DEF RpcInputs
    <2>3. QED
      BY <2>1, <2>2 DEF AnyRpc
  <1>4. QED
    BY <1>1, <1>2, <1>3 DEF SetupAsked, Asked

\* What is reported ready works, what is reported blocked stays so, a migration is done once, and
\* a call is repeated only for an error that may pass (config.ts, setup/, employer-readiness.ts,
\* env/, rpcRetry.ts): for any configuration, request, network and number of attempts.
THEOREM SetupIsHeld == RulesSpec => []SetupHolds
  <1>1. SetupAsked => SetupHolds
    <2> SUFFICES ASSUME SetupAsked PROVE SetupHolds
      OBVIOUS
    <2>1. ReadyConfigLoads
      BY AnyReadyConfigLoads DEF ReadyConfigLoads
    <2>2. MigrationSettles
      BY SetupClasses, AnyMigrationSettles DEF MigrationSettles
    <2>3. BlockedIsLasting
      BY SetupClasses, AnyBlockIsLasting DEF BlockedIsLasting, AnyEmployer
    <2>4. CapabilityViewsAgree
      BY AnyCapabilityViewsAgree DEF CapabilityViewsAgree
    <2>5. RetriesEarned
      BY SetupClasses, AnyRetriesEarned DEF RetriesEarned
    <2>6. QED
      BY <2>1, <2>2, <2>3, <2>4, <2>5 DEF SetupHolds
  <1>2. QED
    BY <1>1, SetupIsAsked, PTL

-----------------------------------------------------------------------------
(***************************************************************************)
(* treasury/, obligations/: any obligations, balances, accounts,           *)
(* reservations and checkpoints.                                           *)
(***************************************************************************)
\* An obligation as it is checked, what a balance is, and a question about readiness.
AnyBalance(b) == b.available \in Int /\ b.reserved \in Nat

AnyReadiness(i) ==
  /\ \E S : i.obligations \in Seq(S) \ {<<>>}
  /\ \A k \in DOMAIN i.obligations : i.obligations[k].required \in Nat
  /\ \A a \in DOMAIN i.balances : AnyBalance(i.balances[a])
  /\ i.buffer \in Nat

\* The status of a balance as a chain of conditions.
LEMMA FundsAre ==
  ASSUME NEW available, NEW required, NEW buffer
  PROVE  deriveBalanceStatus(available, required, buffer) =
           IF available <= 0 /\ required > 0 THEN "zero"
           ELSE IF available < required THEN "insufficient"
           ELSE IF buffer > 0 /\ available < (required * (Percent + buffer)) \div Percent THEN "low" ELSE "sufficient"
  <1> DEFINE p1 == available <= 0 /\ required > 0
             p2 == available < required
             p3 == buffer > 0 /\ available < (required * (Percent + buffer)) \div Percent
  <1>1. deriveBalanceStatus(available, required, buffer) =
          FirstOf(<< <<p1, "zero">>, <<p2, "insufficient">>, <<p3, "low">> >>, "sufficient")
    BY DEF deriveBalanceStatus
  <1> HIDE DEF p1, p2, p3
  <1>2. deriveBalanceStatus(available, required, buffer) =
          IF p1 THEN "zero" ELSE IF p2 THEN "insufficient" ELSE IF p3 THEN "low" ELSE "sufficient"
    BY <1>1, ThreeChecks
  <1>3. QED
    BY <1>2, Zenon DEF p1, p2, p3

\* The status of a reserve as a chain of conditions.
LEMMA ReserveIs ==
  ASSUME NEW reserved, NEW required
  PROVE  deriveReserveStatus(reserved, required) =
           IF reserved = 0 THEN "unreserved"
           ELSE IF reserved = required THEN "ready"
           ELSE IF reserved > required THEN "over_reserved" ELSE "partially_reserved"
  <1> DEFINE p1 == reserved = 0
             p2 == reserved = required
             p3 == reserved > required
  <1>1. deriveReserveStatus(reserved, required) =
          FirstOf(<< <<p1, "unreserved">>, <<p2, "ready">>, <<p3, "over_reserved">> >>, "partially_reserved")
    BY DEF deriveReserveStatus
  <1> HIDE DEF p1, p2, p3
  <1>2. deriveReserveStatus(reserved, required) =
          IF p1 THEN "unreserved" ELSE IF p2 THEN "ready" ELSE IF p3 THEN "over_reserved" ELSE "partially_reserved"
    BY <1>1, ThreeChecks
  <1>3. QED
    BY <1>2, Zenon DEF p1, p2, p3

\* What an obligation that blocks nothing was told.
LEMMA NothingBlocks ==
  ASSUME NEW ob, NEW b, NEW buffer \in Nat, NEW pre, ob.required \in Nat, AnyBalance(b),
         assetCheck(ob, b, buffer, pre).blockers = {}
  PROVE  /\ ~ob.suspended /\ ob.allowlisted /\ ~b.locked /\ ~b.expired
         /\ shortfall(b.available, ob.required) = 0
         /\ pre => b.reserved > 0 /\ b.reserved >= ob.required
         /\ assetCheck(ob, b, buffer, pre).funds \in {"low", "sufficient"}
         /\ assetCheck(ob, b, buffer, pre).reserve \notin {"locked", "expired"}
  <1> DEFINE c == assetCheck(ob, b, buffer, pre)
             funds == deriveBalanceStatus(b.available, ob.required, buffer)
             own == deriveReserveStatus(b.reserved, ob.required)
             reserve == FirstOf(<< <<b.locked, "locked">>, <<b.expired, "expired">> >>, own)
             loose == reserve \in {"unreserved", "partially_reserved"}
             p2 == ~ob.suspended /\ ~ob.allowlisted
             p3 == funds \in {"insufficient", "zero"}
             p4 == reserve \in {"locked", "expired"}
             p5 == loose /\ pre
  <1>1. c.funds = funds /\ c.reserve = reserve
    BY DEF assetCheck
  <1>2. c.blockers = AllOf(<< <<ob.suspended, "suspended">>, <<p2, "unsupported">>, <<p3, "insufficient">>, <<p4, reserve>>, <<p5, "pre_reservation">> >>)
    BY DEF assetCheck
  <1>3. funds = IF b.available <= 0 /\ ob.required > 0 THEN "zero" ELSE IF b.available < ob.required THEN "insufficient"
                ELSE IF buffer > 0 /\ b.available < (ob.required * (Percent + buffer)) \div Percent THEN "low" ELSE "sufficient"
    BY FundsAre
  <1>4. own = IF b.reserved = 0 THEN "unreserved" ELSE IF b.reserved = ob.required THEN "ready"
              ELSE IF b.reserved > ob.required THEN "over_reserved" ELSE "partially_reserved"
    BY ReserveIs
  <1> HIDE DEF own
  <1>5. reserve = IF b.locked THEN "locked" ELSE IF b.expired THEN "expired" ELSE own
    BY TwoChecks
  <1> HIDE DEF funds, reserve
  <1>6. ~ob.suspended /\ ~p2 /\ ~p3 /\ ~p4 /\ ~p5
    <2> HIDE DEF c, p2, p3, p4, p5
    <2>1. AllOf(<< <<ob.suspended, "suspended">>, <<p2, "unsupported">>, <<p3, "insufficient">>, <<p4, reserve>>, <<p5, "pre_reservation">> >>) = {}
      BY <1>2 DEF c
    <2>2. QED
      BY <2>1, FiveCollected
  <1>7. ~b.locked /\ ~b.expired /\ reserve = own
    BY <1>5, <1>6
  <1>8. shortfall(b.available, ob.required) = 0
    BY <1>3, <1>6 DEF shortfall, AnyBalance
  <1>9. pre => b.reserved > 0 /\ b.reserved >= ob.required
    BY <1>4, <1>6, <1>7 DEF AnyBalance
  <1>10. funds \in {"low", "sufficient"}
    BY <1>3, <1>6
  <1>11. QED
    BY <1>1, <1>6, <1>7, <1>8, <1>9, <1>10

\* The overall status of a balance and of a reserve as chains of conditions.
LEMMA OverallStatus ==
  ASSUME NEW checks
  PROVE  /\ resolveAggregateBalanceStatus(checks) =
              IF checks = <<>> THEN "unknown" ELSE IF \E k \in DOMAIN checks : checks[k].funds = "insufficient" THEN "insufficient"
              ELSE IF \E k \in DOMAIN checks : checks[k].funds = "zero" THEN "zero"
              ELSE IF \E k \in DOMAIN checks : checks[k].funds = "low" THEN "low" ELSE "sufficient"
         /\ resolveAggregateReserveStatus(checks) \in {"locked", "expired"} =>
              \E k \in DOMAIN checks : checks[k].reserve \in {"locked", "expired"}
  <1> DEFINE p1 == checks = <<>>
             f(s) == \E k \in DOMAIN checks : checks[k].funds = s
             p2 == f("insufficient")
             p3 == f("zero")
             p4 == f("low")
             q(s) == \E k \in DOMAIN checks : checks[k].reserve = s
             q2 == q("locked")
             q3 == q("expired")
             q4 == \A k \in DOMAIN checks : checks[k].reserve \in {"ready", "over_reserved"}
             q5 == q("partially_reserved")
  <1>1. resolveAggregateBalanceStatus(checks) = FirstOf(<< <<p1, "unknown">>, <<p2, "insufficient">>, <<p3, "zero">>, <<p4, "low">> >>, "sufficient")
    BY Zenon DEF resolveAggregateBalanceStatus, Some
  <1>2. resolveAggregateReserveStatus(checks) =
          FirstOf(<< <<p1, "unreserved">>, <<q2, "locked">>, <<q3, "expired">>, <<q4, "ready">>, <<q5, "partially_reserved">> >>, "unreserved")
    BY Zenon DEF resolveAggregateReserveStatus, Some, Every
  <1> HIDE DEF p1, p2, p3, p4, q2, q3, q4, q5
  <1>3. resolveAggregateBalanceStatus(checks) =
          IF p1 THEN "unknown" ELSE IF p2 THEN "insufficient" ELSE IF p3 THEN "zero" ELSE IF p4 THEN "low" ELSE "sufficient"
    BY <1>1, FourChecks
  <1>4. resolveAggregateReserveStatus(checks) =
          IF p1 THEN "unreserved" ELSE IF q2 THEN "locked" ELSE IF q3 THEN "expired" ELSE IF q4 THEN "ready"
          ELSE IF q5 THEN "partially_reserved" ELSE "unreserved"
    BY <1>2, FiveChecks
  <1>5. resolveAggregateReserveStatus(checks) \in {"locked", "expired"} => q2 \/ q3
    BY <1>4
  <1>6. QED
    BY <1>3, <1>5, Zenon DEF p1, p2, p3, p4, q2, q3

\* The state of the asset an obligation is in.
BalanceOf(i, ob) == IF ob.asset \in DOMAIN i.balances THEN i.balances[ob.asset] ELSE NoBalance

\* What a payroll reported ready can be paid from, whatever its obligations and balances are.
LEMMA AnyReadyIsFunded ==
  ASSUME NEW i, AnyReadiness(i), isReady(Readiness(i))
  PROVE  /\ \A ob \in ToSet(i.obligations) :
              /\ ob.allowlisted /\ ~ob.suspended /\ ~BalanceOf(i, ob).locked /\ ~BalanceOf(i, ob).expired
              /\ shortfall(BalanceOf(i, ob).available, ob.required) = 0
              /\ i.pre => BalanceOf(i, ob).reserved > 0 /\ BalanceOf(i, ob).reserved >= ob.required
         /\ resolveAggregateBalanceStatus(Readiness(i).checks) \in {"low", "sufficient"}
         /\ resolveAggregateReserveStatus(Readiness(i).checks) \notin {"locked", "expired"}
         /\ i.strict => resolveAggregateBalanceStatus(Readiness(i).checks) = "sufficient"
  <1> DEFINE obs == i.obligations
             check(k) == assetCheck(obs[k], BalanceOf(i, obs[k]), i.buffer, i.pre)
             checks == [k \in DOMAIN obs |-> check(k)]
             blocked == \E k \in DOMAIN checks : checks[k].blockers # {}
             cautioned == \E k \in DOMAIN checks : checks[k].warnings # {}
  <1>1. Readiness(i) = [level |-> IF blocked \/ (i.strict /\ cautioned) THEN "blocked" ELSE IF cautioned THEN "warning" ELSE "ready",
                        checks |-> checks]
    BY Zenon DEF Readiness, evaluateTreasuryReadiness, BalanceOf, Some
  <1> HIDE DEF blocked, cautioned, checks
  <1>2. ~blocked /\ (i.strict => ~cautioned) /\ Readiness(i).checks = checks
    BY <1>1 DEF isReady
  <1>3. DOMAIN checks = DOMAIN obs /\ \A k \in DOMAIN obs : checks[k] = check(k) /\ check(k).blockers = {}
    BY <1>2 DEF checks, blocked
  <1> HIDE DEF check
  <1>4. \A k \in DOMAIN obs : AnyBalance(BalanceOf(i, obs[k])) /\ obs[k].required \in Nat
    BY DEF AnyReadiness, BalanceOf, AnyBalance, NoBalance
  <1>5. ASSUME NEW k \in DOMAIN obs
        PROVE  /\ ~obs[k].suspended /\ obs[k].allowlisted /\ ~BalanceOf(i, obs[k]).locked /\ ~BalanceOf(i, obs[k]).expired
               /\ shortfall(BalanceOf(i, obs[k]).available, obs[k].required) = 0
               /\ i.pre => BalanceOf(i, obs[k]).reserved > 0 /\ BalanceOf(i, obs[k]).reserved >= obs[k].required
               /\ check(k).funds \in {"low", "sufficient"}
               /\ check(k).reserve \notin {"locked", "expired"}
    <2> DEFINE ob == obs[k]
               b == BalanceOf(i, obs[k])
    <2>1. i.buffer \in Nat /\ ob.required \in Nat /\ AnyBalance(b) /\ assetCheck(ob, b, i.buffer, i.pre).blockers = {}
      BY <1>3, <1>4 DEF AnyReadiness, check
    <2> HIDE DEF ob, b
    <2>2. /\ ~ob.suspended /\ ob.allowlisted /\ ~b.locked /\ ~b.expired
          /\ shortfall(b.available, ob.required) = 0
          /\ i.pre => b.reserved > 0 /\ b.reserved >= ob.required
          /\ assetCheck(ob, b, i.buffer, i.pre).funds \in {"low", "sufficient"}
          /\ assetCheck(ob, b, i.buffer, i.pre).reserve \notin {"locked", "expired"}
      BY <2>1, NothingBlocks
    <2>3. QED
      BY <2>2 DEF ob, b, check
  <1>6. \A ob \in ToSet(obs) : \E k \in DOMAIN obs : ob = obs[k]
    BY DEF ToSet
  <1>7. checks # <<>>
    <2>1. obs # <<>> /\ DOMAIN obs # {}
      BY DEF AnyReadiness
    <2>2. QED
      BY <1>3, <2>1
  <1>8. i.strict => \A k \in DOMAIN obs : check(k).funds # "low"
    <2> SUFFICES ASSUME i.strict, NEW k \in DOMAIN obs PROVE check(k).funds # "low"
      OBVIOUS
    <2>1. check(k).warnings = {}
      BY <1>2, <1>3 DEF cautioned
    <2> DEFINE c == check(k)
               p1 == c.funds = "low"
               p2 == c.reserve \in {"unreserved", "partially_reserved"} /\ ~i.pre
    <2>2. c.warnings = AllOf(<< <<p1, "low">>, <<p2, "unreserved">> >>)
      BY DEF check, assetCheck
    <2>3. c.warnings = {}
      BY <2>1
    <2> HIDE DEF c, p1, p2
    <2>4. ~p1
      BY <2>2, <2>3, TwoCollected
    <2>5. QED
      BY <2>4 DEF c, p1
  <1>9. /\ resolveAggregateBalanceStatus(checks) \in {"low", "sufficient"}
        /\ resolveAggregateReserveStatus(checks) \notin {"locked", "expired"}
        /\ i.strict => resolveAggregateBalanceStatus(checks) = "sufficient"
    BY <1>3, <1>5, <1>7, <1>8, OverallStatus
  <1>10. QED
    BY <1>2, <1>5, <1>6, <1>9

\* Whether an account can hold an asset as a chain of conditions.
LEMMA SupportIs ==
  ASSUME NEW a, NEW trust
  PROVE  deriveSupportStatus(a, trust) =
           IF a.suspended THEN "suspended"
           ELSE IF ~a.allowlisted THEN "not_allowlisted"
           ELSE IF trust /\ ~a.trustline THEN "missing_trustline" ELSE "ready"
  <1> DEFINE p1 == a.suspended
             p2 == ~a.allowlisted
             p3 == trust /\ ~a.trustline
  <1>1. deriveSupportStatus(a, trust) =
          FirstOf(<< <<p1, "suspended">>, <<p2, "not_allowlisted">>, <<p3, "missing_trustline">> >>, "ready")
    BY DEF deriveSupportStatus
  <1> HIDE DEF p1, p2, p3
  <1>2. deriveSupportStatus(a, trust) =
          IF p1 THEN "suspended" ELSE IF p2 THEN "not_allowlisted" ELSE IF p3 THEN "missing_trustline" ELSE "ready"
    BY <1>1, ThreeChecks
  <1>3. QED
    BY <1>2, Zenon DEF p1, p2, p3

\* An account that can send payments, whatever its assets are.
LEMMA AnySenderIsUsable ==
  ASSUME NEW state, NEW strict \in BOOLEAN, NEW trust \in BOOLEAN, state.fee \in Int, state.minFee \in Int,
         canSendPayments(readPayerAccountStatus(state, strict, trust))
  PROVE  /\ readPayerAccountStatus(state, strict, trust).isActive /\ state.exists /\ state.fee >= state.minFee
         /\ \A a \in ToSet(state.assets) : a.allowlisted /\ ~a.suspended /\ (trust => a.trustline)
         /\ strict => readPayerAccountStatus(state, strict, trust).level = "ready"
  <1> DEFINE r == readPayerAccountStatus(state, strict, trust)
             p1 == ~state.exists
             p3 == state.fee < state.minFee
             account == FirstOf(<< <<p1, "suspended">>, <<state.suspended, "suspended">>, <<p3, "unfunded">> >>, "active")
             checks == [k \in DOMAIN state.assets |-> payerAssetCheck(state.assets[k], trust)]
             blocked == account # "active" \/ \E k \in DOMAIN checks : checks[k].blocked
             cautioned == \/ \E k \in DOMAIN checks : checks[k].warned
                          \/ checks # <<>> /\ \A k \in DOMAIN state.assets : state.assets[k].reserved = 0
  <1>1. r = [isActive |-> account = "active", accountStatus |-> account,
             level |-> IF blocked \/ (strict /\ cautioned) THEN "blocked" ELSE IF cautioned THEN "warning" ELSE "ready"]
    BY Zenon DEF readPayerAccountStatus, Some, Every
  <1>2. account = IF p1 THEN "suspended" ELSE IF state.suspended THEN "suspended" ELSE IF p3 THEN "unfunded" ELSE "active"
    <2> HIDE DEF p1, p3
    <2>1. QED
      BY ThreeChecks
  <1> HIDE DEF r, account, checks, cautioned
  <1>3. account = "active" /\ ~\E k \in DOMAIN checks : checks[k].blocked
    BY <1>1 DEF canSendPayments, r
  <1>4. r.isActive /\ (strict => r.level = "ready")
    <2>1. ~blocked
      BY <1>3
    <2> HIDE DEF blocked
    <2>2. r.level = IF blocked \/ (strict /\ cautioned) THEN "blocked" ELSE IF cautioned THEN "warning" ELSE "ready"
      BY <1>1
    <2>3. r.level # "blocked"
      BY DEF canSendPayments, r
    <2>4. strict => r.level = "ready"
      BY <2>1, <2>2, <2>3
    <2>5. QED
      BY <1>1, <1>3, <2>4
  <1>5. state.exists /\ state.fee >= state.minFee
    BY <1>2, <1>3
  <1>6. \A a \in ToSet(state.assets) : a.allowlisted /\ ~a.suspended /\ (trust => a.trustline)
    <2> SUFFICES ASSUME NEW k \in DOMAIN state.assets
                 PROVE  LET a == state.assets[k] IN a.allowlisted /\ ~a.suspended /\ (trust => a.trustline)
      BY DEF ToSet
    <2>1. ~payerAssetCheck(state.assets[k], trust).blocked
      BY <1>3 DEF checks
    <2>2. deriveSupportStatus(state.assets[k], trust) = "ready"
      BY <2>1 DEF payerAssetCheck
    <2>3. QED
      BY <2>2, SupportIs
  <1>7. QED
    BY <1>4, <1>5, <1>6 DEF r

\* Any list of reservations, with what each of them holds.
AnyReservations(list) == \E n \in Nat : DOMAIN list = 1..n /\ \A k \in 1..n : list[k].amount \in Nat

\* Whether a reservation bound to an obligation is finalized.
Finalized(ob, list) == \E r \in ToSet(list) : r.id \in ob.ids /\ r.status = "finalized"

\* What is said of one obligation.
LEMMA AnyObligationRead ==
  ASSUME NEW ob, NEW list, NEW now, ob.amount \in Nat, AnyReservations(list)
  PROVE  /\ readObligation(ob, list, now).outstanding <=> ~Finalized(ob, list)
         /\ readObligation(ob, list, now).outstanding \in BOOLEAN
         /\ readObligation(ob, list, now).risk = "none" =>
              \/ Finalized(ob, list)
              \/ readObligation(ob, list, now).reserved = 0
              \/ readObligation(ob, list, now).reserved >= ob.amount
  <1> DEFINE r == readObligation(ob, list, now)
             bound == {x \in ToSet(list) : x.id \in ob.ids}
             v == [k \in DOMAIN list |-> IF list[k].id \in ob.ids /\ list[k].status = "reserved" THEN list[k].amount ELSE 0]
             held == Total(v)
             is(s) == \E x \in bound : x.status = s
             final == is("finalized")
             holding == is("reserved")
             state == FirstOf(<< <<final, "settled">>, <<holding, "reserved">> >>, "pending")
             overdue == state # "settled" /\ ob.dueAt # -1 /\ ob.dueAt <= now
             p1 == state = "settled"
             p3 == is("expired")
             p4 == is("cancelled")
             p5 == held > 0 /\ held < ob.amount
             risk == FirstOf(<< <<p1, "none">>, <<overdue, "overdue">>, <<p3, "reservation_expired">>, <<p4, "reservation_cancelled">>,
                                <<p5, "under_reserved">> >>, "none")
  <1>1. r.reserved = held /\ r.outstanding = (state # "settled") /\ r.risk = risk
    BY Zenon DEF readObligation, SumBy
  <1>2. held \in Nat
    <2>1. PICK n \in Nat : DOMAIN list = 1..n /\ \A k \in 1..n : list[k].amount \in Nat
      BY DEF AnyReservations
    <2>2. DOMAIN v = 1..n /\ \A k \in 1..n : v[k] \in Nat
      BY <2>1
    <2> HIDE DEF v
    <2>3. QED
      BY <2>2, TotalIsAmount
  <1>3. final <=> Finalized(ob, list)
    BY Zenon DEF Finalized
  <1> HIDE DEF r, held, final, holding
  <1>4. state = IF final THEN "settled" ELSE IF holding THEN "reserved" ELSE "pending"
    BY TwoChecks
  <1> HIDE DEF state
  <1>5. risk = IF p1 THEN "none" ELSE IF overdue THEN "overdue" ELSE IF p3 THEN "reservation_expired"
               ELSE IF p4 THEN "reservation_cancelled" ELSE IF p5 THEN "under_reserved" ELSE "none"
    <2> HIDE DEF p1, overdue, p3, p4, p5
    <2>1. QED
      BY FiveChecks
  <1>6. p1 <=> final
    BY <1>4
  <1> HIDE DEF risk, overdue, p3, p4
  <1>7. risk = "none" => p1 \/ ~p5
    BY <1>5
  <1>8. r.outstanding = ~Finalized(ob, list)
    BY <1>1, <1>3, <1>6
  <1>9. r.risk = "none" => Finalized(ob, list) \/ r.reserved = 0 \/ r.reserved >= ob.amount
    BY <1>1, <1>2, <1>3, <1>6, <1>7
  <1>10. r.outstanding \in BOOLEAN
    BY <1>1
  <1>11. QED
    BY <1>8, <1>9, <1>10 DEF r

\* Obligations of some amount, bound to any reservations.
AnyObligations(i) ==
  /\ AnyReservations(i.reservations)
  /\ \E n \in Nat : DOMAIN i.obligations = 1..n
  /\ \A k \in DOMAIN i.obligations : i.obligations[k].amount \in Nat /\ i.obligations[k].amount # 0

\* What is said of all obligations, at any time.
LEMMA AnyObligationsAccounted ==
  ASSUME NEW i, NEW now, AnyObligations(i)
  PROVE  LET r == readPendingObligations(i.obligations, i.reservations, now)
         IN  /\ r.isSettled <=> \A ob \in ToSet(i.obligations) : Finalized(ob, i.reservations)
             /\ r.isSettled <=> r.totalOutstanding = 0
             /\ \A k \in DOMAIN i.obligations :
                  r.obligations[k].risk = "none" =>
                    \/ Finalized(i.obligations[k], i.reservations)
                    \/ r.obligations[k].reserved = 0 \/ r.obligations[k].reserved >= i.obligations[k].amount
  <1> DEFINE obs == i.obligations
             r == readPendingObligations(obs, i.reservations, now)
             one(k) == readObligation(obs[k], i.reservations, now)
             resolved == [k \in DOMAIN obs |-> one(k)]
             open == {k \in DOMAIN resolved : resolved[k].outstanding}
             v == [k \in DOMAIN resolved |-> IF resolved[k].outstanding THEN obs[k].amount ELSE 0]
  <1>1. r.obligations = resolved /\ r.isSettled = (open = {}) /\ r.totalOutstanding = Total(v)
    BY Zenon DEF readPendingObligations
  <1>2. ASSUME NEW k \in DOMAIN obs
        PROVE  /\ one(k).outstanding <=> ~Finalized(obs[k], i.reservations)
               /\ one(k).outstanding \in BOOLEAN
               /\ one(k).risk = "none" =>
                    Finalized(obs[k], i.reservations) \/ one(k).reserved = 0 \/ one(k).reserved >= obs[k].amount
    <2> DEFINE ob == obs[k]
    <2>1. ob.amount \in Nat /\ AnyReservations(i.reservations)
      BY DEF AnyObligations
    <2> HIDE DEF ob
    <2>2. /\ readObligation(ob, i.reservations, now).outstanding <=> ~Finalized(ob, i.reservations)
          /\ readObligation(ob, i.reservations, now).outstanding \in BOOLEAN
          /\ readObligation(ob, i.reservations, now).risk = "none" =>
               \/ Finalized(ob, i.reservations)
               \/ readObligation(ob, i.reservations, now).reserved = 0
               \/ readObligation(ob, i.reservations, now).reserved >= ob.amount
      BY <2>1, AnyObligationRead
    <2>3. QED
      BY <2>2 DEF ob
  <1> HIDE DEF one, r
  <1>3. DOMAIN resolved = DOMAIN obs /\ \A k \in DOMAIN obs : resolved[k] = one(k)
    OBVIOUS
  <1> HIDE DEF resolved
  <1>4. open = {} <=> \A k \in DOMAIN obs : Finalized(obs[k], i.reservations)
    BY <1>2, <1>3
  <1>5. (\A ob \in ToSet(obs) : Finalized(ob, i.reservations)) <=> \A k \in DOMAIN obs : Finalized(obs[k], i.reservations)
    BY DEF ToSet
  <1>6. open = {} <=> Total(v) = 0
    <2>1. PICK n \in Nat : DOMAIN obs = 1..n
      BY DEF AnyObligations
    <2>2. DOMAIN v = 1..n /\ \A k \in 1..n : v[k] = IF resolved[k].outstanding THEN obs[k].amount ELSE 0
      BY <1>3, <2>1
    <2> HIDE DEF v
    <2>3. \A k \in 1..n : v[k] \in Nat /\ (v[k] = 0 <=> ~resolved[k].outstanding)
      BY <2>1, <2>2 DEF AnyObligations
    <2>4. /\ \A k \in 1..n : v[k] <= Total(v)
          /\ (\A k \in 1..n : v[k] = 0) => Total(v) = 0
      BY <2>2, <2>3, TotalIsAmount
    <2>5. Total(v) = 0 => \A k \in 1..n : v[k] = 0
      BY <2>3, <2>4
    <2>6. open = {} <=> \A k \in 1..n : v[k] = 0
      BY <1>3, <2>1, <2>3
    <2>7. QED
      BY <2>4, <2>5, <2>6
  <1> HIDE DEF open, v
  <1>7. /\ r.isSettled <=> \A ob \in ToSet(obs) : Finalized(ob, i.reservations)
        /\ r.isSettled <=> r.totalOutstanding = 0
    BY <1>1, <1>4, <1>5, <1>6
  <1>8. \A k \in DOMAIN obs : r.obligations[k].risk = "none" =>
          Finalized(obs[k], i.reservations) \/ r.obligations[k].reserved = 0 \/ r.obligations[k].reserved >= obs[k].amount
    BY <1>1, <1>2, <1>3
  <1>9. QED
    BY <1>7, <1>8 DEF r

\* Any list of checkpoints.
AnyCheckpoints(raws) ==
  /\ \E n \in Nat : DOMAIN raws = 1..n
  /\ \E Statuses : \A k \in DOMAIN raws : raws[k] \in [allocated : Int, disbursed : Int, status : Statuses]

\* A reconciled report of any checkpoints balances, in total and one by one.
LEMMA AnyReportBalances ==
  ASSUME NEW raws, AnyCheckpoints(raws), generateTreasuryReconciliationReport(raws).isReconciled
  PROVE  /\ SumBy(LAMBDA c : c.allocated, raws) = SumBy(LAMBDA c : c.disbursed, raws)
         /\ \A c \in ToSet(raws) : c.status = "" => c.allocated = c.disbursed
  <1> DEFINE one(k) == parseTreasuryCheckpoint(raws[k])
             checkpoints == [k \in DOMAIN raws |-> one(k)]
             taken(s) == [k \in DOMAIN s |-> s[k].allocated]
             spent(s) == [k \in DOMAIN s |-> s[k].disbursed]
             variance == Total(taken(checkpoints)) - Total(spent(checkpoints))
  <1>1. variance = 0 /\ \A k \in DOMAIN checkpoints : checkpoints[k].status = "verified"
    BY Zenon DEF generateTreasuryReconciliationReport, SumBy, Every
  <1>2. \A k \in DOMAIN raws : one(k).allocated = raws[k].allocated /\ one(k).disbursed = raws[k].disbursed
                                /\ (raws[k].status = "" /\ one(k).status = "verified" => raws[k].allocated = raws[k].disbursed)
    BY DEF parseTreasuryCheckpoint, AnyCheckpoints
  <1> HIDE DEF one
  <1>3. DOMAIN checkpoints = DOMAIN raws /\ \A k \in DOMAIN raws : checkpoints[k] = one(k)
    OBVIOUS
  <1> HIDE DEF checkpoints
  <1>4. taken(checkpoints) = taken(raws) /\ spent(checkpoints) = spent(raws)
    BY <1>2, <1>3
  <1>5. Total(taken(raws)) \in Int /\ Total(spent(raws)) \in Int
    <2>1. PICK n \in Nat : DOMAIN raws = 1..n
      BY DEF AnyCheckpoints
    <2>2. /\ DOMAIN taken(raws) = 1..n /\ \A k \in 1..n : taken(raws)[k] \in Int
          /\ DOMAIN spent(raws) = 1..n /\ \A k \in 1..n : spent(raws)[k] \in Int
      BY <2>1 DEF AnyCheckpoints
    <2> HIDE DEF taken, spent
    <2>3. QED
      BY <2>2, TotalIsInteger
  <1>6. Total(taken(raws)) = Total(spent(raws))
    <2> HIDE DEF taken, spent
    <2>1. QED
      BY <1>1, <1>4, <1>5
  <1>7. \A c \in ToSet(raws) : c.status = "" => c.allocated = c.disbursed
    BY <1>1, <1>2, <1>3 DEF ToSet
  <1>8. QED
    BY Zenon, <1>6, <1>7 DEF SumBy

-----------------------------------------------------------------------------
(***************************************************************************)
(* reconciliation/: the observation that counts for a key, the entries of  *)
(* a diff and how many of them are of each category.                       *)
(***************************************************************************)
\* Any observations.
AnyObserved(o) == /\ \E n \in Nat : DOMAIN o = 1..n
                  /\ \A k \in DOMAIN o : o[k].at \in Int /\ o[k].status \in {"confirmed", "failed", "not_found"}

\* The places of the last observation of a key: the latest, of those the first.
LastOf(o, key) ==
  {k \in DOMAIN o : /\ o[k].key = key
                    /\ \A j \in DOMAIN o : o[j].key = key => o[j].at < o[k].at \/ (o[j].at = o[k].at /\ k <= j)}

\* A key that is observed at all is observed last somewhere.
LEMMA SomethingIsNewest ==
  ASSUME NEW o, AnyObserved(o), NEW mine \in SUBSET DOMAIN o, mine # {}
  PROVE  \E k \in mine : \A j \in mine : o[j].at <= o[k].at
  <1>1. PICK n \in Nat : DOMAIN o = 1..n
    BY DEF AnyObserved
  <1>2. \A k \in mine : k \in 1..n /\ o[k].at \in Int
    BY <1>1 DEF AnyObserved
  <1> DEFINE early(k) == {j \in mine : j <= k}
             fine == {k \in 0..n : early(k) = {} \/ \E i \in early(k) : \A j \in early(k) : o[j].at <= o[i].at}
  <1>3. 0 \in fine
    BY <1>2
  <1>4. \A k \in 1..n : k - 1 \in fine => k \in fine
    <2> SUFFICES ASSUME NEW k \in 1..n, k - 1 \in fine PROVE k \in fine
      OBVIOUS
    <2>1. \A j \in early(k) : j = k \/ j \in early(k - 1)
      BY <1>2
    <2>2. \A j \in early(k - 1) : j \in early(k)
      BY <1>2
    <2>3. CASE k \notin mine
      <3>1. early(k) = early(k - 1)
        BY <2>1, <2>2, <2>3
      <3> HIDE DEF early
      <3>2. QED
        BY <3>1
    <2>4. CASE k \in mine /\ early(k - 1) = {}
      <3>1. \A j \in early(k) : j = k
        BY <2>1, <2>4
      <3>2. k \in early(k) /\ o[k].at <= o[k].at
        BY <1>2, <2>4
      <3> HIDE DEF early
      <3>3. QED
        BY <3>1, <3>2
    <2>5. CASE k \in mine /\ early(k - 1) # {}
      <3>1. PICK i \in early(k - 1) : \A j \in early(k - 1) : o[j].at <= o[i].at
        BY <2>5
      <3>2. i \in early(k) /\ k \in early(k) /\ o[i].at \in Int /\ o[k].at \in Int /\ \A j \in early(k - 1) : o[j].at \in Int
        BY <1>2, <2>2, <2>5, <3>1
      <3> HIDE DEF early
      <3>3. CASE o[k].at <= o[i].at
        BY <2>1, <3>1, <3>2, <3>3
      <3>4. CASE o[i].at <= o[k].at
        <4>1. \A j \in early(k - 1) : o[j].at <= o[k].at
          BY <3>1, <3>2, <3>4
        <4>2. QED
          BY <2>1, <3>2, <4>1
      <3>5. QED
        BY <3>2, <3>3, <3>4
    <2>6. QED
      BY <2>3, <2>4, <2>5
  <1>5. n \in fine
    <2> HIDE DEF fine
    <2>1. QED
      BY <1>3, <1>4, AnyTotal
  <1>6. early(n) = mine
    BY <1>2
  <1>7. QED
    BY <1>5, <1>6

\* The observation taken for a key is the last one.
LEMMA LatestIs ==
  ASSUME NEW o, AnyObserved(o), NEW key
  PROVE  \/ LastOf(o, key) = {} /\ Latest(o, key) = NotObserved
         \/ \E k \in DOMAIN o : LastOf(o, key) = {k} /\ Latest(o, key) = o[k] /\ o[k].key = key
  <1> DEFINE mine == {k \in DOMAIN o : o[k].key = key}
             newest == {k \in mine : \A j \in mine : o[j].at <= o[k].at}
             found == Min(newest)
  <1>1. CASE mine = {}
    BY <1>1 DEF Latest, LastOf
  <1>2. CASE mine # {}
    <2>1. newest # {}
      <3>1. mine \in SUBSET DOMAIN o
        OBVIOUS
      <3> HIDE DEF mine
      <3>2. QED
        BY <1>2, <3>1, SomethingIsNewest
    <2>2. newest \in SUBSET Nat
      BY DEF AnyObserved
    <2>3. found \in newest /\ \A k \in newest : found <= k
      <3> HIDE DEF newest
      <3>1. QED
        BY <2>1, <2>2, Smallest
    <2>4. Latest(o, key) = o[found]
      BY <1>2 DEF Latest
    <2>5. \A k \in mine : k \in Nat /\ o[k].at \in Int
      BY DEF AnyObserved
    <2> HIDE DEF found
    <2>6. found \in LastOf(o, key)
      <3> SUFFICES ASSUME NEW j \in mine PROVE o[j].at < o[found].at \/ (o[j].at = o[found].at /\ found <= j)
        BY <2>3 DEF LastOf
      <3>1. o[j].at <= o[found].at /\ o[j].at \in Int /\ o[found].at \in Int
        BY <2>3, <2>5
      <3>2. o[j].at = o[found].at => j \in newest
        BY <2>3
      <3>3. QED
        BY <2>3, <3>1, <3>2
    <2>7. \A k \in LastOf(o, key) : k = found
      <3> SUFFICES ASSUME NEW k \in LastOf(o, key) PROVE k = found
        OBVIOUS
      <3>1. k \in mine /\ found \in mine
        BY <2>3 DEF LastOf
      <3>2. o[found].at < o[k].at \/ (o[found].at = o[k].at /\ k <= found)
        BY <3>1 DEF LastOf
      <3>3. o[k].at < o[found].at \/ (o[k].at = o[found].at /\ found <= k)
        BY <2>6, <3>1 DEF LastOf
      <3>4. QED
        BY <2>5, <3>1, <3>2, <3>3
    <2>8. QED
      BY <2>3, <2>4, <2>6, <2>7
  <1>3. QED
    BY <1>1, <1>2

\* The category of an expected payment as a chain of conditions.
LEMMA DiffOneIs ==
  ASSUME NEW e, NEW o
  PROVE  diffOne(e, o) =
           IF e.status = "pending" THEN "still_pending"
           ELSE IF o.status = "not_found" THEN "missing"
           ELSE IF (e.status = "success") # (o.status = "confirmed") THEN "failed_mismatch"
           ELSE IF o.status = "confirmed" /\ o.amount # 0 /\ o.amount # e.amount THEN "amount_mismatch" ELSE "match"
  <1> DEFINE p1 == e.status = "pending"
             p2 == o.status = "not_found"
             p3 == (e.status = "success") # (o.status = "confirmed")
             p4 == o.status = "confirmed" /\ o.amount # 0 /\ o.amount # e.amount
  <1>1. diffOne(e, o) =
          FirstOf(<< <<p1, "still_pending">>, <<p2, "missing">>, <<p3, "failed_mismatch">>, <<p4, "amount_mismatch">> >>, "match")
    BY DEF diffOne
  <1> HIDE DEF p1, p2, p3, p4
  <1>2. diffOne(e, o) =
          IF p1 THEN "still_pending" ELSE IF p2 THEN "missing" ELSE IF p3 THEN "failed_mismatch" ELSE IF p4 THEN "amount_mismatch" ELSE "match"
    BY <1>1, FourChecks
  <1>3. QED
    BY <1>2, Zenon DEF p1, p2, p3, p4

\* Expected payments, each under a key, and any observations.
AnyRecon(e, o) ==
  /\ \E n \in Nat : \E S : e \in Seq(S) /\ DOMAIN e = 1..n
  /\ \A k \in DOMAIN e : e[k].key # Nil /\ e[k].status \in {"success", "failure", "pending"}
  /\ AnyObserved(o)

\* How many places satisfy something, in a sequence of any length.
LEMMA PlacesCounted ==
  ASSUME NEW n \in Nat, NEW S \in SUBSET (1..n)
  PROVE  IsFiniteSet(S) /\ Cardinality(S) \in Nat /\ (Cardinality(S) = 0 <=> S = {})
  <1>1. IsFiniteSet(1..n)
    BY FS_Interval
  <1>2. IsFiniteSet(S)
    BY <1>1, FS_Subset
  <1>3. QED
    BY <1>2, FS_CardinalityType, FS_EmptySet

\* The entries of a diff: one for each expected payment, then one for each unexpected one.
LEMMA DiffHas ==
  ASSUME NEW e, NEW o, AnyRecon(e, o)
  PROVE  \E m, n \in Nat :
           /\ DOMAIN e = 1..m
           /\ DOMAIN generateReconciliationDiff(e, o) = 1..(m + n) /\ Len(generateReconciliationDiff(e, o)) = m + n
           /\ \A k \in 1..m : generateReconciliationDiff(e, o)[k] = diffOne(e[k], Latest(o, e[k].key))
           /\ \A k \in (m + 1)..(m + n) : generateReconciliationDiff(e, o)[k] = "unexpected"
           /\ n = 0 <=> \A k \in DOMAIN o : ~isUnexpected(e, o[k])
  <1> DEFINE foreign == {k \in DOMAIN o : isUnexpected(e, o[k])}
             n == Cardinality(foreign)
             own == [k \in DOMAIN e |-> diffOne(e[k], Latest(o, e[k].key))]
             others == [k \in 1..n |-> "unexpected"]
  <1>1. PICK m \in Nat : DOMAIN e = 1..m
    BY DEF AnyRecon
  <1>2. n \in Nat /\ (n = 0 <=> foreign = {})
    <2>1. PICK l \in Nat : DOMAIN o = 1..l
      BY DEF AnyRecon, AnyObserved
    <2>2. foreign \in SUBSET (1..l)
      BY <2>1
    <2> HIDE DEF foreign
    <2>3. QED
      BY <2>2, PlacesCounted
  <1>3. generateReconciliationDiff(e, o) = own \o others
    BY Zenon DEF generateReconciliationDiff, Count
  <1>4. n = 0 <=> \A k \in DOMAIN o : ~isUnexpected(e, o[k])
    BY <1>2
  <1> HIDE DEF n, foreign
  <1>5. /\ DOMAIN own = 1..m /\ \A k \in 1..m : own[k] = diffOne(e[k], Latest(o, e[k].key))
        /\ own = [k \in 1..m |-> own[k]]
    BY <1>1
  <1>6. DOMAIN others = 1..n /\ \A k \in 1..n : others[k] = "unexpected"
    OBVIOUS
  <1>7. own \in Seq({own[k] : k \in 1..m}) /\ Len(own) = m /\ others \in Seq({"unexpected"}) /\ Len(others) = n
    BY <1>2, <1>5
  <1> HIDE DEF own, others
  <1>8. Len(own \o others) = m + n /\ DOMAIN (own \o others) = 1..(m + n)
    BY <1>2, <1>7
  <1>9. \A k \in 1..m : (own \o others)[k] = own[k]
    BY <1>2, <1>7
  <1>10. \A k \in (m + 1)..(m + n) : (own \o others)[k] = others[k - m] /\ k - m \in 1..n
    BY <1>2, <1>7
  <1>11. QED
    BY <1>1, <1>2, <1>3, <1>4, <1>5, <1>6, <1>8, <1>9, <1>10

\* A run is fully reconciled exactly when its payments and the chain agree one by one.
LEMMA AnyFullyReconciled ==
  ASSUME NEW e, NEW o, AnyRecon(e, o)
  PROVE  isFullyReconciled(generateReconciliationDiff(e, o)) <=>
           /\ \A x \in ToSet(e) :
                /\ x.status = "success" =>
                     \E k \in LastOf(o, x.key) : o[k].status = "confirmed" /\ o[k].amount \in {0, x.amount}
                /\ x.status = "failure" => \E k \in LastOf(o, x.key) : o[k].status = "failed"
           /\ \A y \in ToSet(o) : y.status # "not_found" => \E x \in ToSet(e) : x.key = y.key
  <1> DEFINE diff == generateReconciliationDiff(e, o)
             right(x) == /\ x.status = "success" =>
                              \E k \in LastOf(o, x.key) : o[k].status = "confirmed" /\ o[k].amount \in {0, x.amount}
                         /\ x.status = "failure" => \E k \in LastOf(o, x.key) : o[k].status = "failed"
  <1>1. PICK m, n \in Nat :
           /\ DOMAIN e = 1..m
           /\ DOMAIN diff = 1..(m + n)
           /\ \A k \in 1..m : diff[k] = diffOne(e[k], Latest(o, e[k].key))
           /\ \A k \in (m + 1)..(m + n) : diff[k] = "unexpected"
           /\ n = 0 <=> \A k \in DOMAIN o : ~isUnexpected(e, o[k])
    BY DiffHas
  <1>2. isFullyReconciled(diff) <=> \A k \in DOMAIN diff : diff[k] \in {"match", "still_pending"}
    BY DEF isFullyReconciled, Every
  <1> HIDE DEF diff
  <1>3. isFullyReconciled(diff) <=> n = 0 /\ \A k \in 1..m : diff[k] \in {"match", "still_pending"}
    <2>1. \A k \in 1..(m + n) : k \in 1..m \/ k \in (m + 1)..(m + n)
      OBVIOUS
    <2>2. \A k \in 1..m : k \in 1..(m + n)
      OBVIOUS
    <2>3. n # 0 => m + n \in (m + 1)..(m + n) /\ m + n \in 1..(m + n)
      OBVIOUS
    <2>4. QED
      BY <1>1, <1>2, <2>1, <2>2, <2>3
  <1>4. ASSUME NEW k \in 1..m
        PROVE  diff[k] \in {"match", "still_pending"} <=> right(e[k])
    <2> DEFINE x == e[k]
               last == Latest(o, x.key)
    <2>1. x.status \in {"success", "failure", "pending"}
      BY <1>1 DEF AnyRecon
    <2>2. diff[k] = diffOne(x, last)
      BY <1>1
    <2>3. \/ LastOf(o, x.key) = {} /\ last.status = "not_found"
          \/ \E j \in DOMAIN o : LastOf(o, x.key) = {j} /\ last = o[j] /\ o[j].status \in {"confirmed", "failed", "not_found"}
      <3>1. AnyObserved(o)
        BY DEF AnyRecon
      <3>2. \A j \in DOMAIN o : o[j].status \in {"confirmed", "failed", "not_found"}
        BY <3>1 DEF AnyObserved
      <3>3. NotObserved.status = "not_found"
        BY DEF NotObserved
      <3> DEFINE sought == x.key
      <3> HIDE DEF sought
      <3>4. \/ LastOf(o, sought) = {} /\ Latest(o, sought) = NotObserved
            \/ \E j \in DOMAIN o : LastOf(o, sought) = {j} /\ Latest(o, sought) = o[j]
        BY <3>1, LatestIs
      <3>5. QED
        BY <3>2, <3>3, <3>4 DEF sought
    <2> HIDE DEF x, last
    <2>4. diffOne(x, last) = IF x.status = "pending" THEN "still_pending" ELSE IF last.status = "not_found" THEN "missing"
                             ELSE IF (x.status = "success") # (last.status = "confirmed") THEN "failed_mismatch"
                             ELSE IF last.status = "confirmed" /\ last.amount # 0 /\ last.amount # x.amount THEN "amount_mismatch" ELSE "match"
      BY DiffOneIs
    <2>5. CASE LastOf(o, x.key) = {} /\ last.status = "not_found"
      BY <2>1, <2>2, <2>4, <2>5 DEF x
    <2>6. ASSUME NEW j \in DOMAIN o, LastOf(o, x.key) = {j}, last = o[j], o[j].status \in {"confirmed", "failed", "not_found"}
          PROVE  diff[k] \in {"match", "still_pending"} <=> right(x)
      <3>1. right(x) <=> /\ x.status = "success" => last.status = "confirmed" /\ last.amount \in {0, x.amount}
                         /\ x.status = "failure" => last.status = "failed"
        BY <2>6
      <3>2. last.status \in {"confirmed", "failed", "not_found"}
        BY <2>6
      <3>3. QED
        BY <2>1, <2>2, <2>4, <3>1, <3>2
    <2>7. QED
      BY <2>3, <2>5, <2>6 DEF x
  <1> HIDE DEF right
  <1>5. (\A x \in ToSet(e) : right(x)) <=> \A k \in 1..m : right(e[k])
    BY <1>1 DEF ToSet
  <1>6. n = 0 <=> \A y \in ToSet(o) : y.status # "not_found" => \E x \in ToSet(e) : x.key = y.key
    <2>1. \A k \in DOMAIN o : ~isUnexpected(e, o[k]) <=> (o[k].status # "not_found" => \E j \in DOMAIN e : e[j].key = o[k].key)
      BY DEF isUnexpected, Some, AnyRecon
    <2>2. QED
      BY <1>1, <2>1 DEF ToSet
  <1>7. QED
    BY <1>3, <1>4, <1>5, <1>6 DEF diff, right

\* A diff, and how many of its entries are of a category.
AllCategories == {"match", "missing", "failed_mismatch", "amount_mismatch", "still_pending", "unexpected"}
AnyDiff(diff, l) == l \in Nat /\ DOMAIN diff = 1..l /\ Len(diff) = l /\ \A k \in 1..l : diff[k] \in AllCategories
Of(diff, c) == Cardinality({k \in DOMAIN diff : diff[k] = c})

\* Places that are apart are counted apart.
LEMMA DisjointPlaces ==
  ASSUME NEW l \in Nat, NEW S \in SUBSET (1..l), NEW T \in SUBSET (1..l), S \cap T = {}
  PROVE  Cardinality(S \cup T) = Cardinality(S) + Cardinality(T) /\ S \cup T \in SUBSET (1..l)
  <1>1. IsFiniteSet(S) /\ IsFiniteSet(T) /\ Cardinality(S) \in Nat /\ Cardinality(T) \in Nat
    BY PlacesCounted
  <1>2. Cardinality(S \cup T) = Cardinality(S) + Cardinality(T) - Cardinality(S \cap T)
    BY <1>1, FS_Union
  <1>3. Cardinality(S \cap T) = 0
    BY FS_EmptySet
  <1>4. QED
    BY <1>1, <1>2, <1>3

\* Every entry is counted once.
LEMMA CategoriesAddUp ==
  ASSUME NEW diff, NEW l, AnyDiff(diff, l)
  PROVE  /\ \A c \in AllCategories : Of(diff, c) \in Nat /\ (Of(diff, c) = 0 <=> \A k \in 1..l : diff[k] # c)
         /\ l = Of(diff, "match") + Of(diff, "still_pending") + Of(diff, "failed_mismatch") + Of(diff, "amount_mismatch")
                + Of(diff, "missing") + Of(diff, "unexpected")
         /\ Cardinality({k \in DOMAIN diff : diff[k] \in {"amount_mismatch", "missing"}}) = Of(diff, "amount_mismatch") + Of(diff, "missing")
  <1> DEFINE at(c) == {k \in DOMAIN diff : diff[k] = c}
             s1 == at("match")
             s2 == at("still_pending")
             s3 == at("failed_mismatch")
             s4 == at("amount_mismatch")
             s5 == at("missing")
             s6 == at("unexpected")
  <1>1. l \in Nat /\ DOMAIN diff = 1..l
    BY DEF AnyDiff
  <1>2. \A c : at(c) \in SUBSET (1..l)
    BY <1>1
  <1>3. \A c : Of(diff, c) \in Nat /\ (Of(diff, c) = 0 <=> at(c) = {}) /\ Of(diff, c) = Cardinality(at(c))
    <2> TAKE c
    <2>1. Of(diff, c) = Cardinality(at(c)) /\ at(c) \in SUBSET (1..l)
      BY <1>2 DEF Of
    <2> HIDE DEF at
    <2>2. QED
      BY <1>1, <2>1, PlacesCounted
  <1>4. \A c : at(c) = {} <=> \A k \in 1..l : diff[k] # c
    BY <1>1
  <1>5. \A c, d : c # d => at(c) \cap at(d) = {}
    OBVIOUS
  <1>6. s1 \cup s2 \cup s3 \cup s4 \cup s5 \cup s6 = 1..l
    BY <1>1 DEF AnyDiff, AllCategories
  <1>7. {k \in DOMAIN diff : diff[k] \in {"amount_mismatch", "missing"}} = s4 \cup s5
    OBVIOUS
  <1>8. /\ s1 \in SUBSET (1..l) /\ s2 \in SUBSET (1..l) /\ s3 \in SUBSET (1..l) /\ s4 \in SUBSET (1..l) /\ s5 \in SUBSET (1..l)
        /\ s6 \in SUBSET (1..l)
        /\ s1 \cap s2 = {} /\ (s1 \cup s2) \cap s3 = {} /\ (s1 \cup s2 \cup s3) \cap s4 = {}
        /\ (s1 \cup s2 \cup s3 \cup s4) \cap s5 = {} /\ (s1 \cup s2 \cup s3 \cup s4 \cup s5) \cap s6 = {} /\ s4 \cap s5 = {}
    BY <1>1
  <1> HIDE DEF s1, s2, s3, s4, s5, s6
  <1>9. Cardinality(s1 \cup s2) = Cardinality(s1) + Cardinality(s2) /\ s1 \cup s2 \in SUBSET (1..l)
    BY <1>1, <1>8, DisjointPlaces
  <1>10. Cardinality(s1 \cup s2 \cup s3) = Cardinality(s1 \cup s2) + Cardinality(s3) /\ s1 \cup s2 \cup s3 \in SUBSET (1..l)
    BY <1>1, <1>8, <1>9, DisjointPlaces
  <1>11. Cardinality(s1 \cup s2 \cup s3 \cup s4) = Cardinality(s1 \cup s2 \cup s3) + Cardinality(s4)
         /\ s1 \cup s2 \cup s3 \cup s4 \in SUBSET (1..l)
    BY <1>1, <1>8, <1>10, DisjointPlaces
  <1>12. Cardinality(s1 \cup s2 \cup s3 \cup s4 \cup s5) = Cardinality(s1 \cup s2 \cup s3 \cup s4) + Cardinality(s5)
         /\ s1 \cup s2 \cup s3 \cup s4 \cup s5 \in SUBSET (1..l)
    <2> DEFINE four == s1 \cup s2 \cup s3 \cup s4
    <2>1. four \in SUBSET (1..l) /\ s5 \in SUBSET (1..l) /\ four \cap s5 = {}
      BY <1>8, <1>11
    <2> HIDE DEF four
    <2>2. Cardinality(four \cup s5) = Cardinality(four) + Cardinality(s5) /\ four \cup s5 \in SUBSET (1..l)
      BY <1>1, <2>1, DisjointPlaces
    <2>3. QED
      BY <2>2 DEF four
  <1>13. Cardinality(1..l) = Cardinality(s1 \cup s2 \cup s3 \cup s4 \cup s5) + Cardinality(s6)
    <2> DEFINE five == s1 \cup s2 \cup s3 \cup s4 \cup s5
    <2>1. five \in SUBSET (1..l) /\ s6 \in SUBSET (1..l) /\ five \cap s6 = {} /\ five \cup s6 = 1..l
      BY <1>6, <1>8, <1>12
    <2> HIDE DEF five
    <2>2. Cardinality(five \cup s6) = Cardinality(five) + Cardinality(s6)
      BY <1>1, <2>1, DisjointPlaces
    <2>3. QED
      BY <2>1, <2>2 DEF five
  <1>14. Cardinality(s4 \cup s5) = Cardinality(s4) + Cardinality(s5)
    BY <1>1, <1>8, DisjointPlaces
  <1>15. Cardinality(1..l) = l
    BY <1>1, FS_Interval
  <1>16. /\ Of(diff, "match") = Cardinality(s1) /\ Of(diff, "still_pending") = Cardinality(s2)
         /\ Of(diff, "failed_mismatch") = Cardinality(s3) /\ Of(diff, "amount_mismatch") = Cardinality(s4)
         /\ Of(diff, "missing") = Cardinality(s5) /\ Of(diff, "unexpected") = Cardinality(s6)
    BY Zenon, <1>3 DEF s1, s2, s3, s4, s5, s6
  <1>17. l = Of(diff, "match") + Of(diff, "still_pending") + Of(diff, "failed_mismatch") + Of(diff, "amount_mismatch")
             + Of(diff, "missing") + Of(diff, "unexpected")
    <2>1. /\ Of(diff, "match") \in Nat /\ Of(diff, "still_pending") \in Nat /\ Of(diff, "failed_mismatch") \in Nat
          /\ Of(diff, "amount_mismatch") \in Nat /\ Of(diff, "missing") \in Nat /\ Of(diff, "unexpected") \in Nat
      BY <1>3
    <2>2. QED
      BY <1>9, <1>10, <1>11, <1>12, <1>13, <1>15, <1>16, <2>1
  <1>18. \A c \in AllCategories : Of(diff, c) \in Nat /\ (Of(diff, c) = 0 <=> \A k \in 1..l : diff[k] # c)
    BY Zenon, <1>3, <1>4
  <1>19. QED
    BY <1>7, <1>14, <1>16, <1>17, <1>18

\* The diff of a run is a diff in this sense.
LEMMA DiffIsOfCategories ==
  ASSUME NEW e, NEW o, AnyRecon(e, o)
  PROVE  \E l \in Nat : AnyDiff(generateReconciliationDiff(e, o), l)
  <1> DEFINE diff == generateReconciliationDiff(e, o)
  <1>1. PICK m, n \in Nat :
           /\ DOMAIN e = 1..m
           /\ DOMAIN diff = 1..(m + n) /\ Len(diff) = m + n
           /\ \A k \in 1..m : diff[k] = diffOne(e[k], Latest(o, e[k].key))
           /\ \A k \in (m + 1)..(m + n) : diff[k] = "unexpected"
           /\ n = 0 <=> \A k \in DOMAIN o : ~isUnexpected(e, o[k])
    BY DiffHas
  <1> HIDE DEF diff
  <1>2. \A x, y : diffOne(x, y) \in AllCategories
    BY DiffOneIs DEF AllCategories
  <1>3. \A k \in 1..(m + n) : diff[k] \in AllCategories
    <2> SUFFICES ASSUME NEW k \in 1..(m + n) PROVE diff[k] \in AllCategories
      OBVIOUS
    <2>1. k \in 1..m \/ k \in (m + 1)..(m + n)
      OBVIOUS
    <2>2. QED
      BY <1>1, <1>2, <2>1 DEF AllCategories
  <1>4. m + n \in Nat
    OBVIOUS
  <1>5. QED
    BY <1>1, <1>3, <1>4 DEF AnyDiff, diff

\* The counts of a diff, category by category.
LEMMA CountsAre ==
  ASSUME NEW diff
  PROVE  DOMAIN counts(diff) = AllCategories /\ \A c \in AllCategories : counts(diff)[c] = Of(diff, c)
  <1>1. ToSet(Categories) = AllCategories
    <2>1. DOMAIN Categories = 1..6
      BY DEF Categories
    <2>2. /\ Categories[1] = "match" /\ Categories[2] = "missing" /\ Categories[3] = "failed_mismatch" /\ Categories[4] = "amount_mismatch"
          /\ Categories[5] = "still_pending" /\ Categories[6] = "unexpected"
      BY DEF Categories
    <2>3. ToSet(Categories) = {Categories[1], Categories[2], Categories[3], Categories[4], Categories[5], Categories[6]}
      BY <2>1 DEF ToSet
    <2>4. QED
      BY <2>2, <2>3 DEF AllCategories
  <1>2. counts(diff) = [c \in ToSet(Categories) |-> Of(diff, c)]
    BY Zenon DEF counts, Count, Of
  <1>3. QED
    BY <1>1, <1>2

\* A snapshot counts discrepancies exactly when its diff is not reconciled.
LEMMA DiscrepanciesAre ==
  ASSUME NEW diff, NEW l, AnyDiff(diff, l)
  PROVE  /\ calculateSummaryMetrics(diff).discrepancyCount =
              Of(diff, "failed_mismatch") + Of(diff, "amount_mismatch") + Of(diff, "missing") + Of(diff, "unexpected")
         /\ calculateSummaryMetrics(diff).discrepancyCount \in Nat
         /\ calculateSummaryMetrics(diff).discrepancyCount > 0 <=> ~isFullyReconciled(diff)
  <1> DEFINE d == calculateSummaryMetrics(diff).discrepancyCount
             f == Of(diff, "failed_mismatch")
             a == Of(diff, "amount_mismatch")
             m == Of(diff, "missing")
             u == Of(diff, "unexpected")
             g == Of(diff, "match")
             p == Of(diff, "still_pending")
  <1>1. counts(diff)["match"] = g /\ counts(diff)["still_pending"] = p
    BY CountsAre DEF AllCategories
  <1>2. Len(diff) = l /\ DOMAIN diff = 1..l /\ \A k \in 1..l : diff[k] \in AllCategories
    BY DEF AnyDiff
  <1>3. d = l - g - p
    BY <1>1, <1>2 DEF calculateSummaryMetrics
  <1>4. /\ f \in Nat /\ (f = 0 <=> \A k \in 1..l : diff[k] # "failed_mismatch")
        /\ a \in Nat /\ (a = 0 <=> \A k \in 1..l : diff[k] # "amount_mismatch")
        /\ m \in Nat /\ (m = 0 <=> \A k \in 1..l : diff[k] # "missing")
        /\ u \in Nat /\ (u = 0 <=> \A k \in 1..l : diff[k] # "unexpected")
        /\ g \in Nat /\ p \in Nat
        /\ l = g + p + f + a + m + u
    BY CategoriesAddUp DEF AllCategories
  <1>5. isFullyReconciled(diff) <=> \A k \in 1..l : diff[k] \in {"match", "still_pending"}
    BY <1>2 DEF isFullyReconciled, Every
  <1> HIDE DEF d, f, a, m, u, g, p
  <1>6. d = f + a + m + u /\ d \in Nat
    BY <1>3, <1>4
  <1>7. d = 0 <=> f = 0 /\ a = 0 /\ m = 0 /\ u = 0
    BY <1>4, <1>6
  <1>8. d = 0 <=> isFullyReconciled(diff)
    BY <1>2, <1>4, <1>5, <1>7 DEF AllCategories
  <1>9. QED
    BY <1>6, <1>8 DEF d, f, a, m, u

\* The status of a breakdown that nobody reviewed as a chain of conditions.
LEMMA StatusIs ==
  ASSUME NEW b
  PROVE  classifyReconciliationStatus(b, FALSE) =
           IF b.total = 0 THEN "pending"
           ELSE IF b.failed > 0 THEN "failed"
           ELSE IF b.mismatched > 0 \/ b.unexpected > 0 THEN "mismatched"
           ELSE IF b.pending = b.total THEN "pending"
           ELSE IF b.pending > 0 /\ b.matched > 0 THEN "partial"
           ELSE IF b.matched = b.total THEN "matched" ELSE "partial"
  <1> DEFINE p1 == FALSE
             p2 == b.total = 0
             p3 == b.failed > 0
             p4 == b.mismatched > 0 \/ b.unexpected > 0
             p5 == b.pending = b.total
             p6 == b.pending > 0 /\ b.matched > 0
             p7 == b.matched = b.total
  <1>1. classifyReconciliationStatus(b, FALSE) =
          FirstOf(<< <<p1, "manually_reviewed">>, <<p2, "pending">>, <<p3, "failed">>, <<p4, "mismatched">>, <<p5, "pending">>,
                     <<p6, "partial">>, <<p7, "matched">> >>, "partial")
    BY DEF classifyReconciliationStatus
  <1> HIDE DEF p1, p2, p3, p4, p5, p6, p7
  <1>2. ASSUME NEW x1, NEW x2, NEW x3, NEW x4, NEW x5, NEW x6, NEW x7, NEW o
        PROVE  FirstOf(<< <<p1, x1>>, <<p2, x2>>, <<p3, x3>>, <<p4, x4>>, <<p5, x5>>, <<p6, x6>>, <<p7, x7>> >>, o) =
                 IF p1 THEN x1 ELSE IF p2 THEN x2 ELSE IF p3 THEN x3 ELSE IF p4 THEN x4 ELSE IF p5 THEN x5 ELSE IF p6 THEN x6 ELSE IF p7 THEN x7 ELSE o
    BY SevenChecks
  <1>3. FirstOf(<< <<p1, "manually_reviewed">>, <<p2, "pending">>, <<p3, "failed">>, <<p4, "mismatched">>, <<p5, "pending">>,
                     <<p6, "partial">>, <<p7, "matched">> >>, "partial") =
          IF p1 THEN "manually_reviewed" ELSE IF p2 THEN "pending" ELSE IF p3 THEN "failed" ELSE IF p4 THEN "mismatched"
          ELSE IF p5 THEN "pending" ELSE IF p6 THEN "partial" ELSE IF p7 THEN "matched" ELSE "partial"
    BY <1>2
  <1>4. QED
    BY <1>1, <1>3, Zenon DEF p1, p2, p3, p4, p5, p6, p7

\* A breakdown has the counts of its diff.
LEMMA BreakdownIs ==
  ASSUME NEW diff, NEW l, AnyDiff(diff, l)
  PROVE  breakdownOfEntries(diff) =
           [total |-> l, matched |-> Of(diff, "match"), pending |-> Of(diff, "still_pending"), failed |-> Of(diff, "failed_mismatch"),
            mismatched |-> Of(diff, "amount_mismatch") + Of(diff, "missing"), unexpected |-> Of(diff, "unexpected")]
  <1>1. Cardinality({k \in DOMAIN diff : diff[k] \in {"amount_mismatch", "missing"}}) = Of(diff, "amount_mismatch") + Of(diff, "missing")
    BY CategoriesAddUp
  <1>2. Len(diff) = l
    BY DEF AnyDiff
  <1>3. breakdownOfEntries(diff) =
          [total |-> Len(diff), matched |-> Of(diff, "match"), pending |-> Of(diff, "still_pending"), failed |-> Of(diff, "failed_mismatch"),
           mismatched |-> Cardinality({k \in DOMAIN diff : diff[k] \in {"amount_mismatch", "missing"}}), unexpected |-> Of(diff, "unexpected")]
    BY Zenon DEF breakdownOfEntries, Count, Of
  <1>4. QED
    BY <1>1, <1>2, <1>3

\* Of the categories of a diff one is listed first, and none is ranked before it.
LEMMA SomethingListed ==
  ASSUME NEW diff, NEW l, AnyDiff(diff, l), l > 0
  PROVE  listedFirst(diff) \in ToSet(diff) /\ \A d \in ToSet(diff) : CATEGORY_RANK[listedFirst(diff)] <= CATEGORY_RANK[d]
  <1> DEFINE ranks == {CATEGORY_RANK[c] : c \in ToSet(diff)}
  <1>1. \A c \in AllCategories : CATEGORY_RANK[c] \in Nat
    BY DEF AllCategories, CATEGORY_RANK
  <1>2. ToSet(diff) \subseteq AllCategories /\ diff[1] \in ToSet(diff)
    BY DEF ToSet, AnyDiff
  <1>3. ranks \in SUBSET Nat /\ ranks # {}
    BY <1>1, <1>2
  <1>4. Min(ranks) \in ranks /\ \A y \in ranks : Min(ranks) <= y
    <2> HIDE DEF ranks
    <2>1. QED
      BY <1>3, Smallest
  <1>5. PICK c \in ToSet(diff) : Min(ranks) = CATEGORY_RANK[c]
    BY <1>4
  <1>6. \A d \in ToSet(diff) : CATEGORY_RANK[c] <= CATEGORY_RANK[d]
    BY <1>4, <1>5
  <1>7. QED
    BY Zenon, <1>6 DEF listedFirst

\* All of a diff's entries being matches, its share of matches is a hundred per cent.
LEMMA AllMatched ==
  ASSUME NEW l \in Nat, l > 0
  PROVE  (200 * l + l) \div (2 * l) = 100
  <1>1. 200 * l + l = (2 * l) * 100 + l
    OBVIOUS
  <1>2. 0 <= l /\ l < 2 * l
    OBVIOUS
  <1>3. QED
    BY <1>1, <1>2

\* Classifier, counts, diff and snapshot agree about any diff.
LEMMA AnyVerdictsAgree ==
  ASSUME NEW diff, NEW l, AnyDiff(diff, l)
  PROVE  LET b == breakdownOfEntries(diff)
             action == isReconciliationActionRequired(classifyReconciliationStatus(b, FALSE))
         IN  /\ b = breakdownOfCounts(counts(diff))
             /\ action <=> ~isFullyReconciled(diff)
             /\ action <=> calculateSummaryMetrics(diff).discrepancyCount > 0
             /\ action => listedFirst(diff) \notin {"match", "still_pending"}
             /\ classifyReconciliationStatus(b, FALSE) = "matched" => calculateSummaryMetrics(diff).matchPercentage = 100
  <1> DEFINE b == breakdownOfEntries(diff)
             status == classifyReconciliationStatus(b, FALSE)
             action == isReconciliationActionRequired(status)
             g == Of(diff, "match")
             p == Of(diff, "still_pending")
             f == Of(diff, "failed_mismatch")
             a == Of(diff, "amount_mismatch")
             m == Of(diff, "missing")
             u == Of(diff, "unexpected")
  <1>1. l \in Nat /\ DOMAIN diff = 1..l /\ Len(diff) = l /\ \A k \in 1..l : diff[k] \in AllCategories
    BY DEF AnyDiff
  <1>2. /\ g \in Nat /\ p \in Nat /\ f \in Nat /\ a \in Nat /\ m \in Nat /\ u \in Nat
        /\ l = g + p + f + a + m + u
    BY CategoriesAddUp DEF AllCategories
  <1>3. b = [total |-> l, matched |-> g, pending |-> p, failed |-> f, mismatched |-> a + m, unexpected |-> u]
    BY BreakdownIs
  <1>4. /\ counts(diff)["match"] = g /\ counts(diff)["still_pending"] = p /\ counts(diff)["failed_mismatch"] = f
        /\ counts(diff)["amount_mismatch"] = a /\ counts(diff)["missing"] = m /\ counts(diff)["unexpected"] = u
    BY CountsAre DEF AllCategories
  <1>5. /\ calculateSummaryMetrics(diff).discrepancyCount = f + a + m + u
        /\ calculateSummaryMetrics(diff).discrepancyCount > 0 <=> ~isFullyReconciled(diff)
    BY DiscrepanciesAre
  <1>6. status = IF b.total = 0 THEN "pending" ELSE IF b.failed > 0 THEN "failed"
                 ELSE IF b.mismatched > 0 \/ b.unexpected > 0 THEN "mismatched" ELSE IF b.pending = b.total THEN "pending"
                 ELSE IF b.pending > 0 /\ b.matched > 0 THEN "partial" ELSE IF b.matched = b.total THEN "matched" ELSE "partial"
    BY StatusIs
  <1>7. /\ b.total = l /\ b.matched = g /\ b.pending = p /\ b.failed = f /\ b.mismatched = a + m /\ b.unexpected = u
    BY <1>3
  <1>8. isFullyReconciled(diff) <=> \A c \in ToSet(diff) : c \in {"match", "still_pending"}
    BY DEF isFullyReconciled, Every, ToSet
  <1>9. calculateSummaryMetrics(diff).matchPercentage = IF diff = <<>> THEN 100 ELSE (200 * g + l) \div (2 * l)
    BY <1>1, <1>4 DEF calculateSummaryMetrics
  <1>10. breakdownOfCounts(counts(diff)) =
           [total |-> g + p + f + a + m + u, matched |-> g, pending |-> p, failed |-> f, mismatched |-> a + m, unexpected |-> u]
    BY <1>4 DEF breakdownOfCounts
  <1>11. action <=> status \in {"mismatched", "failed"}
    BY DEF isReconciliationActionRequired
  <1> HIDE DEF b, status, action, g, p, f, a, m, u
  <1>12. b = breakdownOfCounts(counts(diff))
    BY <1>2, <1>3, <1>10
  <1>13. action <=> f + a + m + u > 0
    BY <1>2, <1>6, <1>7, <1>11
  <1>14. action => listedFirst(diff) \notin {"match", "still_pending"}
    <2> SUFFICES ASSUME action PROVE listedFirst(diff) \notin {"match", "still_pending"}
      OBVIOUS
    <2>1. l > 0
      BY <1>2, <1>13
    <2>2. listedFirst(diff) \in ToSet(diff) /\ \A d \in ToSet(diff) : CATEGORY_RANK[listedFirst(diff)] <= CATEGORY_RANK[d]
      BY <2>1, SomethingListed
    <2>3. PICK d \in ToSet(diff) : d \notin {"match", "still_pending"}
      BY <1>5, <1>8, <1>13
    <2>4. d \in AllCategories
      BY <1>1 DEF ToSet
    <2>5. CATEGORY_RANK[d] <= 3 /\ CATEGORY_RANK[d] \in Nat /\ CATEGORY_RANK["match"] = 5 /\ CATEGORY_RANK["still_pending"] = 4
      BY <2>3, <2>4 DEF AllCategories, CATEGORY_RANK
    <2>6. QED
      BY <2>2, <2>3, <2>5
  <1>15. status = "matched" => calculateSummaryMetrics(diff).matchPercentage = 100
    <2> SUFFICES ASSUME status = "matched" PROVE calculateSummaryMetrics(diff).matchPercentage = 100
      OBVIOUS
    <2>1. l # 0 /\ g = l
      BY <1>6, <1>7
    <2>2. (200 * l + l) \div (2 * l) = 100
      BY <1>1, <2>1, AllMatched
    <2>3. QED
      BY <1>9, <2>1, <2>2
  <1>16. QED
    BY <1>5, <1>12, <1>13, <1>14, <1>15 DEF action, b, status

\* A run that was fully reconciled and no longer is has regressed.
LEMMA AnyRegressionNoticed ==
  ASSUME NEW d1, NEW l1, AnyDiff(d1, l1), NEW d2, NEW l2, AnyDiff(d2, l2), isFullyReconciled(d1), ~isFullyReconciled(d2)
  PROVE  compareSnapshots(d1, d2).isRegressing
  <1> DEFINE n1 == calculateSummaryMetrics(d1).discrepancyCount
             n2 == calculateSummaryMetrics(d2).discrepancyCount
  <1>1. n1 \in Nat /\ (n1 > 0 <=> ~isFullyReconciled(d1)) /\ n2 \in Nat /\ (n2 > 0 <=> ~isFullyReconciled(d2))
    BY DiscrepanciesAre
  <1>2. compareSnapshots(d1, d2).isRegressing <=> n2 - n1 > 0
    BY DEF compareSnapshots
  <1> HIDE DEF n1, n2
  <1>3. QED
    BY <1>1, <1>2

\* Reserved amounts, and what else is known of a period.
AnyReserved(e, o) == AnyRecon(e, o) /\ \A k \in DOMAIN e : e[k].amount \in Int
AnyPeriod(t) == t \in [reserved : Nat, settled : Nat, refunded : Nat, holds : Nat, disputed : Nat]

\* A locked period reported closeable has nothing open, whatever was reserved and observed.
LEMMA AnyCloseableIsClear ==
  ASSUME NEW e, NEW o, AnyReserved(e, o), NEW t, AnyPeriod(t), isCloseable(reportOf("locked", e, t, o))
  PROVE  /\ employerBlockers(t) = {}
         /\ t.settled > 0 => SumBy(LAMBDA r : r.amount, e) <= t.settled
         /\ \A r \in ToSet(e) : Latest(o, r.key).status # "not_found"
  <1> DEFINE outcomes == [i \in DOMAIN e |-> [key |-> e[i].key, amount |-> e[i].amount, status |-> "success"]]
             diff == generateReconciliationDiff(outcomes, o)
             amounts == [i \in DOMAIN e |-> e[i].amount]
             totals == [t EXCEPT !.reserved = Total(amounts)]
             p1 == totals.holds > 0
             p2 == totals.disputed > 0
             p3 == totals.reserved > totals.settled /\ totals.settled > 0
             p4 == counts(diff)["unexpected"] > 0 \/ counts(diff)["missing"] > 0
  <1>1. PICK n \in Nat : DOMAIN e = 1..n
    BY DEF AnyReserved, AnyRecon
  <1>2. Total(amounts) \in Int
    <2>1. DOMAIN amounts = 1..n /\ \A i \in 1..n : amounts[i] \in Int
      BY <1>1 DEF AnyReserved
    <2> HIDE DEF amounts
    <2>2. QED
      BY <2>1, TotalIsInteger
  <1>3. AnyRecon(outcomes, o)
    <2>1. DOMAIN outcomes = 1..n /\ \A i \in 1..n : outcomes[i] = [key |-> e[i].key, amount |-> e[i].amount, status |-> "success"]
      BY <1>1
    <2>2. outcomes = [i \in 1..n |-> outcomes[i]]
      BY <1>1
    <2> HIDE DEF outcomes
    <2>3. outcomes \in Seq({outcomes[i] : i \in 1..n})
      BY <2>1, <2>2
    <2>4. \A i \in 1..n : outcomes[i].key # Nil /\ outcomes[i].status \in {"success", "failure", "pending"}
      <3> SUFFICES ASSUME NEW i \in 1..n PROVE outcomes[i].key # Nil /\ outcomes[i].status \in {"success", "failure", "pending"}
        OBVIOUS
      <3>1. e[i].key # Nil
        BY <1>1 DEF AnyReserved, AnyRecon
      <3>2. outcomes[i].key = e[i].key /\ outcomes[i].status = "success"
        BY <2>1
      <3>3. QED
        BY <3>1, <3>2
    <2>5. AnyObserved(o)
      BY DEF AnyReserved, AnyRecon
    <2>6. QED
      BY <2>1, <2>3, <2>4, <2>5 DEF AnyRecon
  <1>4. calculateReadinessBlockers("locked", totals, diff) = {}
    BY Zenon DEF isCloseable, reportOf, SumBy
  <1>5. PICK m, others \in Nat :
           /\ DOMAIN outcomes = 1..m
           /\ DOMAIN diff = 1..(m + others) /\ Len(diff) = m + others
           /\ \A k \in 1..m : diff[k] = diffOne(outcomes[k], Latest(o, outcomes[k].key))
           /\ \A k \in (m + 1)..(m + others) : diff[k] = "unexpected"
           /\ others = 0 <=> \A k \in DOMAIN o : ~isUnexpected(outcomes, o[k])
    <2> HIDE DEF outcomes
    <2>1. QED
      BY <1>3, DiffHas
  <1>6. PICK l \in Nat : AnyDiff(diff, l)
    <2> HIDE DEF outcomes
    <2>1. QED
      BY <1>3, DiffIsOfCategories
  <1>7. totals.holds = t.holds /\ totals.disputed = t.disputed /\ totals.settled = t.settled /\ totals.reserved = Total(amounts)
    BY DEF AnyPeriod
  <1>8. t.holds \in Nat /\ t.disputed \in Nat /\ t.settled \in Nat
    BY DEF AnyPeriod
  <1> HIDE DEF diff, totals
  <1>9. ~p1 /\ ~p2 /\ ~p3 /\ ~p4
    <2> DEFINE p5 == "locked" = "draft" /\ totals.reserved > 0
    <2>1. calculateReadinessBlockers("locked", totals, diff) =
            AllOf(<< <<p1, "unreserved_liabilities">>, <<p2, "disputed_hold">>, <<p3, "pending_settlement">>, <<p4, "unclosed_period">>,
                     <<p5, "missing_reservations">> >>)
      BY DEF calculateReadinessBlockers
    <2> HIDE DEF p1, p2, p3, p4, p5
    <2>2. QED
      BY <1>4, <2>1, FiveCollected
  <1>10. employerBlockers(t) = {}
    <2> DEFINE q1 == t.holds > 0 \/ t.disputed > 0
               q2 == t.holds > 0
               list == << <<q1, "disputed_hold">>, <<q2, "unreserved_liabilities">> >>
    <2>1. ~q1 /\ ~q2
      BY <1>7, <1>8, <1>9
    <2> HIDE DEF q1, q2
    <2>2. DOMAIN list = 1..2 /\ list[1] = <<q1, "disputed_hold">> /\ list[2] = <<q2, "unreserved_liabilities">>
      OBVIOUS
    <2>3. \A i \in DOMAIN list : ~list[i][1]
      <3> HIDE DEF list
      <3>1. QED
        BY <2>1, <2>2
    <2>4. AllOf(list) = {}
      <3> HIDE DEF list
      <3>1. QED
        BY <2>3, NothingToCollect
    <2>5. QED
      BY <2>4, Zenon DEF employerBlockers, q1, q2
  <1>11. t.settled > 0 => SumBy(LAMBDA r : r.amount, e) <= t.settled
    <2>1. SumBy(LAMBDA r : r.amount, e) = Total(amounts)
      BY Zenon DEF SumBy
    <2> HIDE DEF amounts
    <2>2. QED
      BY <1>2, <1>7, <1>8, <1>9, <2>1
  <1>12. \A r \in ToSet(e) : Latest(o, r.key).status # "not_found"
    <2> SUFFICES ASSUME NEW i \in 1..n PROVE Latest(o, e[i].key).status # "not_found"
      BY <1>1 DEF ToSet
    <2>1. counts(diff)["missing"] = Of(diff, "missing") /\ Of(diff, "missing") \in Nat
          /\ (Of(diff, "missing") = 0 <=> \A k \in 1..l : diff[k] # "missing")
      BY <1>6, CountsAre, CategoriesAddUp DEF AllCategories
    <2>2. \A k \in 1..l : diff[k] # "missing"
      BY <1>9, <2>1
    <2>3. DOMAIN outcomes = 1..n /\ outcomes[i] = [key |-> e[i].key, amount |-> e[i].amount, status |-> "success"]
      BY <1>1
    <2> HIDE DEF outcomes
    <2>4. n = m
      BY <1>5, <2>3
    <2>5. i \in 1..l
      BY <1>5, <1>6, <2>4 DEF AnyDiff
    <2>6. diff[i] = diffOne(outcomes[i], Latest(o, e[i].key))
      BY <1>5, <2>3, <2>4
    <2>7. outcomes[i].status # "pending"
      BY <2>3
    <2>8. Latest(o, e[i].key).status = "not_found" => diffOne(outcomes[i], Latest(o, e[i].key)) = "missing"
      <3> DEFINE x == outcomes[i]
                 last == Latest(o, e[i].key)
      <3> HIDE DEF x, last
      <3>1. x.status # "pending"
        BY <2>7 DEF x
      <3>2. last.status = "not_found" => diffOne(x, last) = "missing"
        BY <3>1, DiffOneIs
      <3>3. QED
        BY <3>2 DEF x, last
    <2>9. QED
      BY <2>2, <2>5, <2>6, <2>8
  <1>13. QED
    BY <1>10, <1>11, <1>12

-----------------------------------------------------------------------------
FundsAsked ==
  /\ Asked("recon", ReconInputs) /\ Asked("readiness", ReadinessInputs) /\ Asked("payer", PayerInputs)
  /\ Asked("obligations", ObligationInputs) /\ Asked("checkpoints", CheckpointInputs)

\* What is asked about the funds is one of its inputs.
LEMMA FundsAreAsked == RulesSpec => []FundsAsked
  <1>1. RulesInit => FundsAsked
    BY DEF RulesInit, Unasked, FundsAsked, Asked, About
  <1>2. FundsAsked /\ [RulesNext]_subject => FundsAsked'
    <2> SUFFICES ASSUME FundsAsked, [RulesNext]_subject PROVE FundsAsked'
      OBVIOUS
    <2>1. CASE UNCHANGED subject
      BY <2>1 DEF FundsAsked, Asked, About
    <2>2. CASE RulesNext
      <3>1. Asked("recon", ReconInputs)'
        BY <2>2 DEF RulesNext, Ask, Asked, About
      <3>2. Asked("readiness", ReadinessInputs)'
        BY <2>2 DEF RulesNext, Ask, Asked, About
      <3>3. Asked("payer", PayerInputs)'
        BY <2>2 DEF RulesNext, Ask, Asked, About
      <3>4. Asked("obligations", ObligationInputs)'
        BY <2>2 DEF RulesNext, Ask, Asked, About
      <3>5. Asked("checkpoints", CheckpointInputs)'
        BY <2>2 DEF RulesNext, Ask, Asked, About
      <3>6. QED
        BY <3>1, <3>2, <3>3, <3>4, <3>5 DEF FundsAsked
    <2>3. QED
      BY <2>1, <2>2
  <1>3. QED
    BY <1>1, <1>2, PTL DEF RulesSpec

\* What is expected and observed of the run: amounts, and observations in a sequence.
AnyReconInput(i) ==
  /\ AnyReserved(i.outcomes, i.observed)
  /\ \E n \in Nat : \E S : i.observed \in Seq(S) /\ DOMAIN i.observed = 1..n

\* The questions about readiness the run asks.
LEMMA ReadinessClass ==
  ASSUME NEW i \in ReadinessInputs
  PROVE  AnyReadiness(i)
  <1> DEFINE Obligation == [asset : {"x", "y"}, required : {0, 2, 4}, suspended : {FALSE}, allowlisted : {TRUE}]
             Odd == {[asset |-> "x", required |-> 2, suspended |-> u, allowlisted |-> u] : u \in BOOLEAN}
             Balance == [available : {0, 2, 3, 4, 5}, reserved : {0, 2, 4}, locked : BOOLEAN, expired : {FALSE}]
             plenty == [available |-> 5, reserved |-> 4, locked |-> FALSE, expired |-> FALSE]
             As == {o \in Obligation : o.asset = "x"} \cup Odd
             Bs == {o \in Obligation : o.asset = "y" /\ o.required # 4}
             Balances == {[x |-> p] : p \in Balance} \cup {[x |-> p, y |-> plenty] : p \in Balance}
  <1>1. PICK a \in As, b \in Bs, bs \in Balances, n \in {0, 1}, s \in BOOLEAN, t \in BOOLEAN :
          i = [obligations |-> <<a, b>>, balances |-> bs, buffer |-> n, strict |-> s, pre |-> t]
    <2>1. ReadinessInputs = {[obligations |-> <<a, b>>, balances |-> bs, buffer |-> n, strict |-> s, pre |-> e] :
                   a \in As, b \in Bs, bs \in Balances, n \in {0, 1}, s, e \in BOOLEAN}
      BY DEF ReadinessInputs
    <2> HIDE DEF As, Bs, Balances
    <2>2. QED
      BY <2>1
  <1>2. a.required \in Nat /\ b.required \in Nat
    <2>1. \A x \in Obligation : x.required \in Nat
      OBVIOUS
    <2>2. \A x \in Odd : x.required \in Nat
      OBVIOUS
    <2> HIDE DEF Obligation, Odd
    <2>3. a \in Obligation \cup Odd /\ b \in Obligation
      OBVIOUS
    <2>4. QED
      BY <2>1, <2>2, <2>3
  <1>3. \A p \in Balance : AnyBalance(p)
    BY DEF AnyBalance
  <1>4. AnyBalance(plenty)
    BY DEF AnyBalance
  <1> HIDE DEF Obligation, Odd, Balance, plenty
  <1>5. \A x \in DOMAIN bs : AnyBalance(bs[x])
    <2>1. ASSUME NEW p \in Balance, bs = [x |-> p] PROVE \A x \in DOMAIN bs : AnyBalance(bs[x])
      <3>1. DOMAIN bs = {"x"} /\ bs["x"] = p
        BY <2>1
      <3>2. QED
        BY <1>3, <3>1
    <2>2. ASSUME NEW p \in Balance, bs = [x |-> p, y |-> plenty] PROVE \A x \in DOMAIN bs : AnyBalance(bs[x])
      <3>1. DOMAIN bs = {"x", "y"} /\ bs["x"] = p /\ bs["y"] = plenty
        BY <2>2
      <3>2. QED
        BY <1>3, <1>4, <3>1
    <2>3. QED
      BY <2>1, <2>2
  <1>6. i.obligations = <<a, b>> /\ i.balances = bs /\ i.buffer = n
    BY <1>1
  <1>7. i.obligations \in Seq({a, b}) \ {<<>>} /\ DOMAIN i.obligations = {1, 2} /\ i.obligations[1] = a /\ i.obligations[2] = b
    BY <1>6
  <1>8. n \in Nat
    OBVIOUS
  <1>9. QED
    BY <1>2, <1>5, <1>6, <1>7, <1>8 DEF AnyReadiness

\* The obligations the run asks about.
LEMMA ObligationClass ==
  ASSUME NEW i \in ObligationInputs
  PROVE  AnyObligations(i)
  <1> DEFINE Of1(x) == {[id |-> x, amount |-> m, status |-> s] :
                          m \in 1..2, s \in {"reserved", "released", "finalized", "expired", "cancelled"}}
             made(J, d, p, q) == [obligations |-> <<[amount |-> 2, ids |-> J, dueAt |-> d], [amount |-> 1, ids |-> {2}, dueAt |-> -1]>>,
                                  reservations |-> <<p, q>>]
  <1>1. PICK J \in SUBSET {1, 2}, d \in {-1, 1, 3}, p \in Of1(1), q \in Of1(2) : i = made(J, d, p, q)
    <2>1. i \in {made(J, d, p, q) : J \in SUBSET {1, 2}, d \in {-1, 1, 3}, p \in Of1(1), q \in Of1(2)}
      BY DEF ObligationInputs
    <2> HIDE DEF made, Of1
    <2>2. QED
      BY <2>1
  <1>2. p.amount \in Nat /\ q.amount \in Nat
    OBVIOUS
  <1> HIDE DEF Of1
  <1>3. i.reservations = <<p, q>> /\ i.obligations = <<[amount |-> 2, ids |-> J, dueAt |-> d], [amount |-> 1, ids |-> {2}, dueAt |-> -1]>>
    BY <1>1
  <1>4. DOMAIN i.reservations = 1..2 /\ i.reservations[1] = p /\ i.reservations[2] = q
    BY <1>3
  <1>5. DOMAIN i.obligations = 1..2 /\ i.obligations[1].amount = 2 /\ i.obligations[2].amount = 1
    BY <1>3
  <1>6. \A k \in 1..2 : k = 1 \/ k = 2
    OBVIOUS
  <1>7. AnyReservations(i.reservations)
    BY <1>2, <1>4, <1>6 DEF AnyReservations
  <1>8. QED
    BY <1>5, <1>6, <1>7 DEF AnyObligations

\* The checkpoints the run asks about.
LEMMA CheckpointClass ==
  ASSUME NEW raws \in CheckpointInputs
  PROVE  AnyCheckpoints(raws)
  <1> DEFINE Raw == [allocated : 0..2, disbursed : 0..2, status : {"", "verified", "pending"}]
             Wide == [allocated : Int, disbursed : Int, status : {"", "verified", "pending"}]
  <1>1. raws \in {<<>>} \cup {<<a>> : a \in Raw} \cup (Raw \X Raw)
    BY DEF CheckpointInputs
  <1>2. \A a \in Raw : a \in Wide
    <2>1. 0..2 \subseteq Int
      OBVIOUS
    <2>2. QED
      BY <2>1
  <1> HIDE DEF Raw
  <1>3. (\A k \in DOMAIN raws : raws[k] \in Wide) /\ (\E n \in Nat : DOMAIN raws = 1..n) => AnyCheckpoints(raws)
    BY DEF AnyCheckpoints
  <1> HIDE DEF Wide
  <1>4. CASE raws = <<>>
    <2>1. DOMAIN raws = 1..0
      BY <1>4
    <2>2. QED
      BY <1>3, <2>1
  <1>5. ASSUME NEW a \in Raw, raws = <<a>> PROVE AnyCheckpoints(raws)
    <2>1. DOMAIN raws = 1..1 /\ raws[1] = a
      BY <1>5
    <2>2. QED
      BY <1>3, <1>2, <2>1
  <1>6. ASSUME NEW a \in Raw, NEW b \in Raw, raws = <<a, b>> PROVE AnyCheckpoints(raws)
    <2>1. DOMAIN raws = 1..2 /\ raws[1] = a /\ raws[2] = b
      BY <1>6
    <2>2. \A k \in 1..2 : k = 1 \/ k = 2
      OBVIOUS
    <2>3. QED
      BY <1>3, <1>2, <2>1, <2>2
  <1>7. QED
    BY <1>1, <1>4, <1>5, <1>6

\* The payments the run expects.
LEMMA OutcomesClass ==
  ASSUME NEW e \in ReconOutcomes
  PROVE  /\ \E n \in Nat : \E S : e \in Seq(S) /\ DOMAIN e = 1..n
         /\ \A k \in DOMAIN e : e[k].key # Nil /\ e[k].status \in {"success", "failure", "pending"} /\ e[k].amount \in Int
  <1> DEFINE one(k) == {[key |-> k, amount |-> 1, status |-> s] : s \in {"success", "failure", "pending"}}
             fine(x) == x.key # Nil /\ x.status \in {"success", "failure", "pending"} /\ x.amount \in Int
  <1>1. e \in {<<>>} \cup {<<a>> : a \in one("a")} \cup {<<a, b>> : a \in one("a"), b \in one("b")}
    BY DEF ReconOutcomes
  <1>2. \A k \in {"a", "b"} : \A x \in one(k) : fine(x)
    <2> SUFFICES ASSUME NEW k \in {"a", "b"}, NEW x \in one(k) PROVE fine(x)
      BY Zenon
    <2>1. PICK s \in {"success", "failure", "pending"} : x = [key |-> k, amount |-> 1, status |-> s]
      OBVIOUS
    <2>2. x.key = k /\ x.status = s /\ x.amount = 1
      BY <2>1
    <2>3. QED
      BY <2>2 DEF Nil
  <1> HIDE DEF one, fine
  <1>3. ASSUME e = <<>>
        PROVE  (\E n \in Nat : \E S : e \in Seq(S) /\ DOMAIN e = 1..n) /\ \A k \in DOMAIN e : fine(e[k])
    <2>1. e \in Seq({}) /\ DOMAIN e = 1..0
      BY <1>3
    <2>2. QED
      BY <2>1
  <1>4. ASSUME NEW a \in one("a"), e = <<a>>
        PROVE  (\E n \in Nat : \E S : e \in Seq(S) /\ DOMAIN e = 1..n) /\ \A k \in DOMAIN e : fine(e[k])
    <2>1. e \in Seq({a}) /\ DOMAIN e = 1..1 /\ e[1] = a
      BY <1>4
    <2>2. QED
      BY <1>2, <2>1
  <1>5. ASSUME NEW a \in one("a"), NEW b \in one("b"), e = <<a, b>>
        PROVE  (\E n \in Nat : \E S : e \in Seq(S) /\ DOMAIN e = 1..n) /\ \A k \in DOMAIN e : fine(e[k])
    <2>1. e \in Seq({a, b}) /\ DOMAIN e = 1..2 /\ e[1] = a /\ e[2] = b
      BY <1>5
    <2>2. \A k \in 1..2 : k = 1 \/ k = 2
      OBVIOUS
    <2>3. QED
      BY <1>2, <2>1, <2>2
  <1>6. e = <<>> \/ (\E a \in one("a") : e = <<a>>) \/ \E a \in one("a"), b \in one("b") : e = <<a, b>>
    BY <1>1
  <1>7. (\E n \in Nat : \E S : e \in Seq(S) /\ DOMAIN e = 1..n) /\ \A k \in DOMAIN e : fine(e[k])
    BY Zenon, <1>3, <1>4, <1>5, <1>6
  <1>8. QED
    BY Zenon, <1>7 DEF fine

\* What the run lets the chain show.
LEMMA ObservedClass ==
  ASSUME NEW o \in {<<>>} \cup {<<x>> : x \in ReconObserved} \cup (ReconObserved \X ReconObserved)
  PROVE  AnyObserved(o) /\ \E n \in Nat : \E S : o \in Seq(S) /\ DOMAIN o = 1..n
  <1> DEFINE fine(x) == x.at \in Int /\ x.status \in {"confirmed", "failed", "not_found"}
  <1>1. \A x \in ReconObserved : fine(x)
    <2> DEFINE AtZero == {[key |-> k, amount |-> m, status |-> s, at |-> t] :
                         k \in {Nil, "a", "b"}, m \in 0..2, s \in {"confirmed", "failed", "not_found"}, t \in {0}}
               Later == {[key |-> "a", amount |-> m, status |-> s, at |-> 1] : m \in {1, 2}, s \in {"confirmed", "not_found"}}
    <2>1. \A x \in AtZero : fine(x)
      <3> SUFFICES ASSUME NEW x \in AtZero PROVE fine(x)
        OBVIOUS
      <3>1. PICK k \in {Nil, "a", "b"}, m \in 0..2, s \in {"confirmed", "failed", "not_found"}, t \in {0} :
              x = [key |-> k, amount |-> m, status |-> s, at |-> t]
        OBVIOUS
      <3>2. x.at = t /\ x.status = s
        BY <3>1
      <3>3. QED
        BY <3>2
    <2>2. \A x \in Later : fine(x)
      OBVIOUS
    <2>3. ReconObserved = AtZero \cup Later
      BY DEF ReconObserved
    <2> HIDE DEF AtZero, Later
    <2>4. QED
      BY <2>1, <2>2, <2>3
  <1> HIDE DEF fine
  <1>2. CASE o = <<>>
    <2>1. o \in Seq({}) /\ DOMAIN o = 1..0
      BY <1>2
    <2>2. QED
      BY <2>1 DEF AnyObserved
  <1>3. ASSUME NEW x \in ReconObserved, o = <<x>>
        PROVE  (\E n \in Nat : \E S : o \in Seq(S) /\ DOMAIN o = 1..n) /\ \A k \in DOMAIN o : fine(o[k])
    <2>1. o \in Seq({x}) /\ DOMAIN o = 1..1 /\ o[1] = x
      BY <1>3
    <2>2. QED
      BY <1>1, <2>1
  <1>4. ASSUME NEW x \in ReconObserved, NEW y \in ReconObserved, o = <<x, y>>
        PROVE  (\E n \in Nat : \E S : o \in Seq(S) /\ DOMAIN o = 1..n) /\ \A k \in DOMAIN o : fine(o[k])
    <2>1. o \in Seq({x, y}) /\ DOMAIN o = 1..2 /\ o[1] = x /\ o[2] = y
      BY <1>4
    <2>2. \A k \in 1..2 : k = 1 \/ k = 2
      OBVIOUS
    <2>3. QED
      BY <1>1, <2>1, <2>2
  <1>5. o = <<>> \/ (\E x \in ReconObserved : o = <<x>>) \/ \E x, y \in ReconObserved : o = <<x, y>>
    OBVIOUS
  <1>6. QED
    BY <1>2, <1>3, <1>4, <1>5 DEF AnyObserved, fine

\* The inputs of the run belong to the classes the lemmas above are about.
LEMMA FundsClasses ==
  ASSUME FundsAsked
  PROVE  /\ About("readiness") => AnyReadiness(subject.input)
         /\ About("payer") => subject.input.fee \in Int /\ subject.input.minFee \in Int
         /\ About("obligations") => AnyObligations(subject.input)
         /\ About("checkpoints") => AnyCheckpoints(subject.input)
         /\ About("recon") => AnyReconInput(subject.input)
  <1>1. \A i \in PayerInputs : i.fee \in Int /\ i.minFee \in Int
    BY DEF PayerInputs
  <1>2. \A i \in ReconInputs : AnyReconInput(i)
    <2> SUFFICES ASSUME NEW i \in ReconInputs PROVE AnyReconInput(i)
      OBVIOUS
    <2> DEFINE Seen == {<<>>} \cup {<<x>> : x \in ReconObserved} \cup (ReconObserved \X ReconObserved)
    <2>1. i \in {[outcomes |-> e, observed |-> o] : e \in ReconOutcomes, o \in Seen}
      BY DEF ReconInputs
    <2>2. \A o \in Seen : AnyObserved(o) /\ \E n \in Nat : \E S : o \in Seq(S) /\ DOMAIN o = 1..n
      BY ObservedClass
    <2> HIDE DEF Seen
    <2>3. PICK e \in ReconOutcomes, o \in Seen : i = [outcomes |-> e, observed |-> o]
      BY <2>1
    <2>4. i.outcomes = e /\ i.observed = o
      BY <2>3
    <2>5. AnyReserved(e, o)
      BY <2>2, OutcomesClass DEF AnyReserved, AnyRecon
    <2>6. QED
      BY <2>2, <2>4, <2>5 DEF AnyReconInput
  <1>3. QED
    BY <1>1, <1>2, ReadinessClass, ObligationClass, CheckpointClass DEF FundsAsked, Asked

\* Funds said to be there are there, for any obligations, balances, reservations, checkpoints,
\* payments and observations (treasury/, obligations/, reconciliation/).
THEOREM FundsAreAccounted == RulesSpec => []FundsAccounted
  <1> DEFINE e == subject.input.outcomes
             o == subject.input.observed
             diff == generateReconciliationDiff(e, o)
  <1>1. FundsAsked => FundsAccounted
    <2> SUFFICES ASSUME FundsAsked PROVE FundsAccounted
      OBVIOUS
    <2>1. ReadyMeansFunded
      BY Zenon, FundsClasses, AnyReadyIsFunded DEF ReadyMeansFunded, BalanceOf
    <2>2. SenderIsUsable
      BY FundsClasses, AnySenderIsUsable DEF SenderIsUsable
    <2>3. ObligationsAccounted
      BY Zenon, FundsClasses, AnyObligationsAccounted DEF ObligationsAccounted, Finalized
    <2>4. NoCancelling
      BY Zenon, FundsClasses, AnyReportBalances DEF NoCancelling
    <2>5. FullyReconciledSound
      <3> SUFFICES ASSUME About("recon") PROVE FullyReconciledSound
        BY DEF FullyReconciledSound
      <3>1. AnyRecon(e, o)
        BY FundsClasses DEF AnyReconInput, AnyReserved
      <3> HIDE DEF e, o
      <3>2. isFullyReconciled(diff) <=>
              /\ \A x \in ToSet(e) :
                   /\ x.status = "success" =>
                        \E k \in LastOf(o, x.key) : o[k].status = "confirmed" /\ o[k].amount \in {0, x.amount}
                   /\ x.status = "failure" => \E k \in LastOf(o, x.key) : o[k].status = "failed"
              /\ \A y \in ToSet(o) : y.status # "not_found" => \E x \in ToSet(e) : x.key = y.key
        BY <3>1, AnyFullyReconciled
      <3>3. QED
        BY Zenon, <3>2 DEF FullyReconciledSound, ReconDiff, LastOf, e, o
    <2>6. VerdictsAgree
      <3> SUFFICES ASSUME About("recon") PROVE VerdictsAgree
        BY Zenon DEF VerdictsAgree
      <3>1. PICK l \in Nat : AnyDiff(ReconDiff, l)
        BY FundsClasses, DiffIsOfCategories DEF ReconDiff, AnyReconInput, AnyReserved
      <3>2. QED
        BY Zenon, <3>1, AnyVerdictsAgree DEF VerdictsAgree
    <2>7. RegressionNoticed
      <3> DEFINE sooner == SubSeq(o, 1, Len(o) - 1)
      <3> SUFFICES ASSUME About("recon"), o # <<>>, isFullyReconciled(generateReconciliationDiff(e, sooner)), ~isFullyReconciled(diff)
                   PROVE  compareSnapshots(generateReconciliationDiff(e, sooner), diff).isRegressing
        BY Zenon DEF RegressionNoticed, ReconDiff
      <3>1. AnyRecon(e, o) /\ \E n \in Nat : \E S : o \in Seq(S) /\ DOMAIN o = 1..n
        BY FundsClasses DEF AnyReconInput, AnyReserved
      <3> HIDE DEF e, o
      <3>2. PICK n \in Nat : \E S : o \in Seq(S) /\ DOMAIN o = 1..n
        BY <3>1
      <3>3. n > 0 /\ Len(o) = n
        BY <3>2
      <3>4. DOMAIN sooner = 1..(n - 1) /\ \A k \in 1..(n - 1) : sooner[k] = o[k] /\ k \in DOMAIN o
        BY <3>2, <3>3
      <3> HIDE DEF sooner
      <3>5. AnyRecon(e, sooner)
        <4>1. n - 1 \in Nat
          BY <3>3
        <4>2. AnyObserved(o)
          BY <3>1 DEF AnyRecon
        <4>3. AnyObserved(sooner)
          BY <3>4, <4>1, <4>2 DEF AnyObserved
        <4>4. QED
          BY <3>1, <4>3 DEF AnyRecon
      <3>6. PICK l1 \in Nat : AnyDiff(generateReconciliationDiff(e, sooner), l1)
        BY <3>5, DiffIsOfCategories
      <3>7. PICK l2 \in Nat : AnyDiff(diff, l2)
        BY <3>1, DiffIsOfCategories
      <3>8. QED
        BY <3>6, <3>7, AnyRegressionNoticed
    <2>8. CloseableIsClear
      <3> SUFFICES ASSUME About("recon"), NEW t \in [reserved : {0}, settled : 0..2, refunded : {0}, holds : 0..1, disputed : 0..1],
                          isCloseable(reportOf("locked", e, t, o))
                   PROVE  /\ employerBlockers(t) = {}
                          /\ t.settled > 0 => SumBy(LAMBDA r : r.amount, e) <= t.settled
                          /\ \A r \in ToSet(e) : Latest(o, r.key).status # "not_found"
        BY Zenon DEF CloseableIsClear
      <3>1. AnyReserved(e, o)
        BY FundsClasses DEF AnyReconInput
      <3>2. AnyPeriod(t)
        BY DEF AnyPeriod
      <3> HIDE DEF e, o
      <3>3. QED
        BY Zenon, <3>1, <3>2, AnyCloseableIsClear
    <2>9. QED
      BY <2>1, <2>2, <2>3, <2>4, <2>5, <2>6, <2>7, <2>8 DEF FundsAccounted
  <1>2. QED
    BY <1>1, FundsAreAsked, PTL

-----------------------------------------------------------------------------
(***************************************************************************)
(* planner/: any versions, and the checks of a plan.                       *)
(***************************************************************************)
AnyVersion(v) == v[1] \in Int /\ v[2] \in Int /\ v[3] \in Int

\* Versions are compared number by number.
LEMMA VersionsAre ==
  ASSUME NEW a, NEW b
  PROVE  compareVersions(a, b) =
           IF a[1] # b[1] THEN IF a[1] > b[1] THEN 1 ELSE -1
           ELSE IF a[2] # b[2] THEN IF a[2] > b[2] THEN 1 ELSE -1
           ELSE IF a[3] # b[3] THEN IF a[3] > b[3] THEN 1 ELSE -1 ELSE 0
  <1> DEFINE differ == {k \in 1..3 : a[k] # b[k]}
             least == Min(differ)
  <1>1. compareVersions(a, b) = IF differ = {} THEN 0 ELSE IF a[least] > b[least] THEN 1 ELSE -1
    BY Zenon DEF compareVersions
  <1>2. differ # {} => least \in differ /\ \A k \in differ : least <= k
    <2>1. differ \in SUBSET Nat
      OBVIOUS
    <2> HIDE DEF differ
    <2>2. QED
      BY <2>1, Smallest
  <1> HIDE DEF least
  <1>3. CASE a[1] # b[1]
    <2>1. 1 \in differ /\ differ # {}
      BY <1>3
    <2>2. least = 1
      BY <1>2, <2>1
    <2>3. QED
      BY <1>1, <1>3, <2>1, <2>2
  <1>4. CASE a[1] = b[1] /\ a[2] # b[2]
    <2>1. 2 \in differ /\ differ # {} /\ 1 \notin differ
      BY <1>4
    <2>2. least = 2
      BY <1>2, <2>1
    <2>3. QED
      BY <1>1, <1>4, <2>1, <2>2
  <1>5. CASE a[1] = b[1] /\ a[2] = b[2] /\ a[3] # b[3]
    <2>1. 3 \in differ /\ differ # {} /\ 1 \notin differ /\ 2 \notin differ
      BY <1>5
    <2>2. least = 3
      BY <1>2, <2>1
    <2>3. QED
      BY <1>1, <1>5, <2>1, <2>2
  <1>6. CASE a[1] = b[1] /\ a[2] = b[2] /\ a[3] = b[3]
    <2>1. differ = {}
      BY <1>6
    <2>2. QED
      BY <1>1, <1>6, <2>1
  <1>7. QED
    BY <1>3, <1>4, <1>5, <1>6

\* The comparison orders any versions totally.
LEMMA AnyVersionsAreOrdered ==
  ASSUME NEW a, NEW b, NEW c, AnyVersion(a), AnyVersion(b), AnyVersion(c)
  PROVE  /\ compareVersions(a, b) = -compareVersions(b, a)
         /\ compareVersions(a, b) <= 0 /\ compareVersions(b, c) <= 0 => compareVersions(a, c) <= 0
  <1> DEFINE ab == compareVersions(a, b)
             ba == compareVersions(b, a)
             bc == compareVersions(b, c)
             ac == compareVersions(a, c)
  <1>1. /\ a[1] \in Int /\ a[2] \in Int /\ a[3] \in Int /\ b[1] \in Int /\ b[2] \in Int /\ b[3] \in Int
        /\ c[1] \in Int /\ c[2] \in Int /\ c[3] \in Int
    BY DEF AnyVersion
  <1>2. ab = IF a[1] # b[1] THEN IF a[1] > b[1] THEN 1 ELSE -1 ELSE IF a[2] # b[2] THEN IF a[2] > b[2] THEN 1 ELSE -1
             ELSE IF a[3] # b[3] THEN IF a[3] > b[3] THEN 1 ELSE -1 ELSE 0
    BY VersionsAre
  <1>3. ba = IF b[1] # a[1] THEN IF b[1] > a[1] THEN 1 ELSE -1 ELSE IF b[2] # a[2] THEN IF b[2] > a[2] THEN 1 ELSE -1
             ELSE IF b[3] # a[3] THEN IF b[3] > a[3] THEN 1 ELSE -1 ELSE 0
    BY VersionsAre
  <1>4. bc = IF b[1] # c[1] THEN IF b[1] > c[1] THEN 1 ELSE -1 ELSE IF b[2] # c[2] THEN IF b[2] > c[2] THEN 1 ELSE -1
             ELSE IF b[3] # c[3] THEN IF b[3] > c[3] THEN 1 ELSE -1 ELSE 0
    BY VersionsAre
  <1>5. ac = IF a[1] # c[1] THEN IF a[1] > c[1] THEN 1 ELSE -1 ELSE IF a[2] # c[2] THEN IF a[2] > c[2] THEN 1 ELSE -1
             ELSE IF a[3] # c[3] THEN IF a[3] > c[3] THEN 1 ELSE -1 ELSE 0
    BY VersionsAre
  <1> HIDE DEF ab, ba, bc, ac
  <1>6. ab = -ba
    BY <1>1, <1>2, <1>3
  <1>7. ab <= 0 /\ bc <= 0 => ac <= 0
    BY <1>1, <1>2, <1>4, <1>5
  <1>8. QED
    BY <1>6, <1>7 DEF ab, ba, bc, ac

\* A range of versions whose minor numbers are digits is an interval.
LEMMA RangesAre ==
  ASSUME NEW a, NEW b, AnyVersion(a), AnyVersion(b), a[2] \in 0..9, a[3] \in 0..9, b[2] \in 0..9, b[3] \in 0..9
  PROVE  /\ compareVersions(a, b) >= 0 <=> 100 * a[1] + 10 * a[2] + a[3] >= 100 * b[1] + 10 * b[2] + b[3]
         /\ compareVersions(a, b) <= 0 <=> 100 * a[1] + 10 * a[2] + a[3] <= 100 * b[1] + 10 * b[2] + b[3]
  <1> DEFINE ab == compareVersions(a, b)
  <1>1. a[1] \in Int /\ a[2] \in 0..9 /\ a[3] \in 0..9 /\ b[1] \in Int /\ b[2] \in 0..9 /\ b[3] \in 0..9
    BY DEF AnyVersion
  <1>2. ab = IF a[1] # b[1] THEN IF a[1] > b[1] THEN 1 ELSE -1 ELSE IF a[2] # b[2] THEN IF a[2] > b[2] THEN 1 ELSE -1
             ELSE IF a[3] # b[3] THEN IF a[3] > b[3] THEN 1 ELSE -1 ELSE 0
    BY VersionsAre
  <1> HIDE DEF ab
  <1> DEFINE x1 == a[1]
             x2 == a[2]
             x3 == a[3]
             y1 == b[1]
             y2 == b[2]
             y3 == b[3]
  <1>3. /\ x1 \in Int /\ x2 \in 0..9 /\ x3 \in 0..9 /\ y1 \in Int /\ y2 \in 0..9 /\ y3 \in 0..9
        /\ ab = IF x1 # y1 THEN IF x1 > y1 THEN 1 ELSE -1 ELSE IF x2 # y2 THEN IF x2 > y2 THEN 1 ELSE -1
                ELSE IF x3 # y3 THEN IF x3 > y3 THEN 1 ELSE -1 ELSE 0
    BY <1>1, <1>2
  <1> HIDE DEF x1, x2, x3, y1, y2, y3
  <1>4. /\ ab >= 0 <=> 100 * x1 + 10 * x2 + x3 >= 100 * y1 + 10 * y2 + y3
        /\ ab <= 0 <=> 100 * x1 + 10 * x2 + x3 <= 100 * y1 + 10 * y2 + y3
    BY <1>3
  <1>5. QED
    BY <1>4 DEF ab, x1, x2, x3, y1, y2, y3

\* A treasury that is checked without failing covers the payout, and one that gives no warning keeps its reserve.
LEMMA TreasuryChecked ==
  ASSUME NEW t
  PROVE  /\ Given(t) /\ buildTreasuryCheck(t).status # "fail" => t[1].balance >= t[1].required
         /\ buildTreasuryCheck(t).status \notin {"fail", "warn"} => Given(t) /\ ~(t[1].balance - t[1].required < t[1].minReserve)
  <1> DEFINE p1 == t[1].asset # t[1].requiredAsset
             p2 == ~coversPayout(t[1])
             p3 == t[1].balance - t[1].required < t[1].minReserve
  <1>1. buildTreasuryCheck(t).status =
          IF ~Given(t) THEN "warn" ELSE FirstOf(<< <<p1, "fail">>, <<p2, "fail">>, <<p3, "warn">> >>, "pass")
    BY DEF buildTreasuryCheck, Check
  <1> HIDE DEF p1, p2, p3
  <1>2. FirstOf(<< <<p1, "fail">>, <<p2, "fail">>, <<p3, "warn">> >>, "pass") =
          IF p1 THEN "fail" ELSE IF p2 THEN "fail" ELSE IF p3 THEN "warn" ELSE "pass"
    BY ThreeChecks
  <1>3. Given(t) /\ buildTreasuryCheck(t).status # "fail" => ~p2
    BY <1>1, <1>2
  <1>4. buildTreasuryCheck(t).status \notin {"fail", "warn"} => Given(t) /\ ~p3
    BY <1>1, <1>2
  <1>5. QED
    BY <1>3, <1>4 DEF p2, p3, coversPayout

\* A settlement window that is checked without failing is open.
LEMMA WindowChecked ==
  ASSUME NEW w, Given(w), w[1].now \in Int, w[1].opens \in Int, w[1].closes \in Int, buildSettlementWindowCheck(w).status # "fail"
  PROVE  w[1].now \in w[1].opens..w[1].closes
  <1> DEFINE p1 == w[1].now < w[1].opens
             p2 == w[1].now > w[1].closes
             p3 == w[1].closes > w[1].opens /\ 10 * (w[1].closes - w[1].now) < w[1].closes - w[1].opens
  <1>1. buildSettlementWindowCheck(w).status = FirstOf(<< <<p1, "fail">>, <<p2, "fail">>, <<p3, "warn">> >>, "pass")
    BY DEF buildSettlementWindowCheck, Check
  <1> HIDE DEF p1, p2, p3
  <1>2. FirstOf(<< <<p1, "fail">>, <<p2, "fail">>, <<p3, "warn">> >>, "pass") =
          IF p1 THEN "fail" ELSE IF p2 THEN "fail" ELSE IF p3 THEN "warn" ELSE "pass"
    BY ThreeChecks
  <1>3. ~p1 /\ ~p2
    BY <1>1, <1>2
  <1>4. QED
    BY <1>3 DEF p1, p2

\* A batch that is checked without failing commits every employee once.
LEMMA BatchChecked ==
  ASSUME NEW b, NEW n, Given(b), NEW m \in Nat, DOMAIN b[1].commitments = 1..m, Len(b[1].commitments) = m,
         buildBatchCheck(b, n).status # "fail"
  PROVE  Cardinality({b[1].commitments[k].employee : k \in DOMAIN b[1].commitments}) = Len(b[1].commitments)
  <1> DEFINE all == b[1].commitments
             names == [k \in DOMAIN all |-> all[k].employee]
             paid == {all[k].employee : k \in DOMAIN all}
  <1>1. distinct(names)
    BY DEF buildBatchCheck, Check
  <1>2. \A i, j \in 1..m : i # j => names[i] # names[j]
    BY <1>1 DEF distinct
  <1>3. names \in [1..m -> paid]
    OBVIOUS
  <1>4. paid = {names[k] : k \in 1..m}
    OBVIOUS
  <1> HIDE DEF names, paid
  <1>5. names \in Bijection(1..m, paid)
    BY <1>2, <1>3, <1>4, Zenon DEF Bijection, Injection, Surjection, IsInjective
  <1>6. IsFiniteSet(1..m) /\ Cardinality(1..m) = m
    BY FS_Interval
  <1>7. Cardinality(paid) = m
    BY <1>5, <1>6, FS_Bijection DEF ExistsBijection
  <1>8. QED
    BY <1>7 DEF paid

\* The number of transactions, each of at most so many employees.
LEMMA DivisionIs ==
  ASSUME NEW a \in Nat, NEW m \in Nat, m > 0
  PROVE  a \div m \in Nat /\ (a \div m) * m <= a /\ a < (a \div m) * m + m
  OBVIOUS

\* What a plan is asked about: a window is a span of time, a batch a list of commitments.
AnyPlan(i) ==
  /\ Given(i.window) => i.window[1].now \in Int /\ i.window[1].opens \in Int /\ i.window[1].closes \in Int
  /\ Given(i.batch) => \E m \in Nat : DOMAIN i.batch[1].commitments = 1..m /\ Len(i.batch[1].commitments) = m
  /\ Given(i.treasury) => i.treasury[1].balance \in Int /\ i.treasury[1].required \in Int /\ i.treasury[1].minReserve \in Int
  /\ i.count \in Nat /\ i.max \in Nat /\ i.max > 0

\* The members of two sequences one after the other.
LEMMA Concatenated ==
  ASSUME NEW S, NEW T, NEW s \in Seq(S), NEW t \in Seq(T)
  PROVE  /\ DOMAIN (s \o t) = 1..(Len(s) + Len(t)) /\ Len(s \o t) = Len(s) + Len(t)
         /\ \A k \in 1..Len(s) : (s \o t)[k] = s[k]
         /\ \A k \in 1..Len(t) : (s \o t)[Len(s) + k] = t[k]
  OBVIOUS

\* The checks of a plan: at most two about the contract, then the five others.
LEMMA ChecksAre ==
  ASSUME NEW i
  PROVE  \E n \in {1, 2} :
           LET checks == planPayrollExecution(i).checks IN
           /\ DOMAIN checks = 1..(n + 5)
           /\ checks[1].id = "version"
           /\ checks[1].status = "warn" \/ Given(i.contract)
           /\ checks[n + 1] = buildTreasuryCheck(i.treasury) /\ checks[n + 2] = buildProofCheck(i.proof)
           /\ checks[n + 3] = buildSettlementWindowCheck(i.window) /\ checks[n + 4] = buildBatchCheck(i.batch, i.count)
           /\ checks[n + 5] = buildAuthorizationChecks(i.authorization)
  <1> DEFINE first == buildContractChecks(i.contract)
             c1 == buildTreasuryCheck(i.treasury)
             c2 == buildProofCheck(i.proof)
             c3 == buildSettlementWindowCheck(i.window)
             c4 == buildBatchCheck(i.batch, i.count)
             c5 == buildAuthorizationChecks(i.authorization)
             checks == planPayrollExecution(i).checks
  <1>1. PICK n \in {1, 2} :
           /\ \E S : first \in Seq(S)
           /\ Len(first) = n /\ first[1].id = "version" /\ (first[1].status = "warn" \/ Given(i.contract))
    <2>1. CASE ~Given(i.contract)
      <3>1. first = <<Check("version", "warn")>>
        BY <2>1 DEF buildContractChecks
      <3> HIDE DEF first
      <3>2. Check("version", "warn").id = "version" /\ Check("version", "warn").status = "warn"
        BY DEF Check
      <3>3. first \in Seq({Check("version", "warn")}) /\ Len(first) = 1 /\ first[1] = Check("version", "warn")
        BY <3>1
      <3>4. QED
        BY <3>2, <3>3
    <2>2. CASE Given(i.contract)
      <3> DEFINE c == i.contract[1]
                 version == Check("version", FirstOf(<< <<~isVersionInRange(c.version, c.min, c.max), "fail">>,
                                                        <<compareVersions(c.version, c.recommended) < 0, "warn">> >>, "pass"))
                 features == Check("features", IF c.required \subseteq c.available THEN "pass" ELSE "fail")
                 more == IF c.required = {} THEN <<>> ELSE <<features>>
      <3>1. first = <<version>> \o more
        BY <2>2 DEF buildContractChecks
      <3>2. version.id = "version"
        BY DEF Check
      <3> HIDE DEF version, features, first
      <3>3. <<version>> \in Seq({version, features}) /\ Len(<<version>>) = 1 /\ <<version>>[1] = version
        OBVIOUS
      <3>4. more \in Seq({version, features}) /\ Len(more) \in {0, 1}
        <4>1. <<>> \in Seq({version, features}) /\ Len(<<>>) = 0
          OBVIOUS
        <4>2. <<features>> \in Seq({version, features}) /\ Len(<<features>>) = 1
          OBVIOUS
        <4>3. QED
          BY <4>1, <4>2
      <3> HIDE DEF more
      <3>5. first \in Seq({version, features}) /\ Len(first) \in {1, 2} /\ first[1] = version
        BY <3>1, <3>3, <3>4
      <3>6. QED
        BY <2>2, <3>2, <3>5
    <2>3. QED
      BY <2>1, <2>2
  <1>2. checks = first \o <<c1, c2, c3, c4, c5>>
    BY Zenon DEF planPayrollExecution
  <1> HIDE DEF first, c1, c2, c3, c4, c5, checks
  <1> DEFINE others == <<c1, c2, c3, c4, c5>>
  <1>3. /\ others \in Seq({c1, c2, c3, c4, c5}) /\ Len(others) = 5
        /\ others[1] = c1 /\ others[2] = c2 /\ others[3] = c3 /\ others[4] = c4 /\ others[5] = c5
    OBVIOUS
  <1> HIDE DEF others
  <1>4. checks = first \o others
    BY <1>2 DEF others
  <1>5. /\ DOMAIN (first \o others) = 1..(Len(first) + Len(others))
        /\ \A k \in 1..Len(first) : (first \o others)[k] = first[k]
        /\ \A k \in 1..Len(others) : (first \o others)[Len(first) + k] = others[k]
    <2>1. PICK S : first \in Seq(S)
      BY <1>1
    <2> DEFINE Five == {c1, c2, c3, c4, c5}
    <2> HIDE DEF Five
    <2>2. others \in Seq(Five)
      BY <1>3 DEF Five
    <2>3. QED
      BY <2>1, <2>2, Concatenated
  <1>6. /\ DOMAIN checks = 1..(n + 5) /\ \A k \in 1..n : checks[k] = first[k]
        /\ \A k \in 1..5 : checks[n + k] = others[k]
    BY <1>1, <1>3, <1>4, <1>5
  <1>7. /\ checks[1] = first[1]
        /\ checks[n + 1] = c1 /\ checks[n + 2] = c2 /\ checks[n + 3] = c3 /\ checks[n + 4] = c4 /\ checks[n + 5] = c5
    BY <1>3, <1>6
  <1>8. QED
    BY <1>1, <1>6, <1>7 DEF checks, c1, c2, c3, c4, c5

\* The steps of a run carry every employee, and none is empty.
LEMMA StepsAre ==
  ASSUME NEW count \in Nat, NEW max \in Nat, max > 0
  PROVE  LET steps == estimateTransactionSteps(count, max) IN
         /\ steps # <<>> => steps[1] * max >= count /\ (steps[1] - 1) * max < count
         /\ steps = <<>> <=> count = 0
  <1> DEFINE n == (count + max - 1) \div max
             steps == estimateTransactionSteps(count, max)
  <1>1. steps = IF count = 0 THEN <<>> ELSE <<n, 1, n>>
    BY DEF estimateTransactionSteps
  <1>2. count + max - 1 \in Nat
    OBVIOUS
  <1>3. n \in Nat /\ n * max <= count + max - 1 /\ count + max - 1 < n * max + max
    <2> DEFINE a == count + max - 1
    <2>1. a \in Nat
      BY <1>2
    <2> HIDE DEF a
    <2>2. a \div max \in Nat /\ (a \div max) * max <= a /\ a < (a \div max) * max + max
      BY <2>1, DivisionIs
    <2>3. QED
      BY <2>2 DEF a
  <1> HIDE DEF n, steps
  <1>4. (n - 1) * max = n * max - max
    BY <1>3
  <1>5. n * max \in Int
    BY <1>3
  <1>6. n * max >= count /\ (n - 1) * max < count
    <2> DEFINE all == n * max
    <2> HIDE DEF all
    <2>1. all \in Int /\ all <= count + max - 1 /\ count + max - 1 < all + max /\ (n - 1) * max = all - max
      BY <1>3, <1>4, <1>5 DEF all
    <2>2. all >= count /\ (n - 1) * max < count
      BY <2>1
    <2>3. QED
      BY <2>2 DEF all
  <1>7. <<n, 1, n>> # <<>> /\ <<n, 1, n>>[1] = n
    OBVIOUS
  <1>8. QED
    BY <1>1, <1>6, <1>7 DEF steps

\* What any ready plan was told is true.
LEMMA AnyReadyPlanHolds ==
  ASSUME NEW i, AnyPlan(i)
  PROVE  LET plan == planPayrollExecution(i) IN
         /\ plan.ready =>
              /\ i.proof # <<>>
              /\ Given(i.treasury) => i.treasury[1].balance >= i.treasury[1].required
              /\ Given(i.window) => i.window[1].now \in i.window[1].opens..i.window[1].closes
              /\ Given(i.authorization) => i.authorization[1].required \subseteq i.authorization[1].signed
              /\ Given(i.batch) => Cardinality({i.batch[1].commitments[k].employee : k \in DOMAIN i.batch[1].commitments})
                                     = Len(i.batch[1].commitments)
         /\ plan.ready /\ plan.warnings = {} =>
              Given(i.contract) /\ Given(i.treasury) /\ i.treasury[1].balance >= i.treasury[1].required + i.treasury[1].minReserve
         /\ plan.steps # <<>> => plan.steps[1] * i.max >= i.count /\ (plan.steps[1] - 1) * i.max < i.count
         /\ plan.steps = <<>> <=> i.count = 0
  <1> DEFINE plan == planPayrollExecution(i)
             checks == plan.checks
             c1 == buildTreasuryCheck(i.treasury)
             c2 == buildProofCheck(i.proof)
             c3 == buildSettlementWindowCheck(i.window)
             c4 == buildBatchCheck(i.batch, i.count)
             c5 == buildAuthorizationChecks(i.authorization)
  <1>1. PICK n \in {1, 2} :
           /\ DOMAIN checks = 1..(n + 5)
           /\ checks[1].id = "version"
           /\ checks[1].status = "warn" \/ Given(i.contract)
           /\ checks[n + 1] = c1 /\ checks[n + 2] = c2 /\ checks[n + 3] = c3 /\ checks[n + 4] = c4 /\ checks[n + 5] = c5
    BY ChecksAre
  <1>2. plan.ready <=> \A k \in DOMAIN checks : checks[k].status # "fail"
    BY DEF planPayrollExecution, Every
  <1>3. plan.warnings = {c \in ToSet(checks) : c.status = "warn"}
    BY Zenon DEF planPayrollExecution
  <1>4. plan.steps = estimateTransactionSteps(i.count, i.max)
    BY Zenon DEF planPayrollExecution
  <1> HIDE DEF plan, checks, c1, c2, c3, c4, c5
  <1>5. plan.ready => c1.status # "fail" /\ c2.status # "fail" /\ c3.status # "fail" /\ c4.status # "fail" /\ c5.status # "fail"
    BY <1>1, <1>2
  <1>6. plan.warnings = {} => checks[1].status # "warn" /\ c1.status # "warn"
    BY <1>1, <1>3 DEF ToSet
  <1>7. c2.status # "fail" => i.proof # <<>>
    BY DEF c2, buildProofCheck, Check, Given
  <1>8. Given(i.treasury) /\ c1.status # "fail" => i.treasury[1].balance >= i.treasury[1].required
    BY TreasuryChecked DEF c1
  <1>9. c1.status \notin {"fail", "warn"} =>
          Given(i.treasury) /\ i.treasury[1].balance >= i.treasury[1].required + i.treasury[1].minReserve
    <2> SUFFICES ASSUME c1.status \notin {"fail", "warn"}
                 PROVE  Given(i.treasury) /\ i.treasury[1].balance >= i.treasury[1].required + i.treasury[1].minReserve
      OBVIOUS
    <2>1. Given(i.treasury) /\ ~(i.treasury[1].balance - i.treasury[1].required < i.treasury[1].minReserve)
      BY TreasuryChecked DEF c1
    <2>2. i.treasury[1].balance \in Int /\ i.treasury[1].required \in Int /\ i.treasury[1].minReserve \in Int
      BY <2>1 DEF AnyPlan
    <2>3. QED
      BY <2>1, <2>2
  <1>10. Given(i.window) /\ c3.status # "fail" => i.window[1].now \in i.window[1].opens..i.window[1].closes
    BY WindowChecked DEF AnyPlan, c3
  <1>11. Given(i.authorization) /\ c5.status # "fail" => i.authorization[1].required \subseteq i.authorization[1].signed
    BY DEF c5, buildAuthorizationChecks, Check
  <1>12. Given(i.batch) /\ c4.status # "fail" =>
           Cardinality({i.batch[1].commitments[k].employee : k \in DOMAIN i.batch[1].commitments}) = Len(i.batch[1].commitments)
    <2> DEFINE b == i.batch
    <2> HIDE DEF b
    <2> SUFFICES ASSUME Given(b), c4.status # "fail"
                 PROVE  Cardinality({b[1].commitments[k].employee : k \in DOMAIN b[1].commitments}) = Len(b[1].commitments)
      BY DEF b
    <2>1. PICK m \in Nat : DOMAIN b[1].commitments = 1..m /\ Len(b[1].commitments) = m
      BY DEF b, AnyPlan
    <2>2. buildBatchCheck(b, i.count).status # "fail"
      BY DEF b, c4
    <2>3. QED
      BY <2>1, <2>2, BatchChecked
  <1>13. /\ plan.steps # <<>> => plan.steps[1] * i.max >= i.count /\ (plan.steps[1] - 1) * i.max < i.count
         /\ plan.steps = <<>> <=> i.count = 0
    <2>1. i.count \in Nat /\ i.max \in Nat /\ i.max > 0
      BY DEF AnyPlan
    <2>2. QED
      BY <1>4, <2>1, StepsAre
  <1>14. plan.ready /\ plan.warnings = {} =>
           Given(i.contract) /\ Given(i.treasury) /\ i.treasury[1].balance >= i.treasury[1].required + i.treasury[1].minReserve
    BY <1>1, <1>5, <1>6, <1>9
  <1>15. QED
    BY <1>5, <1>7, <1>8, <1>10, <1>11, <1>12, <1>13, <1>14 DEF plan

-----------------------------------------------------------------------------
(***************************************************************************)
(* policy/: any numbers, NaN among them.                                   *)
(***************************************************************************)
\* Of three checks that reported nothing none applied: the window of a policy that compiles.
LEMMA WindowIsLivable ==
  ASSUME NEW w, validateSettlementWindow(w) = {}, w[1].delay \in Int, w[1].open \in Int
  PROVE  number(w[1].delay) /\ w[1].delay >= 0 /\ w[1].open > 0 /\ w[1].delay < w[1].open
  <1> DEFINE p1 == ~number(w[1].delay) \/ w[1].delay < 0
             p2 == ~number(w[1].open) \/ w[1].open <= 0
             p3 == number(w[1].delay) /\ number(w[1].open) /\ w[1].delay >= 0 /\ w[1].open > 0 /\ w[1].delay >= w[1].open
  <1>1. AllOf(<< <<p1, "delay">>, <<p2, "open">>, <<p3, "window">> >>) = {}
    <2>1. {"missing"} # {}
      OBVIOUS
    <2>2. QED
      BY <2>1 DEF validateSettlementWindow
  <1> HIDE DEF p1, p2, p3
  <1>2. ~p1 /\ ~p2 /\ ~p3
    BY <1>1, ThreeCollected
  <1>3. QED
    BY <1>2 DEF p1, p2, p3

\* The limits of a policy that compiles allow a payout.
LEMMA CapacityIsLivable ==
  ASSUME NEW c, validateCapacityLimits(c) = {}, c[1].batch \in Int, c[1].total \in Int, c[1].each \in Int
  PROVE  c[1].total > 0 /\ c[1].each > 0
  <1> DEFINE p1 == c[1].batch <= 0
             p2 == c[1].total <= 0
             p3 == c[1].each <= 0
             p4 == c[1].total > 0 /\ c[1].each > 0 /\ c[1].each > c[1].total
  <1>1. AllOf(<< <<p1, "batch">>, <<p2, "total">>, <<p3, "each">>, <<p4, "each">> >>) = {}
    <2>1. {"missing"} # {}
      OBVIOUS
    <2>2. QED
      BY <2>1 DEF validateCapacityLimits
  <1> HIDE DEF p1, p2, p3, p4
  <1>2. ~p1 /\ ~p2 /\ ~p3 /\ ~p4
    BY <1>1, FourCollected
  <1>3. QED
    BY <1>2 DEF p2, p3

\* An audit that is required lasts a day.
LEMMA AuditIsLivable ==
  ASSUME NEW a, validateAuditSettings(a) = {}, a[1].days \in Int
  PROVE  a[1].required => a[1].days >= 1
  <1> DEFINE p1 == a[1].days < 0
             p2 == a[1].required /\ a[1].days < 1
  <1>1. AllOf(<< <<p1, "days">>, <<p2, "days">> >>) = {}
    <2>1. {"missing"} # {}
      OBVIOUS
    <2>2. QED
      BY <2>1 DEF validateAuditSettings
  <1> HIDE DEF p1, p2
  <1>2. ~p1 /\ ~p2
    BY <1>1, TwoCollected
  <1>3. QED
    BY <1>2 DEF p2

\* The numbers of a policy; a value that is no number is one of them.
AnyPolicy(p) ==
  /\ p.window[1].delay \in Int /\ p.window[1].open \in Int
  /\ p.capacity[1].batch \in Int /\ p.capacity[1].total \in Int /\ p.capacity[1].each \in Int
  /\ p.reserve[1] \in Int /\ p.audit[1].days \in Int

\* The parts a policy lacks when they are not given have no numbers.
GivenParts(p) == Given(p.window) /\ Given(p.capacity) /\ Given(p.reserve) /\ Given(p.audit)

\* A policy that compiles has all its parts, and can be lived with.
LEMMA AnyPolicyIsSatisfiable ==
  ASSUME NEW p, compilePayrollPolicy(p).ok, GivenParts(p) => AnyPolicy(p)
  PROVE  /\ GivenParts(p)
         /\ p.window[1].delay >= 0 /\ p.window[1].delay < p.window[1].open
         /\ p.capacity[1].each >= 1 /\ p.capacity[1].total >= 1
         /\ p.reserve[1] \in 0..p.capacity[1].total
         /\ p.audit[1].required => p.audit[1].days >= 1
  <1> DEFINE crossing == Given(p.reserve) /\ Given(p.capacity) /\ p.reserve[1] > 0 /\ p.capacity[1].total > 0
                         /\ p.reserve[1] > p.capacity[1].total
  <1>1. /\ validateSettlementWindow(p.window) = {} /\ validateCapacityLimits(p.capacity) = {}
        /\ validateReserveRequirements(p.reserve) = {} /\ validateAuditSettings(p.audit) = {} /\ ~crossing
    <2> DEFINE S1 == IF p.id = Nil THEN {"id"} ELSE {}
               S2 == IF p.asset THEN {} ELSE {"asset"}
               S3 == validateSettlementWindow(p.window)
               S4 == validateCapacityLimits(p.capacity)
               S5 == validateReserveRequirements(p.reserve)
               S6 == validateAuditSettings(p.audit)
               S7 == IF crossing THEN {"crossing"} ELSE {}
    <2>1. compilePayrollPolicy(p).ok <=> (S1 \cup S2 \cup S3 \cup S4 \cup S5 \cup S6 \cup S7) = {}
      BY DEF compilePayrollPolicy
    <2>2. crossing => "crossing" \in S7
      OBVIOUS
    <2> HIDE DEF S1, S2, S3, S4, S5, S6, S7, crossing
    <2>3. S3 = {} /\ S4 = {} /\ S5 = {} /\ S6 = {} /\ S7 = {}
      BY <2>1
    <2>4. QED
      BY <2>2, <2>3 DEF S3, S4, S5, S6
  <1>2. GivenParts(p)
    <2>1. {"missing"} # {}
      OBVIOUS
    <2>2. Given(p.window)
      BY <1>1, <2>1 DEF validateSettlementWindow
    <2>3. Given(p.capacity)
      BY <1>1, <2>1 DEF validateCapacityLimits
    <2>4. Given(p.reserve)
      BY <1>1, <2>1 DEF validateReserveRequirements
    <2>5. Given(p.audit)
      BY <1>1, <2>1 DEF validateAuditSettings
    <2>6. QED
      BY <2>2, <2>3, <2>4, <2>5 DEF GivenParts
  <1>3. AnyPolicy(p)
    BY <1>2
  <1>4. p.window[1].delay >= 0 /\ p.window[1].delay < p.window[1].open
    BY <1>1, <1>3, WindowIsLivable DEF AnyPolicy
  <1>5. p.capacity[1].total > 0 /\ p.capacity[1].each > 0
    BY <1>1, <1>3, CapacityIsLivable DEF AnyPolicy
  <1>6. p.audit[1].required => p.audit[1].days >= 1
    BY <1>1, <1>3, AuditIsLivable DEF AnyPolicy
  <1>7. ~(p.reserve[1] < 0)
    <2>1. {"reserve"} # {}
      OBVIOUS
    <2>2. QED
      BY <1>1, <1>2, <2>1 DEF validateReserveRequirements, GivenParts
  <1>8. p.reserve[1] \in Int /\ p.capacity[1].total \in Int /\ p.capacity[1].each \in Int
    BY <1>3 DEF AnyPolicy
  <1>9. ~(p.reserve[1] > 0 /\ p.reserve[1] > p.capacity[1].total)
    BY <1>1, <1>2, <1>5 DEF GivenParts
  <1>10. p.reserve[1] \in 0..p.capacity[1].total
    BY <1>5, <1>7, <1>8, <1>9
  <1>11. QED
    BY <1>2, <1>4, <1>5, <1>6, <1>8, <1>10

-----------------------------------------------------------------------------
(***************************************************************************)
(* simulation/: any staff and any balance.                                 *)
(***************************************************************************)
AnySimulation(q) ==
  /\ \E n \in Nat : DOMAIN q.employees = 1..n /\ Len(q.employees) = n
  /\ \A k \in DOMAIN q.employees : q.employees[k].salary \in Int
  /\ q.balance \in Int

\* What an outcome is made of.
LEMMA OutcomeHas ==
  ASSUME NEW id, NEW status, NEW error, NEW hint, NEW commitment
  PROVE  LET o == Outcome(id, status, error, hint, commitment) IN o.commitment = commitment /\ o.status = status /\ o.hint = hint
  BY DEF Outcome

\* An outcome is one of four: refused, not proved, not seen in time, rejected, or paid.
LEMMA PaymentIs ==
  ASSUME NEW e, NEW commitments, NEW q
  PROVE  LET o == processSinglePayment(e, commitments, q) IN
         /\ o.commitment = commitmentFor(e.id, commitments)
         /\ deriveErrorCode(o) = "TRANSACTION_FAILED" => o.hint = "rejected"
  <1> DEFINE o == processSinglePayment(e, commitments, q)
             c == commitmentFor(e.id, commitments)
  <1>1. \/ o = Outcome(e.id, "failed", "proof", "unexpected", c)
        \/ o = Outcome(e.id, "failed", "timed out", "may still be processing", c)
        \/ o = Outcome(e.id, "failed", "failed", "rejected", c)
        \/ o = Outcome(e.id, "confirmed", Nil, Nil, c)
    BY DEF processSinglePayment, simulatePolling
  <1> DEFINE id == e.id
  <1> HIDE DEF o, c, id
  <1>2. o.commitment = c
    <2>1. \A status, error, hint : Outcome(id, status, error, hint, c).commitment = c
      BY OutcomeHas
    <2>2. QED
      BY <1>1, <2>1 DEF id
  <1>3. deriveErrorCode(o) = "TRANSACTION_FAILED" => o.hint = "rejected"
    BY DEF deriveErrorCode
  <1>4. QED
    BY <1>2, <1>3 DEF o, c

\* Every employee whose id is its own is committed to its own record.
LEMMA CommitmentIs ==
  ASSUME NEW staff, NEW n \in Nat, DOMAIN staff = 1..n, distinct([k \in DOMAIN staff |-> staff[k].id]), NEW i \in 1..n
  PROVE  commitmentFor(staff[i].id, generateCommitments(staff)) = staff[i]
  <1> DEFINE commitments == generateCommitments(staff)
             found == {k \in DOMAIN commitments : commitments[k].id = staff[i].id}
  <1>1. DOMAIN commitments = 1..n /\ \A k \in 1..n : commitments[k].id = staff[k].id /\ commitments[k].of = staff[k]
    BY DEF generateCommitments
  <1>2. \A k \in 1..n : k # i => staff[k].id # staff[i].id
    BY DEF distinct
  <1>3. commitmentFor(staff[i].id, commitments) = commitments[Min(found)].of
    BY Zenon DEF commitmentFor
  <1> HIDE DEF commitments
  <1>4. found = {i}
    BY <1>1, <1>2
  <1>5. i \in Nat
    OBVIOUS
  <1>6. Min({i}) = i
    BY <1>5, Smallest
  <1>7. QED
    BY <1>1, <1>3, <1>4, <1>6 DEF commitments

\* The outcomes of a run are either confirmed or not.
LEMMA GoodAndBad ==
  ASSUME NEW outcomes, NEW n \in Nat, DOMAIN outcomes = 1..n
  PROVE  LET r == buildReconciliation(outcomes) IN
         /\ r.good + r.bad = n
         /\ r.status = "success" <=> \A k \in 1..n : outcomes[k].status = "confirmed"
  <1> DEFINE S == {k \in DOMAIN outcomes : outcomes[k].status = "confirmed"}
             T == {k \in DOMAIN outcomes : outcomes[k].status # "confirmed"}
             good == Cardinality(S)
             bad == Cardinality(T)
             r == buildReconciliation(outcomes)
  <1>1. r.good = good /\ r.bad = bad
    BY Zenon DEF buildReconciliation, Count
  <1>2. r.status = CASE bad = 0 -> "success" [] bad # 0 /\ good = 0 -> "failure" [] OTHER -> "partial"
    BY Zenon DEF buildReconciliation, Count
  <1>3. S \in SUBSET (1..n) /\ T \in SUBSET (1..n) /\ S \cap T = {} /\ S \cup T = 1..n
    OBVIOUS
  <1>4. T = {} <=> \A k \in 1..n : outcomes[k].status = "confirmed"
    OBVIOUS
  <1> HIDE DEF S, T, r
  <1>5. good + bad = n
    <2>1. Cardinality(S \cup T) = good + bad
      BY <1>3, DisjointPlaces
    <2>2. Cardinality(1..n) = n
      BY FS_Interval
    <2>3. QED
      BY <1>3, <2>1, <2>2
  <1>6. bad = 0 <=> T = {}
    BY <1>3, PlacesCounted
  <1> HIDE DEF good, bad
  <1>7. r.status = "success" <=> bad = 0
    BY <1>2
  <1>8. QED
    BY <1>1, <1>4, <1>5, <1>6, <1>7 DEF r

\* A simulated run of any staff adds up.
LEMMA AnySimulationAddsUp ==
  ASSUME NEW q, AnySimulation(q), simulatorRun(q).status # "throws"
  PROVE  LET r == simulatorRun(q) IN
         /\ r.summary.good + r.summary.bad = Len(q.employees)
         /\ r.status = "success" <=> Every(LAMBDA o : o.status = "confirmed", r.outcomes)
         /\ (\E i \in DOMAIN r.outcomes : r.outcomes[i].status = "confirmed") => SumBy(LAMBDA e : e.salary, q.employees) <= q.balance
         /\ distinct([k \in DOMAIN q.employees |-> q.employees[k].id]) => \A i \in DOMAIN r.outcomes : r.outcomes[i].commitment = q.employees[i]
         /\ \A i \in DOMAIN r.outcomes : r.summary.codes[i] = "TRANSACTION_FAILED" => r.outcomes[i].hint = "rejected"
  <1> DEFINE r == simulatorRun(q)
             staff == q.employees
             commitments == generateCommitments(staff)
             own(i) == commitmentFor(staff[i].id, commitments)
             refused == [i \in DOMAIN staff |-> Outcome(staff[i].id, "failed", "insufficient", "deposit", own(i))]
             paid == [i \in DOMAIN staff |-> processSinglePayment(staff[i], commitments, q)]
             outcomes == IF checkTreasury(q.balance, staff) THEN paid ELSE refused
             salaries == [i \in DOMAIN staff |-> staff[i].salary]
  <1>1. PICK n \in Nat : DOMAIN staff = 1..n /\ Len(staff) = n
    BY DEF AnySimulation
  <1>2. r.status = buildReconciliation(outcomes).status /\ r.outcomes = outcomes /\ r.summary = buildReconciliation(outcomes)
    BY DEF simulatorRun
  <1>3. checkTreasury(q.balance, staff) <=> q.balance >= Total(salaries)
    BY Zenon DEF checkTreasury, SumBy
  <1>4. SumBy(LAMBDA e : e.salary, staff) = Total(salaries)
    BY Zenon DEF SumBy
  <1>5. Total(salaries) \in Int
    <2>1. DOMAIN salaries = 1..n /\ \A i \in 1..n : salaries[i] \in Int
      BY <1>1 DEF AnySimulation
    <2> HIDE DEF salaries
    <2>2. QED
      BY <2>1, TotalIsInteger
  <1>6. \A i \in 1..n : paid[i] = processSinglePayment(staff[i], commitments, q)
    BY <1>1
  <1>7. \A i \in 1..n : refused[i] = Outcome(staff[i].id, "failed", "insufficient", "deposit", own(i))
    BY <1>1
  <1>8. DOMAIN outcomes = 1..n
    BY <1>1
  <1>9. outcomes = IF checkTreasury(q.balance, staff) THEN paid ELSE refused
    OBVIOUS
  <1> HIDE DEF r, commitments, refused, paid, outcomes, salaries
  <1>10. \A i \in 1..n : outcomes[i].commitment = own(i)
    <2>1. \A i \in 1..n : paid[i].commitment = own(i)
      BY <1>6, PaymentIs
    <2>2. \A i \in 1..n : refused[i].commitment = own(i)
      <3> HIDE DEF own
      <3>1. QED
        BY <1>7, OutcomeHas
    <2>3. QED
      BY <1>9, <2>1, <2>2
  <1>11. \A i \in 1..n : deriveErrorCode(outcomes[i]) = "TRANSACTION_FAILED" => outcomes[i].hint = "rejected"
    BY DEF deriveErrorCode
  <1>12. distinct([k \in DOMAIN staff |-> staff[k].id]) => \A i \in 1..n : own(i) = staff[i]
    BY <1>1, CommitmentIs DEF commitments
  <1>13. (\E i \in 1..n : outcomes[i].status = "confirmed") => Total(salaries) <= q.balance
    <2>1. \A i \in 1..n : refused[i].status = "failed"
      <3> HIDE DEF own
      <3>1. QED
        BY <1>7, OutcomeHas
    <2>2. (\E i \in 1..n : outcomes[i].status = "confirmed") => checkTreasury(q.balance, staff)
      BY <1>9, <2>1
    <2>3. q.balance \in Int
      BY DEF AnySimulation
    <2>4. QED
      BY <1>3, <1>5, <2>2, <2>3
  <1>14. /\ r.summary.good + r.summary.bad = n
         /\ r.status = "success" <=> \A k \in 1..n : outcomes[k].status = "confirmed"
    BY <1>2, <1>8, GoodAndBad
  <1>15. \A i \in 1..n : r.summary.codes[i] = deriveErrorCode(outcomes[i])
    BY <1>2, <1>8 DEF buildReconciliation
  <1> HIDE DEF own
  <1>16. Every(LAMBDA o : o.status = "confirmed", r.outcomes) <=> \A k \in 1..n : outcomes[k].status = "confirmed"
    BY <1>2, <1>8 DEF Every
  <1>17. /\ r.summary.good + r.summary.bad = Len(q.employees)
         /\ r.status = "success" <=> Every(LAMBDA o : o.status = "confirmed", r.outcomes)
    BY <1>1, <1>14, <1>16
  <1>18. (\E i \in DOMAIN r.outcomes : r.outcomes[i].status = "confirmed") => SumBy(LAMBDA e : e.salary, q.employees) <= q.balance
    BY <1>2, <1>4, <1>8, <1>13
  <1>19. distinct([k \in DOMAIN q.employees |-> q.employees[k].id]) => \A i \in DOMAIN r.outcomes : r.outcomes[i].commitment = q.employees[i]
    BY <1>2, <1>8, <1>10, <1>12
  <1>20. \A i \in DOMAIN r.outcomes : r.summary.codes[i] = "TRANSACTION_FAILED" => r.outcomes[i].hint = "rejected"
    BY <1>2, <1>8, <1>11, <1>15
  <1>21. QED
    BY <1>17, <1>18, <1>19, <1>20 DEF r

\* The category the text of a response gives it as a chain of conditions.
LEMMA TextCategoryIs ==
  ASSUME NEW r
  PROVE  LET fails == Some(LAMBDA f : f.code = "SIM_ERROR", r.findings)
             category == parseSimulationText(r).category
         IN  /\ category = "policyWarning" \/ (r.canProceed /\ ~fails => category = "ready")
             /\ category = "ready" <=> r.canProceed /\ ~fails /\ ~warned(r)
             /\ r.canProceed /\ ~fails => parseSimulationText(r).canProceed
             /\ parseSimulationText(r).canProceed => r.canProceed /\ parseSimulationText(r).retryable
  <1> DEFINE fails == Some(LAMBDA f : f.code = "SIM_ERROR", r.findings)
             b == parseSimulationText(r)
             p1 == r.canProceed /\ ~fails /\ warned(r)
             p2 == r.canProceed /\ ~fails
             p3 == "auth" \in SimWords(r)
             p4 == "fund" \in SimWords(r)
             p5 == "proof" \in SimWords(r)
             p6 == SimWords(r) \cap {"warn", "policy"} # {}
             chosen == FirstOf(<< <<p1, "policyWarning">>, <<p2, "ready">>, <<p3, "authFailure">>, <<p4, "fundingFailure">>, <<p5, "proofFailure">>,
                                  <<p6, "policyWarning">> >>, "unknownFailure")
  <1>1. b = [category |-> chosen, canProceed |-> r.canProceed /\ chosen \in {"ready", "policyWarning"},
             retryable |-> chosen \in {"ready", "policyWarning", "fundingFailure"}]
    BY Zenon DEF parseSimulationText
  <1> HIDE DEF p1, p2, p3, p4, p5, p6
  <1>2. ASSUME NEW x1, NEW x2, NEW x3, NEW x4, NEW x5, NEW x6, NEW o
        PROVE  FirstOf(<< <<p1, x1>>, <<p2, x2>>, <<p3, x3>>, <<p4, x4>>, <<p5, x5>>, <<p6, x6>> >>, o) =
                 IF p1 THEN x1 ELSE IF p2 THEN x2 ELSE IF p3 THEN x3 ELSE IF p4 THEN x4 ELSE IF p5 THEN x5 ELSE IF p6 THEN x6 ELSE o
    BY SixChecks
  <1>3. chosen = IF p1 THEN "policyWarning" ELSE IF p2 THEN "ready" ELSE IF p3 THEN "authFailure" ELSE IF p4 THEN "fundingFailure"
                 ELSE IF p5 THEN "proofFailure" ELSE IF p6 THEN "policyWarning" ELSE "unknownFailure"
    BY <1>2
  <1> HIDE DEF b, chosen, fails
  <1>4. b.category = chosen /\ (b.canProceed <=> r.canProceed /\ chosen \in {"ready", "policyWarning"})
        /\ (b.retryable <=> chosen \in {"ready", "policyWarning", "fundingFailure"})
    BY <1>1
  <1>5. (p1 <=> p2 /\ warned(r)) /\ (p2 <=> r.canProceed /\ ~fails)
    BY DEF p1, p2
  <1>6. QED
    BY <1>3, <1>4, <1>5 DEF b, fails

\* What the parser of results says of a response.
LEMMA ResultIs ==
  ASSUME NEW r
  PROVE  LET a == parseSimulationResult(r)
             errors == {i \in DOMAIN r.findings : severityOf(r.findings[i]) = "error"}
         IN  /\ a.ready <=> r.status = "success" /\ r.canProceed /\ errors = {}
             /\ errors = {} => a.category \in {"success", "policy_warning"}
  <1> DEFINE errors == {i \in DOMAIN r.findings : severityOf(r.findings[i]) = "error"}
             warns == Some(LAMBDA f : severityOf(f) = "warning", r.findings)
             category == CASE errors # {} -> classifySimulationFailure(r.findings[Min(errors)].words)
                           [] errors = {} /\ (warns \/ r.status = "warning") -> "policy_warning" [] OTHER -> "success"
  <1>1. parseSimulationResult(r) = [category |-> category, ready |-> readyOf(r, errors # {})]
    BY Zenon DEF parseSimulationResult
  <1>2. readyOf(r, errors # {}) <=> r.status = "success" /\ r.canProceed /\ ~(errors # {})
    BY DEF readyOf
  <1>3. errors = {} => category \in {"success", "policy_warning"}
    <2> HIDE DEF errors, warns
    <2>1. QED
      OBVIOUS
  <1> HIDE DEF category, errors
  <1>4. QED
    BY <1>1, <1>2, <1>3 DEF errors

\* The two readers of any response.
LEMMA AnyReadersAgree ==
  ASSUME NEW r
  PROVE  LET a == parseSimulationResult(r) b == parseSimulationText(r) IN
         /\ a.ready => r.canProceed /\ a.category \in {"success", "policy_warning"}
         /\ b.canProceed => r.canProceed /\ b.retryable
         /\ a.ready => (b.canProceed \/ Some(LAMBDA f : f.code = "SIM_ERROR", r.findings))
  <1>1. parseSimulationResult(r).ready => r.canProceed /\ parseSimulationResult(r).category \in {"success", "policy_warning"}
    BY ResultIs
  <1>2. parseSimulationText(r).canProceed => r.canProceed /\ parseSimulationText(r).retryable
    BY Zenon, TextCategoryIs
  <1>3. r.canProceed /\ ~Some(LAMBDA f : f.code = "SIM_ERROR", r.findings) => parseSimulationText(r).canProceed
    BY Zenon, TextCategoryIs
  <1>4. QED
    BY Zenon, <1>1, <1>2, <1>3

\* The payment a simulation is about.
AnySimulated(p) == IsFiniteSet(p.invalid) /\ p.amount \in Int

\* The findings about a payment: errors, or warnings that carry a code of their own.
LEMMA FindingsAre ==
  ASSUME NEW p, AnySimulated(p)
  PROVE  LET r == simulatePayroll(p) IN
         /\ \E n \in Nat : DOMAIN r.findings = 1..n /\ (n = 0 <=> r.findings = <<>>)
         /\ \A k \in DOMAIN r.findings :
              /\ r.findings[k].severity = "error" \/ r.findings[k].code \in {"LOW_AMOUNT", "HIGH_AMOUNT", "UNRECOGNIZED_ASSET_FORMAT"}
              /\ r.findings[k].code # "SIM_ERROR" /\ r.findings[k].severity \in {"error", "warning"}
  <1> DEFINE f1 == Finding("INVALID", "error", {})
             f2 == Finding("LOW_AMOUNT", "warning", {"amount"})
             f3 == Finding("HIGH_AMOUNT", "warning", {"amount"})
             f4 == Finding("UNRECOGNIZED_ASSET_FORMAT", "warning", {"asset"})
             Known == {f1, f2, f3, f4}
             s1 == validateFields(p)
             s2 == checkAmountWarnings(p)
             s3 == checkAssetWarnings(p)
             list == simulatePayroll(p).findings
  <1>1. list = (s1 \o s2) \o s3
    BY DEF simulatePayroll
  <1>2. \A f \in Known : /\ f.severity = "error" \/ f.code \in {"LOW_AMOUNT", "HIGH_AMOUNT", "UNRECOGNIZED_ASSET_FORMAT"}
                         /\ f.code # "SIM_ERROR" /\ f.severity \in {"error", "warning"}
    BY DEF Finding
  <1>3. s1 = [i \in 1..Cardinality(p.invalid) |-> f1]
    BY DEF validateFields
  <1>4. s2 \in {<<f2>>, <<f3>>, <<>>}
    BY DEF checkAmountWarnings
  <1>5. s3 \in {<<f4>>, <<>>}
    BY DEF checkAssetWarnings
  <1>6. Cardinality(p.invalid) \in Nat
    BY FS_CardinalityType DEF AnySimulated
  <1> HIDE DEF f1, f2, f3, f4, s1, s2, s3, list
  <1>7. s1 \in Seq(Known)
    BY <1>3, <1>6
  <1>8. <<f2>> \in Seq(Known) /\ <<f3>> \in Seq(Known) /\ <<f4>> \in Seq(Known) /\ <<>> \in Seq(Known)
    OBVIOUS
  <1>9. s2 \in Seq(Known) /\ s3 \in Seq(Known)
    BY <1>4, <1>5, <1>8
  <1> HIDE DEF Known
  <1>10. list \in Seq(Known)
    BY <1>1, <1>7, <1>9
  <1>11. /\ Len(list) \in Nat /\ DOMAIN list = 1..Len(list) /\ (Len(list) = 0 <=> list = <<>>)
         /\ \A k \in DOMAIN list : list[k] \in Known
    BY <1>10
  <1>12. QED
    BY <1>2, <1>11 DEF list

\* A payment with a finding is ready for neither reader, one without for both.
LEMMA AnyPaymentReadAlike ==
  ASSUME NEW p, AnySimulated(p)
  PROVE  LET r == simulatePayroll(p) a == parseSimulationResult(r) b == parseSimulationText(r) IN
         (a.ready <=> b.category = "ready") /\ (r.findings # <<>> => ~a.ready)
  <1> DEFINE r == simulatePayroll(p)
             list == r.findings
             errors == \E k \in DOMAIN list : list[k].severity = "error"
             fails == Some(LAMBDA f : f.code = "SIM_ERROR", list)
  <1>1. /\ r.status = IF errors THEN "error" ELSE IF list # <<>> THEN "warning" ELSE "success"
        /\ r.canProceed <=> ~errors
    BY DEF simulatePayroll, Some
  <1>2. PICK n \in Nat : DOMAIN list = 1..n /\ (n = 0 <=> list = <<>>)
    BY FindingsAre
  <1>3. \A k \in DOMAIN list :
              /\ list[k].severity = "error" \/ list[k].code \in {"LOW_AMOUNT", "HIGH_AMOUNT", "UNRECOGNIZED_ASSET_FORMAT"}
              /\ list[k].code # "SIM_ERROR" /\ list[k].severity \in {"error", "warning"}
    BY FindingsAre
  <1>4. parseSimulationResult(r).ready <=>
          r.status = "success" /\ r.canProceed /\ {k \in DOMAIN list : severityOf(list[k]) = "error"} = {}
    BY Zenon, ResultIs
  <1>5. parseSimulationText(r).category = "ready" <=> r.canProceed /\ ~fails /\ ~warned(r)
    BY Zenon, TextCategoryIs
  <1>6. ~fails
    BY <1>3 DEF Some
  <1>7. warned(r) <=> \/ SimWords(r) \cap {"warn", "policy"} # {}
                      \/ \E k \in DOMAIN list : list[k].code \in {"LOW_AMOUNT", "HIGH_AMOUNT", "UNRECOGNIZED_ASSET_FORMAT"}
    BY DEF warned, Some
  <1>8. SimWords(r) = UNION {list[k].words : k \in DOMAIN list} \cup (IF r.status = "warning" THEN {"warn"} ELSE {})
    BY Zenon DEF SimWords
  <1> HIDE DEF r, list
  <1>9. CASE list = <<>>
    <2>1. DOMAIN list = {} /\ ~errors
      BY <1>2, <1>9
    <2>2. r.status = "success" /\ r.canProceed
      BY <1>1, <1>9, <2>1
    <2>3. SimWords(r) = {}
      BY <1>8, <2>1, <2>2
    <2>4. ~warned(r)
      BY <1>7, <2>1, <2>3
    <2>5. {k \in DOMAIN list : severityOf(list[k]) = "error"} = {}
      BY <2>1
    <2>6. QED
      BY <1>4, <1>5, <1>6, <1>9, <2>2, <2>4, <2>5 DEF r, list
  <1>10. CASE list # <<>>
    <2>1. n # 0 /\ 1 \in DOMAIN list
      BY <1>2, <1>10
    <2>2. r.status # "success"
      BY <1>1, <1>10
    <2>3. r.canProceed => warned(r)
      BY <1>1, <1>3, <1>7, <2>1
    <2>4. QED
      BY <1>4, <1>5, <2>2, <2>3 DEF r, list
  <1>11. QED
    BY <1>9, <1>10

-----------------------------------------------------------------------------
\* When an entry was stored, for how long, and when it is read; no time is mistaken for Never.
AnyCacheRead(i) == i.at \in Nat /\ i.ttl \in Nat /\ i.now \in Nat /\ i.at + i.ttl # Never

\* An entry that is read with its metadata is fresh, whenever it is read.
LEMMA AnyCachedIsFresh ==
  ASSUME NEW i, AnyCacheRead(i)
  PROVE  LET e == setWithMetadata(i.at, i.ttl) IN
         /\ cacheGetWithMetadata(e, i.now) => ~createCacheReadResult(e, i.now).stale /\ cacheGet(e, i.now)
         /\ i.ttl = 0 => cacheGetWithMetadata(e, i.now)
  <1> DEFINE e == setWithMetadata(i.at, i.ttl)
  <1>1. e.expiresAt = IF i.ttl > 0 THEN i.at + i.ttl ELSE Never
    BY DEF setWithMetadata
  <1>2. createCacheReadResult(e, i.now).stale <=> e.expiresAt # Never /\ i.now >= e.expiresAt
    BY DEF createCacheReadResult
  <1>3. i.at + i.ttl \in Nat /\ i.now \in Nat /\ i.ttl \in Nat /\ Never \in Nat
    BY DEF AnyCacheRead, Never
  <1> HIDE DEF e
  <1>4. QED
    BY <1>1, <1>2, <1>3 DEF cacheGetWithMetadata, cacheGet, e


-----------------------------------------------------------------------------
PlansAsked ==
  /\ Asked("versions", VersionInputs) /\ Asked("plan", PlanInputs) /\ Asked("policy", PolicyInputs)
  /\ Asked("simulation", SimulationInputs) /\ Asked("response", ResponseInputs) /\ Asked("cache", CacheReadInputs)

\* What is asked before a payroll is executed is one of its inputs.
LEMMA PlansAreAsked == RulesSpec => []PlansAsked
  <1>1. RulesInit => PlansAsked
    BY DEF RulesInit, Unasked, PlansAsked, Asked, About
  <1>2. PlansAsked /\ [RulesNext]_subject => PlansAsked'
    <2> SUFFICES ASSUME PlansAsked, [RulesNext]_subject PROVE PlansAsked'
      OBVIOUS
    <2>1. CASE UNCHANGED subject
      BY <2>1 DEF PlansAsked, Asked, About
    <2>2. CASE RulesNext
      <3>1. Asked("versions", VersionInputs)'
        BY <2>2 DEF RulesNext, Ask, Asked, About
      <3>2. Asked("plan", PlanInputs)'
        BY <2>2 DEF RulesNext, Ask, Asked, About
      <3>3. Asked("policy", PolicyInputs)'
        BY <2>2 DEF RulesNext, Ask, Asked, About
      <3>4. Asked("simulation", SimulationInputs)'
        BY <2>2 DEF RulesNext, Ask, Asked, About
      <3>5. Asked("response", ResponseInputs)'
        BY <2>2 DEF RulesNext, Ask, Asked, About
      <3>6. Asked("cache", CacheReadInputs)'
        BY <2>2 DEF RulesNext, Ask, Asked, About
      <3>7. QED
        BY <3>1, <3>2, <3>3, <3>4, <3>5, <3>6 DEF PlansAsked
    <2>3. QED
      BY <2>1, <2>2
  <1>3. QED
    BY <1>1, <1>2, PTL DEF RulesSpec

\* The versions the run compares, each number after the first a digit.
LEMMA VersionClass ==
  ASSUME NEW v \in Versions
  PROVE  AnyVersion(v) /\ v[2] \in 0..9 /\ v[3] \in 0..9
  BY DEF Versions, AnyVersion

\* The freshness the run asks about.
LEMMA CacheReadClass ==
  ASSUME NEW i \in CacheReadInputs
  PROVE  AnyCacheRead(i)
  <1>1. PICK s \in {0, 3}, t \in 0..3, n \in 0..8 : i = [at |-> s, ttl |-> t, now |-> n]
    BY DEF CacheReadInputs
  <1>2. i.at = s /\ i.ttl = t /\ i.now = n
    BY <1>1
  <1>3. QED
    BY <1>2 DEF AnyCacheRead, Never

\* The payments whose simulation the run reads.
LEMMA SimulatedClass ==
  ASSUME NEW r \in SimulatedPaymentInputs
  PROVE  \E p : AnySimulated(p) /\ r = simulatePayroll(p)
  <1> DEFINE Invalid == {{}, {"amount"}, {"amount", "asset"}}
             of(v, a, s) == [invalid |-> v, amount |-> a, asset |-> s]
  <1>1. SimulatedPaymentInputs = {simulatePayroll(of(v, a, s)) : v \in Invalid, a \in {0, 1, 99, 100, 1000, 1001}, s \in {"native", "odd"}}
    BY DEF SimulatedPaymentInputs
  <1>2. \A v \in Invalid : IsFiniteSet(v)
    <2>1. IsFiniteSet({}) /\ IsFiniteSet({"amount"})
      BY FS_EmptySet, FS_Singleton
    <2>2. {"amount", "asset"} = {"amount"} \cup {"asset"}
      OBVIOUS
    <2>3. IsFiniteSet({"amount", "asset"})
      BY <2>1, <2>2, FS_AddElement
    <2>4. QED
      BY <2>1, <2>3
  <1> HIDE DEF Invalid
  <1>3. \A v \in Invalid, a \in {0, 1, 99, 100, 1000, 1001}, s \in {"native", "odd"} : AnySimulated(of(v, a, s))
    BY <1>2 DEF AnySimulated
  <1> HIDE DEF of
  <1>4. QED
    BY <1>1, <1>3

\* The policies the run compiles.
LEMMA PolicyClass ==
  ASSUME NEW p \in PolicyInputs
  PROVE  /\ GivenParts(p) => AnyPolicy(p)
         /\ Given(p.window) => p.window[1].delay <= 2
  <1> DEFINE Windows == Maybe({[delay |-> d, open |-> o] : d \in {NaN, -1, 0, 2}, o \in {NaN, 0, 2, 3}})
             Capacities == Maybe({[batch |-> n, total |-> t, each |-> e] : t \in {0, 2, 3}, e \in {0, 2, 3}, n \in {0, 1}})
             Reserves == Maybe({-1, 0, 2, 3})
             Audits == Maybe({[required |-> q, days |-> d] : q \in BOOLEAN, d \in {0, 1}})
  <1>1. \A w \in Windows : Given(w) => w[1].delay \in Int /\ w[1].open \in Int /\ w[1].delay <= 2
    <2> SUFFICES ASSUME NEW w \in Windows, Given(w) PROVE w[1].delay \in Int /\ w[1].open \in Int /\ w[1].delay <= 2
      OBVIOUS
    <2>1. PICK d \in {NaN, -1, 0, 2}, o \in {NaN, 0, 2, 3} : w = <<[delay |-> d, open |-> o]>>
      BY DEF Maybe, Given
    <2>2. w[1].delay = d /\ w[1].open = o
      BY <2>1
    <2>3. NaN \in Int /\ NaN <= 2
      BY DEF NaN
    <2>4. QED
      BY <2>2, <2>3
  <1>2. \A c \in Capacities : Given(c) => c[1].batch \in Int /\ c[1].total \in Int /\ c[1].each \in Int
    <2> SUFFICES ASSUME NEW c \in Capacities, Given(c) PROVE c[1].batch \in Int /\ c[1].total \in Int /\ c[1].each \in Int
      OBVIOUS
    <2>1. PICK t \in {0, 2, 3}, e \in {0, 2, 3}, n \in {0, 1} : c = <<[batch |-> n, total |-> t, each |-> e]>>
      BY DEF Maybe, Given
    <2>2. c[1].batch = n /\ c[1].total = t /\ c[1].each = e
      BY <2>1
    <2>3. QED
      BY <2>2
  <1>3. \A r \in Reserves : Given(r) => r[1] \in Int
    BY DEF Maybe, Given
  <1>4. \A u \in Audits : Given(u) => u[1].days \in Int
    <2> SUFFICES ASSUME NEW u \in Audits, Given(u) PROVE u[1].days \in Int
      OBVIOUS
    <2>1. PICK q \in BOOLEAN, d \in {0, 1} : u = <<[required |-> q, days |-> d]>>
      BY DEF Maybe, Given
    <2>2. u[1].days = d
      BY <2>1
    <2>3. QED
      BY <2>2
  <1>5. PolicyInputs = {[id |-> "p", asset |-> a, window |-> w, capacity |-> c, reserve |-> r, audit |-> u] :
                          a \in BOOLEAN, w \in Windows, c \in Capacities, r \in Reserves, u \in Audits}
    BY DEF PolicyInputs
  <1> HIDE DEF Windows, Capacities, Reserves, Audits
  <1>6. PICK a \in BOOLEAN, w \in Windows, c \in Capacities, r \in Reserves, u \in Audits :
          p = [id |-> "p", asset |-> a, window |-> w, capacity |-> c, reserve |-> r, audit |-> u]
    BY <1>5
  <1>7. p.window = w /\ p.capacity = c /\ p.reserve = r /\ p.audit = u
    BY <1>6
  <1>8. QED
    BY <1>1, <1>2, <1>3, <1>4, <1>7 DEF GivenParts, AnyPolicy

\* The runs the run simulates.
LEMMA SimulationClass ==
  ASSUME NEW q \in SimulationInputs
  PROVE  AnySimulation(q)
  <1> DEFINE Staffs == UNION {[1..n -> SimulatedStaff] : n \in 0..2}
  <1>1. SimulationInputs = {[company |-> c, period |-> TRUE, employees |-> e, balance |-> b, proofFails |-> p, proofMessage |-> m, timeout |-> t, fail |-> f] :
                              c \in BOOLEAN, e \in Staffs, b \in {1, 3}, p \in BOOLEAN, m \in BOOLEAN, t \in BOOLEAN, f \in BOOLEAN}
    BY DEF SimulationInputs
  <1>2. \A e \in Staffs : (\E n \in Nat : DOMAIN e = 1..n /\ Len(e) = n) /\ \A k \in DOMAIN e : e[k] \in SimulatedStaff
    <2> SUFFICES ASSUME NEW n \in 0..2, NEW e \in [1..n -> SimulatedStaff]
                 PROVE  (\E l \in Nat : DOMAIN e = 1..l /\ Len(e) = l) /\ \A k \in DOMAIN e : e[k] \in SimulatedStaff
      OBVIOUS
    <2> HIDE DEF Staffs
    <2>1. n \in Nat /\ DOMAIN e = 1..n
      OBVIOUS
    <2>2. Len(e) = n
      BY <2>1
    <2>3. QED
      BY <2>1, <2>2
  <1>3. \A x \in SimulatedStaff : x.salary \in Int
    BY DEF SimulatedStaff
  <1> HIDE DEF Staffs
  <1>4. PICK e \in Staffs, b \in {1, 3} : q.employees = e /\ q.balance = b
    BY <1>1
  <1>5. QED
    BY <1>2, <1>3, <1>4 DEF AnySimulation

\* The plans the run asks for; what their treasury requires is the salaries of the two employees.
LEMMA PlanClass ==
  ASSUME NEW i \in PlanInputs
  PROVE  AnyPlan(i) /\ (Given(i.treasury) => i.treasury[1].required = 4)
  <1> DEFINE Contracts == Maybe({[version |-> v, min |-> <<1, 2, 0>>, max |-> <<2, 0, 0>>, recommended |-> <<1, 2, 3>>, required |-> {"f"}, available |-> {"f"}] : v \in {<<1, 0, 0>>, <<1, 2, 0>>, <<2, 0, 0>>}})
             Treasuries == Maybe({[asset |-> "native", requiredAsset |-> "native", balance |-> x, required |-> 4, minReserve |-> 1] : x \in 3..5})
             Windows == Maybe({[now |-> x, opens |-> 10, closes |-> 30] : x \in {9, 10, 29, 30, 31}})
             Signatures == Maybe({[required |-> {"cfo"}, signed |-> s] : s \in {{}, {"cfo"}}})
             Batches == Maybe(PlanBatches)
             Full == {[contract |-> c, treasury |-> t, proof |-> p, window |-> w, batch |-> b, authorization |-> a, count |-> n, max |-> 2] :
                        c \in Contracts, t \in Treasuries, p \in {<<>>, <<"ready">>}, w \in Windows, b \in Batches, a \in Signatures, n \in {2}}
             Bare == {[contract |-> <<>>, treasury |-> <<>>, proof |-> <<"ready">>, window |-> <<>>, batch |-> <<>>, authorization |-> <<>>, count |-> n, max |-> m] : n \in 0..7, m \in 1..3}
  <1>1. PlanInputs = Full \cup Bare
    BY DEF PlanInputs
  <1>2. \A t \in Treasuries : Given(t) => t[1].balance \in Int /\ t[1].required = 4 /\ t[1].minReserve \in Int
    <2> SUFFICES ASSUME NEW t \in Treasuries, Given(t) PROVE t[1].balance \in Int /\ t[1].required = 4 /\ t[1].minReserve \in Int
      OBVIOUS
    <2>1. PICK x \in 3..5 : t = <<[asset |-> "native", requiredAsset |-> "native", balance |-> x, required |-> 4, minReserve |-> 1]>>
      BY DEF Maybe, Given
    <2>2. t[1].balance = x /\ t[1].required = 4 /\ t[1].minReserve = 1
      BY <2>1
    <2>3. QED
      BY <2>2
  <1>3. \A w \in Windows : Given(w) => w[1].now \in Int /\ w[1].opens \in Int /\ w[1].closes \in Int
    <2> SUFFICES ASSUME NEW w \in Windows, Given(w) PROVE w[1].now \in Int /\ w[1].opens \in Int /\ w[1].closes \in Int
      OBVIOUS
    <2>1. PICK x \in {9, 10, 29, 30, 31} : w = <<[now |-> x, opens |-> 10, closes |-> 30]>>
      BY DEF Maybe, Given
    <2>2. w[1].now = x /\ w[1].opens = 10 /\ w[1].closes = 30
      BY <2>1
    <2>3. QED
      BY <2>2
  <1>4. \A b \in Batches : Given(b) => \E m \in Nat : DOMAIN b[1].commitments = 1..m /\ Len(b[1].commitments) = m
    <2> DEFINE Pairs == {<<[employee |-> "a", hash |-> "x"], [employee |-> "b", hash |-> y]>> : y \in {"x", "y"}}
               single == <<[employee |-> "a", hash |-> "x"]>>
    <2>1. PlanBatches = {[commitments |-> c, expected |-> e] : e \in {-1, 0, 2}, c \in Pairs \cup {single}}
      BY DEF PlanBatches
    <2>2. \A c \in Pairs : DOMAIN c = 1..2 /\ Len(c) = 2
      OBVIOUS
    <2>3. DOMAIN single = 1..1 /\ Len(single) = 1
      OBVIOUS
    <2> HIDE DEF Pairs, single
    <2>4. \A x \in PlanBatches : \E m \in Nat : DOMAIN x.commitments = 1..m /\ Len(x.commitments) = m
      <3> SUFFICES ASSUME NEW x \in PlanBatches PROVE \E m \in Nat : DOMAIN x.commitments = 1..m /\ Len(x.commitments) = m
        OBVIOUS
      <3>1. x.commitments \in Pairs \cup {single}
        BY <2>1
      <3>2. QED
        BY <2>2, <2>3, <3>1
    <2>5. \A b \in Batches : Given(b) => b[1] \in PlanBatches
      BY DEF Maybe, Given
    <2>6. QED
      BY <2>4, <2>5
  <1>5. Given(<<>>) = FALSE
    BY DEF Given
  <1> HIDE DEF Contracts, Treasuries, Windows, Signatures, Batches
  <1>6. CASE i \in Full
    <2>1. PICK t \in Treasuries, w \in Windows, b \in Batches :
             i.treasury = t /\ i.window = w /\ i.batch = b /\ i.count = 2 /\ i.max = 2
      <3>1. PICK c \in Contracts, t \in Treasuries, p \in {<<>>, <<"ready">>}, w \in Windows, b \in Batches, a \in Signatures, n \in {2} :
              i = [contract |-> c, treasury |-> t, proof |-> p, window |-> w, batch |-> b, authorization |-> a, count |-> n, max |-> 2]
        BY <1>6
      <3>2. i.treasury = t /\ i.window = w /\ i.batch = b /\ i.count = n /\ i.max = 2
        BY <3>1
      <3>3. QED
        BY <3>2
    <2> HIDE DEF Full, Bare
    <2>2. QED
      BY <1>2, <1>3, <1>4, <2>1 DEF AnyPlan
  <1>7. CASE i \in Bare
    <2>1. PICK n \in 0..7, m \in 1..3 : i.treasury = <<>> /\ i.window = <<>> /\ i.batch = <<>> /\ i.count = n /\ i.max = m
      BY <1>7
    <2> HIDE DEF Full, Bare
    <2>2. QED
      BY <1>5, <2>1 DEF AnyPlan
  <1>8. QED
    BY <1>1, <1>6, <1>7

\* Two salaries of two.
LEMMA SalariesCost ==
  ASSUME NEW balance \in Int, balance >= 4
  PROVE  checkTreasury(balance, [k \in 1..2 |-> [id |-> <<"a", "b">>[k], salary |-> 2]])
  <1> DEFINE pays == [k \in 1..2 |-> [id |-> <<"a", "b">>[k], salary |-> 2]]
             salaries == [k \in DOMAIN pays |-> pays[k].salary]
  <1>1. DOMAIN salaries = 1..2 /\ \A k \in 1..2 : salaries[k] = 2
    OBVIOUS
  <1>2. checkTreasury(balance, pays) <=> balance >= Total(salaries)
    BY Zenon DEF checkTreasury, SumBy
  <1> HIDE DEF salaries, pays
  <1>3. PICK sum : Adds(sum, salaries, 2) /\ Total(salaries) = sum[2]
    BY <1>1, TotalAdds
  <1>4. sum[0] = 0 /\ sum[1] = sum[0] + 2 /\ sum[2] = sum[1] + 2
    BY <1>1, <1>3 DEF Adds
  <1>5. QED
    BY <1>2, <1>3, <1>4 DEF pays

\* The inputs of the run belong to the classes the lemmas above are about.
LEMMA PlansClasses ==
  ASSUME PlansAsked
  PROVE  /\ About("versions") => \A k \in 1..3 : subject.input[k] \in Versions
         /\ About("plan") => AnyPlan(subject.input) /\ (Given(subject.input.treasury) => subject.input.treasury[1].required = 4)
         /\ About("policy") => /\ GivenParts(subject.input) => AnyPolicy(subject.input)
                               /\ Given(subject.input.window) => subject.input.window[1].delay <= 2
         /\ About("simulation") => AnySimulation(subject.input)
         /\ About("cache") => AnyCacheRead(subject.input)
  <1>1. \A v \in VersionInputs : \A k \in 1..3 : v[k] \in Versions
    <2> SUFFICES ASSUME NEW v \in Versions \X Versions \X Versions PROVE \A k \in 1..3 : v[k] \in Versions
      BY DEF VersionInputs
    <2>1. v[1] \in Versions /\ v[2] \in Versions /\ v[3] \in Versions
      OBVIOUS
    <2>2. \A k \in 1..3 : k = 1 \/ k = 2 \/ k = 3
      OBVIOUS
    <2>3. QED
      BY <2>1, <2>2
  <1>2. QED
    BY <1>1, PlanClass, PolicyClass, SimulationClass, CacheReadClass DEF PlansAsked, Asked

\* What is decided before a payroll is executed can be relied on: the order of versions, a ready plan, a compiled
\* policy, a simulated run and its two readers, and what a cache returns (planner/, policy/, simulation/, cache/).
THEOREM PlansAreHeld == RulesSpec => []PlansHold
  <1> DEFINE i == subject.input
  <1>1. PlansAsked => PlansHold
    <2> SUFFICES ASSUME PlansAsked PROVE PlansHold
      OBVIOUS
    <2>1. VersionsAreOrdered
      <3> DEFINE a == i[1]
                 b == i[2]
                 c == i[3]
      <3> SUFFICES ASSUME About("versions")
                   PROVE  /\ compareVersions(a, b) = -compareVersions(b, a)
                          /\ compareVersions(a, b) <= 0 /\ compareVersions(b, c) <= 0 => compareVersions(a, c) <= 0
                          /\ isVersionInRange(a, b, c) <=>
                               100 * a[1] + 10 * a[2] + a[3] \in (100 * b[1] + 10 * b[2] + b[3])..(100 * c[1] + 10 * c[2] + c[3])
        BY Zenon DEF VersionsAreOrdered
      <3>1. a \in Versions /\ b \in Versions /\ c \in Versions
        BY PlansClasses
      <3> HIDE DEF a, b, c
      <3>2. AnyVersion(a) /\ a[2] \in 0..9 /\ a[3] \in 0..9
        BY <3>1, VersionClass
      <3>3. AnyVersion(b) /\ b[2] \in 0..9 /\ b[3] \in 0..9
        BY <3>1, VersionClass
      <3>4. AnyVersion(c) /\ c[2] \in 0..9 /\ c[3] \in 0..9
        BY <3>1, VersionClass
      <3>5. /\ compareVersions(a, b) = -compareVersions(b, a)
            /\ compareVersions(a, b) <= 0 /\ compareVersions(b, c) <= 0 => compareVersions(a, c) <= 0
        BY <3>2, <3>3, <3>4, AnyVersionsAreOrdered
      <3>6. compareVersions(a, b) >= 0 <=> 100 * a[1] + 10 * a[2] + a[3] >= 100 * b[1] + 10 * b[2] + b[3]
        BY <3>2, <3>3, RangesAre
      <3>7. compareVersions(a, c) <= 0 <=> 100 * a[1] + 10 * a[2] + a[3] <= 100 * c[1] + 10 * c[2] + c[3]
        BY <3>2, <3>4, RangesAre
      <3>8. \A v \in {a, b, c} : v[1] \in Int /\ v[2] \in Int /\ v[3] \in Int
        BY <3>2, <3>3, <3>4 DEF AnyVersion
      <3>9. QED
        BY <3>5, <3>6, <3>7, <3>8 DEF isVersionInRange
    <2>2. ReadyPlansHold
      <3> DEFINE plan == planPayrollExecution(i)
                 pays == [k \in 1..2 |-> [id |-> <<"a", "b">>[k], salary |-> 2]]
      <3> SUFFICES ASSUME About("plan")
                   PROVE  /\ plan.ready =>
                               /\ i.proof # <<>>
                               /\ Given(i.treasury) => checkTreasury(i.treasury[1].balance, pays)
                               /\ Given(i.window) => i.window[1].now \in i.window[1].opens..i.window[1].closes
                               /\ Given(i.authorization) => i.authorization[1].required \subseteq i.authorization[1].signed
                               /\ Given(i.batch) => Cardinality({i.batch[1].commitments[k].employee : k \in DOMAIN i.batch[1].commitments})
                                                      = Len(i.batch[1].commitments)
                          /\ plan.ready /\ plan.warnings = {} =>
                               Given(i.contract) /\ Given(i.treasury) /\ i.treasury[1].balance >= i.treasury[1].required + i.treasury[1].minReserve
                          /\ plan.steps # <<>> => plan.steps[1] * i.max >= i.count /\ (plan.steps[1] - 1) * i.max < i.count
                          /\ plan.steps = <<>> <=> i.count = 0
        BY Zenon DEF ReadyPlansHold
      <3>1. AnyPlan(i) /\ (Given(i.treasury) => i.treasury[1].required = 4)
        BY PlansClasses
      <3> HIDE DEF i
      <3>2. /\ plan.ready =>
                 /\ i.proof # <<>>
                 /\ Given(i.treasury) => i.treasury[1].balance >= i.treasury[1].required
                 /\ Given(i.window) => i.window[1].now \in i.window[1].opens..i.window[1].closes
                 /\ Given(i.authorization) => i.authorization[1].required \subseteq i.authorization[1].signed
                 /\ Given(i.batch) => Cardinality({i.batch[1].commitments[k].employee : k \in DOMAIN i.batch[1].commitments})
                                        = Len(i.batch[1].commitments)
            /\ plan.ready /\ plan.warnings = {} =>
                 Given(i.contract) /\ Given(i.treasury) /\ i.treasury[1].balance >= i.treasury[1].required + i.treasury[1].minReserve
            /\ plan.steps # <<>> => plan.steps[1] * i.max >= i.count /\ (plan.steps[1] - 1) * i.max < i.count
            /\ plan.steps = <<>> <=> i.count = 0
        BY Zenon, <3>1, AnyReadyPlanHolds
      <3>3. Given(i.treasury) => i.treasury[1].balance \in Int
        BY <3>1 DEF AnyPlan
      <3> HIDE DEF plan
      <3>4. plan.ready /\ Given(i.treasury) => checkTreasury(i.treasury[1].balance, pays)
        <4> DEFINE balance == i.treasury[1].balance
        <4> SUFFICES ASSUME plan.ready, Given(i.treasury) PROVE checkTreasury(balance, pays)
          OBVIOUS
        <4>1. balance \in Int /\ balance >= 4
          BY <3>1, <3>2, <3>3
        <4> HIDE DEF balance
        <4>2. QED
          BY <4>1, SalariesCost
      <3> HIDE DEF pays
      <3>5. QED
        BY Zenon, <3>2, <3>4
    <2>3. PoliciesAreSatisfiable
      <3> SUFFICES ASSUME About("policy"), compilePayrollPolicy(i).ok
                   PROVE  /\ \E t \in 0..3 : t >= i.window[1].delay /\ t < i.window[1].open
                          /\ \E x \in 1..3 : x <= i.capacity[1].each /\ x <= i.capacity[1].total
                          /\ i.reserve[1] \in 0..i.capacity[1].total /\ (i.audit[1].required => i.audit[1].days >= 1)
        BY Zenon DEF PoliciesAreSatisfiable
      <3>1. /\ GivenParts(i) => AnyPolicy(i)
            /\ Given(i.window) => i.window[1].delay <= 2
        BY PlansClasses
      <3> HIDE DEF i
      <3>2. /\ GivenParts(i)
            /\ i.window[1].delay >= 0 /\ i.window[1].delay < i.window[1].open
            /\ i.capacity[1].each >= 1 /\ i.capacity[1].total >= 1
            /\ i.reserve[1] \in 0..i.capacity[1].total
            /\ i.audit[1].required => i.audit[1].days >= 1
        BY <3>1, AnyPolicyIsSatisfiable
      <3> DEFINE delay == i.window[1].delay
      <3>3. delay \in Int /\ delay <= 2 /\ delay >= 0 /\ delay < i.window[1].open
        BY <3>1, <3>2 DEF AnyPolicy, GivenParts
      <3> HIDE DEF delay
      <3>4. delay \in 0..3 /\ delay >= delay /\ delay < i.window[1].open
        BY <3>3
      <3>5. 1 <= i.capacity[1].each /\ 1 <= i.capacity[1].total
        <4>1. i.capacity[1].each \in Int /\ i.capacity[1].total \in Int
          BY <3>1, <3>2 DEF AnyPolicy
        <4>2. QED
          BY <3>2, <4>1
      <3>6. QED
        BY <3>2, <3>4, <3>5 DEF delay
    <2>4. SimulationAddsUp
      <3> SUFFICES ASSUME About("simulation"), simulatorRun(i).status # "throws"
                   PROVE  LET r == simulatorRun(i) IN
                          /\ r.summary.good + r.summary.bad = Len(i.employees)
                          /\ r.status = "success" <=> Every(LAMBDA o : o.status = "confirmed", r.outcomes)
                          /\ (\E k \in DOMAIN r.outcomes : r.outcomes[k].status = "confirmed") => SumBy(LAMBDA e : e.salary, i.employees) <= i.balance
                          /\ distinct([k \in DOMAIN i.employees |-> i.employees[k].id]) => \A k \in DOMAIN r.outcomes : r.outcomes[k].commitment = i.employees[k]
                          /\ \A k \in DOMAIN r.outcomes : r.summary.codes[k] = "TRANSACTION_FAILED" => r.outcomes[k].hint = "rejected"
        BY Zenon DEF SimulationAddsUp
      <3>1. AnySimulation(i)
        BY PlansClasses
      <3> HIDE DEF i
      <3>2. QED
        BY Zenon, <3>1, AnySimulationAddsUp
    <2>5. SimulationReadersAgree
      <3> SUFFICES ASSUME About("response")
                   PROVE  LET a == parseSimulationResult(i) b == parseSimulationText(i) IN
                          /\ a.ready => i.canProceed /\ a.category \in {"success", "policy_warning"}
                          /\ b.canProceed => i.canProceed /\ b.retryable
                          /\ a.ready => (b.canProceed \/ Some(LAMBDA f : f.code = "SIM_ERROR", i.findings))
                          /\ i \in SimulatedPaymentInputs => (a.ready <=> b.category = "ready") /\ (i.findings # <<>> => ~a.ready)
        BY Zenon DEF SimulationReadersAgree
      <3> HIDE DEF i
      <3>1. LET a == parseSimulationResult(i) b == parseSimulationText(i) IN
            /\ a.ready => i.canProceed /\ a.category \in {"success", "policy_warning"}
            /\ b.canProceed => i.canProceed /\ b.retryable
            /\ a.ready => (b.canProceed \/ Some(LAMBDA f : f.code = "SIM_ERROR", i.findings))
        BY Zenon, AnyReadersAgree
      <3>2. ASSUME i \in SimulatedPaymentInputs
            PROVE  (parseSimulationResult(i).ready <=> parseSimulationText(i).category = "ready")
                   /\ (i.findings # <<>> => ~parseSimulationResult(i).ready)
        <4>1. PICK p : AnySimulated(p) /\ i = simulatePayroll(p)
          BY <3>2, SimulatedClass
        <4>2. QED
          BY Zenon, <4>1, AnyPaymentReadAlike
      <3>3. QED
        BY Zenon, <3>1, <3>2
    <2>6. CachedIsFresh
      <3> SUFFICES ASSUME About("cache")
                   PROVE  LET e == setWithMetadata(i.at, i.ttl) IN
                          /\ cacheGetWithMetadata(e, i.now) => ~createCacheReadResult(e, i.now).stale /\ cacheGet(e, i.now)
                          /\ i.ttl = 0 => cacheGetWithMetadata(e, i.now)
        BY Zenon DEF CachedIsFresh
      <3>1. AnyCacheRead(i)
        BY PlansClasses
      <3> HIDE DEF i
      <3>2. QED
        BY Zenon, <3>1, AnyCachedIsFresh
    <2>7. QED
      BY <2>1, <2>2, <2>3, <2>4, <2>5, <2>6 DEF PlansHold
  <1>2. QED
    BY <1>1, PlansAreAsked, PTL

-----------------------------------------------------------------------------
\* What a collector of checks reports, for any of them.
LEMMA AllOfIs ==
  ASSUME NEW checks, NEW x
  PROVE  x \in AllOf(checks) <=> \E i \in DOMAIN checks : checks[i][1] /\ checks[i][2] = x
  BY DEF AllOf

\* Six checks with names of their own report a name exactly when its check applies, and all six only when all apply.
LEMMA SixReport ==
  ASSUME NEW p1, NEW p2, NEW p3, NEW p4, NEW p5, NEW p6, NEW x1, NEW x2, NEW x3, NEW x4, NEW x5, NEW x6,
         Cardinality({x1, x2, x3, x4, x5, x6}) = 6
  PROVE  LET found == AllOf(<< <<p1, x1>>, <<p2, x2>>, <<p3, x3>>, <<p4, x4>>, <<p5, x5>>, <<p6, x6>> >>) IN
         Cardinality(found) = 6 <=> x1 \in found /\ x2 \in found /\ x3 \in found /\ x4 \in found /\ x5 \in found /\ x6 \in found
  <1> DEFINE list == << <<p1, x1>>, <<p2, x2>>, <<p3, x3>>, <<p4, x4>>, <<p5, x5>>, <<p6, x6>> >>
             found == AllOf(list)
             names == {x1, x2, x3, x4, x5, x6}
  <1>1. /\ DOMAIN list = 1..6 /\ list[1] = <<p1, x1>> /\ list[2] = <<p2, x2>> /\ list[3] = <<p3, x3>>
        /\ list[4] = <<p4, x4>> /\ list[5] = <<p5, x5>> /\ list[6] = <<p6, x6>>
    OBVIOUS
  <1> HIDE DEF list
  <1>2. \A i \in 1..6 : i = 1 \/ i = 2 \/ i = 3 \/ i = 4 \/ i = 5 \/ i = 6
    OBVIOUS
  <1>3. \A i \in DOMAIN list : list[i][2] \in names
    BY <1>1, <1>2
  <1>4. found \subseteq names
    BY <1>3, AllOfIs
  <1> HIDE DEF found
  <1>5. IsFiniteSet(names)
    <2> DEFINE f == [i \in 1..6 |-> list[i][2]]
    <2>1. f \in Surjection(1..6, names)
      <3>1. f \in [1..6 -> names]
        BY <1>1, <1>3
      <3>2. \A y \in names : \E i \in 1..6 : f[i] = y
        BY <1>1
      <3> HIDE DEF f
      <3>3. QED
        BY <3>1, <3>2 DEF Surjection
    <2> HIDE DEF f
    <2>2. IsFiniteSet(1..6)
      <3>1. 1 \in Int /\ 6 \in Int
        OBVIOUS
      <3>2. QED
        BY Zenon, <3>1, FS_Interval
    <2>3. QED
      BY <2>1, <2>2, FS_Surjection
  <1>6. Cardinality(found) = 6 => found = names
    BY <1>4, <1>5, FS_Subset
  <1>7. x1 \in found /\ x2 \in found /\ x3 \in found /\ x4 \in found /\ x5 \in found /\ x6 \in found <=> found = names
    BY <1>4
  <1>8. QED
    BY <1>6, <1>7 DEF found, list

\* A receipt verifies when each of its six fields does.
LEMMA VerifiedIs ==
  ASSUME NEW r, NEW o
  PROVE  /\ "metadataDigest" \in verifiedFields(r, o) <=> digestIssue(r, o) = "ok"
         /\ verifyPayrollReceipt(r, o) <=>
              /\ validatePayrollReceiptShape(r) /\ o.payrollId \in {Nil, r.payrollId} /\ statusIssue(r, o) = "ok"
              /\ NonEmpty(o.tx) => o.tx.v = r.tx.v
              /\ digestIssue(r, o) = "ok" /\ freshnessIssue(r, o) = "ok" /\ signatureIssue(r, o) = "ok" /\ customIssue(o, FALSE) = "ok"
  <1> DEFINE p1 == o.payrollId \in {Nil, r.payrollId}
             p2 == statusIssue(r, o) = "ok"
             p3 == NonEmpty(o.tx) => o.tx.v = r.tx.v
             p4 == digestIssue(r, o) = "ok"
             p5 == freshnessIssue(r, o) = "ok"
             p6 == signatureIssue(r, o) = "ok"
             list == << <<p1, "payrollId">>, <<p2, "settlementStatus">>, <<p3, "transactionReference">>, <<p4, "metadataDigest">>,
                        <<p5, "freshness">>, <<p6, "signature">> >>
             found == AllOf(list)
  <1>1. verifiedFields(r, o) = found
    BY Zenon DEF verifiedFields
  <1>2. verifyPayrollReceipt(r, o) <=> validatePayrollReceiptShape(r) /\ Cardinality(found) = 6 /\ customIssue(o, FALSE) = "ok"
    BY Zenon, <1>1 DEF verifyPayrollReceipt
  <1> HIDE DEF p1, p2, p3, p4, p5, p6
  <1>3. /\ DOMAIN list = 1..6 /\ list[1] = <<p1, "payrollId">> /\ list[2] = <<p2, "settlementStatus">> /\ list[3] = <<p3, "transactionReference">>
        /\ list[4] = <<p4, "metadataDigest">> /\ list[5] = <<p5, "freshness">> /\ list[6] = <<p6, "signature">>
    OBVIOUS
  <1>4. Cardinality({"payrollId", "settlementStatus", "transactionReference", "metadataDigest", "freshness", "signature"}) = 6
    <2> DEFINE one == {"payrollId"}
               two == one \cup {"settlementStatus"}
               three == two \cup {"transactionReference"}
               four == three \cup {"metadataDigest"}
               five == four \cup {"freshness"}
               six == five \cup {"signature"}
    <2>1. IsFiniteSet(one) /\ Cardinality(one) = 1
      BY FS_Singleton
    <2>2. IsFiniteSet(two) /\ Cardinality(two) = 2
      <3>1. "settlementStatus" \notin one
        OBVIOUS
      <3> HIDE DEF one
      <3>2. QED
        BY <2>1, <3>1, FS_AddElement
    <2>3. IsFiniteSet(three) /\ Cardinality(three) = 3
      <3>1. "transactionReference" \notin two
        OBVIOUS
      <3> HIDE DEF two
      <3>2. QED
        BY <2>2, <3>1, FS_AddElement
    <2>4. IsFiniteSet(four) /\ Cardinality(four) = 4
      <3>1. "metadataDigest" \notin three
        OBVIOUS
      <3> HIDE DEF three
      <3>2. QED
        BY <2>3, <3>1, FS_AddElement
    <2>5. IsFiniteSet(five) /\ Cardinality(five) = 5
      <3>1. "freshness" \notin four
        OBVIOUS
      <3> HIDE DEF four
      <3>2. QED
        BY <2>4, <3>1, FS_AddElement
    <2>6. Cardinality(six) = 6
      <3>1. "signature" \notin five
        OBVIOUS
      <3> HIDE DEF five
      <3>2. QED
        BY <2>5, <3>1, FS_AddElement
    <2>7. six = {"payrollId", "settlementStatus", "transactionReference", "metadataDigest", "freshness", "signature"}
      OBVIOUS
    <2>8. QED
      BY <2>6, <2>7
  <1> DEFINE x1 == "payrollId"
             x2 == "settlementStatus"
             x3 == "transactionReference"
             x4 == "metadataDigest"
             x5 == "freshness"
             x6 == "signature"
  <1>5. Cardinality(found) = 6 <=> x1 \in found /\ x2 \in found /\ x3 \in found /\ x4 \in found /\ x5 \in found /\ x6 \in found
    BY <1>4, SixReport
  <1> HIDE DEF list
  <1>6. \A x : x \in found <=> \E i \in 1..6 : list[i][1] /\ list[i][2] = x
    BY <1>3, AllOfIs
  <1>7. \A i \in 1..6 : i = 1 \/ i = 2 \/ i = 3 \/ i = 4 \/ i = 5 \/ i = 6
    OBVIOUS
  <1> HIDE DEF found
  <1>8. /\ (x1 \in found <=> p1) /\ (x2 \in found <=> p2) /\ (x3 \in found <=> p3)
        /\ (x4 \in found <=> p4) /\ (x5 \in found <=> p5) /\ (x6 \in found <=> p6)
    BY <1>3, <1>6, <1>7
  <1>9. QED
    BY <1>1, <1>2, <1>5, <1>8 DEF p1, p2, p3, p4, p5, p6

\* The digest of a receipt as conditions.
LEMMA DigestIs ==
  ASSUME NEW r, NEW o
  PROVE  LET metadata == MetadataToVerify(r, o) IN
         digestIssue(r, o) = "ok" <=>
           /\ isValidHexDigest(r.digest) /\ ~(NonEmpty(o.digest) /\ r.digest.v # o.digest.v)
           /\ ~(metadata # "none" /\ r.digest.v # computeMetadataDigest(metadata, o.node))
  <1> DEFINE metadata == MetadataToVerify(r, o)
             p1 == ~isValidHexDigest(r.digest)
             p2 == NonEmpty(o.digest) /\ r.digest.v # o.digest.v
             p3 == metadata # "none" /\ r.digest.v # computeMetadataDigest(metadata, o.node)
  <1>1. digestIssue(r, o) = FirstOf(<< <<p1, "INVALID">>, <<p2, "MISMATCH">>, <<p3, "MISMATCH">> >>, "ok")
    BY Zenon DEF digestIssue
  <1> HIDE DEF p1, p2, p3
  <1>2. FirstOf(<< <<p1, "INVALID">>, <<p2, "MISMATCH">>, <<p3, "MISMATCH">> >>, "ok") =
          IF p1 THEN "INVALID" ELSE IF p2 THEN "MISMATCH" ELSE IF p3 THEN "MISMATCH" ELSE "ok"
    BY ThreeChecks
  <1>3. digestIssue(r, o) = "ok" <=> ~p1 /\ ~p2 /\ ~p3
    BY <1>1, <1>2
  <1>4. QED
    BY <1>3 DEF p1, p2, p3

\* No text is both the fallback's digest of some content and WebCrypto's of the same.
LEMMA FallbackIsAnother ==
  ASSUME NEW metadata
  PROVE  pureJsSha256(metadata) # computeMetadataDigestAsync(metadata)
  <1>1. pureJsSha256(metadata) \in {"f0", "f1", Nil} /\ computeMetadataDigestAsync(metadata) \in {"h0", "h1", "h2"}
    BY DEF pureJsSha256, computeMetadataDigestAsync, sha256Digest
  <1>2. QED
    BY <1>1 DEF Nil

\* Any receipt's digest is judged alike by the verifier and by the match; the asynchronous verifier accepts less.
LEMMA AnyDigestChecksAgree ==
  ASSUME NEW r, NEW o, o.node \in BOOLEAN
  PROVE  LET metadata == MetadataToVerify(r, o) IN
         /\ r.digest.v # Nil => ("metadataDigest" \in verifiedFields(r, o) <=> verifyMetadataDigestMatch(r.digest, metadata, o.digest, o.node))
         /\ verifyPayrollReceiptAsync(r, o) => verifyPayrollReceipt(r, o)
         /\ (o.custom # "promise" /\ (o.node \/ metadata = "none")) => (verifyPayrollReceiptAsync(r, o) <=> verifyPayrollReceipt(r, o))
         /\ (~o.node /\ metadata # "none") => ~verifyPayrollReceiptAsync(r, o)
  <1> DEFINE metadata == MetadataToVerify(r, o)
             digest == r.digest
             match == computeMetadataDigest(metadata, o.node)
             async == computeMetadataDigestAsync(metadata)
             expected == o.digest
  <1>1. "metadataDigest" \in verifiedFields(r, o) <=> digestIssue(r, o) = "ok"
    BY VerifiedIs
  <1>2. verifyPayrollReceipt(r, o) => digestIssue(r, o) = "ok" /\ customIssue(o, FALSE) = "ok"
    BY VerifiedIs
  <1>3. digestIssue(r, o) = "ok" <=>
           /\ isValidHexDigest(digest) /\ ~(NonEmpty(expected) /\ digest.v # expected.v)
           /\ ~(metadata # "none" /\ digest.v # match)
    BY DigestIs
  <1>4. verifyPayrollReceiptAsync(r, o) <=>
          /\ verifyPayrollReceipt(r, o) /\ customIssue(o, TRUE) = "ok"
          /\ (metadata # "none" /\ isValidHexDigest(digest)) => digest.v = async
    BY Zenon DEF verifyPayrollReceiptAsync
  <1>5. o.custom # "promise" => customIssue(o, TRUE) = customIssue(o, FALSE)
    BY DEF customIssue
  <1>6. verifyMetadataDigestMatch(digest, metadata, expected, o.node) <=>
          /\ isValidHexDigest(digest)
          /\ NonEmpty(expected) => isValidHexDigest(expected) /\ digest.v = expected.v
          /\ metadata # "none" => digest.v = match
    BY Zenon DEF verifyMetadataDigestMatch
  <1>7. digest.v = expected.v /\ isValidHexDigest(digest) => isValidHexDigest(expected)
    BY DEF isValidHexDigest
  <1>8. o.node => match = async
    BY DEF computeMetadataDigest, computeMetadataDigestAsync
  <1>9. ~o.node => match # async
    BY FallbackIsAnother DEF computeMetadataDigest
  <1> HIDE DEF metadata, digest, match, async, expected
  <1>10. digestIssue(r, o) = "ok" <=> verifyMetadataDigestMatch(digest, metadata, expected, o.node)
    BY <1>3, <1>6, <1>7
  <1>11. (o.custom # "promise" /\ (o.node \/ metadata = "none")) => (verifyPayrollReceiptAsync(r, o) <=> verifyPayrollReceipt(r, o))
    BY <1>2, <1>3, <1>4, <1>5, <1>8
  <1>12. (~o.node /\ metadata # "none") => ~verifyPayrollReceiptAsync(r, o)
    BY <1>2, <1>3, <1>4, <1>9
  <1>13. QED
    BY <1>1, <1>4, <1>10, <1>11, <1>12 DEF metadata, digest, expected

\* Any id of a receipt of eight to 128 plain characters is accepted.
LEMMA AnyPlainId ==
  ASSUME NEW id, id.length \in 8..128, id.chars = "plain"
  PROVE  validateSettlementReceiptId(id) = "ok"
  <1> DEFINE p1 == id.length = 0
             p2 == id.length < 8
             p3 == id.length > 128
             p4 == id.chars = "foreign"
             p5 == id.chars = "edge"
  <1>1. validateSettlementReceiptId(id) = FirstOf(<< <<p1, "EMPTY_INPUT">>, <<p2, "TOO_SHORT">>, <<p3, "TOO_LONG">>, <<p4, "INVALID_CHARACTERS">>,
                                                     <<p5, "INVALID_FORMAT">> >>, "ok")
    BY Zenon DEF validateSettlementReceiptId
  <1>2. ~p1 /\ ~p2 /\ ~p3 /\ ~p4 /\ ~p5
    OBVIOUS
  <1> HIDE DEF p1, p2, p3, p4, p5
  <1>3. FirstOf(<< <<p1, "EMPTY_INPUT">>, <<p2, "TOO_SHORT">>, <<p3, "TOO_LONG">>, <<p4, "INVALID_CHARACTERS">>, <<p5, "INVALID_FORMAT">> >>, "ok")
          = IF p1 THEN "EMPTY_INPUT" ELSE IF p2 THEN "TOO_SHORT" ELSE IF p3 THEN "TOO_LONG" ELSE IF p4 THEN "INVALID_CHARACTERS" ELSE IF p5 THEN "INVALID_FORMAT" ELSE "ok"
    BY FiveChecks
  <1>4. QED
    BY <1>1, <1>2, <1>3

\* Any receipt that verifies where settlement is required is a settlement receipt.
LEMMA AnyVerifiedSettles ==
  ASSUME NEW r, NEW o, NEW id, o.requireSettled, validateSettlementReceiptId(id) = "ok", verifyPayrollReceipt(r, o)
  PROVE  validateSettlementReceipt(id, r, o) = "ok"
  <1> DEFINE p1 == validateSettlementReceiptId(id) # "ok"
             p2 == r.payrollId = Nil \/ o.payrollId \notin {Nil, r.payrollId}
             p3 == r.status = Nil
             p4 == r.status \notin allowedStatuses([requireSettled |-> TRUE])
             p5 == r.form = "none" \/ r.tx.v = Nil
             p6 == ~isValidHexDigest(r.digest)
             p7 == o.metadata # "none" /\ r.digest.v # computeMetadataDigest(o.metadata, o.node)
             x1 == "RECEIPT_ID_INVALID"
             x2 == "PAYROLL_ID_REQUIRED"
             x3 == "SETTLEMENT_STATUS_REQUIRED"
             x4 == "STATUS_NOT_SETTLED"
             x5 == "TRANSACTION_REFERENCE_REQUIRED"
             x6 == "METADATA_DIGEST_REQUIRED"
             x7 == "METADATA_DIGEST_MISMATCH"
  <1>1. validateSettlementReceipt(id, r, o) =
          FirstOf(<< <<p1, x1>>, <<p2, x2>>, <<p3, x3>>, <<p4, x4>>, <<p5, x5>>, <<p6, x6>>, <<p7, x7>> >>, "ok")
    BY Zenon DEF validateSettlementReceipt
  <1>2. /\ validatePayrollReceiptShape(r) /\ o.payrollId \in {Nil, r.payrollId} /\ statusIssue(r, o) = "ok"
        /\ digestIssue(r, o) = "ok"
    BY VerifiedIs
  <1>3. ~p2 /\ ~p3 /\ ~p5
    BY <1>2 DEF validatePayrollReceiptShape
  <1>4. ~p4
    BY <1>2 DEF statusIssue, allowedStatuses
  <1>5. ~p6 /\ ~p7
    BY <1>2, DigestIs DEF MetadataToVerify
  <1> HIDE DEF p1, p2, p3, p4, p5, p6, p7, x1, x2, x3, x4, x5, x6, x7
  <1>6. FirstOf(<< <<p1, x1>>, <<p2, x2>>, <<p3, x3>>, <<p4, x4>>, <<p5, x5>>, <<p6, x6>>, <<p7, x7>> >>, "ok")
          = IF p1 THEN x1 ELSE IF p2 THEN x2 ELSE IF p3 THEN x3 ELSE IF p4 THEN x4 ELSE IF p5 THEN x5 ELSE IF p6 THEN x6 ELSE IF p7 THEN x7 ELSE "ok"
    BY SevenChecks
  <1>7. ~p1
    BY DEF p1
  <1>8. QED
    BY <1>1, <1>3, <1>4, <1>5, <1>6, <1>7

\* A receipt of the SDK's own about a payment: issued in seconds or milliseconds and read some time later, the clocks
\* apart by no more than is tolerated; the metadata are hashed when the digest is no digest.
AnyCreated(i) ==
  /\ i.issuedAt \in Nat /\ i.later \in Int /\ i.age \in Nat /\ i.later >= -DEFAULT_TOLERANCE_MS
  /\ parseTimestampToMs(i.issuedAt) + i.later >= SecondsBelow
  /\ ~isValidHexDigest(i.digest) /\ i.node \in BOOLEAN /\ i.metadata \in {"none", "m1", "m2"}

\* The age of a receipt as conditions.
LEMMA ReceiptAgeIs ==
  ASSUME NEW r, NEW o
  PROVE  LET issued == parseTimestampToMs(r.issuedAt) now == parseTimestampToMs(o.now) IN
         freshnessIssue(r, o) = "ok" <=>
           /\ issued # BadTime /\ ~(issued > now + DEFAULT_TOLERANCE_MS)
           /\ ~(o.maxAge > 0 /\ now - issued > o.maxAge + DEFAULT_TOLERANCE_MS)
  <1> DEFINE issued == parseTimestampToMs(r.issuedAt)
             now == parseTimestampToMs(o.now)
             p1 == issued = BadTime
             p2 == issued > now + DEFAULT_TOLERANCE_MS
             p3 == o.maxAge > 0 /\ now - issued > o.maxAge + DEFAULT_TOLERANCE_MS
  <1>1. freshnessIssue(r, o) = FirstOf(<< <<p1, "ISSUED_AT_INVALID">>, <<p2, "FUTURE_TIMESTAMP">>, <<p3, "EXPIRED">> >>, "ok")
    BY Zenon DEF freshnessIssue
  <1> HIDE DEF p1, p2, p3
  <1>2. FirstOf(<< <<p1, "ISSUED_AT_INVALID">>, <<p2, "FUTURE_TIMESTAMP">>, <<p3, "EXPIRED">> >>, "ok") =
          IF p1 THEN "ISSUED_AT_INVALID" ELSE IF p2 THEN "FUTURE_TIMESTAMP" ELSE IF p3 THEN "EXPIRED" ELSE "ok"
    BY ThreeChecks
  <1>3. freshnessIssue(r, o) = "ok" <=> ~p1 /\ ~p2 /\ ~p3
    BY <1>1, <1>2
  <1>4. QED
    BY <1>3 DEF p1, p2, p3

\* Any receipt the SDK created verifies for as long as its age is tolerated.
LEMMA AnyOwnVerifies ==
  ASSUME NEW i, AnyCreated(i), i.tx.v # Nil
  PROVE  LET r == createPayrollReceipt("p", i.tx, i.digest, i.metadata, i.issuedAt, i.node)
             now == parseTimestampToMs(i.issuedAt) + i.later
         IN  verifyPayrollReceipt(r, Where(ReceiptOptions("p", i.tx, r.digest, i.metadata, i.age, now), i.node))
               <=> /\ i.age = 0 \/ i.later <= i.age + DEFAULT_TOLERANCE_MS
                   /\ i.node \/ i.metadata # "m2"
  <1> DEFINE r == createPayrollReceipt("p", i.tx, i.digest, i.metadata, i.issuedAt, i.node)
             issued == parseTimestampToMs(i.issuedAt)
             now == issued + i.later
             digest == Written(computeMetadataDigest(i.metadata, i.node), FALSE, FALSE)
             o == Where(ReceiptOptions("p", i.tx, r.digest, i.metadata, i.age, now), i.node)
  <1>1. /\ r.payrollId = "p" /\ r.status = "settled" /\ r.form = "string" /\ r.tx = i.tx /\ r.digest = digest
        /\ r.metadata = i.metadata /\ r.issuedAt = i.issuedAt /\ r.signed = FALSE /\ r.signer = "none"
    BY DEF createPayrollReceipt, PayrollReceipt, AnyCreated
  <1> HIDE DEF r
  <1>2. /\ o.payrollId = "p" /\ o.tx = i.tx /\ o.digest = r.digest /\ o.metadata = i.metadata /\ o.maxAge = i.age /\ o.now = now
        /\ o.requireSettled = TRUE /\ o.requireSignature = FALSE /\ o.trusted = {} /\ o.custom = "none" /\ o.node = i.node
    BY DEF ReceiptOptions, Where
  <1>3. issued \in Nat /\ now \in Nat /\ now >= SecondsBelow
    <2>1. \A t \in Nat : parseTimestampToMs(t) \in Nat
      BY DEF parseTimestampToMs, BadTime, SecondsBelow
    <2>2. issued \in Nat
      BY <2>1 DEF AnyCreated
    <2> HIDE DEF issued
    <2>3. issued + i.later >= SecondsBelow /\ i.later \in Int
      BY DEF AnyCreated, issued
    <2>4. QED
      BY <2>2, <2>3 DEF SecondsBelow
  <1> HIDE DEF o, issued
  <1>4. parseTimestampToMs(o.now) = now
    BY <1>2, <1>3 DEF parseTimestampToMs, BadTime, SecondsBelow
  <1>5. /\ (i.node \/ i.metadata # "m2") => computeMetadataDigest(i.metadata, i.node) \in {"h0", "h1", "h2", "f0", "f1"}
        /\ ~(i.node \/ i.metadata # "m2") => computeMetadataDigest(i.metadata, i.node) = Nil
    BY DEF AnyCreated, computeMetadataDigest, sha256Digest, pureJsSha256
  <1> DEFINE hash == computeMetadataDigest(i.metadata, i.node)
             written == i.node \/ i.metadata # "m2"
  <1>6. /\ digest.v = hash
        /\ digest.v # Nil <=> written
        /\ written => isValidHexDigest(digest)
    BY <1>5 DEF Written, isValidHexDigest, Nil
  <1> HIDE DEF digest, hash, written
  <1>7. (validatePayrollReceiptShape(r) <=> written) /\ o.payrollId \in {Nil, r.payrollId} /\ (NonEmpty(o.tx) => o.tx.v = r.tx.v)
    BY <1>1, <1>2, <1>6 DEF validatePayrollReceiptShape, Nil
  <1>8. statusIssue(r, o) = "ok"
    BY <1>1, <1>2 DEF statusIssue, allowedStatuses
  <1>9. written => digestIssue(r, o) = "ok"
    <2>1. r.digest.v = hash /\ o.digest.v = hash /\ (written => isValidHexDigest(r.digest)) /\ o.metadata = r.metadata
      BY <1>1, <1>2, <1>6
    <2>2. computeMetadataDigest(MetadataToVerify(r, o), o.node) = hash
      BY <1>1, <1>2, <2>1 DEF hash, MetadataToVerify
    <2>3. QED
      BY <2>1, <2>2, DigestIs
  <1>10. signatureIssue(r, o) = "ok" /\ customIssue(o, FALSE) = "ok"
    BY <1>1, <1>2 DEF signatureIssue, customIssue
  <1>11. parseTimestampToMs(r.issuedAt) = issued
    BY <1>1 DEF issued
  <1>12. freshnessIssue(r, o) = "ok" <=> issued # BadTime /\ ~(issued > now + DEFAULT_TOLERANCE_MS)
                                         /\ ~(i.age > 0 /\ now - issued > i.age + DEFAULT_TOLERANCE_MS)
    BY <1>2, <1>4, <1>11, ReceiptAgeIs
  <1>13. i.later \in Int /\ i.age \in Nat /\ i.later >= -DEFAULT_TOLERANCE_MS
    BY DEF AnyCreated
  <1>14. freshnessIssue(r, o) = "ok" <=> (i.age = 0 \/ i.later <= i.age + DEFAULT_TOLERANCE_MS)
    BY <1>3, <1>12, <1>13 DEF BadTime, DEFAULT_TOLERANCE_MS
  <1>15. verifyPayrollReceipt(r, o) <=> freshnessIssue(r, o) = "ok" /\ written
    BY <1>7, <1>8, <1>9, <1>10, VerifiedIs
  <1>16. QED
    BY <1>14, <1>15 DEF r, o, issued, written

\* Receipts in order but for the payment they name.
AnyFindable(r) ==
  /\ r.payrollId # Nil /\ r.status = "settled" /\ r.digest.v = "h1" /\ r.metadata = "m1" /\ r.issuedAt = 205

\* In any list of such receipts the one that is found by a hash is the one that verifies against it.
LEMMA AnyFoundVerifies ==
  ASSUME NEW receipts, NEW n \in Nat, DOMAIN receipts = 1..n, \A k \in 1..n : AnyFindable(receipts[k]), NEW hash,
         findReceiptByTransactionHash(receipts, hash) # 0
  PROVE  LET o == ReceiptOptions(Nil, hash, Written(Nil, FALSE, FALSE), "none", 0, 205)
             at == findReceiptByTransactionHash(receipts, hash)
         IN  {j \in DOMAIN receipts : verifyPayrollReceipt(receipts[j], o)} = {at} /\ referenceIssues(receipts[at], 1, 2) = {}
  <1> DEFINE o == ReceiptOptions(Nil, hash, Written(Nil, FALSE, FALSE), "none", 0, 205)
             at == findReceiptByTransactionHash(receipts, hash)
             matches == {i \in DOMAIN receipts : isValidHash(receipts[i]) /\ receipts[i].tx.v = hash.v}
  <1>1. at = IF ~isValidHexDigest(hash) \/ Cardinality(matches) # 1 THEN 0 ELSE Max(matches)
    BY Zenon DEF findReceiptByTransactionHash
  <1>2. isValidHexDigest(hash) /\ Cardinality(matches) = 1 /\ at = Max(matches)
    BY Zenon, <1>1
  <1>3. matches = {at} /\ at \in 1..n
    <2>1. matches \in SUBSET (1..n)
      OBVIOUS
    <2> HIDE DEF at
    <2>2. IsFiniteSet(matches)
      <3>1. IsFiniteSet(1..n)
        BY FS_Interval
      <3> HIDE DEF matches
      <3>2. QED
        BY <2>1, <3>1, FS_Subset
    <2> HIDE DEF matches
    <2>3. PICK x : matches = {x}
      BY <1>2, <2>2, FS_Singleton
    <2>4. x \in 1..n
      BY <2>1, <2>3
    <2>5. Max({x}) = x
      <3>1. x \in Nat /\ {x} \in SUBSET (0..x) /\ {x} # {}
        BY <2>4
      <3>2. Max({x}) \in {x}
        BY <3>1, Largest
      <3>3. QED
        BY <3>2
    <2>6. QED
      BY <1>2, <2>3, <2>4, <2>5
  <1>4. /\ o.payrollId = Nil /\ o.tx = hash /\ ~NonEmpty(o.digest) /\ o.metadata = "none" /\ o.maxAge = 0 /\ o.now = 205
        /\ o.requireSettled = TRUE /\ o.requireSignature = FALSE /\ o.trusted = {} /\ o.custom = "none" /\ o.node = TRUE
    BY DEF ReceiptOptions, Written, NonEmpty
  <1> HIDE DEF o, at
  <1>5. hash.v # Nil /\ hash.v # "odd"
    BY <1>2 DEF isValidHexDigest
  <1>6. \A j \in 1..n : verifyPayrollReceipt(receipts[j], o) <=> receipts[j].form # "none" /\ receipts[j].tx.v = hash.v
    <2> SUFFICES ASSUME NEW j \in 1..n
                 PROVE  verifyPayrollReceipt(receipts[j], o) <=> receipts[j].form # "none" /\ receipts[j].tx.v = hash.v
      OBVIOUS
    <2> DEFINE r == receipts[j]
    <2>1. r.payrollId # Nil /\ r.status = "settled" /\ r.digest.v = "h1" /\ r.metadata = "m1" /\ r.issuedAt = 205
      BY DEF AnyFindable
    <2> HIDE DEF r
    <2>2. validatePayrollReceiptShape(r) <=> r.form # "none" /\ r.tx.v # Nil
      BY <2>1 DEF validatePayrollReceiptShape, Nil
    <2>3. statusIssue(r, o) = "ok"
      BY <1>4, <2>1 DEF statusIssue, allowedStatuses
    <2>4. digestIssue(r, o) = "ok"
      <3>1. computeMetadataDigest("m1", TRUE) = "h1"
        BY DEF computeMetadataDigest, sha256Digest
      <3>2. MetadataToVerify(r, o) = "m1"
        BY <1>4, <2>1 DEF MetadataToVerify
      <3>3. isValidHexDigest(r.digest)
        BY <2>1 DEF isValidHexDigest, Nil
      <3>4. computeMetadataDigest(MetadataToVerify(r, o), o.node) = r.digest.v
        BY <1>4, <2>1, <3>1, <3>2
      <3>5. QED
        BY <1>4, <3>3, <3>4, DigestIs
    <2>5. freshnessIssue(r, o) = "ok"
      <3>1. parseTimestampToMs(r.issuedAt) = 205 /\ parseTimestampToMs(o.now) = 205
        BY <1>4, <2>1 DEF parseTimestampToMs, BadTime, SecondsBelow
      <3>2. 205 # BadTime /\ ~(205 > 205 + DEFAULT_TOLERANCE_MS) /\ ~(o.maxAge > 0)
        BY <1>4 DEF BadTime, DEFAULT_TOLERANCE_MS
      <3>3. QED
        BY <3>1, <3>2, ReceiptAgeIs
    <2>6. signatureIssue(r, o) = "ok" /\ customIssue(o, FALSE) = "ok"
      BY <1>4 DEF signatureIssue, customIssue
    <2>7. verifyPayrollReceipt(r, o) <=> validatePayrollReceiptShape(r) /\ (NonEmpty(o.tx) => o.tx.v = r.tx.v)
      <3>1. verifyPayrollReceipt(r, o) <=>
              /\ validatePayrollReceiptShape(r) /\ o.payrollId \in {Nil, r.payrollId} /\ statusIssue(r, o) = "ok"
              /\ NonEmpty(o.tx) => o.tx.v = r.tx.v
              /\ digestIssue(r, o) = "ok" /\ freshnessIssue(r, o) = "ok" /\ signatureIssue(r, o) = "ok" /\ customIssue(o, FALSE) = "ok"
        BY Zenon, VerifiedIs
      <3>2. o.payrollId \in {Nil, r.payrollId}
        BY <1>4
      <3>3. QED
        BY Zenon, <2>3, <2>4, <2>5, <2>6, <3>1, <3>2
    <2>8. NonEmpty(o.tx) /\ o.tx.v = hash.v
      BY <1>4, <1>5 DEF NonEmpty
    <2>9. QED
      BY <1>5, <2>2, <2>7, <2>8 DEF r
  <1>7. matches = {j \in 1..n : receipts[j].form # "none" /\ receipts[j].tx.v = hash.v}
    BY <1>5 DEF isValidHash
  <1>8. {j \in DOMAIN receipts : verifyPayrollReceipt(receipts[j], o)} = {at}
    <2> HIDE DEF matches
    <2>1. QED
      BY <1>3, <1>6, <1>7
  <1>9. receipts[at].form # "none" /\ receipts[at].tx.v = hash.v
    <2> HIDE DEF matches
    <2>1. QED
      BY <1>3, <1>7
  <1>10. referenceIssues(receipts[at], 1, 2) = {}
    <2> DEFINE r == receipts[at]
               p1 == r.form = "none" \/ r.tx.v = Nil
               p2 == r.form # "none" /\ r.tx.v = "odd"
               p3 == r.form = "object" /\ r.tx.v # Nil /\ BadTime \in {1, 2}
               p4 == r.form = "object" /\ r.tx.v # Nil /\ BadTime \notin {1, 2} /\ 2 < 1
               list == << <<p1, "MISSING">>, <<p2, "TX_HASH_MALFORMED">>, <<p3, "TIMESTAMP_UNPARSEABLE">>, <<p4, "CONFIRMED_BEFORE_SUBMITTED">> >>
    <2>1. referenceIssues(r, 1, 2) = AllOf(list)
      BY Zenon DEF referenceIssues
    <2>2. ~p1 /\ ~p2 /\ ~p3 /\ ~p4
      BY <1>5, <1>9 DEF BadTime
    <2> HIDE DEF p1, p2, p3, p4
    <2>3. DOMAIN list = 1..4 /\ list[1][1] = p1 /\ list[2][1] = p2 /\ list[3][1] = p3 /\ list[4][1] = p4
      OBVIOUS
    <2> HIDE DEF list
    <2>4. \A k \in 1..4 : k = 1 \/ k = 2 \/ k = 3 \/ k = 4
      OBVIOUS
    <2>5. AllOf(list) = {}
      BY <2>2, <2>3, <2>4 DEF AllOf
    <2>6. QED
      BY <2>1, <2>5 DEF r
  <1>11. QED
    BY <1>8, <1>10 DEF o, at

\* The digest of any valid attachment is the one a receipt carries.
LEMMA AnyAttachedMatches ==
  ASSUME NEW a, NEW tx, validateAuditReferenceAttachment(a) = {}, a.digest.v # "absent", DOMAIN a = {"operation", "label", "type", "uri", "digest", "issuedAt"}
  PROVE  attachAuditReference(a).digest = createPayrollReceipt("p", tx, a.digest, "none", 200, TRUE).digest
  <1> DEFINE p1 == a.operation = Nil
             p2 == a.label = 0
             p3 == a.label > 256
             p4 == a.type \notin {"document", "receipt", "proof", "report", "external"}
             p5 == a.uri \notin {"absent", "https"}
             p6 == a.digest.v # "absent" /\ ~isValidHexDigest(a.digest)
             p7 == a.issuedAt = BadTime
             list == << <<p1, "MISSING_OPERATION_ID">>, <<p2, "MISSING_LABEL">>, <<p3, "LABEL_TOO_LONG">>, <<p4, "INVALID_REFERENCE_TYPE">>,
                        <<p5, "INVALID_URI_FORMAT">>, <<p6, "INVALID_DIGEST_FORMAT">>, <<p7, "INVALID_ISSUED_AT">> >>
  <1>1. AllOf(list) = {}
    BY Zenon DEF validateAuditReferenceAttachment
  <1> HIDE DEF p1, p2, p3, p4, p5, p6, p7
  <1>2. 6 \in DOMAIN list /\ list[6] = <<p6, "INVALID_DIGEST_FORMAT">>
    OBVIOUS
  <1> HIDE DEF list
  <1>3. ~p6
    BY <1>1, <1>2, NothingCollected
  <1>4. isValidHexDigest(a.digest)
    BY <1>3 DEF p6
  <1>5. createPayrollReceipt("p", tx, a.digest, "none", 200, TRUE).digest = Written(a.digest.v, FALSE, FALSE)
    BY <1>4 DEF createPayrollReceipt, PayrollReceipt
  <1>6. attachAuditReference(a).digest = Written(a.digest.v, FALSE, FALSE)
    BY DEF attachAuditReference
  <1>7. QED
    BY <1>5, <1>6

\* What is wrong with a package at some moment.
LEMMA PackageShapeIs ==
  ASSUME NEW c, NEW now
  PROVE  validateAuditPackageShape(c, now) = {} <=>
           /\ ~(c.scope.expiresAt # NoExpiry /\ c.scope.expiresAt <= now)
           /\ isDisclosureScopeWellFormed(c.scope)
           /\ ~(\E proof \in c.proofs : proof \notin c.keys) /\ ~(\E m \in c.commitments : m.employee = Nil) /\ c.proofs # {}
  <1> DEFINE p1 == c.scope.expiresAt # NoExpiry /\ c.scope.expiresAt <= now
             p2 == ~isDisclosureScopeWellFormed(c.scope)
             p3 == \E proof \in c.proofs : proof \notin c.keys
             p4 == \E m \in c.commitments : m.employee = Nil
             p5 == c.proofs = {}
             list == << <<p1, "expired">>, <<p2, "malformed">>, <<p3, "missing key">>, <<p4, "incomplete">>, <<p5, "no proof">> >>
  <1>1. validateAuditPackageShape(c, now) = AllOf(list)
    BY Zenon DEF validateAuditPackageShape
  <1> HIDE DEF p1, p2, p3, p4, p5
  <1>2. DOMAIN list = 1..5 /\ list[1][1] = p1 /\ list[2][1] = p2 /\ list[3][1] = p3 /\ list[4][1] = p4 /\ list[5][1] = p5
    OBVIOUS
  <1> HIDE DEF list
  <1>3. validateAuditPackageShape(c, now) = {} <=> ~p1 /\ ~p2 /\ ~p3 /\ ~p4 /\ ~p5
    <2>1. AllOf(list) = {} <=> \A k \in DOMAIN list : ~list[k][1]
      BY DEF AllOf
    <2>2. \A k \in 1..5 : k = 1 \/ k = 2 \/ k = 3 \/ k = 4 \/ k = 5
      OBVIOUS
    <2>3. 1 \in 1..5 /\ 2 \in 1..5 /\ 3 \in 1..5 /\ 4 \in 1..5 /\ 5 \in 1..5
      OBVIOUS
    <2>4. (\A k \in DOMAIN list : ~list[k][1]) <=> ~p1 /\ ~p2 /\ ~p3 /\ ~p4 /\ ~p5
      BY Zenon, <1>2, <2>2, <2>3
    <2>5. QED
      BY <1>1, <2>1, <2>4
  <1>4. QED
    BY <1>3 DEF p1, p2, p3, p4, p5

\* Any package verifies until its scope expires, and stays within it.
LEMMA AnyPackageInScope ==
  ASSUME NEW commitments, NEW scope, NEW proofs, NEW keys, scope.expiresAt \in Int, NEW start \in Int,
         validateAuditPackageShape(createSelectiveDisclosureAuditPackage(commitments, scope, proofs, keys).content, start) = {}
  PROVE  LET p == createSelectiveDisclosureAuditPackage(commitments, scope, proofs, keys) IN
         /\ \A now \in Int : now >= start =>
              (verifySelectiveDisclosureAuditPackage(p, now) <=> (scope.expiresAt = NoExpiry \/ now < scope.expiresAt))
         /\ scope.type = "department" => \A c \in p.content.commitments : c.department \in scope.ids
         /\ scope.type = "employee_subset" => \A c \in p.content.commitments : c.employee \in scope.ids
  <1> DEFINE p == createSelectiveDisclosureAuditPackage(commitments, scope, proofs, keys)
             disclosed == applyDisclosureScope(commitments, scope)
             content == p.content
  <1>1. p.hash = content /\ content.commitments = disclosed /\ content.scope = scope /\ content.proofs = proofs /\ content.keys = keys
    BY DEF createSelectiveDisclosureAuditPackage
  <1> HIDE DEF p, content, disclosed
  <1>2. /\ isDisclosureScopeWellFormed(content.scope)
        /\ ~(\E proof \in content.proofs : proof \notin content.keys) /\ ~(\E m \in content.commitments : m.employee = Nil) /\ content.proofs # {}
    BY PackageShapeIs DEF content, p
  <1>3. \A now : validateAuditPackageShape(content, now) = {} <=> ~(content.scope.expiresAt # NoExpiry /\ content.scope.expiresAt <= now)
    BY <1>2, PackageShapeIs
  <1>4. \A now : verifySelectiveDisclosureAuditPackage(p, now) <=> validateAuditPackageShape(content, now) = {}
    BY <1>1 DEF verifySelectiveDisclosureAuditPackage, content
  <1>5. \A now \in Int : verifySelectiveDisclosureAuditPackage(p, now) <=> (scope.expiresAt = NoExpiry \/ now < scope.expiresAt)
    <2>1. scope.expiresAt \in Int
      OBVIOUS
    <2>2. QED
      BY <1>1, <1>3, <1>4, <2>1
  <1>6. scope.type \in {"department", "employee_subset"} => scope.ids # {Nil}
    BY <1>1, <1>2 DEF isDisclosureScopeWellFormed
  <1>7. scope.type = "department" => \A c \in disclosed : c.department \in scope.ids
    BY <1>6 DEF applyDisclosureScope, disclosed
  <1>8. scope.type = "employee_subset" => \A c \in disclosed : c.employee \in scope.ids
    BY <1>6 DEF applyDisclosureScope, disclosed
  <1>9. QED
    BY <1>1, <1>5, <1>7, <1>8 DEF p, content

\* A request for access: times are days, not given, or no dates.
AnyAccess(q) == q.expiresAt \in Nat \cup {NotGiven, BadTime}

\* Any access that is granted is read alike, at any moment.
LEMMA AnyAccessReadAlike ==
  ASSUME NEW q, NEW now \in Nat, AnyAccess(q), accessRequestErrors(q, now) = {}
  PROVE  LET key == createViewKeyRequest(q.expiresAt, now) IN
         /\ validateViewKeyRequest(q.named, "read-only", q.expiresAt, now) = {}
         /\ q.expiresAt \in Int
         /\ \A at \in Int :
              /\ isViewKeyValid(key, at) <=> isAuditorAccessActive(q.expiresAt, at)
              /\ formatAuditorAccessExpiry(q.expiresAt, at) = getAuditorAccessExpiryStatus(q.expiresAt, at)
  <1> DEFINE x == q.expiresAt
             key == createViewKeyRequest(x, now)
  <1>1. q.named /\ x \notin {NotGiven, BadTime} /\ ~(x >= 0 /\ x <= now)
    <2> DEFINE dated == dateIssue(q.start) = "ok" /\ dateIssue(q.end) = "ok"
               p1 == q.requester \notin {"G", "S"}
               p2 == ~q.named
               p3 == q.scope \notin {"transaction-summaries", "departmental-breakdowns", "full-payroll"}
               p4 == dateIssue(q.expiresAt) # "ok"
               p5 == q.expiresAt >= 0 /\ q.expiresAt <= now
               p6 == q.expiresAt > now + MAX_REQUEST_DAYS
               p7 == q.reason < 10 \/ q.reason > 2000
               p8 == ~dated
               p9 == dated /\ q.end <= q.start
               p10 == dated /\ q.end - q.start > MAX_REQUEST_DAYS
               p11 == dated /\ q.start > now /\ q.end > now
               list == << <<p1, "REQUESTER">>, <<p2, "REQUESTER_NAME">>, <<p3, "SCOPE">>, <<p4, "EXPIRES_AT">>, <<p5, "EXPIRES_AT_IN_PAST">>,
                          <<p6, "EXPIRES_AT_EXCEEDED_MAX_DURATION">>, <<p7, "REASON">>, <<p8, "TARGET_PAYROLL_PERIOD">>,
                          <<p9, "PERIOD_END_BEFORE_START">>, <<p10, "PERIOD_EXCEEDS_MAX_DURATION">>, <<p11, "PERIOD_IN_FUTURE">> >>
    <2>1. AllOf(list) = {}
      BY Zenon DEF accessRequestErrors
    <2> HIDE DEF p1, p2, p3, p4, p5, p6, p7, p8, p9, p10, p11
    <2>2. 2 \in DOMAIN list /\ 4 \in DOMAIN list /\ 5 \in DOMAIN list /\ list[2][1] = p2 /\ list[4][1] = p4 /\ list[5][1] = p5
      OBVIOUS
    <2> HIDE DEF list
    <2>3. ~p2 /\ ~p4 /\ ~p5
      BY <2>1, <2>2, NothingCollected
    <2>4. QED
      BY <2>3 DEF p2, p4, p5, dateIssue
  <1>2. x \in Nat /\ x > now
    BY <1>1 DEF AnyAccess
  <1>3. key.isActive = TRUE /\ key.expiresAt = x
    BY <1>1 DEF createViewKeyRequest
  <1> HIDE DEF x, key
  <1>4. validateViewKeyRequest(q.named, "read-only", x, now) = {}
    <2> DEFINE p1 == ~q.named
               p2 == "read-only" \notin {"read-only", "full-audit"}
               p3 == x = BadTime
               p4 == x \notin {NotGiven, BadTime} /\ x <= now
               list == << <<p1, "auditor">>, <<p2, "scope">>, <<p3, "not a date">>, <<p4, "not in the future">> >>
    <2>1. validateViewKeyRequest(q.named, "read-only", x, now) = AllOf(list)
      BY Zenon DEF validateViewKeyRequest
    <2>2. ~p1 /\ ~p2 /\ ~p3 /\ ~p4
      BY <1>1, <1>2 DEF x
    <2> HIDE DEF p1, p2, p3, p4
    <2>3. DOMAIN list = 1..4 /\ list[1][1] = p1 /\ list[2][1] = p2 /\ list[3][1] = p3 /\ list[4][1] = p4
      OBVIOUS
    <2> HIDE DEF list
    <2>4. \A k \in 1..4 : k = 1 \/ k = 2 \/ k = 3 \/ k = 4
      OBVIOUS
    <2>5. AllOf(list) = {}
      BY <2>2, <2>3, <2>4 DEF AllOf
    <2>6. QED
      BY <2>1, <2>5
  <1>5. \A at \in Int : isViewKeyValid(key, at) <=> x > at
    <2>1. x # BadTime
      BY <1>2 DEF BadTime
    <2>2. QED
      BY <1>2, <1>3, <2>1 DEF isViewKeyValid, resolveKeyStatus
  <1>6. x \notin {NotGiven, BadTime}
    BY <1>1 DEF x
  <1>7. ASSUME NEW at \in Int
        PROVE  /\ isAuditorAccessActive(x, at) <=> x > at
               /\ formatAuditorAccessExpiry(x, at) = getAuditorAccessExpiryStatus(x, at)
    <2>1. getAuditorAccessExpiryStatus(x, at) =
            IF x <= at THEN "expired" ELSE IF x - at <= WARNING_DAYS THEN "expiring_soon" ELSE "active"
      BY <1>6 DEF getAuditorAccessExpiryStatus
    <2>2. formatAuditorAccessExpiry(x, at) =
            IF x - at <= 0 THEN "expired" ELSE IF x - at <= WARNING_DAYS THEN "expiring_soon" ELSE "active"
      BY <1>6 DEF formatAuditorAccessExpiry
    <2>3. x - at <= 0 <=> x <= at
      BY <1>2
    <2>4. QED
      BY <1>2, <2>1, <2>2, <2>3 DEF isAuditorAccessActive
  <1>8. QED
    BY <1>2, <1>4, <1>5, <1>7 DEF x, key

\* Any event that counts as an error comes from a webhook that reports a failure, or says itself that it is one.
LEMMA NormalizedErrorIs ==
  ASSUME NEW raw
  PROVE  LET e == normalizeAuditEvent(raw) IN
         /\ (e.severity = "error" /\ e.tag # "webhook") => e.tag = "generic" /\ raw.severity = "error"
         /\ raw.event # UnknownName => (e.failed <=> e.severity = "error" /\ e.tag = "webhook")
  <1> DEFINE e == normalizeAuditEvent(raw)
             contract == raw.type \in ContractTypes
             webhook == isWebhookPayload(raw.event)
  <1>1. CASE contract
    <2>1. e = [category |-> contractEventToCategory(raw.type), severity |-> contractEventToSeverity(raw.type), failed |-> FALSE, tag |-> "contract"]
      BY <1>1 DEF normalizeAuditEvent
    <2>2. contractEventToSeverity(raw.type) # "error"
      BY DEF contractEventToSeverity
    <2> HIDE DEF e
    <2>3. e.severity # "error" /\ e.failed = FALSE
      BY <2>1, <2>2
    <2>4. QED
      BY <2>3 DEF e
  <1>2. CASE ~contract /\ webhook
    <2>1. e = [category |-> webhookToCategory(raw.event), severity |-> webhookToSeverity(raw.event),
               failed |-> raw.event \in Failures \cup {UnknownName}, tag |-> "webhook"]
      BY <1>2 DEF normalizeAuditEvent
    <2>2. webhookToSeverity(raw.event) = "error" <=> raw.event \in Failures
      BY DEF webhookToSeverity, Failures
    <2> HIDE DEF e
    <2>3. e.severity = webhookToSeverity(raw.event) /\ (e.failed <=> raw.event \in Failures \cup {UnknownName}) /\ e.tag = "webhook"
      BY <2>1
    <2>4. QED
      BY <2>2, <2>3 DEF e
  <1>3. CASE ~contract /\ ~webhook
    <2>1. e = [category |-> OrDefault(raw.category, "dashboard"), severity |-> OrDefault(raw.severity, "info"), failed |-> FALSE, tag |-> "generic"]
      BY <1>3 DEF normalizeAuditEvent
    <2>2. OrDefault(raw.severity, "info") = "error" => raw.severity = "error"
      BY DEF OrDefault
    <2> HIDE DEF e
    <2>3. e.severity = OrDefault(raw.severity, "info") /\ e.failed = FALSE /\ e.tag = "generic"
      BY <2>1
    <2>4. QED
      BY <2>2, <2>3 DEF e
  <1>4. QED
    BY Zenon, <1>1, <1>2, <1>3

\* In any sequence of events the summary counts as errors what a filter finds: the failures reported, and what was called an error.
LEMMA AnyFailuresCounted ==
  ASSUME NEW raws, NEW events, DOMAIN events = DOMAIN raws, \A k \in DOMAIN raws : events[k] = normalizeAuditEvent(raws[k])
  PROVE  LET errors == filterAuditEvents(events, [category |-> "any", severity |-> "error", tags |-> {}])
             reported == filterAuditEvents(events, [category |-> "any", severity |-> "error", tags |-> {"webhook"}]) IN
         /\ buildAuditSummary(events)["error"] = Cardinality(errors) /\ reported \subseteq errors
         /\ \A k \in errors \ reported : events[k].tag = "generic" /\ raws[k].severity = "error"
         /\ (\A k \in DOMAIN raws : raws[k].event # UnknownName) => reported = {k \in DOMAIN events : events[k].failed}
  <1> DEFINE errors == filterAuditEvents(events, [category |-> "any", severity |-> "error", tags |-> {}])
             reported == filterAuditEvents(events, [category |-> "any", severity |-> "error", tags |-> {"webhook"}])
             bad == {k \in DOMAIN events : events[k].severity = "error"}
  <1>1. \A k \in DOMAIN events : events[k].severity = "error" /\ events[k].tag # "webhook" => events[k].tag = "generic" /\ raws[k].severity = "error"
    BY NormalizedErrorIs
  <1>2. reported = {k \in DOMAIN events : events[k].severity = "error" /\ events[k].tag = "webhook"}
    BY DEF filterAuditEvents
  <1>3. errors = bad
    BY DEF filterAuditEvents
  <1>4. buildAuditSummary(events)["error"] = Cardinality(bad)
    BY DEF buildAuditSummary, SEVERITIES, Count
  <1>5. (\A k \in DOMAIN raws : raws[k].event # UnknownName)
          => \A k \in DOMAIN events : events[k].failed <=> events[k].severity = "error" /\ events[k].tag = "webhook"
    BY NormalizedErrorIs
  <1> HIDE DEF errors, reported
  <1>6. \A k \in errors \ reported : events[k].tag = "generic" /\ raws[k].severity = "error"
    BY <1>1, <1>2, <1>3
  <1>7. reported \subseteq errors
    BY <1>2, <1>3
  <1>8. (\A k \in DOMAIN raws : raws[k].event # UnknownName) => reported = {k \in DOMAIN events : events[k].failed}
    BY Zenon, <1>2, <1>5
  <1>9. QED
    BY Zenon, <1>3, <1>4, <1>6, <1>7, <1>8 DEF errors, reported

-----------------------------------------------------------------------------
EvidenceAsked ==
  /\ Asked("receipt", ReceiptInputs) /\ Asked("created", CreatedInputs) /\ Asked("lookup", LookupInputs)
  /\ Asked("attachment", AttachmentInputs) /\ Asked("package", PackageInputs) /\ Asked("access", AccessInputs)
  /\ Asked("auditevents", EventInputs)

\* What is asked about receipts and audits is one of its inputs.
LEMMA EvidenceIsAsked == RulesSpec => []EvidenceAsked
  <1>1. RulesInit => EvidenceAsked
    BY DEF RulesInit, Unasked, EvidenceAsked, Asked, About
  <1>2. EvidenceAsked /\ [RulesNext]_subject => EvidenceAsked'
    <2> SUFFICES ASSUME EvidenceAsked, [RulesNext]_subject PROVE EvidenceAsked'
      OBVIOUS
    <2>1. CASE UNCHANGED subject
      BY <2>1 DEF EvidenceAsked, Asked, About
    <2>2. CASE RulesNext
      <3>1. Asked("receipt", ReceiptInputs)'
        BY <2>2 DEF RulesNext, Ask, Asked, About
      <3>2. Asked("created", CreatedInputs)'
        BY <2>2 DEF RulesNext, Ask, Asked, About
      <3>3. Asked("lookup", LookupInputs)'
        BY <2>2 DEF RulesNext, Ask, Asked, About
      <3>4. Asked("attachment", AttachmentInputs)'
        BY <2>2 DEF RulesNext, Ask, Asked, About
      <3>5. Asked("package", PackageInputs)'
        BY <2>2 DEF RulesNext, Ask, Asked, About
      <3>6. Asked("access", AccessInputs)'
        BY <2>2 DEF RulesNext, Ask, Asked, About
      <3>7. Asked("auditevents", EventInputs)'
        BY <2>2 DEF RulesNext, Ask, Asked, About
      <3>8. QED
        BY <3>1, <3>2, <3>3, <3>4, <3>5, <3>6, <3>7 DEF EvidenceAsked
    <2>3. QED
      BY <2>1, <2>2
  <1>3. QED
    BY <1>1, <1>2, PTL DEF RulesSpec

\* The receipts the run verifies: the options ask for settled ones.
LEMMA ReceiptClass ==
  ASSUME NEW i \in ReceiptInputs
  PROVE  i.options.requireSettled /\ i.options.node \in BOOLEAN
  <1> DEFINE of(d, m, o, c, s, n) == [receipt |-> PayrollReceipt("p", "settled", "string", Written("h1", FALSE, TRUE), d, m, 205, s, "a"),
                                      options |-> Where(WithValidator(o, c, s), n)]
  <1>1. \A o \in Expectations : \A d, m, c, s, n : of(d, m, o, c, s, n).options.requireSettled /\ of(d, m, o, c, s, n).options.node = n
    <2>1. \A o \in Expectations : o.requireSettled
      BY DEF Expectations, ReceiptOptions
    <2>2. \A o \in Expectations : {"requireSettled", "node"} \subseteq DOMAIN o
      BY DEF Expectations, ReceiptOptions
    <2>3. \A o, c, s, n : {"requireSettled", "node"} \subseteq DOMAIN o =>
            Where(WithValidator(o, c, s), n).requireSettled = o.requireSettled /\ Where(WithValidator(o, c, s), n).node = n
      BY DEF WithValidator, Where
    <2>4. \A d, m, o, c, s, n : of(d, m, o, c, s, n).options = Where(WithValidator(o, c, s), n)
      OBVIOUS
    <2> HIDE DEF of
    <2>5. QED
      BY <2>1, <2>2, <2>3, <2>4
  <1>2. ReceiptInputs = {of(d, m, o, c, s, n) : d \in Hashes, m \in {"none", "m1", "m2"}, o \in Expectations, c \in {"none", "warning", "promise"},
                                               s \in BOOLEAN, n \in BOOLEAN}
    BY DEF ReceiptInputs
  <1> HIDE DEF of
  <1>3. QED
    BY <1>1, <1>2

\* The receipts the run creates.
LEMMA CreatedClass ==
  ASSUME NEW i \in CreatedInputs
  PROVE  /\ AnyCreated(i)
         /\ (IF i.issuedAt < SecondsBelow THEN i.issuedAt * 10 ELSE i.issuedAt) = parseTimestampToMs(i.issuedAt)
  <1>c. \A d \in NotDigests : ~isValidHexDigest(d)
    BY DEF NotDigests, isValidHexDigest, Written
  <1>1. /\ i.digest \in NotDigests /\ i.metadata \in {"none", "m1", "m2"} /\ i.node \in BOOLEAN
        /\ i.issuedAt \in {20, 21, 200, 205} /\ i.later \in -3..12 /\ i.age \in {0, 5}
    BY DEF CreatedInputs
  <1> DEFINE t == i.issuedAt
             l == i.later
  <1>3. ~isValidHexDigest(i.digest)
    BY <1>1, <1>c
  <1>4. parseTimestampToMs(t) >= 200 /\ parseTimestampToMs(t) = IF t < SecondsBelow THEN t * 10 ELSE t
    BY <1>1 DEF parseTimestampToMs, BadTime, SecondsBelow
  <1>5. l \in Int /\ l >= -3 /\ t \in Nat /\ i.age \in Nat
    BY <1>1
  <1>6. parseTimestampToMs(t) \in Int
    BY <1>5 DEF parseTimestampToMs, BadTime, SecondsBelow
  <1>7. parseTimestampToMs(t) + l >= SecondsBelow /\ l >= -DEFAULT_TOLERANCE_MS
    BY <1>4, <1>5, <1>6 DEF SecondsBelow, DEFAULT_TOLERANCE_MS
  <1>8. QED
    BY <1>1, <1>3, <1>4, <1>5, <1>7 DEF AnyCreated

\* The receipts the run looks up.
LEMMA LookupClass ==
  ASSUME NEW i \in LookupInputs
  PROVE  DOMAIN i.receipts = 1..2 /\ \A k \in 1..2 : AnyFindable(i.receipts[k])
  <1> DEFINE r1(f, t) == PayrollReceipt("p", "settled", f, t, Written("h1", FALSE, FALSE), "m1", 205, FALSE, "none")
             r2(t) == PayrollReceipt("q", "settled", "object", t, Written("h1", FALSE, FALSE), "m1", 205, FALSE, "none")
  <1>1. \A f, t : AnyFindable(r1(f, t)) /\ AnyFindable(r2(t))
    BY DEF AnyFindable, PayrollReceipt, Written, Nil
  <1>2. LookupInputs = {[receipts |-> <<r1(f, t1), r2(t2)>>, hash |-> h] : f \in {"string", "object", "none"}, t1 \in Hashes, t2 \in Hashes, h \in Hashes}
    BY DEF LookupInputs
  <1> HIDE DEF r1, r2
  <1>3. PICK f, t1, t2, h : i = [receipts |-> <<r1(f, t1), r2(t2)>>, hash |-> h]
    BY <1>2
  <1>4. i.receipts = <<r1(f, t1), r2(t2)>>
    BY <1>3
  <1>5. QED
    BY <1>1, <1>4

\* The attachments the run validates.
LEMMA AttachmentClass ==
  ASSUME NEW a \in AttachmentInputs
  PROVE  DOMAIN a = {"operation", "label", "type", "uri", "digest", "issuedAt"}
  <1> DEFINE of(l, t, u, d) == [operation |-> "op", label |-> l, type |-> t, uri |-> u, digest |-> d, issuedAt |-> 5]
             Digests == Hashes \cup {Written("absent", FALSE, FALSE)}
             Fields == {"operation", "label", "type", "uri", "digest", "issuedAt"}
  <1>1. AttachmentInputs = {of(l, t, u, d) : l \in {0, 256, 257}, t \in {"receipt", "letter"}, u \in {"absent", "https", "ftp"}, d \in Digests}
    BY DEF AttachmentInputs
  <1>2. \A l, t, u, d : DOMAIN of(l, t, u, d) = Fields
    OBVIOUS
  <1> HIDE DEF of, Digests, Fields
  <1>3. DOMAIN a = Fields
    BY <1>1, <1>2
  <1>4. QED
    BY <1>3 DEF Fields

\* The packages the run makes.
LEMMA PackageClass ==
  ASSUME NEW i \in PackageInputs
  PROVE  i.scope.expiresAt \in Int
  <1> DEFINE scopeOf(t, ids, r, x) == [type |-> t, ids |-> ids, reason |-> r, expiresAt |-> x]
             of(cs, t, ids, r, x, ps) == [commitments |-> cs, scope |-> scopeOf(t, ids, r, x), proofs |-> ps, keys |-> {"k"}]
             Committed == SUBSET {Commitment("e1", "p1", Nil), Commitment("e1", "p2", "d1"), Commitment("e2", "p1", "d2"), Commitment(Nil, "p1", "d1")}
             Types == {"employee_subset", "payroll_period", "department", "reason"}
             Ids == {{}, {Nil}, {"e1"}, {"p1"}, {"d1"}}
             Proven == {{}, {"k"}, {"k", "lost"}}
  <1>1. PackageInputs = {of(cs, t, ids, r, x, ps) : cs \in Committed, t \in Types, ids \in Ids, r \in BOOLEAN, x \in {NoExpiry, 5, 7}, ps \in Proven}
    BY DEF PackageInputs
  <1>2. \A cs, t, ids, r, x, ps : of(cs, t, ids, r, x, ps).scope.expiresAt = x
    OBVIOUS
  <1> HIDE DEF of, Committed, Types, Ids, Proven
  <1>3. NoExpiry \in Int
    BY DEF NoExpiry
  <1>4. QED
    BY <1>1, <1>2, <1>3

\* The requests for access the run answers.
LEMMA AccessClass ==
  ASSUME NEW q \in AccessInputs
  PROVE  AnyAccess(q)
  <1>1. q.expiresAt \in {NotGiven, BadTime, 400, 401, 402, 765, 766}
    BY DEF AccessInputs
  <1>2. QED
    BY <1>1 DEF AnyAccess

\* What is asked about receipts and audits, as the lemmas above need it.
LEMMA EvidenceClasses ==
  ASSUME EvidenceAsked
  PROVE  /\ About("receipt") => subject.input.options.requireSettled /\ subject.input.options.node \in BOOLEAN
         /\ About("created") =>
              /\ AnyCreated(subject.input)
              /\ (IF subject.input.issuedAt < SecondsBelow THEN subject.input.issuedAt * 10 ELSE subject.input.issuedAt) = parseTimestampToMs(subject.input.issuedAt)
         /\ About("lookup") => DOMAIN subject.input.receipts = 1..2 /\ \A k \in 1..2 : AnyFindable(subject.input.receipts[k])
         /\ About("attachment") => DOMAIN subject.input = {"operation", "label", "type", "uri", "digest", "issuedAt"}
         /\ About("package") => subject.input.scope.expiresAt \in Int
         /\ About("access") => AnyAccess(subject.input)
         /\ About("auditevents") => DOMAIN subject.input = 1..2
  <1>1. \A e \in EventInputs : DOMAIN e = 1..2
    BY DEF EventInputs
  <1> DEFINE i == subject.input
  <1>2. /\ About("receipt") => i \in ReceiptInputs
        /\ About("created") => i \in CreatedInputs
        /\ About("lookup") => i \in LookupInputs
        /\ About("attachment") => i \in AttachmentInputs
        /\ About("package") => i \in PackageInputs
        /\ About("access") => i \in AccessInputs
        /\ About("auditevents") => i \in EventInputs
    BY Zenon DEF EvidenceAsked, Asked
  <1> HIDE DEF i
  <1>3. /\ About("receipt") => i.options.requireSettled /\ i.options.node \in BOOLEAN
        /\ About("created") => AnyCreated(i) /\ (IF i.issuedAt < SecondsBelow THEN i.issuedAt * 10 ELSE i.issuedAt) = parseTimestampToMs(i.issuedAt)
        /\ About("lookup") => DOMAIN i.receipts = 1..2 /\ \A k \in 1..2 : AnyFindable(i.receipts[k])
    BY Zenon, <1>2, ReceiptClass, CreatedClass, LookupClass
  <1>4. /\ About("attachment") => DOMAIN i = {"operation", "label", "type", "uri", "digest", "issuedAt"}
        /\ About("package") => i.scope.expiresAt \in Int
        /\ About("access") => AnyAccess(i)
        /\ About("auditevents") => DOMAIN i = 1..2
    BY Zenon, <1>1, <1>2, AttachmentClass, PackageClass, AccessClass
  <1>5. QED
    BY Zenon, <1>3, <1>4 DEF i

\* Receipts and audits: what verifies once is accepted by everyone who reads it, and a reader of access, of a package or of events
\* sees what was granted, disclosed and reported (receipts/, audit/).
THEOREM EvidenceIsHeld == RulesSpec => []EvidenceHolds
  <1> DEFINE i == subject.input
  <1>1. EvidenceAsked => EvidenceHolds
    <2> SUFFICES ASSUME EvidenceAsked PROVE EvidenceHolds
      OBVIOUS
    <2>1. DigestChecksAgree
      <3> DEFINE r == i.receipt
                 o == i.options
      <3> SUFFICES ASSUME About("receipt")
                   PROVE  LET metadata == MetadataToVerify(r, o) IN
                          /\ r.digest.v # Nil => ("metadataDigest" \in verifiedFields(r, o) <=> verifyMetadataDigestMatch(r.digest, metadata, o.digest, o.node))
                          /\ verifyPayrollReceiptAsync(r, o) => verifyPayrollReceipt(r, o)
                          /\ (o.custom # "promise" /\ (o.node \/ metadata = "none")) => (verifyPayrollReceiptAsync(r, o) <=> verifyPayrollReceipt(r, o))
                          /\ (~o.node /\ metadata # "none") => ~verifyPayrollReceiptAsync(r, o)
        BY Zenon DEF DigestChecksAgree
      <3>1. o.node \in BOOLEAN
        BY Zenon, EvidenceClasses
      <3> HIDE DEF r, o
      <3>2. LET metadata == MetadataToVerify(r, o) IN
            /\ r.digest.v # Nil => ("metadataDigest" \in verifiedFields(r, o) <=> verifyMetadataDigestMatch(r.digest, metadata, o.digest, o.node))
            /\ verifyPayrollReceiptAsync(r, o) => verifyPayrollReceipt(r, o)
            /\ (o.custom # "promise" /\ (o.node \/ metadata = "none")) => (verifyPayrollReceiptAsync(r, o) <=> verifyPayrollReceipt(r, o))
            /\ (~o.node /\ metadata # "none") => ~verifyPayrollReceiptAsync(r, o)
        BY <3>1, AnyDigestChecksAgree
      <3>3. QED
        BY Zenon, <3>2
    <2>2. VerifiedReceiptsSettle
      <3> DEFINE o == i.options
      <3> SUFFICES ASSUME About("receipt"), NEW id \in [length : {8, 128}, chars : {"plain"}], NEW status \in {"settled", "confirmed", "pending"},
                          verifyPayrollReceipt([i.receipt EXCEPT !.status = status], o)
                   PROVE  validateSettlementReceipt(id, [i.receipt EXCEPT !.status = status], o) = "ok"
        BY Zenon DEF VerifiedReceiptsSettle
      <3> DEFINE r == [i.receipt EXCEPT !.status = status]
      <3>1. o.requireSettled
        BY Zenon, EvidenceClasses
      <3>2. id.length \in 8..128 /\ id.chars = "plain"
        OBVIOUS
      <3> HIDE DEF o, r
      <3>3. verifyPayrollReceipt(r, o)
        BY Zenon DEF r
      <3>4. validateSettlementReceiptId(id) = "ok"
        BY Zenon, <3>2, AnyPlainId
      <3>5. validateSettlementReceipt(id, r, o) = "ok"
        BY Zenon, <3>1, <3>3, <3>4, AnyVerifiedSettles
      <3>6. QED
        BY Zenon, <3>5 DEF r
    <2>3. OwnReceiptsVerify
      <3> DEFINE r == createPayrollReceipt("p", i.tx, i.digest, i.metadata, i.issuedAt, i.node)
                 now == (IF i.issuedAt < SecondsBelow THEN i.issuedAt * 10 ELSE i.issuedAt) + i.later
      <3> SUFFICES ASSUME About("created"), i.tx.v # Nil
                   PROVE  verifyPayrollReceipt(r, Where(ReceiptOptions("p", i.tx, r.digest, i.metadata, i.age, now), i.node))
                            <=> /\ i.age = 0 \/ i.later <= i.age + DEFAULT_TOLERANCE_MS
                                /\ i.node \/ i.metadata # "m2"
        BY Zenon DEF OwnReceiptsVerify
      <3>1. AnyCreated(i) /\ now = parseTimestampToMs(i.issuedAt) + i.later
        BY Zenon, EvidenceClasses
      <3> HIDE DEF i, now
      <3>2. QED
        BY Zenon, <3>1, AnyOwnVerifies
    <2>4. FoundReceiptsVerify
      <3> DEFINE o == ReceiptOptions(Nil, i.hash, Written(Nil, FALSE, FALSE), "none", 0, 205)
                 at == findReceiptByTransactionHash(i.receipts, i.hash)
      <3> SUFFICES ASSUME About("lookup"), at # 0
                   PROVE  {j \in DOMAIN i.receipts : verifyPayrollReceipt(i.receipts[j], o)} = {at} /\ referenceIssues(i.receipts[at], 1, 2) = {}
        BY Zenon DEF FoundReceiptsVerify
      <3>1. DOMAIN i.receipts = 1..2 /\ \A k \in 1..2 : AnyFindable(i.receipts[k])
        BY Zenon, EvidenceClasses
      <3>2. 2 \in Nat
        OBVIOUS
      <3> HIDE DEF i
      <3>3. QED
        BY Zenon, <3>1, <3>2, AnyFoundVerifies
    <2>5. AttachedDigestMatches
      <3> SUFFICES ASSUME About("attachment"), validateAuditReferenceAttachment(i) = {}, i.digest.v # "absent"
                   PROVE  attachAuditReference(i).digest = createPayrollReceipt("p", Written("h1", FALSE, FALSE), i.digest, "none", 200, TRUE).digest
        BY Zenon DEF AttachedDigestMatches
      <3>1. DOMAIN i = {"operation", "label", "type", "uri", "digest", "issuedAt"}
        BY Zenon, EvidenceClasses
      <3> HIDE DEF i
      <3>2. QED
        BY Zenon, <3>1, AnyAttachedMatches
    <2>6. PackagesStayInScope
      <3> DEFINE p == createSelectiveDisclosureAuditPackage(i.commitments, i.scope, i.proofs, i.keys)
      <3> SUFFICES ASSUME About("package"), validateAuditPackageShape(p.content, 4) = {}
                   PROVE  /\ \A now \in 4..8 : verifySelectiveDisclosureAuditPackage(p, now) <=> (i.scope.expiresAt = NoExpiry \/ now < i.scope.expiresAt)
                          /\ i.scope.type = "department" => \A c \in p.content.commitments : c.department \in i.scope.ids
                          /\ i.scope.type = "employee_subset" => \A c \in p.content.commitments : c.employee \in i.scope.ids
        BY Zenon DEF PackagesStayInScope
      <3>1. i.scope.expiresAt \in Int
        BY Zenon, EvidenceClasses
      <3> HIDE DEF i
      <3>2. 4 \in Int /\ \A now \in 4..8 : now \in Int /\ now >= 4
        OBVIOUS
      <3>3. /\ \A now \in Int : now >= 4 =>
                 (verifySelectiveDisclosureAuditPackage(p, now) <=> (i.scope.expiresAt = NoExpiry \/ now < i.scope.expiresAt))
            /\ i.scope.type = "department" => \A c \in p.content.commitments : c.department \in i.scope.ids
            /\ i.scope.type = "employee_subset" => \A c \in p.content.commitments : c.employee \in i.scope.ids
        BY Zenon, <3>1, <3>2, AnyPackageInScope
      <3> HIDE DEF p
      <3>4. QED
        BY Zenon, <3>2, <3>3
    <2>7. AccessViewsAgree
      <3> DEFINE key == createViewKeyRequest(i.expiresAt, 400)
      <3> SUFFICES ASSUME About("access"), accessRequestErrors(i, 400) = {}
                   PROVE  /\ validateViewKeyRequest(i.named, "read-only", i.expiresAt, 400) = {}
                          /\ \A at \in {400, i.expiresAt - 2, i.expiresAt - 1, i.expiresAt, i.expiresAt + 1} :
                               /\ isViewKeyValid(key, at) <=> isAuditorAccessActive(i.expiresAt, at)
                               /\ formatAuditorAccessExpiry(i.expiresAt, at) = getAuditorAccessExpiryStatus(i.expiresAt, at)
        BY Zenon DEF AccessViewsAgree
      <3>1. AnyAccess(i)
        BY Zenon, EvidenceClasses
      <3>2. 400 \in Nat
        OBVIOUS
      <3> HIDE DEF i
      <3>3. /\ validateViewKeyRequest(i.named, "read-only", i.expiresAt, 400) = {}
            /\ i.expiresAt \in Int
            /\ \A at \in Int :
                 /\ isViewKeyValid(key, at) <=> isAuditorAccessActive(i.expiresAt, at)
                 /\ formatAuditorAccessExpiry(i.expiresAt, at) = getAuditorAccessExpiryStatus(i.expiresAt, at)
        BY Zenon, <3>1, <3>2, AnyAccessReadAlike
      <3>4. \A at \in {400, i.expiresAt - 2, i.expiresAt - 1, i.expiresAt, i.expiresAt + 1} : at \in Int
        BY <3>3
      <3> HIDE DEF key
      <3>5. QED
        BY Zenon, <3>3, <3>4
    <2>8. FailuresAreCounted
      <3> DEFINE events == <<normalizeAuditEvent(i[1]), normalizeAuditEvent(i[2])>>
                 errors == filterAuditEvents(events, [category |-> "any", severity |-> "error", tags |-> {}])
                 reported == filterAuditEvents(events, [category |-> "any", severity |-> "error", tags |-> {"webhook"}])
      <3> SUFFICES ASSUME About("auditevents")
                   PROVE  /\ buildAuditSummary(events)["error"] = Cardinality(errors) /\ reported \subseteq errors
                          /\ \A k \in errors \ reported : events[k].tag = "generic" /\ i[k].severity = "error"
                          /\ UnknownName \notin {i[1].event, i[2].event} => reported = {k \in DOMAIN events : events[k].failed}
        BY Zenon DEF FailuresAreCounted
      <3>1. DOMAIN i = 1..2
        BY Zenon, EvidenceClasses
      <3> HIDE DEF i
      <3>2. \A k \in 1..2 : k = 1 \/ k = 2
        OBVIOUS
      <3>3. DOMAIN events = 1..2 /\ events[1] = normalizeAuditEvent(i[1]) /\ events[2] = normalizeAuditEvent(i[2])
        OBVIOUS
      <3> HIDE DEF events
      <3>4. DOMAIN events = DOMAIN i /\ \A k \in DOMAIN i : events[k] = normalizeAuditEvent(i[k])
        BY Zenon, <3>1, <3>2, <3>3
      <3>5. /\ buildAuditSummary(events)["error"] = Cardinality(errors) /\ reported \subseteq errors
            /\ \A k \in errors \ reported : events[k].tag = "generic" /\ i[k].severity = "error"
            /\ (\A k \in DOMAIN i : i[k].event # UnknownName) => reported = {k \in DOMAIN events : events[k].failed}
        BY Zenon, <3>4, AnyFailuresCounted
      <3>6. UnknownName \notin {i[1].event, i[2].event} => \A k \in DOMAIN i : i[k].event # UnknownName
        BY Zenon, <3>1, <3>2
      <3>7. QED
        BY Zenon, <3>5, <3>6
    <2>9. QED
      BY <2>1, <2>2, <2>3, <2>4, <2>5, <2>6, <2>7, <2>8 DEF EvidenceHolds
  <1>2. QED
    BY <1>1, EvidenceIsAsked, PTL
=============================================================================

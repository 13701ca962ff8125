--------------------------- MODULE CashbackProofs ---------------------------
(***************************************************************************)
(* Theorems about Cashback, for all values of its constants: its rows, and  *)
(* below the money, which is kept three times.                             *)
(*                                                                         *)
(* RowsOK is the inductive invariant: TypeOK alone is not inductive, since  *)
(* burning the row a run of the job names needs the row to exist            *)
(* (JobsInRange) and reversing an earning needs the lot its metadata names  *)
(* (EarnLotsExist).  One lemma per action shows the action keeps RowsOK;    *)
(* the deadline and the append-only theorems rest on it.                    *)
(***************************************************************************)
EXTENDS Cashback, SequenceTheorems, FiniteSetTheorems, WellFoundedInduction, TLAPS

-----------------------------------------------------------------------------
(* Sums: the laws of SumTo, for every length and every integer terms.      *)
(*                                                                         *)
(* The induction theorems of the library take an operator parameter; here   *)
(* the induction is done on a SET of naturals (SetInduction), from the      *)
(* well-foundedness of < on Nat, and that the recursive definition of       *)
(* PartialSums defines a function is proved from it (PartialSumsDef).       *)

\* A nonempty set of naturals has a least element.
LEMMA LeastElement ==
    ASSUME NEW T \in SUBSET Nat, T # {}
    PROVE  \E m \in T : \A k \in T : m <= k
<1> DEFINE R == {ss \in Nat \X Nat : ss[1] < ss[2]}
<1>1. IsWellFoundedOn(R, Nat)
  BY NatLessThanWellFounded DEF OpToRel
<1>2. PICK m \in T : \A k \in T : ~(<<k, m>> \in R)
  <2> HIDE DEF R
  <2> QED BY <1>1, WFMin
<1>3. ASSUME NEW k \in T PROVE m <= k
  <2>1. k \in Nat /\ m \in Nat
    OBVIOUS
  <2>2. ~(k < m)
    <3> SUFFICES ASSUME k < m PROVE <<k, m>> \in R
      BY <1>2
    <3> QED BY <2>1
  <2> QED BY <2>1, <2>2
<1> QED BY <1>3

\* Induction without an operator parameter: a set of naturals that holds 0 and is
\* closed under successor is Nat.
LEMMA SetInduction ==
    ASSUME NEW T \in SUBSET Nat, 0 \in T, \A n \in T : n + 1 \in T
    PROVE  T = Nat
<1> SUFFICES ASSUME Nat \ T # {} PROVE FALSE
  OBVIOUS
<1>1. PICK m \in Nat \ T : \A k \in Nat \ T : m <= k
  BY LeastElement
<1>2. m # 0 /\ m - 1 \in Nat /\ m - 1 \in T
  BY <1>1
<1> QED BY <1>1, <1>2

\* s is the function of the partial sums of f up to n.
IsSumUpTo(s, f, n) == s = [i \in 0..n |-> IF i = 0 THEN 0 ELSE s[i - 1] + f[i]]

\* The partial sums of f up to n exist as a function on 0..n.
LEMMA SumUpToExists ==
    ASSUME NEW f, NEW n \in Nat
    PROVE  \E s : IsSumUpTo(s, f, n)
<1> DEFINE T == {k \in Nat : \E s : IsSumUpTo(s, f, k)}
<1>1. 0 \in T
  <2> DEFINE s == [i \in 0..0 |-> 0]
  <2>1. IsSumUpTo(s, f, 0)
    BY DEF IsSumUpTo
  <2> QED BY <2>1
<1>2. ASSUME NEW k \in T PROVE k + 1 \in T
  <2>1. PICK s : IsSumUpTo(s, f, k)
    OBVIOUS
  <2> DEFINE r == [i \in 0..(k + 1) |-> IF i = k + 1 THEN s[k] + f[k + 1] ELSE s[i]]
  <2>2. \A i \in 0..k : s[i] = IF i = 0 THEN 0 ELSE s[i - 1] + f[i]
    BY <2>1 DEF IsSumUpTo
  <2>3. \A i \in 0..(k + 1) : r[i] = IF i = 0 THEN 0 ELSE r[i - 1] + f[i]
    BY <2>2
  <2>4. IsSumUpTo(r, f, k + 1)
    <3> HIDE DEF r
    <3>1. r = [i \in 0..(k + 1) |-> r[i]]
      BY DEF r
    <3> QED BY <2>3, <3>1 DEF IsSumUpTo
  <2> QED BY <2>4
<1>3. T = Nat
  <2> HIDE DEF T
  <2>1. T \in SUBSET Nat
    BY DEF T
  <2> QED BY <1>1, <1>2, <2>1, SetInduction
<1> QED BY <1>3

\* Two functions of partial sums agree where both are defined.
LEMMA SumUpToUnique ==
    ASSUME NEW f, NEW n \in Nat, NEW m \in Nat, n <= m, NEW s, NEW r,
           IsSumUpTo(s, f, n), IsSumUpTo(r, f, m)
    PROVE  \A i \in 0..n : s[i] = r[i]
<1> DEFINE T == {k \in Nat : k <= n => s[k] = r[k]}
<1>0. /\ \A i \in 0..n : s[i] = IF i = 0 THEN 0 ELSE s[i - 1] + f[i]
      /\ \A i \in 0..m : r[i] = IF i = 0 THEN 0 ELSE r[i - 1] + f[i]
  BY DEF IsSumUpTo
<1>1. 0 \in T
  BY <1>0
<1>2. ASSUME NEW k \in T PROVE k + 1 \in T
  <2> SUFFICES ASSUME k + 1 <= n PROVE s[k + 1] = r[k + 1]
    OBVIOUS
  <2>1. s[k] = r[k]
    OBVIOUS
  <2>2. s[k + 1] = s[k] + f[k + 1] /\ r[k + 1] = r[k] + f[k + 1]
    BY <1>0
  <2> QED BY <2>1, <2>2
<1>3. T = Nat
  <2> HIDE DEF T
  <2>1. T \in SUBSET Nat
    BY DEF T
  <2> QED BY <1>1, <1>2, <2>1, SetInduction
<1> QED BY <1>3

\* The recursive definition of PartialSums does define a function on Nat.
LEMMA PartialSumsDef ==
    ASSUME NEW f
    PROVE  PartialSums(f) = [n \in Nat |-> IF n = 0 THEN 0 ELSE PartialSums(f)[n - 1] + f[n]]
<1> DEFINE Chosen(n) == CHOOSE s : IsSumUpTo(s, f, n)
           g == [n \in Nat |-> Chosen(n)[n]]
<1>1. \A n \in Nat : IsSumUpTo(Chosen(n), f, n)
  BY SumUpToExists
<1>2. g = [n \in Nat |-> IF n = 0 THEN 0 ELSE g[n - 1] + f[n]]
  <2> SUFFICES ASSUME NEW n \in Nat PROVE g[n] = IF n = 0 THEN 0 ELSE g[n - 1] + f[n]
    <3>1. g = [n \in Nat |-> g[n]]
      OBVIOUS
    <3> HIDE DEF g
    <3> QED BY <3>1, Zenon
  <2>1. \A i \in 0..n : Chosen(n)[i] = IF i = 0 THEN 0 ELSE Chosen(n)[i - 1] + f[i]
    <3> HIDE DEF Chosen
    <3>1. IsSumUpTo(Chosen(n), f, n)
      BY <1>1
    <3> QED BY <3>1 DEF IsSumUpTo
  <2>2. CASE n = 0
    BY <2>1, <2>2
  <2>3. CASE n # 0
    <3>1. n - 1 \in Nat /\ n - 1 <= n
      BY <2>3
    <3>2. Chosen(n - 1)[n - 1] = Chosen(n)[n - 1]
      <4> HIDE DEF Chosen
      <4>1. \A i \in 0..(n - 1) : Chosen(n - 1)[i] = Chosen(n)[i]
        BY <1>1, <3>1, SumUpToUnique
      <4> QED BY <4>1, <3>1
    <3>3. Chosen(n)[n] = Chosen(n)[n - 1] + f[n]
      <4> HIDE DEF Chosen
      <4> QED BY <2>1, <2>3
    <3> HIDE DEF Chosen
    <3> QED BY <2>3, <3>1, <3>2, <3>3
  <2> QED BY <2>2, <2>3
<1>3. \E s : s = [n \in Nat |-> IF n = 0 THEN 0 ELSE s[n - 1] + f[n]]
  <2> HIDE DEF g
  <2> QED BY <1>2
<1> QED
  BY <1>3, Zenon DEF PartialSums

\* The empty sum.
LEMMA SumToZero ==
    ASSUME NEW f
    PROVE  SumTo(f, 0) = 0
BY PartialSumsDef DEF SumTo

\* A sum grows by its next term.
LEMMA SumToStep ==
    ASSUME NEW f, NEW n \in Nat
    PROVE  SumTo(f, n + 1) = SumTo(f, n) + f[n + 1]
<1>1. PartialSums(f)[n + 1] = PartialSums(f)[n] + f[n + 1]
  <2> DEFINE g == PartialSums(f)
  <2>1. g = [k \in Nat |-> IF k = 0 THEN 0 ELSE g[k - 1] + f[k]]
    BY PartialSumsDef
  <2> HIDE DEF g
  <2>2. g[n + 1] = g[n] + f[n + 1]
    BY <2>1
  <2> QED BY <2>2 DEF g
<1> QED BY <1>1 DEF SumTo

\* A sum of integers is an integer.
LEMMA SumToInt ==
    ASSUME NEW n \in Nat, NEW f, \A i \in 1..n : f[i] \in Int
    PROVE  SumTo(f, n) \in Int
<1> DEFINE T == {k \in Nat : k <= n => SumTo(f, k) \in Int}
<1>1. 0 \in T
  BY SumToZero
<1>2. ASSUME NEW k \in T PROVE k + 1 \in T
  BY SumToStep
<1>3. T = Nat
  <2> HIDE DEF T
  <2>1. T \in SUBSET Nat
    BY DEF T
  <2> QED BY <1>1, <1>2, <2>1, SetInduction
<1> QED BY <1>3

\* The sum of a termwise sum is the sum of the sums.
LEMMA SumToAdd ==
    ASSUME NEW n \in Nat, NEW f, NEW g, NEW h,
           \A i \in 1..n : f[i] \in Int /\ g[i] \in Int /\ h[i] = f[i] + g[i]
    PROVE  SumTo(h, n) = SumTo(f, n) + SumTo(g, n)
<1> DEFINE T == {k \in Nat : k <= n => /\ SumTo(f, k) \in Int
                                       /\ SumTo(g, k) \in Int
                                       /\ SumTo(h, k) = SumTo(f, k) + SumTo(g, k)}
<1>1. 0 \in T
  BY SumToZero
<1>2. ASSUME NEW k \in T PROVE k + 1 \in T
  BY SumToStep
<1>3. T = Nat
  <2> HIDE DEF T
  <2>1. T \in SUBSET Nat
    BY DEF T
  <2> QED BY <1>1, <1>2, <2>1, SetInduction
<1> QED BY <1>3

\* Equal terms have equal sums.
LEMMA SumToSame ==
    ASSUME NEW n \in Nat, NEW f, NEW g, \A i \in 1..n : f[i] = g[i]
    PROVE  SumTo(f, n) = SumTo(g, n)
<1> DEFINE T == {k \in Nat : k <= n => SumTo(f, k) = SumTo(g, k)}
<1>1. 0 \in T
  BY SumToZero
<1>2. ASSUME NEW k \in T PROVE k + 1 \in T
  BY SumToStep
<1>3. T = Nat
  <2> HIDE DEF T
  <2>1. T \in SUBSET Nat
    BY DEF T
  <2> QED BY <1>1, <1>2, <2>1, SetInduction
<1> QED BY <1>3

\* Changing one term by d changes the sum by d.
LEMMA SumToUpdate ==
    ASSUME NEW n \in Nat, NEW j \in 1..n, NEW d \in Int, NEW f, NEW g,
           \A i \in 1..n : f[i] \in Int,
           \A i \in 1..n : g[i] = IF i = j THEN f[i] + d ELSE f[i]
    PROVE  SumTo(g, n) = SumTo(f, n) + d
<1> DEFINE T == {k \in Nat : k <= n => /\ SumTo(f, k) \in Int
                                       /\ SumTo(g, k) = SumTo(f, k) + (IF j <= k THEN d ELSE 0)}
<1>1. 0 \in T
  BY SumToZero
<1>2. ASSUME NEW k \in T PROVE k + 1 \in T
  BY SumToStep
<1>3. T = Nat
  <2> HIDE DEF T
  <2>1. T \in SUBSET Nat
    BY DEF T
  <2> QED BY <1>1, <1>2, <2>1, SetInduction
<1> QED BY <1>3

\* A sum of naturals is a natural and no smaller than any of its terms.
LEMMA SumToNonNegative ==
    ASSUME NEW n \in Nat, NEW f, \A i \in 1..n : f[i] \in Nat
    PROVE  SumTo(f, n) \in Nat /\ \A i \in 1..n : f[i] <= SumTo(f, n)
<1> DEFINE T == {k \in Nat : k <= n => SumTo(f, k) \in Nat /\ \A i \in 1..k : f[i] <= SumTo(f, k)}
<1>1. 0 \in T
  BY SumToZero
<1>2. ASSUME NEW k \in T PROVE k + 1 \in T
  BY SumToStep
<1>3. T = Nat
  <2> HIDE DEF T
  <2>1. T \in SUBSET Nat
    BY DEF T
  <2> QED BY <1>1, <1>2, <2>1, SetInduction
<1> QED BY <1>3

\* A sum to which a term is added.
LEMMA SumAppended ==
    ASSUME NEW n \in Nat, NEW f, NEW g, \A i \in 1..n : g[i] = f[i]
    PROVE  SumTo(g, n + 1) = SumTo(f, n) + g[n + 1]
<1>1. SumTo(g, n) = SumTo(f, n)
  BY SumToSame
<1> QED BY <1>1, SumToStep

\* A sum of which one term moves by d.
LEMMA SumMoved ==
    ASSUME NEW n \in Nat, NEW j \in 1..n, NEW d \in Int, NEW f, NEW g,
           \A i \in 1..n : f[i] \in Int,
           g[j] = f[j] + d, \A i \in 1..n : i # j => g[i] = f[i]
    PROVE  SumTo(g, n) = SumTo(f, n) + d
<1>1. \A i \in 1..n : g[i] = IF i = j THEN f[i] + d ELSE f[i]
  OBVIOUS
<1> QED BY <1>1, SumToUpdate

\* Terms of 0 at the end add nothing.
LEMMA SumToLonger ==
    ASSUME NEW n \in Nat, NEW m \in Nat, n <= m, NEW f, \A i \in 1..m : f[i] \in Int,
           \A i \in 1..m : i > n => f[i] = 0
    PROVE  SumTo(f, m) = SumTo(f, n)
<1> DEFINE T == {k \in Nat : n <= k /\ k <= m => SumTo(f, k) = SumTo(f, n)}
<1>0. SumTo(f, n) \in Int
  BY SumToInt
<1>1. 0 \in T
  OBVIOUS
<1>2. ASSUME NEW k \in T PROVE k + 1 \in T
  <2> SUFFICES ASSUME n <= k + 1, k + 1 <= m PROVE SumTo(f, k + 1) = SumTo(f, n)
    OBVIOUS
  <2>1. CASE n = k + 1
    BY <2>1
  <2>2. CASE n <= k
    <3>1. SumTo(f, k) = SumTo(f, n) /\ f[k + 1] = 0
      BY <2>2
    <3> QED BY <1>0, <3>1, SumToStep
  <2> QED BY <2>1, <2>2
<1>3. T = Nat
  <2> HIDE DEF T
  <2>1. T \in SUBSET Nat
    BY DEF T
  <2> QED BY <1>1, <1>2, <2>1, SetInduction
<1> QED BY <1>3

\* The first k terms of a sum of naturals are no more than the sum.
LEMMA SumToShorter ==
    ASSUME NEW n \in Nat, NEW k \in 0..n, NEW f, \A i \in 1..n : f[i] \in Nat
    PROVE  SumTo(f, k) \in Nat /\ SumTo(f, n) \in Nat /\ SumTo(f, k) <= SumTo(f, n)
<1> DEFINE g == [i \in 1..n |-> IF i <= k THEN f[i] ELSE 0]
           h == [i \in 1..n |-> IF i <= k THEN 0 ELSE f[i]]
<1>1. /\ \A i \in 1..n : g[i] \in Nat /\ h[i] \in Nat /\ f[i] = g[i] + h[i]
      /\ \A i \in 1..k : g[i] = f[i]
      /\ \A i \in 1..n : i > k => g[i] = 0
      /\ k \in Nat /\ k <= n
  OBVIOUS
<1> HIDE DEF g, h
<1>2. SumTo(f, n) = SumTo(g, n) + SumTo(h, n)
  BY <1>1, SumToAdd
<1>3. SumTo(g, n) = SumTo(g, k)
  <2>1. \A i \in 1..n : g[i] \in Int
    BY <1>1
  <2> QED BY <1>1, <2>1, SumToLonger
<1>4. SumTo(g, k) = SumTo(f, k)
  BY <1>1, SumToSame
<1>5. SumTo(g, n) \in Nat /\ SumTo(h, n) \in Nat
  BY <1>1, SumToNonNegative
<1> QED BY <1>2, <1>3, <1>4, <1>5

\* f lists, in the order the enumeration names them, the m terms of g, but for some that are 0.
Reorders(order, f, n, g, m) ==
    /\ m \in Nat /\ n \in Nat
    /\ \A l \in 1..m : g[l] \in Int
    /\ \A k \in 1..n : order[k] \in 1..m /\ f[k] = g[order[k]]
    /\ \A j, k \in 1..n : j < k => order[j] # order[k]
    /\ \A l \in 1..m : (\A k \in 1..n : order[k] # l) => g[l] = 0

\* A sum does not depend on the order of its terms.
LEMMA SumReordered ==
    ASSUME NEW order, NEW f, NEW n, NEW g, NEW m, Reorders(order, f, n, g, m)
    PROVE  SumTo(g, m) = SumTo(f, n)
<1> SUFFICES ASSUME m \in Nat, n \in Nat,
                    \A l \in 1..m : g[l] \in Int,
                    \A k \in 1..n : order[k] \in 1..m /\ f[k] = g[order[k]],
                    \A j, k \in 1..n : j < k => order[j] # order[k],
                    \A l \in 1..m : (\A k \in 1..n : order[k] # l) => g[l] = 0
             PROVE  SumTo(g, m) = SumTo(f, n)
  BY DEF Reorders
<1> DEFINE Seen(k) == {order[i] : i \in 1..k}
           part(k) == [l \in 1..m |-> IF l \in Seen(k) THEN g[l] ELSE 0]
           T == {k \in Nat : k <= n => SumTo(part(k), m) = SumTo(f, k)}
<1>1. 0 \in T
  <2>1. \A l \in 1..m : part(0)[l] = 0
    OBVIOUS
  <2> DEFINE z == part(0)
  <2>2. SumTo(z, m) = SumTo(z, 0)
    <3> HIDE DEF z
    <3>1. \A l \in 1..m : z[l] = 0
      BY <2>1 DEF z
    <3> QED BY <3>1, SumToLonger
  <2> QED BY <2>2, SumToZero
<1>2. ASSUME NEW k \in T PROVE k + 1 \in T
  <2> SUFFICES ASSUME k + 1 <= n PROVE SumTo(part(k + 1), m) = SumTo(f, k + 1)
    OBVIOUS
  <2> DEFINE j == order[k + 1]
             p == part(k)
             q == part(k + 1)
  <2>1. k \in Nat /\ SumTo(p, m) = SumTo(f, k) /\ k + 1 \in 1..n
    OBVIOUS
  <2>2. j \in 1..m /\ g[j] \in Int /\ f[k + 1] = g[j]
    BY <2>1
  <2>3. j \notin Seen(k)
    <3> SUFFICES ASSUME NEW i \in 1..k, order[i] = j PROVE FALSE
      OBVIOUS
    <3>1. i \in 1..n /\ i < k + 1
      BY <2>1
    <3> QED BY <2>1, <3>1
  <2>4. \A l \in 1..m : l \in Seen(k + 1) <=> l \in Seen(k) \/ l = j
    <3>1. \A i \in 1..(k + 1) : i \in 1..k \/ i = k + 1
      BY <2>1
    <3>2. \A i \in 1..k : i \in 1..(k + 1)
      BY <2>1
    <3>3. k + 1 \in 1..(k + 1)
      BY <2>1
    <3> QED BY <3>1, <3>2, <3>3
  <2>5. \A l \in 1..m : p[l] \in Int
    <3>1. \A l \in 1..m : p[l] = IF l \in Seen(k) THEN g[l] ELSE 0
      BY Zenon
    <3> HIDE DEF p, Seen
    <3> QED BY <3>1
  <2>6. q[j] = p[j] + g[j] /\ \A l \in 1..m : l # j => q[l] = p[l]
    <3> HIDE DEF Seen, j
    <3> QED BY <2>2, <2>3, <2>4
  <2>7. SumTo(q, m) = SumTo(p, m) + g[j]
    <3> HIDE DEF p, q, j, Seen, part, T
    <3>1. g[j] \in Int /\ j \in 1..m /\ m \in Nat
      BY <2>2
    <3> QED BY <2>5, <2>6, <3>1, SumMoved, SMTT(60)
  <2>8. SumTo(f, k + 1) = SumTo(f, k) + f[k + 1]
    BY <2>1, SumToStep
  <2> HIDE DEF j, p
  <2> QED BY <2>1, <2>2, <2>7, <2>8
<1>3. T = Nat
  <2> HIDE DEF T
  <2>1. T \in SUBSET Nat
    BY DEF T
  <2> QED BY <1>1, <1>2, <2>1, SetInduction
<1>4. SumTo(part(n), m) = SumTo(f, n)
  <2>1. n \in T
    <3> HIDE DEF T
    <3> QED BY <1>3
  <2> HIDE DEF part
  <2> QED BY <2>1
<1>5. \A l \in 1..m : part(n)[l] = g[l]
  OBVIOUS
<1>6. SumTo(part(n), m) = SumTo(g, m)
  <2> HIDE DEF part
  <2> QED BY <1>5, SumToSame
<1> QED BY <1>4, <1>6

-----------------------------------------------------------------------------
(* The rows of the tables *)

\* The runs of the jobs name rows that exist, and read their clock in the past.
JobsInRange ==
    /\ \A w \in LotWorkers : lotJobs[w].ids \subseteq DOMAIN lots /\ lotJobs[w].at <= now
    /\ \A w \in RequestWorkers :
          requestJobs[w].ids \subseteq DOMAIN requests /\ requestJobs[w].at <= now

\* An earning names a lot that exists: _reverse_cashback_earn always finds it.
EarnLotsExist ==
    \A t \in DOMAIN txs : txs[t].type = "CASHBACK_EARN" => txs[t].lot \in DOMAIN lots

\* The inductive invariant of the type theorem.
RowsOK == TypeOK /\ JobsInRange /\ EarnLotsExist

-----------------------------------------------------------------------------

\* What adding a row to a table does.
LEMMA Appended ==
    ASSUME NEW S, NEW s \in Seq(S), NEW e \in S
    PROVE  /\ Append(s, e) \in Seq(S)
           /\ Len(Append(s, e)) = Len(s) + 1
           /\ DOMAIN Append(s, e) = 1..(Len(s) + 1)
           /\ \A i \in DOMAIN s : Append(s, e)[i] = s[i]
           /\ Append(s, e)[Len(s) + 1] = e
           /\ Len(s) \in Nat
           /\ DOMAIN s = 1..Len(s)
OBVIOUS

\* Rewriting rows of a table in place.
LEMMA Replaced ==
    ASSUME NEW S, NEW s \in Seq(S), NEW r, DOMAIN r = DOMAIN s,
           r = [i \in DOMAIN s |-> r[i]], \A i \in DOMAIN s : r[i] \in S
    PROVE  r \in Seq(S) /\ Len(r) = Len(s) /\ DOMAIN r = 1..Len(s) /\ Len(s) \in Nat
OBVIOUS

\* Rewriting one row of a table.
LEMMA Updated ==
    ASSUME NEW S, NEW s \in Seq(S), NEW i \in DOMAIN s, NEW e \in S
    PROVE  /\ [s EXCEPT ![i] = e] \in Seq(S)
           /\ Len([s EXCEPT ![i] = e]) = Len(s)
           /\ DOMAIN [s EXCEPT ![i] = e] = DOMAIN s
           /\ [s EXCEPT ![i] = e][i] = e
           /\ \A j \in DOMAIN s : j # i => [s EXCEPT ![i] = e][j] = s[j]
OBVIOUS

\* The entries of a confirmation, added one after the other.
LEMMA TwoAppended ==
    ASSUME NEW S, NEW s \in Seq(S), NEW d \in S, NEW e \in S
    PROVE  /\ s \o <<d>> = Append(s, d)
           /\ s \o <<d, e>> = Append(Append(s, d), e)
OBVIOUS

\* The numbers of a program are naturals.
LEMMA SettingsType ==
    ASSUME NEW p \in Settings
    PROVE  /\ p.rate \in Nat
           /\ p.maxSpend \in Nat
           /\ p.expiry \in Nat
           /\ p.minPurchase \in Nat
<1>1. p.rate \in Nat
  BY DEF Settings
<1>2. p.maxSpend \in Nat
  BY DEF Settings
<1>3. p.expiry \in Nat
  BY DEF Settings
<1>4. p.minPurchase \in Nat
  BY DEF Settings
<1> QED BY <1>1, <1>2, <1>3, <1>4

\* What the assumption on the constants gives the proofs.
LEMMA ConstantTypes ==
    /\ Ttl \in Nat /\ MaxLots \in Nat
    /\ \A a \in Amounts : a \in Nat /\ a > 0
BY CashbackAssumption

\* A ledger entry without metadata is well-formed.
LEMMA BlankTxType ==
    ASSUME NEW type \in TxType, NEW amount \in Int
    PROVE  BlankTx(type, amount) \in Tx
<1>1. NoSplit \in Split
  BY DEF NoSplit, Split
<1> QED BY <1>1 DEF BlankTx, Tx, None

\* The entry of an earning is well-formed and carries its arguments.
LEMMA EarnTxType ==
    ASSUME NEW amount \in Nat, NEW lot \in Nat, NEW r \in Nat
    PROVE  LET tx == EarnTx(amount, lot, r) IN
           /\ tx \in Tx
           /\ tx.type = "CASHBACK_EARN" /\ tx.status = "COMPLETED" /\ tx.amount = amount
           /\ tx.lot = lot /\ tx.redemption = r
<1>1. BlankTx("CASHBACK_EARN", amount) \in Tx
  BY BlankTxType DEF TxType
<1>2. EarnTx(amount, lot, r) \in Tx
  BY <1>1, Zenon DEF EarnTx, Tx
<1> QED BY <1>2 DEF EarnTx, BlankTx

\* The entry of a spend is well-formed and carries its arguments.
LEMMA SpendTxType ==
    ASSUME NEW amount \in Nat, NEW split \in Split, NEW r \in Nat
    PROVE  LET tx == SpendTx(amount, split, r) IN
           /\ tx \in Tx
           /\ tx.type = "CASHBACK_SPEND" /\ tx.status = "COMPLETED" /\ tx.amount = amount
           /\ tx.consumed = split /\ tx.redemption = r
<1>1. BlankTx("CASHBACK_SPEND", amount) \in Tx
  BY BlankTxType DEF TxType
<1>2. SpendTx(amount, split, r) \in Tx
  BY <1>1, Zenon DEF SpendTx, Tx
<1> QED BY <1>2 DEF SpendTx, BlankTx

\* The entry of a burn is well-formed and carries its arguments.
LEMMA ExpireTxType ==
    ASSUME NEW amount \in Nat, NEW lot \in Nat
    PROVE  LET tx == ExpireTx(amount, lot) IN
           /\ tx \in Tx
           /\ tx.type = "CASHBACK_EXPIRE" /\ tx.status = "COMPLETED" /\ tx.amount = amount
           /\ tx.lot = lot /\ tx.redemption = None
<1>1. BlankTx("CASHBACK_EXPIRE", amount) \in Tx
  BY BlankTxType DEF TxType
<1>2. ExpireTx(amount, lot) \in Tx
  BY <1>1, Zenon DEF ExpireTx, Tx
<1> QED BY <1>2 DEF ExpireTx, BlankTx

\* A compensating entry is well-formed and carries its arguments.
LEMMA ReversalTxType ==
    ASSUME NEW amount \in Int, NEW original \in Nat, NEW lost \in Int
    PROVE  LET tx == ReversalTx(amount, original, lost) IN
           /\ tx \in Tx
           /\ tx.type = "REVERSAL" /\ tx.status = "COMPLETED" /\ tx.amount = amount
           /\ tx.related = original /\ tx.redemption = None
<1>1. BlankTx("REVERSAL", amount) \in Tx
  BY BlankTxType DEF TxType
<1>2. ReversalTx(amount, original, lost) \in Tx
  BY <1>1, Zenon DEF ReversalTx, Tx
<1> QED BY <1>2 DEF ReversalTx, BlankTx

\* A share in basis points is a natural.
LEMMA ApplyBpsType ==
    ASSUME NEW a \in Int, NEW r \in Nat
    PROVE ApplyBps(a, r) \in Nat
<1>1. CASE a <= 0 \/ r <= 0
   BY <1>1 DEF ApplyBps
<1>2. CASE a > 0 /\ r > 0
  <2>1. a * r \in Nat
    BY <1>2
  <2> QED BY <2>1, <1>2 DEF ApplyBps
<1> QED BY <1>1, <1>2

\* The updates the services make to the aggregate keep its type.
LEMMA StateType ==
    ASSUME state \in State, NEW a \in Int, NEW n \in Nat, NEW m \in Nat
    PROVE  /\ [state EXCEPT !.available = a, !.earned = n] \in State
           /\ [state EXCEPT !.available = a, !.spent = n] \in State
           /\ [state EXCEPT !.available = a, !.expired = n] \in State
           /\ [state EXCEPT !.available = a, !.spent = n, !.earned = m] \in State
BY Zenon DEF State

\* A lot with another remainder and status is a lot.
LEMMA LotType ==
    ASSUME NEW lot \in Lot, NEW n \in Nat, NEW status \in LotStatus
    PROVE  [lot EXCEPT !.remaining = n, !.status = status] \in Lot
BY Zenon DEF Lot

\* A resolved request is a request.
LEMMA ResolvedType ==
    ASSUME NEW request \in Request, NEW outcome \in RequestStatus, now \in Nat,
           NEW result \in SUBSET Nat
    PROVE  Resolved(request, outcome, result) \in Request
BY Zenon DEF Request, Resolved

-----------------------------------------------------------------------------

\* A purchase keeps the rows well-formed: the new earning names the new lot.
LEMMA EarnOnlyRows ==
    ASSUME RowsOK, NEW total \in Amounts, EarnOnly(total)
    PROVE  RowsOK'
<1> DEFINE earn == EarnAmount(total)
           tx == EarnTx(earn, Len(lots) + 1, None)
           lot == NewLot(earn, program.expiry, Len(txs) + 1)
<1>1. TypeOK
  BY DEF RowsOK
<1>2. /\ Room(1, 1)
      /\ txs' = Append(txs, tx)
      /\ lots' = Append(lots, lot)
      /\ state' = [state EXCEPT !.available = state.available + earn,
                                !.earned = state.earned + earn]
      /\ UNCHANGED <<now, orgStatus, program, requests, lotJobs, requestJobs, confirming>>
  BY DEF EarnOnly
<1>3. program \in Settings /\ total \in Int
  BY <1>1, ConstantTypes, CashbackAssumption DEF TypeOK
<1>4. earn \in Nat
  BY <1>3, SettingsType, ApplyBpsType DEF EarnAmount
<1>5. tx \in Tx /\ tx.lot = Len(lots) + 1
  BY <1>1, <1>4, EarnTxType DEF TypeOK, None
<1>6. lot \in Lot
  BY <1>1, <1>3, <1>4, SettingsType DEF TypeOK, NewLot, Lot, LotStatus
<1> HIDE DEF earn, tx, lot
<1>7. /\ lots' \in Seq(Lot) /\ Len(lots') <= MaxLots
      /\ DOMAIN lots' = 1..(Len(lots) + 1) /\ DOMAIN lots \subseteq DOMAIN lots'
      /\ Len(lots) + 1 \in DOMAIN lots'
  BY <1>1, <1>2, <1>6, ConstantTypes, Appended DEF TypeOK, Room
<1>8. txs' \in Seq(Tx)
  BY <1>1, <1>2, <1>5, Appended DEF TypeOK
<1>9. state' \in State
  <2>1. state.available + earn \in Int /\ state.earned + earn \in Nat
    BY <1>1, <1>4 DEF TypeOK, State
  <2> QED BY <1>1, <1>2, <2>1, StateType DEF TypeOK
<1>10. TypeOK'
  BY <1>1, <1>2, <1>7, <1>8, <1>9 DEF TypeOK
<1>11. JobsInRange'
  BY <1>2, <1>7 DEF RowsOK, JobsInRange
<1>12. EarnLotsExist'
  <2>1. DOMAIN txs' = 1..(Len(txs) + 1) /\ \A t \in DOMAIN txs : txs'[t] = txs[t]
    BY <1>1, <1>2, <1>5, Appended DEF TypeOK
  <2>2. txs'[Len(txs) + 1].lot = Len(lots) + 1
    BY <1>1, <1>2, <1>5, Appended DEF TypeOK
  <2> QED BY <1>1, <1>7, <2>1, <2>2 DEF RowsOK, TypeOK, EarnLotsExist
<1> QED BY <1>10, <1>11, <1>12 DEF RowsOK

\* A new redemption request keeps the rows well-formed.
LEMMA CreateRows ==
    ASSUME RowsOK, NEW total \in Amounts, NEW spend \in Amounts,
           CreateCashbackRequest(total, spend)
    PROVE  RowsOK'
<1> DEFINE request == [status |-> "PENDING", spend |-> spend, earn |-> EarnAmount(total - spend),
                       expiry |-> program.expiry, expiresAt |-> now + Ttl,
                       resolvedAt |-> 0, result |-> {}]
<1>1. TypeOK
  BY DEF RowsOK
<1>2. /\ requests' = Append(requests, request)
      /\ UNCHANGED <<now, orgStatus, program, state, lots, txs, lotJobs, requestJobs, confirming>>
  BY DEF CreateCashbackRequest
<1>3. program \in Settings /\ total - spend \in Int /\ spend \in Nat
  BY <1>1, ConstantTypes, CashbackAssumption DEF TypeOK
<1>4. EarnAmount(total - spend) \in Nat
  BY <1>3, SettingsType, ApplyBpsType DEF EarnAmount
<1>5. request \in Request
  BY <1>1, <1>3, <1>4, SettingsType, ConstantTypes DEF TypeOK, Request, RequestStatus
<1> HIDE DEF request
<1>6. requests' \in Seq(Request) /\ DOMAIN requests \subseteq DOMAIN requests'
  BY <1>1, <1>2, <1>5, Appended DEF TypeOK
<1> QED BY <1>1, <1>2, <1>6 DEF RowsOK, TypeOK, JobsInRange, EarnLotsExist

\* Rejecting or cancelling a request keeps the rows well-formed.
LEMMA ResolveRows ==
    ASSUME RowsOK, NEW r \in DOMAIN requests, NEW outcome \in RequestStatus,
           Resolve(r, outcome),
           UNCHANGED <<now, orgStatus, program, state, lots, txs, lotJobs, requestJobs, confirming>>
    PROVE  RowsOK'
<1>1. TypeOK
  BY DEF RowsOK
<1>2. requests[r] \in Request /\ requests[r].result \in SUBSET Nat
  <2>1. requests[r] \in Request
    BY <1>1 DEF TypeOK
  <2> QED BY <2>1 DEF Request
<1>3. Resolved(requests[r], outcome, requests[r].result) \in Request
  BY <1>1, <1>2, ResolvedType DEF TypeOK
<1>4. requests' \in Seq(Request) /\ DOMAIN requests' = DOMAIN requests
  BY <1>1, <1>3, Updated DEF TypeOK, Resolve
<1> QED BY <1>1, <1>4 DEF RowsOK, TypeOK, JobsInRange, EarnLotsExist

\* Locking the row of a request, and letting go of it, keeps the rows well-formed.
LEMMA HoldRows ==
    ASSUME RowsOK, NEW r \in DOMAIN requests, BeginConfirm(r) \/ AbandonConfirm(r)
    PROVE  RowsOK'
<1>1. /\ UNCHANGED <<now, orgStatus, program, state, lots, txs, requests, lotJobs, requestJobs>>
      /\ confirming' = confirming \cup {r} \/ confirming' = confirming \ {r}
  BY DEF BeginConfirm, AbandonConfirm
<1>2. TypeOK'
  BY <1>1 DEF RowsOK, TypeOK
<1> QED BY <1>1, <1>2 DEF RowsOK, JobsInRange, EarnLotsExist

\* Giving one worker another run keeps every run within the table.
LEMMA JobReplaced ==
    ASSUME NEW W, NEW jobs \in [W -> Job], NEW w \in W, NEW job \in Job, NEW ids, NEW at \in Nat,
           \A v \in W : jobs[v].ids \subseteq ids /\ jobs[v].at <= at,
           job.ids \subseteq ids, job.at <= at
    PROVE  /\ [jobs EXCEPT ![w] = job] \in [W -> Job]
           /\ \A v \in W : /\ [jobs EXCEPT ![w] = job][v].ids \subseteq ids
                           /\ [jobs EXCEPT ![w] = job][v].at <= at
<1> DEFINE left == [jobs EXCEPT ![w] = job]
<1>1. left \in [W -> Job]
  OBVIOUS
<1>2. left[w] = job /\ \A v \in W : v # w => left[v] = jobs[v]
  OBVIOUS
<1> HIDE DEF left
<1>3. \A v \in W : left[v].ids \subseteq ids /\ left[v].at <= at
  BY <1>2
<1> QED BY <1>1, <1>3 DEF left

\* A run that has visited a row stays within the table.
LEMMA VisitedInRange ==
    ASSUME NEW job \in Job, NEW id, NEW ids, NEW at \in Nat, job.ids \subseteq ids, job.at <= at
    PROVE  /\ Visited(job, id) \in Job
           /\ Visited(job, id).ids \subseteq ids
           /\ Visited(job, id).at <= at
<1>1. CASE job.ids = {id}
  <2>1. Visited(job, id) = [at |-> 0, ids |-> {}]
    BY <1>1 DEF Visited, Idle
  <2> QED BY <2>1 DEF Job
<1>2. CASE job.ids # {id}
  <2>1. Visited(job, id) = [job EXCEPT !.ids = job.ids \ {id}]
    BY <1>2 DEF Visited
  <2> QED BY <2>1 DEF Job
<1> QED BY <1>1, <1>2

\* A run that starts reads ids of existing rows.
LEMMA StartedInRange ==
    ASSUME NEW ids \in SUBSET Nat, NEW taken \in SUBSET ids, NEW at \in Nat
    PROVE  LET job == [at |-> at, ids |-> taken] IN
           job \in Job /\ job.ids \subseteq ids /\ job.at <= at
BY DEF Job

\* A worker without a run is within any table.
LEMMA IdleInRange ==
    ASSUME NEW ids, NEW at \in Nat
    PROVE  Idle \in Job /\ Idle.ids \subseteq ids /\ Idle.at <= at
BY DEF Job, Idle

\* Starting or cutting off a run of a job keeps the rows well-formed.
LEMMA SweepStartRows ==
    ASSUME RowsOK,
           \/ \E w \in LotWorkers : StartLotSweep(w) \/ AbortLotSweep(w)
           \/ \E w \in RequestWorkers : StartRequestSweep(w) \/ AbortRequestSweep(w)
    PROVE  RowsOK'
<1>1. TypeOK /\ JobsInRange /\ now \in Nat
  BY DEF RowsOK, TypeOK
<1>2. DOMAIN lots \in SUBSET Nat /\ DOMAIN requests \in SUBSET Nat
  BY <1>1 DEF TypeOK
<1>3. ASSUME NEW w \in LotWorkers, StartLotSweep(w) PROVE RowsOK'
  <2> DEFINE due == {l \in DOMAIN lots : OverdueLot(l)}
             taken == {l \in due : Cardinality({k \in due : BurnsBefore(k, l)}) < BatchSize}
  <2>1. taken \in SUBSET DOMAIN lots
    OBVIOUS
  <2>2. /\ lotJobs' = [lotJobs EXCEPT ![w] = [at |-> now, ids |-> taken]]
        /\ UNCHANGED <<now, orgStatus, program, state, lots, txs, requests, requestJobs, confirming>>
    BY <1>3 DEF StartLotSweep
  <2> HIDE DEF taken
  <2>3. /\ lotJobs' \in [LotWorkers -> Job]
        /\ \A v \in LotWorkers : lotJobs'[v].ids \subseteq DOMAIN lots /\ lotJobs'[v].at <= now
    BY <1>1, <1>2, <2>1, <2>2, StartedInRange, JobReplaced DEF TypeOK, JobsInRange
  <2> QED BY <1>1, <2>2, <2>3 DEF RowsOK, TypeOK, JobsInRange, EarnLotsExist
<1>4. ASSUME NEW w \in LotWorkers, AbortLotSweep(w) PROVE RowsOK'
  <2>1. /\ lotJobs' = [lotJobs EXCEPT ![w] = Idle]
        /\ UNCHANGED <<now, orgStatus, program, state, lots, txs, requests, requestJobs, confirming>>
    BY <1>4 DEF AbortLotSweep
  <2>2. /\ lotJobs' \in [LotWorkers -> Job]
        /\ \A v \in LotWorkers : lotJobs'[v].ids \subseteq DOMAIN lots /\ lotJobs'[v].at <= now
    BY <1>1, <1>2, <2>1, IdleInRange, JobReplaced DEF TypeOK, JobsInRange
  <2> QED BY <1>1, <2>1, <2>2 DEF RowsOK, TypeOK, JobsInRange, EarnLotsExist
<1>5. ASSUME NEW w \in RequestWorkers, StartRequestSweep(w) PROVE RowsOK'
  <2> DEFINE due == {r \in DOMAIN requests : OverdueRequest(r)}
             taken == {r \in due : Cardinality({q \in due : q > r}) < BatchSize}
  <2>1. taken \in SUBSET DOMAIN requests
    OBVIOUS
  <2>2. /\ requestJobs' = [requestJobs EXCEPT ![w] = [at |-> now, ids |-> taken]]
        /\ UNCHANGED <<now, orgStatus, program, state, lots, txs, requests, lotJobs, confirming>>
    BY <1>5 DEF StartRequestSweep
  <2> HIDE DEF taken
  <2>3. /\ requestJobs' \in [RequestWorkers -> Job]
        /\ \A v \in RequestWorkers :
              requestJobs'[v].ids \subseteq DOMAIN requests /\ requestJobs'[v].at <= now
    BY <1>1, <1>2, <2>1, <2>2, StartedInRange, JobReplaced DEF TypeOK, JobsInRange
  <2> QED BY <1>1, <2>2, <2>3 DEF RowsOK, TypeOK, JobsInRange, EarnLotsExist
<1>6. ASSUME NEW w \in RequestWorkers, AbortRequestSweep(w) PROVE RowsOK'
  <2>1. /\ requestJobs' = [requestJobs EXCEPT ![w] = Idle]
        /\ UNCHANGED <<now, orgStatus, program, state, lots, txs, requests, lotJobs, confirming>>
    BY <1>6 DEF AbortRequestSweep
  <2>2. /\ requestJobs' \in [RequestWorkers -> Job]
        /\ \A v \in RequestWorkers :
              requestJobs'[v].ids \subseteq DOMAIN requests /\ requestJobs'[v].at <= now
    BY <1>1, <1>2, <2>1, IdleInRange, JobReplaced DEF TypeOK, JobsInRange
  <2> QED BY <1>1, <2>1, <2>2 DEF RowsOK, TypeOK, JobsInRange, EarnLotsExist
<1> QED BY <1>3, <1>4, <1>5, <1>6

\* Expiring one request keeps the rows well-formed.
LEMMA ExpireRequestRows ==
    ASSUME RowsOK, NEW w \in RequestWorkers, NEW r \in requestJobs[w].ids, ExpireRequest(w, r)
    PROVE  RowsOK'
<1>1. TypeOK /\ JobsInRange /\ r \in DOMAIN requests
  BY DEF RowsOK, JobsInRange
<1>2. /\ requestJobs' \in [RequestWorkers -> Job]
      /\ \A v \in RequestWorkers :
            requestJobs'[v].ids \subseteq DOMAIN requests /\ requestJobs'[v].at <= now
  <2>1. requestJobs[w] \in Job /\ requestJobs[w].ids \subseteq DOMAIN requests
        /\ requestJobs[w].at <= now /\ now \in Nat
    BY <1>1 DEF TypeOK, JobsInRange
  <2>2. requestJobs' = [requestJobs EXCEPT ![w] = Visited(requestJobs[w], r)]
    BY DEF ExpireRequest
  <2>3. requestJobs \in [RequestWorkers -> Job]
        /\ \A v \in RequestWorkers : requestJobs[v].ids \subseteq DOMAIN requests /\ requestJobs[v].at <= now
    BY <1>1 DEF TypeOK, JobsInRange
  <2> DEFINE job == Visited(requestJobs[w], r)
  <2>4. job \in Job /\ job.ids \subseteq DOMAIN requests /\ job.at <= now
    BY <2>1, VisitedInRange
  <2> HIDE DEF job
  <2>5. requestJobs' = [requestJobs EXCEPT ![w] = job]
    BY <2>2 DEF job
  <2> QED BY <2>1, <2>3, <2>4, <2>5, JobReplaced
<1>3. requests' \in Seq(Request) /\ DOMAIN requests' = DOMAIN requests
  <2>1. requests[r] \in Request
    BY <1>1 DEF TypeOK
  <2>2. requests[r].result \in SUBSET Nat
    BY <2>1 DEF Request
  <2>3. Resolved(requests[r], "EXPIRED", requests[r].result) \in Request
    BY <1>1, <2>1, <2>2, ResolvedType DEF TypeOK, RequestStatus
  <2> DEFINE resolved == Resolved(requests[r], "EXPIRED", requests[r].result)
  <2>4. requests' = [requests EXCEPT ![r] = resolved] \/ requests' = requests
    BY DEF ExpireRequest
  <2>5. resolved \in Request
    BY <2>3
  <2> HIDE DEF resolved
  <2>6. requests \in Seq(Request) /\ r \in DOMAIN requests
    BY <1>1 DEF TypeOK
  <2>7. CASE requests' = [requests EXCEPT ![r] = resolved]
    BY <2>5, <2>6, <2>7, Updated
  <2> QED BY <2>4, <2>6, <2>7
<1> QED BY <1>1, <1>2, <1>3 DEF RowsOK, TypeOK, JobsInRange, EarnLotsExist, ExpireRequest

\* Burning one lot keeps the rows well-formed.
LEMMA ExpireLotRows ==
    ASSUME RowsOK, NEW w \in LotWorkers, NEW l \in lotJobs[w].ids, ExpireLot(w, l)
    PROVE  RowsOK'
<1>1. TypeOK /\ JobsInRange /\ l \in DOMAIN lots
  BY DEF RowsOK, JobsInRange
<1>2. /\ lotJobs' \in [LotWorkers -> Job]
      /\ \A v \in LotWorkers : lotJobs'[v].ids \subseteq DOMAIN lots /\ lotJobs'[v].at <= now
  <2>1. lotJobs[w] \in Job /\ lotJobs[w].ids \subseteq DOMAIN lots
        /\ lotJobs[w].at <= now /\ now \in Nat
    BY <1>1 DEF TypeOK, JobsInRange
  <2>2. lotJobs' = [lotJobs EXCEPT ![w] = Visited(lotJobs[w], l)]
    BY DEF ExpireLot
  <2>3. lotJobs \in [LotWorkers -> Job]
        /\ \A v \in LotWorkers : lotJobs[v].ids \subseteq DOMAIN lots /\ lotJobs[v].at <= now
    BY <1>1 DEF TypeOK, JobsInRange
  <2> DEFINE job == Visited(lotJobs[w], l)
  <2>4. job \in Job /\ job.ids \subseteq DOMAIN lots /\ job.at <= now
    BY <2>1, VisitedInRange
  <2> HIDE DEF job
  <2>5. lotJobs' = [lotJobs EXCEPT ![w] = job]
    BY <2>2 DEF job
  <2> QED BY <2>1, <2>3, <2>4, <2>5, JobReplaced
<1>3. lots[l] \in Lot /\ lots[l].remaining \in Nat
  <2>1. lots[l] \in Lot
    BY <1>1 DEF TypeOK
  <2> QED BY <2>1 DEF Lot
<1>4. lots' \in Seq(Lot) /\ DOMAIN lots' = DOMAIN lots /\ Len(lots') = Len(lots)
  <2> DEFINE empty == Emptied(lots[l], "EXPIRED")
  <2>1. empty \in Lot
    BY <1>3, LotType DEF Emptied, LotStatus
  <2>2. lots' = [lots EXCEPT ![l] = empty] \/ lots' = lots
    BY DEF ExpireLot
  <2>3. lots \in Seq(Lot)
    BY <1>1 DEF TypeOK
  <2> HIDE DEF empty
  <2>4. CASE lots' = [lots EXCEPT ![l] = empty]
    BY <1>1, <2>1, <2>3, <2>4, Updated
  <2> QED BY <2>2, <2>3, <2>4
<1>5. /\ txs' \in Seq(Tx)
      /\ DOMAIN txs \subseteq DOMAIN txs' /\ \A t \in DOMAIN txs : txs'[t] = txs[t]
      /\ \A t \in DOMAIN txs' \ DOMAIN txs : txs'[t].type = "CASHBACK_EXPIRE"
      /\ state' \in State
  <2> DEFINE amount == lots[l].remaining
             tx == ExpireTx(amount, l)
  <2>1. CASE BurnDue(lots[l], lotJobs[w].at) /\ amount > 0
    <3>1. txs' = Append(txs, tx) /\ state' = [state EXCEPT !.available = AtLeastZero(state.available - amount),
                                                           !.expired = state.expired + amount]
      BY <2>1 DEF ExpireLot
    <3>2. tx \in Tx /\ tx.type = "CASHBACK_EXPIRE"
      BY <1>1, <1>3, ExpireTxType DEF TypeOK
    <3>3. AtLeastZero(state.available - amount) \in Int /\ state.expired + amount \in Nat
      BY <1>1, <1>3 DEF TypeOK, State, AtLeastZero
    <3>4. state' \in State
      BY <1>1, <3>1, <3>3, StateType DEF TypeOK
    <3> HIDE DEF tx
    <3> QED BY <1>1, <3>1, <3>2, <3>4, Appended DEF TypeOK
  <2>2. CASE ~(BurnDue(lots[l], lotJobs[w].at) /\ amount > 0)
    BY <1>1, <2>2 DEF ExpireLot, TypeOK
  <2> QED BY <2>1, <2>2
<1>6. TypeOK'
  BY <1>1, <1>2, <1>4, <1>5 DEF TypeOK, ExpireLot
<1>7. JobsInRange'
  BY <1>1, <1>2, <1>4 DEF JobsInRange, ExpireLot
<1>8. EarnLotsExist'
  BY <1>4, <1>5 DEF RowsOK, EarnLotsExist
<1> QED BY <1>6, <1>7, <1>8 DEF RowsOK

\* The fields of a lot in the table.
LEMMA LotFields ==
    ASSUME TypeOK, NEW l \in DOMAIN lots
    PROVE  /\ lots[l] \in Lot
           /\ lots[l].original \in Nat /\ lots[l].remaining \in Nat
           /\ lots[l].status \in LotStatus
           /\ lots[l].expiresAt \in Nat /\ lots[l].source \in Nat
           /\ l \in LotId /\ l \in Nat
<1>1. lots[l] \in Lot
  BY DEF TypeOK
<1>2. l \in 1..Len(lots) /\ Len(lots) \in Nat /\ Len(lots) <= MaxLots
  BY DEF TypeOK
<1> QED BY <1>1, <1>2, ConstantTypes DEF Lot, LotId

\* The fields of an entry in the ledger.
LEMMA TxFields ==
    ASSUME TypeOK, NEW t \in DOMAIN txs
    PROVE  /\ txs[t] \in Tx
           /\ txs[t].type \in TxType /\ txs[t].status \in {"COMPLETED", "REVERSED"}
           /\ txs[t].amount \in Int /\ txs[t].lot \in Nat /\ txs[t].consumed \in Split
           /\ txs[t].redemption \in Nat /\ txs[t].related \in Nat
           /\ t \in Nat
<1>1. txs[t] \in Tx /\ t \in Nat
  BY DEF TypeOK
<1> QED BY <1>1 DEF Tx

\* Taking no more than a lot holds leaves a lot, with the rest in it.
LEMMA ConsumeType ==
    ASSUME NEW lot \in Lot, NEW take \in Nat, take <= lot.remaining
    PROVE  LET left == Consume(lot, take) IN
           /\ left \in Lot
           /\ left.remaining = lot.remaining - take
           /\ left.original = lot.original
           /\ left.expiresAt = lot.expiresAt
           /\ left.source = lot.source
           /\ left.status = IF take > 0 /\ take = lot.remaining THEN "SPENT" ELSE lot.status
<1> DEFINE status == IF take > 0 /\ take = lot.remaining THEN "SPENT" ELSE lot.status
<1>1. lot.remaining \in Nat /\ lot.status \in LotStatus
  BY DEF Lot
<1>2. lot.remaining - take \in Nat /\ status \in LotStatus
  BY <1>1 DEF LotStatus
<1>3. Consume(lot, take) = [lot EXCEPT !.remaining = lot.remaining - take, !.status = status]
  BY DEF Consume
<1> HIDE DEF status
<1>4. Consume(lot, take) \in Lot
  BY <1>2, <1>3, LotType
<1>5. /\ Consume(lot, take).remaining = lot.remaining - take
      /\ Consume(lot, take).original = lot.original
      /\ Consume(lot, take).expiresAt = lot.expiresAt
      /\ Consume(lot, take).source = lot.source
      /\ Consume(lot, take).status = status
  BY <1>3 DEF Lot
<1> QED BY <1>4, <1>5 DEF status

-----------------------------------------------------------------------------
(* The loop of _spend_lots_fifo *)

\* What spending amount first in, first out means, without a loop: a split of the amount
\* over the usable lots that takes from no lot more than it holds, and touches a lot only
\* when every lot that burns before it is taken whole.
FifoSplits(amount) ==
    {split \in [LotId -> 0..amount] :
        /\ \A l \in LotId : split[l] > 0 =>
              /\ l \in UsableLots
              /\ split[l] <= lots[l].remaining
              /\ \A k \in UsableLots : BurnsBefore(k, l) => split[k] = lots[k].remaining
        /\ Total(split) = amount}

\* The order in which lots burn is total: of two lots one burns before the other, and of
\* three the first before the last.
LEMMA BurnsBeforeTotal ==
    ASSUME TypeOK, NEW j \in DOMAIN lots, NEW k \in DOMAIN lots, NEW l \in DOMAIN lots
    PROVE  /\ j # k => BurnsBefore(j, k) \/ BurnsBefore(k, j)
           /\ ~ (BurnsBefore(j, k) /\ BurnsBefore(k, j))
           /\ BurnsBefore(j, k) /\ BurnsBefore(k, l) => BurnsBefore(j, l)
<1>1. /\ lots[j].expiresAt \in Nat /\ lots[k].expiresAt \in Nat /\ lots[l].expiresAt \in Nat
      /\ j \in Nat /\ k \in Nat /\ l \in Nat
  BY LotFields
<1> QED BY <1>1 DEF BurnsBefore

\* One of any lots burns last.
LEMMA LastToBurn ==
    ASSUME TypeOK, NEW S \in SUBSET DOMAIN lots, S # {}
    PROVE  \E m \in S : \A l \in S : l # m => BurnsBefore(l, m)
<1> DEFINE HasLast(R) == \E m \in R : \A l \in R : l # m => BurnsBefore(l, m)
           T == {n \in Nat : \A R \in SUBSET DOMAIN lots : R # {} /\ R \subseteq 1..n => HasLast(R)}
<1>1. 0 \in T
  OBVIOUS
<1>2. ASSUME NEW n \in T PROVE n + 1 \in T
  <2> SUFFICES ASSUME NEW R \in SUBSET DOMAIN lots, R # {}, R \subseteq 1..(n + 1)
               PROVE  HasLast(R)
    OBVIOUS
  <2> DEFINE Q == R \ {n + 1}
  <2>1. n \in Nat /\ Q \in SUBSET DOMAIN lots /\ Q \subseteq 1..n
    OBVIOUS
  <2>2. CASE Q = {}
    <3>1. R = {n + 1}
      BY <2>2
    <3> QED BY <3>1
  <2>3. CASE Q # {}
    <3>1. HasLast(Q)
      <4> HIDE DEF HasLast, Q
      <4> QED BY <2>1, <2>3
    <3>2. PICK m \in Q : \A l \in Q : l # m => BurnsBefore(l, m)
      BY <3>1
    <3>3. CASE n + 1 \notin R
      <4>1. Q = R
        BY <3>3
      <4> QED BY <3>1, <4>1
    <3>4. CASE n + 1 \in R
      <4>1. m \in DOMAIN lots /\ n + 1 \in DOMAIN lots /\ m # n + 1 /\ m \in R
        BY <3>2, <3>4
      <4>2. CASE BurnsBefore(n + 1, m)
        <5>1. \A l \in R : l # m => BurnsBefore(l, m)
          BY <3>2, <4>2
        <5> QED BY <4>1, <5>1
      <4>3. CASE BurnsBefore(m, n + 1)
        <5>1. \A l \in R : l # n + 1 => BurnsBefore(l, n + 1)
          <6> SUFFICES ASSUME NEW l \in R, l # n + 1 PROVE BurnsBefore(l, n + 1)
            OBVIOUS
          <6>1. CASE l = m
            BY <4>3, <6>1
          <6>2. CASE l # m
            <7>1. BurnsBefore(l, m) /\ l \in DOMAIN lots
              BY <3>2, <6>2
            <7> QED BY ONLY TypeOK, <4>1, <4>3, <7>1, BurnsBeforeTotal
          <6> QED BY <6>1, <6>2
        <5> QED BY <3>4, <5>1
      <4> QED BY <4>1, <4>2, <4>3, BurnsBeforeTotal
    <3> QED BY <3>3, <3>4
  <2> QED BY <2>2, <2>3
<1>3. T = Nat
  <2> HIDE DEF T
  <2>1. T \in SUBSET Nat
    BY DEF T
  <2> QED BY <1>1, <1>2, <2>1, SetInduction
<1>4. Len(lots) \in T /\ S \subseteq 1..Len(lots)
  <2>1. Len(lots) \in Nat /\ DOMAIN lots = 1..Len(lots)
    BY DEF TypeOK
  <2> HIDE DEF T
  <2> QED BY <1>3, <2>1
<1>5. HasLast(S)
  <2> HIDE DEF HasLast
  <2> QED BY <1>4
<1> QED BY <1>5

\* order enumerates the n lots of S as they burn.
IsBurnOrder(order, S, n) ==
    /\ order \in [1..n -> S]
    /\ \A l \in S : \E k \in 1..n : order[k] = l
    /\ \A j, k \in 1..n : j < k => BurnsBefore(order[j], order[k])

\* Any lots can be enumerated as they burn: ORDER BY has a result.
LEMMA BurnOrderExists ==
    ASSUME TypeOK, NEW S \in SUBSET DOMAIN lots
    PROVE  Cardinality(S) \in Nat /\ \E order : IsBurnOrder(order, S, Cardinality(S))
<1> DEFINE T == {n \in Nat : \A R \in SUBSET DOMAIN lots :
                                Cardinality(R) = n => \E order : IsBurnOrder(order, R, n)}
<1>0. \A R \in SUBSET DOMAIN lots : IsFiniteSet(R) /\ Cardinality(R) \in Nat
  <2>1. DOMAIN lots = 1..Len(lots) /\ Len(lots) \in Nat
    BY DEF TypeOK
  <2>2. IsFiniteSet(DOMAIN lots)
    BY <2>1, FS_Interval
  <2> QED BY <2>2, FS_Subset, FS_CardinalityType
<1>1. 0 \in T
  <2> SUFFICES ASSUME NEW R \in SUBSET DOMAIN lots, Cardinality(R) = 0
               PROVE  \E order : IsBurnOrder(order, R, 0)
    OBVIOUS
  <2>1. R = {}
    BY <1>0, FS_EmptySet
  <2>2. IsBurnOrder([k \in 1..0 |-> 0], R, 0)
    BY <2>1 DEF IsBurnOrder
  <2> QED BY <2>2
<1>2. ASSUME NEW n \in T PROVE n + 1 \in T
  <2> SUFFICES ASSUME NEW R \in SUBSET DOMAIN lots, Cardinality(R) = n + 1
               PROVE  \E order : IsBurnOrder(order, R, n + 1)
    OBVIOUS
  <2>1. n \in Nat /\ R # {}
    BY FS_EmptySet
  <2>2. PICK m \in R : \A l \in R : l # m => BurnsBefore(l, m)
    BY <2>1, LastToBurn
  <2> DEFINE Q == R \ {m}
  <2>3. Cardinality(Q) = n /\ Q \in SUBSET DOMAIN lots
    <3>1. Cardinality(Q) = Cardinality(R) - 1
      BY <1>0, FS_RemoveElement
    <3> QED BY <2>1, <3>1
  <2>4. PICK order : IsBurnOrder(order, Q, n)
    <3> HIDE DEF Q
    <3> QED BY <2>3
  <2> DEFINE longer == [k \in 1..(n + 1) |-> IF k = n + 1 THEN m ELSE order[k]]
  <2>5. longer \in [1..(n + 1) -> R]
    <3>1. \A k \in 1..n : order[k] \in Q
      BY <2>4 DEF IsBurnOrder
    <3> QED BY <2>1, <3>1
  <2>6. \A l \in R : \E k \in 1..(n + 1) : longer[k] = l
    <3> SUFFICES ASSUME NEW l \in R PROVE \E k \in 1..(n + 1) : longer[k] = l
      OBVIOUS
    <3>1. CASE l = m
      BY <2>1, <3>1
    <3>2. CASE l # m
      <4>1. PICK k \in 1..n : order[k] = l
        BY <2>4, <3>2 DEF IsBurnOrder
      <4> QED BY <2>1, <4>1
    <3> QED BY <3>1, <3>2
  <2>7. \A j, k \in 1..(n + 1) : j < k => BurnsBefore(longer[j], longer[k])
    <3> SUFFICES ASSUME NEW j \in 1..(n + 1), NEW k \in 1..(n + 1), j < k
                 PROVE  BurnsBefore(longer[j], longer[k])
      OBVIOUS
    <3>1. j \in 1..n /\ longer[j] = order[j] /\ order[j] \in Q
      BY <2>1, <2>4 DEF IsBurnOrder
    <3>2. CASE k = n + 1
      <4>1. longer[k] = m
        BY <3>2
      <4> QED BY <2>2, <3>1, <4>1
    <3>3. CASE k # n + 1
      <4>1. k \in 1..n /\ longer[k] = order[k]
        BY <2>1, <3>3
      <4>2. BurnsBefore(order[j], order[k])
        BY <2>4, <3>1, <4>1 DEF IsBurnOrder
      <4> QED BY <3>1, <4>1, <4>2
    <3> QED BY <3>2, <3>3
  <2> HIDE DEF longer
  <2>8. IsBurnOrder(longer, R, n + 1)
    BY <2>5, <2>6, <2>7 DEF IsBurnOrder
  <2> QED BY <2>8
<1>3. T = Nat
  <2> HIDE DEF T
  <2>1. T \in SUBSET Nat
    BY DEF T
  <2> QED BY <1>1, <1>2, <2>1, SetInduction
<1>4. Cardinality(S) \in T
  <2> HIDE DEF T
  <2> QED BY <1>0, <1>3
<1> QED BY <1>0, <1>4

\* The query has the order the loop goes through.
LEMMA BurnOrderFacts ==
    ASSUME TypeOK
    PROVE  /\ UsableLots \in SUBSET DOMAIN lots
           /\ Cardinality(UsableLots) \in Nat
           /\ IsBurnOrder(BurnOrder, UsableLots, Cardinality(UsableLots))
<1> DEFINE n == Cardinality(UsableLots)
           Enumerates(order) ==
              /\ \A l \in UsableLots : \E k \in DOMAIN order : order[k] = l
              /\ \A j, k \in DOMAIN order : j < k => BurnsBefore(order[j], order[k])
<1>1. UsableLots \in SUBSET DOMAIN lots
  BY DEF UsableLots
<1>2. n \in Nat /\ \E order : IsBurnOrder(order, UsableLots, n)
  BY <1>1, BurnOrderExists
<1>3. \E order \in [1..n -> UsableLots] : Enumerates(order)
  <2>1. PICK order : IsBurnOrder(order, UsableLots, n)
    BY <1>2
  <2>2. order \in [1..n -> UsableLots] /\ DOMAIN order = 1..n
    BY <2>1 DEF IsBurnOrder
  <2>3. Enumerates(order)
    BY <2>1, <2>2 DEF IsBurnOrder
  <2> QED BY <2>2, <2>3
<1>4. BurnOrder = CHOOSE order \in [1..n -> UsableLots] : Enumerates(order)
  BY DEF BurnOrder
<1>5. BurnOrder \in [1..n -> UsableLots] /\ Enumerates(BurnOrder)
  <2> HIDE DEF Enumerates, n
  <2> QED BY <1>3, <1>4, Zenon
<1>6. DOMAIN BurnOrder = 1..n
  BY <1>5
<1>7. IsBurnOrder(BurnOrder, UsableLots, n)
  <2> HIDE DEF n
  <2> QED BY <1>5, <1>6 DEF IsBurnOrder
<1> QED BY <1>1, <1>2, <1>7

\* A loop that takes at each of n turns what the row holds, or what is left to take: what
\* is left is the amount less what the rows so far hold, or nothing.
LEMMA LeftOfLoop ==
    ASSUME NEW n \in Nat, NEW amount \in Nat, NEW f, NEW left,
           \A k \in 1..n : f[k] \in Nat,
           left[0] = amount,
           \A k \in 1..n : left[k] = left[k - 1] - Lesser(f[k], left[k - 1])
    PROVE  \A k \in 0..n : left[k] = AtLeastZero(amount - SumTo(f, k)) /\ SumTo(f, k) \in Nat
<1> DEFINE T == {k \in Nat : k <= n => /\ left[k] = AtLeastZero(amount - SumTo(f, k))
                                       /\ SumTo(f, k) \in Nat}
<1>1. 0 \in T
  BY SumToZero DEF AtLeastZero
<1>2. ASSUME NEW k \in T PROVE k + 1 \in T
  <2> SUFFICES ASSUME k + 1 <= n
               PROVE  /\ left[k + 1] = AtLeastZero(amount - SumTo(f, k + 1))
                      /\ SumTo(f, k + 1) \in Nat
    OBVIOUS
  <2>1. left[k] = AtLeastZero(amount - SumTo(f, k)) /\ SumTo(f, k) \in Nat /\ k \in Nat
    OBVIOUS
  <2>2. left[k + 1] = left[k] - Lesser(f[k + 1], left[k]) /\ f[k + 1] \in Nat
    <3>1. k + 1 \in 1..n /\ (k + 1) - 1 = k
      BY <2>1
    <3> QED BY <3>1
  <2>3. SumTo(f, k + 1) = SumTo(f, k) + f[k + 1]
    BY <2>1, SumToStep
  <2> QED BY ONLY amount \in Nat, <2>1, <2>2, <2>3 DEF AtLeastZero, Lesser
<1>3. T = Nat
  <2> HIDE DEF T
  <2>1. T \in SUBSET Nat
    BY DEF T
  <2> QED BY <1>1, <1>2, <2>1, SetInduction
<1> QED BY <1>3

\* What a loop takes adds up to what it was to take less what is left.
LEMMA TakenByLoop ==
    ASSUME NEW n \in Nat, NEW t, NEW left, \A k \in 0..n : left[k] \in Int,
           \A k \in 1..n : t[k] = left[k - 1] - left[k]
    PROVE  SumTo(t, n) = left[0] - left[n]
<1> DEFINE T == {k \in Nat : k <= n => SumTo(t, k) = left[0] - left[k]}
<1>1. 0 \in T
  BY SumToZero
<1>2. ASSUME NEW k \in T PROVE k + 1 \in T
  <2> SUFFICES ASSUME k + 1 <= n PROVE SumTo(t, k + 1) = left[0] - left[k + 1]
    OBVIOUS
  <2>1. SumTo(t, k) = left[0] - left[k]
    OBVIOUS
  <2>2. t[k + 1] = left[k] - left[k + 1] /\ left[k] \in Int /\ left[k + 1] \in Int /\ left[0] \in Int
    <3>1. k + 1 \in 1..n /\ (k + 1) - 1 = k /\ k \in 0..n /\ k + 1 \in 0..n /\ 0 \in 0..n
      OBVIOUS
    <3> QED BY <3>1
  <2> QED BY <2>1, <2>2, SumToStep
<1>3. T = Nat
  <2> HIDE DEF T
  <2>1. T \in SUBSET Nat
    BY DEF T
  <2> QED BY <1>1, <1>2, <2>1, SetInduction
<1> QED BY <1>3

\* left is what is left to take of amount by a loop over n rows that hold f.
Leaves(left, f, n, amount) ==
    /\ n \in Nat /\ amount \in Nat
    /\ \A k \in 1..n : f[k] \in Nat \ {0}
    /\ left[0] = amount
    /\ \A k \in 0..n : left[k] \in Nat
    /\ \A k \in 1..n : left[k] = left[k - 1] - Lesser(f[k], left[k - 1])

\* t splits amount over the rows, touching one only when all before it are taken whole.
Splits(t, f, n, amount) ==
    /\ \A k \in 1..n : t[k] \in Nat /\ t[k] <= f[k]
    /\ \A j, k \in 1..n : j < k /\ t[k] > 0 => t[j] = f[j]
    /\ SumTo(t, n) = amount

\* Whoever so splits the amount takes what the loop takes.
LEMMA SplitIsLoop ==
    ASSUME NEW n, NEW amount, NEW f, NEW left, NEW t,
           Leaves(left, f, n, amount), Splits(t, f, n, amount)
    PROVE  /\ left[n] = 0
           /\ \A k \in 1..n : t[k] = left[k - 1] - left[k]
<1> SUFFICES ASSUME n \in Nat, amount \in Nat,
                    \A k \in 1..n : f[k] \in Nat \ {0},
                    left[0] = amount,
                    \A k \in 0..n : left[k] \in Nat,
                    \A k \in 1..n : left[k] = left[k - 1] - Lesser(f[k], left[k - 1]),
                    \A k \in 1..n : t[k] \in Nat /\ t[k] <= f[k],
                    \A j, k \in 1..n : j < k /\ t[k] > 0 => t[j] = f[j],
                    SumTo(t, n) = amount
             PROVE  /\ left[n] = 0
                    /\ \A k \in 1..n : t[k] = left[k - 1] - left[k]
  BY DEF Leaves, Splits
<1> DEFINE T == {k \in Nat : k <= n => /\ SumTo(t, k) = amount - left[k]
                                       /\ \A i \in 1..k : t[i] = left[i - 1] - left[i]}
<1>1. 0 \in T
  BY SumToZero
<1>2. ASSUME NEW k \in T PROVE k + 1 \in T
  <2> SUFFICES ASSUME k + 1 <= n
               PROVE  /\ SumTo(t, k + 1) = amount - left[k + 1]
                      /\ \A i \in 1..(k + 1) : t[i] = left[i - 1] - left[i]
    OBVIOUS
  <2> DEFINE part == t[k + 1]
             had == f[k + 1]
             was == left[k]
             is == left[k + 1]
  <2>1. /\ SumTo(t, k) = amount - was
        /\ \A i \in 1..k : t[i] = left[i - 1] - left[i]
        /\ k \in Nat
    OBVIOUS
  <2>2. k + 1 \in 1..n /\ (k + 1) - 1 = k /\ k \in 0..n /\ k + 1 \in 0..n
    BY <2>1
  <2>3. /\ part \in Nat /\ had \in Nat /\ was \in Nat /\ is \in Nat
        /\ part <= had /\ is = was - Lesser(had, was)
    BY <2>2
  <2>4. SumTo(t, k + 1) = amount - was + part
    BY <2>1, SumToStep
  <2>5. part = Lesser(had, was)
    <3>1. ~(part > was)
      <4>1. SumTo(t, k + 1) \in Nat /\ SumTo(t, k + 1) <= amount
        BY <2>2, SumToShorter
      <4> HIDE DEF part, was
      <4> QED BY <2>3, <2>4, <4>1
    <3>2. ~(part < had /\ part < was)
      <4> SUFFICES ASSUME part < had, part < was PROVE FALSE
        OBVIOUS
      <4>1. \A i \in 1..n : i > k + 1 => t[i] = 0
        <5> SUFFICES ASSUME NEW i \in 1..n, i > k + 1 PROVE t[i] = 0
          OBVIOUS
        <5>1. ~(t[i] > 0)
          <6> SUFFICES ASSUME t[i] > 0 PROVE FALSE
            OBVIOUS
          <6>1. t[k + 1] = f[k + 1]
            BY <2>2
          <6> QED BY <2>3, <6>1
        <5>2. t[i] \in Nat
          OBVIOUS
        <5> QED BY <5>1, <5>2
      <4>2. SumTo(t, n) = SumTo(t, k + 1)
        <5>1. \A i \in 1..n : t[i] \in Int
          OBVIOUS
        <5>2. k + 1 \in Nat
          BY <2>1
        <5> QED BY <4>1, <5>1, <5>2, SumToLonger
      <4> HIDE DEF part, was
      <4> QED BY <2>3, <2>4, <4>2
    <3> HIDE DEF part, was, had
    <3> QED BY <2>3, <3>1, <3>2 DEF Lesser
  <2>6. part = was - is
    <3> HIDE DEF part, was, had, is
    <3>1. Lesser(had, was) \in Nat
      BY <2>3 DEF Lesser
    <3> QED BY <2>3, <2>5, <3>1
  <2>7. SumTo(t, k + 1) = amount - is
    <3> HIDE DEF part, was, had, is
    <3> QED BY <2>3, <2>4, <2>6
  <2>8. \A i \in 1..(k + 1) : t[i] = left[i - 1] - left[i]
    <3> SUFFICES ASSUME NEW i \in 1..(k + 1) PROVE t[i] = left[i - 1] - left[i]
      OBVIOUS
    <3>1. i = k + 1 \/ i \in 1..k
      BY <2>1
    <3> QED BY <2>1, <2>2, <2>6, <3>1
  <2> QED BY <2>7, <2>8
<1>3. T = Nat
  <2> HIDE DEF T
  <2>1. T \in SUBSET Nat
    BY DEF T
  <2> QED BY <1>1, <1>2, <2>1, SetInduction
<1>4. SumTo(t, n) = amount - left[n] /\ \A k \in 1..n : t[k] = left[k - 1] - left[k]
  BY <1>3
<1>5. left[n] \in Nat
  OBVIOUS
<1> QED BY <1>4, <1>5

\* spent records the loop of SpendLotsFifo up to turn n.
IsLoopTo(spent, amount, n) ==
    spent = [k \in 0..n |-> IF k = 0 THEN [left |-> amount, taken |-> NoSplit]
                            ELSE TakeFrom(spent[k - 1], BurnOrder[k])]

\* The loop can be carried out.
LEMMA LoopExists ==
    ASSUME NEW amount, NEW n \in Nat
    PROVE  \E spent : IsLoopTo(spent, amount, n)
<1> DEFINE T == {k \in Nat : \E spent : IsLoopTo(spent, amount, k)}
           start == [left |-> amount, taken |-> NoSplit]
<1>1. 0 \in T
  <2>1. IsLoopTo([k \in 0..0 |-> start], amount, 0)
    BY DEF IsLoopTo
  <2> QED BY <2>1
<1>2. ASSUME NEW k \in T PROVE k + 1 \in T
  <2>1. PICK s : IsLoopTo(s, amount, k)
    OBVIOUS
  <2> DEFINE turn == TakeFrom(s[k], BurnOrder[k + 1])
             r == [i \in 0..(k + 1) |-> IF i = k + 1 THEN turn ELSE s[i]]
  <2>2. \A i \in 0..k : s[i] = IF i = 0 THEN start ELSE TakeFrom(s[i - 1], BurnOrder[i])
    BY <2>1 DEF IsLoopTo
  <2>3. \A i \in 0..(k + 1) : r[i] = IF i = 0 THEN start ELSE TakeFrom(r[i - 1], BurnOrder[i])
    <3> SUFFICES ASSUME NEW i \in 0..(k + 1)
                 PROVE  r[i] = IF i = 0 THEN start ELSE TakeFrom(r[i - 1], BurnOrder[i])
      OBVIOUS
    <3>1. k \in Nat
      OBVIOUS
    <3>2. CASE i = k + 1
      <4>1. r[i] = turn /\ r[i - 1] = s[k] /\ i # 0
        BY <3>1, <3>2
      <4> QED BY <3>2, <4>1
    <3>3. CASE i # k + 1
      <4>1. i \in 0..k /\ r[i] = s[i]
        BY <3>1, <3>3
      <4>2. i # 0 => r[i - 1] = s[i - 1]
        BY <3>1, <4>1
      <4> HIDE DEF r, start
      <4> QED BY <2>2, <4>1, <4>2
    <3> QED BY <3>2, <3>3
  <2>4. IsLoopTo(r, amount, k + 1)
    <3>1. r = [i \in 0..(k + 1) |-> r[i]]
      OBVIOUS
    <3> HIDE DEF r
    <3>2. r = [i \in 0..(k + 1) |-> IF i = 0 THEN start ELSE TakeFrom(r[i - 1], BurnOrder[i])]
      BY <2>3, <3>1
    <3> QED BY <3>2 DEF IsLoopTo
  <2> QED BY <2>4
<1>3. T = Nat
  <2> HIDE DEF T
  <2>1. T \in SUBSET Nat
    BY DEF T
  <2> QED BY <1>1, <1>2, <2>1, SetInduction
<1> QED BY <1>3

\* SpendLotsFifo is what the loop ends with.
LEMMA SpendIsLoop ==
    ASSUME TypeOK, NEW amount
    PROVE  LET n == Cardinality(UsableLots) IN
           \E spent : IsLoopTo(spent, amount, n) /\ SpendLotsFifo(amount) = spent[n]
<1> DEFINE n == Cardinality(UsableLots)
           loop == CHOOSE spent : IsLoopTo(spent, amount, n)
<1>1. n \in Nat
  BY BurnOrderFacts
<1>2. IsLoopTo(loop, amount, n)
  <2> HIDE DEF n
  <2>1. \E spent : IsLoopTo(spent, amount, n)
    BY <1>1, LoopExists
  <2> QED BY <2>1, Zenon
<1>3. SpendLotsFifo(amount) = loop[n]
  BY DEF SpendLotsFifo, IsLoopTo
<1> QED BY <1>2, <1>3

\* The loop turn by turn: what is left after it, and what it has taken from each lot so far.
LEMMA LoopTurns ==
    ASSUME TypeOK, NEW amount \in Nat, NEW spent,
           IsLoopTo(spent, amount, Cardinality(UsableLots))
    PROVE  LET n == Cardinality(UsableLots) IN
           /\ spent[0].left = amount
           /\ \A k \in 0..n : spent[k].left \in 0..amount
           /\ \A k \in 1..n : spent[k].left =
                 spent[k - 1].left - Lesser(lots[BurnOrder[k]].remaining, spent[k - 1].left)
           /\ spent[n].taken \in [LotId -> 0..amount]
           /\ \A k \in 1..n : spent[n].taken[BurnOrder[k]] = spent[k - 1].left - spent[k].left
           /\ \A l \in LotId \ UsableLots : spent[n].taken[l] = 0
<1> DEFINE n == Cardinality(UsableLots)
           Turn(k) ==
              /\ spent[k].left \in 0..amount
              /\ spent[k].taken \in [LotId -> 0..amount]
              /\ \A i \in 1..k : spent[k].taken[BurnOrder[i]] = spent[i - 1].left - spent[i].left
              /\ \A i \in 1..n : i > k => spent[k].taken[BurnOrder[i]] = 0
              /\ \A l \in LotId \ UsableLots : spent[k].taken[l] = 0
           Step(k) ==
              spent[k].left =
                 spent[k - 1].left - Lesser(lots[BurnOrder[k]].remaining, spent[k - 1].left)
           T == {k \in Nat : k <= n => Turn(k) /\ \A i \in 1..k : Step(i)}
<1>1. n \in Nat /\ UsableLots \in SUBSET DOMAIN lots
  BY BurnOrderFacts
<1>2. /\ \A i \in 1..n : BurnOrder[i] \in UsableLots
      /\ \A j, k \in 1..n : j < k => BurnsBefore(BurnOrder[j], BurnOrder[k])
  BY BurnOrderFacts DEF IsBurnOrder
<1>3. \A i \in 1..n : BurnOrder[i] \in LotId /\ lots[BurnOrder[i]].remaining \in Nat
  BY <1>1, <1>2, LotFields
<1>4. \A j, k \in 1..n : j # k => BurnOrder[j] # BurnOrder[k]
  <2> SUFFICES ASSUME NEW j \in 1..n, NEW k \in 1..n, j # k PROVE BurnOrder[j] # BurnOrder[k]
    OBVIOUS
  <2>1. BurnOrder[j] \in DOMAIN lots /\ BurnOrder[k] \in DOMAIN lots
    BY <1>1, <1>2
  <2>2. j < k \/ k < j
    OBVIOUS
  <2>3. BurnsBefore(BurnOrder[j], BurnOrder[k]) \/ BurnsBefore(BurnOrder[k], BurnOrder[j])
    BY <1>2, <2>2
  <2> QED BY <2>1, <2>3, BurnsBeforeTotal
<1>5. /\ spent[0] = [left |-> amount, taken |-> NoSplit]
      /\ \A k \in 1..n : spent[k] = TakeFrom(spent[k - 1], BurnOrder[k])
  <2>1. \A k \in 0..n : spent[k] = IF k = 0 THEN [left |-> amount, taken |-> NoSplit]
                                   ELSE TakeFrom(spent[k - 1], BurnOrder[k])
    BY DEF IsLoopTo
  <2> QED BY <1>1, <2>1
<1>6. 0 \in T
  <2>1. spent[0].left = amount /\ spent[0].taken = NoSplit
    BY <1>5
  <2>2. NoSplit \in [LotId -> 0..amount] /\ \A l \in LotId : NoSplit[l] = 0
    BY DEF NoSplit
  <2> HIDE DEF n
  <2> QED BY <1>1, <1>3, <2>1, <2>2
<1>7. ASSUME NEW k \in T PROVE k + 1 \in T
  <2> SUFFICES ASSUME k + 1 <= n PROVE Turn(k + 1) /\ \A i \in 1..(k + 1) : Step(i)
    OBVIOUS
  <2> DEFINE l == BurnOrder[k + 1]
             was == spent[k]
             is == spent[k + 1]
             take == Lesser(lots[l].remaining, was.left)
  <2>1. Turn(k) /\ (\A i \in 1..k : Step(i)) /\ k \in Nat /\ k + 1 \in 1..n /\ (k + 1) - 1 = k
    BY <1>1
  <2>2. l \in LotId /\ l \in UsableLots /\ lots[l].remaining \in Nat
    BY <1>2, <1>3, <2>1
  <2>3. was.left \in 0..amount /\ take \in 0..amount /\ was.left - take \in 0..amount
    <3>1. was.left \in 0..amount
      BY <2>1
    <3> HIDE DEF l, was
    <3> QED BY <2>2, <3>1 DEF Lesser
  <2>4. is.left = was.left - take /\ is.taken = [was.taken EXCEPT ![l] = take]
    <3>1. is = TakeFrom(was, l)
      BY <1>5, <2>1
    <3> HIDE DEF is, was, l
    <3> QED BY <3>1 DEF TakeFrom
  <2>5. was.taken \in [LotId -> 0..amount]
    BY <2>1
  <2>6. /\ is.taken \in [LotId -> 0..amount]
        /\ is.taken[l] = take
        /\ \A j \in LotId : j # l => is.taken[j] = was.taken[j]
    <3> HIDE DEF is, was, l, take
    <3> QED BY <2>2, <2>3, <2>4, <2>5
  <2>7. take = was.left - is.left
    <3> HIDE DEF is, was, l, take
    <3> QED BY <2>3, <2>4
  <2>8. \A i \in 1..n : i # k + 1 => BurnOrder[i] # l /\ BurnOrder[i] \in LotId
    BY <1>3, <1>4, <2>1
  <2>9. \A i \in 1..(k + 1) : is.taken[BurnOrder[i]] = spent[i - 1].left - spent[i].left
    <3> SUFFICES ASSUME NEW i \in 1..(k + 1)
                 PROVE  is.taken[BurnOrder[i]] = spent[i - 1].left - spent[i].left
      OBVIOUS
    <3>1. CASE i = k + 1
      BY <2>1, <2>6, <2>7, <3>1
    <3>2. CASE i # k + 1
      <4>1. i \in 1..k /\ i \in 1..n
        BY <1>1, <2>1, <3>2
      <4>2. is.taken[BurnOrder[i]] = was.taken[BurnOrder[i]]
        <5> HIDE DEF is, was, l
        <5> QED BY <2>6, <2>8, <3>2, <4>1
      <4> QED BY <2>1, <4>1, <4>2
    <3> QED BY <3>1, <3>2
  <2>10. \A i \in 1..n : i > k + 1 => is.taken[BurnOrder[i]] = 0
    <3> SUFFICES ASSUME NEW i \in 1..n, i > k + 1 PROVE is.taken[BurnOrder[i]] = 0
      OBVIOUS
    <3>1. i # k + 1 /\ i > k
      BY <2>1
    <3>2. is.taken[BurnOrder[i]] = was.taken[BurnOrder[i]]
      <4> HIDE DEF is, was, l
      <4> QED BY <2>6, <2>8, <3>1
    <3> QED BY <2>1, <3>1, <3>2
  <2>11. \A j \in LotId \ UsableLots : is.taken[j] = 0
    <3>1. \A j \in LotId \ UsableLots : j # l /\ was.taken[j] = 0
      BY <2>1, <2>2
    <3> HIDE DEF is, was, l
    <3> QED BY <2>6, <3>1
  <2>12. Step(k + 1)
    BY <2>1, <2>4
  <2>13. \A i \in 1..(k + 1) : Step(i)
    <3> SUFFICES ASSUME NEW i \in 1..(k + 1) PROVE Step(i)
      OBVIOUS
    <3>1. i = k + 1 \/ i \in 1..k
      BY <2>1
    <3> HIDE DEF Step
    <3> QED BY <2>1, <2>12, <3>1
  <2>14. is.left \in 0..amount
    BY <2>3, <2>4
  <2> HIDE DEF Step
  <2> QED BY <2>6, <2>9, <2>10, <2>11, <2>13, <2>14
<1>8. T = Nat
  <2> HIDE DEF T
  <2>1. T \in SUBSET Nat
    BY DEF T
  <2> QED BY <1>6, <1>7, <2>1, SetInduction
<1>9. \A k \in 0..n : k \in T
  <2> HIDE DEF T
  <2> QED BY <1>1, <1>8
<1>10. \A k \in 0..n : Turn(k)
  <2> HIDE DEF Turn, Step
  <2> QED BY <1>9
<1>11. \A i \in 1..n : Step(i)
  <2> HIDE DEF Turn, Step
  <2> QED BY <1>1, <1>9
<1>12. n \in 0..n
  BY <1>1
<1>13. spent[0].left = amount
  BY <1>5
<1>14. \A k \in 0..n : spent[k].left \in 0..amount
  BY <1>10
<1>15. Turn(n)
  <2> HIDE DEF Turn
  <2> QED BY <1>10, <1>12
<1> HIDE DEF n
<1> QED BY <1>11, <1>13, <1>14, <1>15 DEF n

\* The usable lots in their order: positive remainders that add up to the available amount.
LEMMA OrderedLots ==
    ASSUME TypeOK, NEW f,
           \A k \in 1..Cardinality(UsableLots) : f[k] = lots[BurnOrder[k]].remaining
    PROVE  LET n == Cardinality(UsableLots) IN
           /\ n \in Nat
           /\ \A k \in 1..n : /\ BurnOrder[k] \in UsableLots
                              /\ BurnOrder[k] \in LotId
                              /\ f[k] \in Nat \ {0}
           /\ \A l \in UsableLots : \E k \in 1..n : BurnOrder[k] = l
           /\ \A j, k \in 1..n : j < k => BurnsBefore(BurnOrder[j], BurnOrder[k])
           /\ \A j, k \in 1..n : j < k => BurnOrder[j] # BurnOrder[k]
           /\ AvailableAmount = SumTo(f, n)
<1> DEFINE n == Cardinality(UsableLots)
           g == [l \in DOMAIN lots |-> IF l \in UsableLots THEN lots[l].remaining ELSE 0]
<1>1. n \in Nat /\ UsableLots \in SUBSET DOMAIN lots
  BY BurnOrderFacts
<1>2. /\ \A k \in 1..n : BurnOrder[k] \in UsableLots
      /\ \A l \in UsableLots : \E k \in 1..n : BurnOrder[k] = l
      /\ \A j, k \in 1..n : j < k => BurnsBefore(BurnOrder[j], BurnOrder[k])
  BY BurnOrderFacts DEF IsBurnOrder
<1>3. \A l \in UsableLots : /\ l \in LotId /\ l \in DOMAIN lots
                            /\ lots[l].remaining \in Nat \ {0}
  <2>1. \A l \in UsableLots : lots[l].remaining > 0
    BY DEF UsableLots
  <2> QED BY <1>1, <2>1, LotFields
<1>4. \A j, k \in 1..n : j < k => BurnOrder[j] # BurnOrder[k]
  <2> SUFFICES ASSUME NEW j \in 1..n, NEW k \in 1..n, j < k PROVE BurnOrder[j] # BurnOrder[k]
    OBVIOUS
  <2>1. BurnOrder[j] \in DOMAIN lots /\ BurnOrder[k] \in DOMAIN lots
    BY <1>1, <1>2
  <2>2. BurnsBefore(BurnOrder[j], BurnOrder[k])
    BY <1>2
  <2> QED BY <2>1, <2>2, BurnsBeforeTotal
<1>5. DOMAIN lots = 1..Len(lots) /\ Len(lots) \in Nat
  BY DEF TypeOK
<1>6. \A k \in 1..n : BurnOrder[k] \in 1..Len(lots) /\ f[k] = g[BurnOrder[k]]
  BY <1>1, <1>2, <1>5
<1>7. \A l \in 1..Len(lots) : g[l] \in Int
  BY <1>3, <1>5
<1>8. \A l \in 1..Len(lots) : (\A k \in 1..n : BurnOrder[k] # l) => g[l] = 0
  BY <1>2, <1>5
<1>9. AvailableAmount = SumTo(g, Len(lots))
  BY DEF AvailableAmount, Remaining
<1> HIDE DEF n, g
<1>10. SumTo(g, Len(lots)) = SumTo(f, n)
  <2> DEFINE m == Len(lots)
             order == BurnOrder
  <2>1. m \in Nat /\ n \in Nat
    BY <1>1, <1>5
  <2>2. \A l \in 1..m : g[l] \in Int
    BY <1>7
  <2>3. \A k \in 1..n : order[k] \in 1..m /\ f[k] = g[order[k]]
    BY <1>6
  <2>4. \A j, k \in 1..n : j < k => order[j] # order[k]
    BY <1>4
  <2>5. \A l \in 1..m : (\A k \in 1..n : order[k] # l) => g[l] = 0
    BY <1>8
  <2> HIDE DEF m, order
  <2>6. Reorders(order, f, n, g, m)
    BY <2>1, <2>2, <2>3, <2>4, <2>5 DEF Reorders
  <2>7. SumTo(g, m) = SumTo(f, n)
    BY <2>6, SumReordered
  <2> QED BY <2>7 DEF m
<1>11. \A k \in 1..n : BurnOrder[k] \in LotId /\ f[k] \in Nat \ {0}
  BY <1>2, <1>3 DEF n
<1> QED BY <1>1, <1>2, <1>4, <1>9, <1>10, <1>11 DEF n

\* A split over the usable lots adds up to its parts in their order.
LEMMA SplitReordered ==
    ASSUME TypeOK, NEW split, \A l \in LotId : split[l] \in Int,
           \A l \in LotId \ UsableLots : split[l] = 0, NEW t,
           \A k \in 1..Cardinality(UsableLots) : t[k] = split[BurnOrder[k]]
    PROVE  Total(split) = SumTo(t, Cardinality(UsableLots))
<1> DEFINE n == Cardinality(UsableLots)
           m == MaxLots
           order == BurnOrder
           f == [k \in 1..n |-> lots[order[k]].remaining]
<1>1. \A k \in 1..n : f[k] = lots[BurnOrder[k]].remaining
  OBVIOUS
<1>2. /\ n \in Nat
      /\ \A k \in 1..n : order[k] \in LotId
      /\ \A l \in UsableLots : \E k \in 1..n : order[k] = l
      /\ \A j, k \in 1..n : j < k => order[j] # order[k]
  <2> HIDE DEF f
  <2> QED BY <1>1, OrderedLots
<1>3. m \in Nat /\ LotId = 1..m
  BY ConstantTypes DEF LotId
<1>4. \A l \in 1..m : (\A k \in 1..n : order[k] # l) => split[l] = 0
  BY <1>2, <1>3
<1>5. (\A l \in 1..m : split[l] \in Int) /\ \A k \in 1..n : order[k] \in 1..m /\ t[k] = split[order[k]]
  BY <1>2, <1>3
<1> HIDE DEF n, m, order
<1>6. SumTo(split, m) = SumTo(t, n)
  <2>1. Reorders(order, t, n, split, m)
    BY <1>2, <1>3, <1>4, <1>5 DEF Reorders
  <2> QED BY <2>1, SumReordered
<1> QED BY <1>6 DEF Total, n, m

\* _spend_lots_fifo spends first in, first out: when the usable lots cover the amount its
\* loop takes the one split that does so, and otherwise there is none; and it falls short,
\* which is INSUFFICIENT_CASHBACK, by what the usable lots lack.
LEMMA SpendIsFifo ==
    ASSUME TypeOK, NEW amount \in Nat
    PROVE  LET spent == SpendLotsFifo(amount) IN
           /\ FifoSplits(amount) = IF spent.left = 0 THEN {spent.taken} ELSE {}
           /\ spent.left = AtLeastZero(amount - AvailableAmount)
<1> DEFINE n == Cardinality(UsableLots)
           order == BurnOrder
<1>1. PICK s : IsLoopTo(s, amount, n) /\ SpendLotsFifo(amount) = s[n]
  BY SpendIsLoop
<1> DEFINE f == [k \in 1..n |-> lots[order[k]].remaining]
           left == [k \in 0..n |-> s[k].left]
           taken == s[n].taken
<1>2. /\ n \in Nat
      /\ \A k \in 1..n : order[k] \in UsableLots /\ order[k] \in LotId /\ f[k] \in Nat \ {0}
      /\ \A l \in UsableLots : \E k \in 1..n : order[k] = l
      /\ \A j, k \in 1..n : j < k => BurnsBefore(order[j], order[k])
      /\ AvailableAmount = SumTo(f, n)
  <2>1. \A k \in 1..n : f[k] = lots[BurnOrder[k]].remaining
    OBVIOUS
  <2> HIDE DEF f
  <2> QED BY <2>1, OrderedLots
<1>3. /\ left[0] = amount
      /\ \A k \in 0..n : left[k] \in Nat
      /\ \A k \in 1..n : left[k] = left[k - 1] - Lesser(f[k], left[k - 1])
      /\ taken \in [LotId -> 0..amount]
      /\ \A k \in 1..n : taken[order[k]] = left[k - 1] - left[k]
      /\ \A l \in LotId \ UsableLots : taken[l] = 0
  <2>1. /\ s[0].left = amount
        /\ \A k \in 0..n : s[k].left \in 0..amount
        /\ \A k \in 1..n : s[k].left = s[k - 1].left - Lesser(lots[order[k]].remaining, s[k - 1].left)
        /\ s[n].taken \in [LotId -> 0..amount]
        /\ \A k \in 1..n : s[n].taken[order[k]] = s[k - 1].left - s[k].left
        /\ \A l \in LotId \ UsableLots : s[n].taken[l] = 0
    BY <1>1, LoopTurns
  <2>2. \A k \in 1..n : k \in 0..n /\ k - 1 \in 0..n
    BY <1>2
  <2>3. 0 \in 0..n
    BY <1>2
  <2>4. \A k \in 0..n : left[k] = s[k].left
    OBVIOUS
  <2>5. \A k \in 1..n : f[k] = lots[order[k]].remaining
    OBVIOUS
  <2> HIDE DEF left, f, n, order
  <2> QED BY <2>1, <2>2, <2>3, <2>4, <2>5
<1>4. s[n].left = left[n]
  BY <1>2
<1>5. UsableLots \in SUBSET DOMAIN lots /\ \A k \in 1..n : f[k] = lots[order[k]].remaining
  BY BurnOrderFacts
<1> HIDE DEF n, order, f, left, taken
<1>6. \A k \in 0..n : left[k] = AtLeastZero(amount - SumTo(f, k)) /\ SumTo(f, k) \in Nat
  <2>1. \A k \in 1..n : f[k] \in Nat
    BY <1>2
  <2> QED BY <1>2, <1>3, <2>1, LeftOfLoop
<1>7. left[n] = AtLeastZero(amount - AvailableAmount)
  BY <1>2, <1>6
<1>8. ASSUME NEW split \in FifoSplits(amount)
      PROVE  left[n] = 0 /\ split = taken
  <2> DEFINE t == [k \in 1..n |-> split[order[k]]]
  <2>1. /\ split \in [LotId -> 0..amount] /\ Total(split) = amount
        /\ \A l \in LotId : split[l] > 0 =>
              /\ l \in UsableLots /\ split[l] <= lots[l].remaining
              /\ \A k \in UsableLots : BurnsBefore(k, l) => split[k] = lots[k].remaining
    BY DEF FifoSplits
  <2>2. \A l \in LotId : split[l] \in Nat
    BY <2>1
  <2>3. \A l \in LotId \ UsableLots : split[l] = 0
    BY <2>1, <2>2
  <2>4. \A k \in 1..n : t[k] = split[order[k]]
    OBVIOUS
  <2> HIDE DEF t
  <2>5. \A k \in 1..n : t[k] \in Nat /\ t[k] <= f[k]
    <3> SUFFICES ASSUME NEW k \in 1..n PROVE t[k] \in Nat /\ t[k] <= f[k]
      OBVIOUS
    <3>1. t[k] = split[order[k]] /\ order[k] \in LotId /\ f[k] = lots[order[k]].remaining
          /\ f[k] \in Nat
      BY <1>2, <1>5, <2>4
    <3>2. t[k] \in Nat
      BY <2>2, <3>1
    <3>3. t[k] > 0 => t[k] <= f[k]
      BY <2>1, <3>1
    <3> QED BY <3>1, <3>2, <3>3
  <2>6. \A j, k \in 1..n : j < k /\ t[k] > 0 => t[j] = f[j]
    <3> SUFFICES ASSUME NEW j \in 1..n, NEW k \in 1..n, j < k, t[k] > 0 PROVE t[j] = f[j]
      OBVIOUS
    <3>1. BurnsBefore(order[j], order[k]) /\ order[j] \in UsableLots /\ order[k] \in LotId
      BY <1>2
    <3>2. split[order[k]] > 0
      BY <2>4
    <3>3. split[order[j]] = lots[order[j]].remaining
      BY <2>1, <3>1, <3>2
    <3> QED BY <1>5, <2>4, <3>3
  <2>7. SumTo(t, n) = amount
    <3>1. \A l \in LotId : split[l] \in Int
      BY <2>2
    <3>2. \A k \in 1..Cardinality(UsableLots) : t[k] = split[BurnOrder[k]]
      BY <2>4 DEF n, order
    <3>3. Total(split) = SumTo(t, Cardinality(UsableLots))
      BY <2>3, <3>1, <3>2, SplitReordered
    <3> QED BY <2>1, <3>3 DEF n
  <2>8. left[n] = 0 /\ \A k \in 1..n : t[k] = left[k - 1] - left[k]
    <3>1. Leaves(left, f, n, amount)
      BY <1>2, <1>3 DEF Leaves
    <3>2. Splits(t, f, n, amount)
      BY <2>5, <2>6, <2>7 DEF Splits
    <3> QED BY <3>1, <3>2, SplitIsLoop
  <2>9. \A l \in LotId : split[l] = taken[l]
    <3> SUFFICES ASSUME NEW l \in LotId PROVE split[l] = taken[l]
      OBVIOUS
    <3>1. CASE l \in UsableLots
      <4>1. PICK k \in 1..n : order[k] = l
        BY <1>2, <3>1
      <4> QED BY <1>3, <2>4, <2>8, <4>1
    <3>2. CASE l \notin UsableLots
      BY <1>3, <2>3, <3>2
    <3> QED BY <3>1, <3>2
  <2>10. split = taken
    BY <1>3, <2>1, <2>9
  <2> QED BY <2>8, <2>10
<1>9. ASSUME left[n] = 0 PROVE taken \in FifoSplits(amount)
  <2> DEFINE t == [k \in 1..n |-> taken[order[k]]]
  <2>1. Total(taken) = amount
    <3>1. \A k \in 1..n : t[k] = taken[order[k]]
      OBVIOUS
    <3> HIDE DEF t
    <3>2. SumTo(t, n) = left[0] - left[n]
      <4>1. (\A k \in 0..n : left[k] \in Int) /\ \A k \in 1..n : t[k] = left[k - 1] - left[k]
        BY <1>3, <3>1
      <4> QED BY <1>2, <4>1, TakenByLoop
    <3>3. Total(taken) = SumTo(t, Cardinality(UsableLots))
      <4>1. \A l \in LotId : taken[l] \in Int
        BY <1>3
      <4>2. \A k \in 1..Cardinality(UsableLots) : t[k] = taken[BurnOrder[k]]
        BY <3>1 DEF n, order
      <4> QED BY <1>3, <4>1, <4>2, SplitReordered
    <3> QED BY <1>3, <1>9, <3>2, <3>3 DEF n
  <2>2. ASSUME NEW l \in LotId, taken[l] > 0
        PROVE  /\ l \in UsableLots
               /\ taken[l] <= lots[l].remaining
               /\ \A j \in UsableLots : BurnsBefore(j, l) => taken[j] = lots[j].remaining
    <3>1. l \in UsableLots
      BY <1>3, <2>2
    <3>2. PICK k \in 1..n : order[k] = l
      BY <1>2, <3>1
    <3>3. /\ k - 1 \in 0..n /\ k \in Nat
          /\ left[k] \in Nat /\ left[k - 1] \in Nat /\ f[k] \in Nat
          /\ left[k] = left[k - 1] - Lesser(f[k], left[k - 1])
          /\ taken[l] = left[k - 1] - left[k] /\ f[k] = lots[l].remaining
      <4>1. k - 1 \in 0..n /\ k \in Nat /\ k \in 0..n
        BY <1>2
      <4> QED BY <1>2, <1>3, <1>5, <3>2, <4>1
    <3>4. taken[l] <= lots[l].remaining /\ left[k - 1] > 0
      BY <2>2, <3>3 DEF Lesser
    <3>5. ASSUME NEW j \in UsableLots, BurnsBefore(j, l) PROVE taken[j] = lots[j].remaining
      <4>1. PICK i \in 1..n : order[i] = j
        BY <1>2
      <4>2. i < k
        <5> SUFFICES ASSUME ~(i < k) PROVE FALSE
          OBVIOUS
        <5>1. i = k \/ k < i
          OBVIOUS
        <5>2. l = j \/ BurnsBefore(l, j)
          BY <1>2, <3>2, <4>1, <5>1
        <5>3. l \in DOMAIN lots /\ j \in DOMAIN lots
          BY <1>5, <3>1
        <5> QED BY <3>5, <5>2, <5>3, BurnsBeforeTotal
      <4>3. /\ i \in 0..n /\ i - 1 \in 0..n /\ i \in 0..(k - 1) /\ k - 1 \in Nat
            /\ \A h \in 1..(k - 1) : h \in 1..n
        BY <1>2, <4>2
      <4>4. SumTo(f, i) <= SumTo(f, k - 1)
        <5>1. \A h \in 1..(k - 1) : f[h] \in Nat
          BY <1>2, <4>3
        <5> QED BY <4>3, <5>1, SumToShorter
      <4>5. left[i] > 0
        <5>1. /\ left[i] = AtLeastZero(amount - SumTo(f, i)) /\ SumTo(f, i) \in Nat
              /\ left[k - 1] = AtLeastZero(amount - SumTo(f, k - 1)) /\ SumTo(f, k - 1) \in Nat
          BY <1>6, <3>3, <4>3
        <5> QED BY <3>4, <4>4, <5>1 DEF AtLeastZero
      <4>6. /\ left[i] \in Nat /\ left[i - 1] \in Nat /\ f[i] \in Nat
            /\ left[i] = left[i - 1] - Lesser(f[i], left[i - 1])
            /\ taken[j] = left[i - 1] - left[i] /\ f[i] = lots[j].remaining
        BY <1>2, <1>3, <1>5, <4>1, <4>3
      <4> QED BY <4>5, <4>6 DEF Lesser
    <3> QED BY <3>1, <3>4, <3>5
  <2> QED BY <1>3, <2>1, <2>2 DEF FifoSplits
<1>10. SpendLotsFifo(amount).left = left[n] /\ SpendLotsFifo(amount).taken = taken
  BY <1>1, <1>4 DEF taken
<1>11. FifoSplits(amount) = IF left[n] = 0 THEN {taken} ELSE {}
  BY <1>8, <1>9
<1> QED BY <1>7, <1>10, <1>11

\* A confirmation spends such a split.
LEMMA ConfirmSplits ==
    ASSUME TypeOK, NEW r \in DOMAIN requests, Confirm(r)
    PROVE  \E split \in FifoSplits(requests[r].spend) :
              /\ ApplyRedemption(r, split)
              /\ requests' = [requests EXCEPT ![r] = Resolved(requests[r], "CONFIRMED",
                    Len(txs) + 1 .. Len(txs) + Len(RedemptionTxs(r, split)))]
<1> DEFINE spent == SpendLotsFifo(requests[r].spend)
<1>1. requests[r].spend \in Nat
  <2>1. requests[r] \in Request
    BY DEF TypeOK
  <2> QED BY <2>1 DEF Request
<1>2. /\ spent.left = 0
      /\ ApplyRedemption(r, spent.taken)
      /\ requests' = [requests EXCEPT ![r] = Resolved(requests[r], "CONFIRMED",
            Len(txs) + 1 .. Len(txs) + Len(RedemptionTxs(r, spent.taken)))]
  BY DEF Confirm
<1>3. spent.taken \in FifoSplits(requests[r].spend)
  BY <1>1, <1>2, SpendIsFifo
<1> HIDE DEF spent
<1> QED BY <1>2, <1>3

\* A split takes from usable lots only, and from none more than it holds: this is what
\* keeps remaining_amount from going below zero.
LEMMA FifoSplitType ==
    ASSUME TypeOK, NEW amount \in Nat, NEW split \in FifoSplits(amount)
    PROVE  /\ split \in Split
           /\ Total(split) = amount
           /\ \A l \in DOMAIN lots : split[l] \in Nat /\ split[l] <= lots[l].remaining
           /\ \A l \in LotId : split[l] > 0 => /\ l \in DOMAIN lots
                                               /\ lots[l].status = "ACTIVE"
                                               /\ lots[l].expiresAt > now
<1>1. split \in [LotId -> 0..amount] /\ Total(split) = amount
  BY DEF FifoSplits
<1>2. \A l \in LotId : split[l] \in Nat
  BY <1>1
<1>3. split \in Split
  BY <1>1 DEF Split
<1>4. \A l \in LotId : split[l] > 0 => l \in UsableLots /\ split[l] <= lots[l].remaining
  BY DEF FifoSplits
<1>5. \A l \in LotId : split[l] > 0 => /\ l \in DOMAIN lots
                                       /\ lots[l].status = "ACTIVE"
                                       /\ lots[l].expiresAt > now
  BY <1>4 DEF UsableLots
<1>6. \A l \in DOMAIN lots : split[l] \in Nat /\ split[l] <= lots[l].remaining
  BY <1>2, <1>4, LotFields
<1> QED BY <1>1, <1>3, <1>5, <1>6

\* Confirming a request keeps the rows well-formed.
LEMMA ConfirmRows ==
    ASSUME RowsOK, NEW r \in DOMAIN requests, Confirm(r)
    PROVE  RowsOK'
<1> DEFINE spend == requests[r].spend
           earn == requests[r].earn
<1>1. TypeOK
  BY DEF RowsOK
<1>2. /\ requests[r] \in Request
      /\ spend \in Nat /\ earn \in Nat /\ requests[r].expiry \in Nat /\ r \in Nat
  <2>1. requests[r] \in Request /\ r \in Nat
    BY <1>1 DEF TypeOK
  <2> QED BY <2>1 DEF Request
<1>3. PICK split \in FifoSplits(spend) :
        /\ ApplyRedemption(r, split)
        /\ requests' = [requests EXCEPT ![r] = Resolved(requests[r], "CONFIRMED",
                          Len(txs) + 1 .. Len(txs) + Len(RedemptionTxs(r, split)))]
  BY <1>1, ConfirmSplits
<1>4. /\ UNCHANGED <<now, orgStatus, program, lotJobs, requestJobs>>
      /\ confirming' = confirming \ {r}
  BY DEF Confirm
<1> DEFINE result == Len(txs) + 1 .. Len(txs) + Len(RedemptionTxs(r, split))
           spentLots == [l \in DOMAIN lots |-> Consume(lots[l], split[l])]
           spendTx == SpendTx(spend, split, r)
           earnTx == EarnTx(earn, Len(lots) + 1, r)
           lot == NewLot(earn, requests[r].expiry, Len(txs) + 2)
<1>5. requests' \in Seq(Request) /\ DOMAIN requests' = DOMAIN requests
  <2>1. result \in SUBSET Nat
    <3>1. Len(txs) \in Nat
      BY <1>1 DEF TypeOK
    <3>2. RedemptionTxs(r, split) = <<spendTx, earnTx>> \/ RedemptionTxs(r, split) = <<spendTx>>
      BY DEF RedemptionTxs
    <3>3. Len(RedemptionTxs(r, split)) \in Nat
      BY <3>2
    <3> QED BY <3>1, <3>3
  <2>2. Resolved(requests[r], "CONFIRMED", result) \in Request
    BY <1>1, <1>2, <2>1, ResolvedType DEF TypeOK, RequestStatus
  <2>3. requests \in Seq(Request)
    BY <1>1 DEF TypeOK
  <2> QED BY <1>3, <2>2, <2>3, Updated
<1>6. /\ spentLots \in Seq(Lot) /\ Len(spentLots) = Len(lots)
      /\ DOMAIN spentLots = 1..Len(lots) /\ Len(lots) \in Nat
  <2>1. \A l \in DOMAIN lots : spentLots[l] \in Lot
    BY <1>1, <1>2, FifoSplitType, LotFields, ConsumeType
  <2>2. lots \in Seq(Lot)
    BY <1>1 DEF TypeOK
  <2> HIDE DEF spend
  <2> QED BY <2>1, <2>2, Replaced
<1>7. spendTx \in Tx /\ spendTx.type = "CASHBACK_SPEND"
  BY <1>1, <1>2, FifoSplitType, SpendTxType
<1>8. earnTx \in Tx /\ earnTx.lot = Len(lots) + 1
  <2>1. Len(lots) + 1 \in Nat
    BY <1>1 DEF TypeOK
  <2> QED BY <1>2, <2>1, EarnTxType
<1>9. lot \in Lot
  BY <1>1, <1>2 DEF TypeOK, NewLot, Lot, LotStatus
<1>10. /\ Room(Len(RedemptionTxs(r, split)), Len(RedemptionTxs(r, split)) - 1)
       /\ txs' = txs \o RedemptionTxs(r, split)
       /\ lots' = IF earn > 0 THEN Append(spentLots, lot) ELSE spentLots
       /\ state' = [state EXCEPT !.available = state.available - spend + earn,
                                 !.spent = state.spent + spend,
                                 !.earned = state.earned + earn]
  BY <1>3 DEF ApplyRedemption
<1>11. txs \in Seq(Tx) /\ Len(txs) \in Nat /\ DOMAIN txs = 1..Len(txs)
  BY <1>1 DEF TypeOK
<1>12. state' \in State
  <2>1. /\ state.available - spend + earn \in Int
        /\ state.spent + spend \in Nat /\ state.earned + earn \in Nat
    <3>1. state \in State
      BY <1>1 DEF TypeOK
    <3>2. state.available \in Int /\ state.spent \in Nat /\ state.earned \in Nat
      BY <3>1 DEF State
    <3> QED BY <1>2, <3>2
  <2> QED BY <1>1, <1>10, <2>1, StateType DEF TypeOK
<1> HIDE DEF spentLots, spendTx, earnTx, lot, spend
<1>13. /\ lots' \in Seq(Lot) /\ Len(lots') <= MaxLots /\ DOMAIN lots \subseteq DOMAIN lots'
       /\ txs' \in Seq(Tx) /\ DOMAIN txs \subseteq DOMAIN txs'
       /\ \A t \in DOMAIN txs : txs'[t] = txs[t]
       /\ \A t \in DOMAIN txs' \ DOMAIN txs :
             txs'[t].type = "CASHBACK_EARN" => txs'[t].lot \in DOMAIN lots'
  <2>1. CASE earn > 0
    <3>1. RedemptionTxs(r, split) = <<spendTx, earnTx>>
      BY <2>1 DEF RedemptionTxs, spendTx, earnTx, spend
    <3>2. txs' = Append(Append(txs, spendTx), earnTx) /\ Append(txs, spendTx) \in Seq(Tx)
      BY <1>7, <1>8, <1>10, <1>11, <3>1, TwoAppended, Appended
    <3>3. /\ txs' \in Seq(Tx) /\ DOMAIN txs' = 1..(Len(txs) + 2)
          /\ \A t \in DOMAIN txs : txs'[t] = txs[t]
          /\ txs'[Len(txs) + 1] = spendTx /\ txs'[Len(txs) + 2] = earnTx
      BY <1>7, <1>8, <1>11, <3>2
    <3>4. /\ lots' \in Seq(Lot) /\ Len(lots') = Len(lots) + 1 /\ DOMAIN lots' = 1..(Len(lots) + 1)
      BY <1>6, <1>9, <1>10, <2>1, Appended
    <3>5. Len(lots) + 1 <= MaxLots
      BY <1>6, <1>10, <3>1, ConstantTypes DEF Room
    <3>6. ASSUME NEW t \in DOMAIN txs' \ DOMAIN txs, txs'[t].type = "CASHBACK_EARN"
          PROVE  txs'[t].lot \in DOMAIN lots'
      <4>1. t = Len(txs) + 1 \/ t = Len(txs) + 2
        BY <1>11, <3>3, <3>6
      <4>2. t = Len(txs) + 2
        BY <1>7, <3>3, <3>6, <4>1
      <4> QED BY <1>6, <1>8, <3>3, <3>4, <4>2
    <3>7. DOMAIN lots = 1..Len(lots)
      BY <1>1 DEF TypeOK
    <3> QED BY <1>6, <1>11, <3>3, <3>4, <3>5, <3>6, <3>7
  <2>2. CASE ~(earn > 0)
    <3>1. RedemptionTxs(r, split) = <<spendTx>>
      BY <2>2 DEF RedemptionTxs, spendTx, earnTx, spend
    <3>2. txs' = Append(txs, spendTx)
      BY <1>7, <1>8, <1>10, <1>11, <3>1, TwoAppended
    <3>3. /\ txs' \in Seq(Tx) /\ DOMAIN txs' = 1..(Len(txs) + 1)
          /\ \A t \in DOMAIN txs : txs'[t] = txs[t]
          /\ txs'[Len(txs) + 1] = spendTx
      BY <1>7, <1>11, <3>2, Appended
    <3>4. lots' = spentLots
      BY <1>10, <2>2
    <3> QED BY <1>1, <1>6, <1>7, <1>11, <3>3, <3>4 DEF TypeOK
  <2> QED BY <2>1, <2>2
<1>14. TypeOK'
  BY <1>1, <1>4, <1>5, <1>12, <1>13 DEF TypeOK
<1>15. JobsInRange'
  BY <1>4, <1>5, <1>13 DEF RowsOK, JobsInRange
<1>16. EarnLotsExist'
  BY <1>13 DEF RowsOK, EarnLotsExist
<1> QED BY <1>14, <1>15, <1>16 DEF RowsOK

\* What marking an entry and adding its compensation does to the ledger.
LEMMA ReversedType ==
    ASSUME TypeOK, NEW t \in DOMAIN txs, NEW c \in Tx
    PROVE  LET after == Reversed(t, c) IN
           /\ after \in Seq(Tx)
           /\ Len(after) = Len(txs) + 1
           /\ DOMAIN after = 1..(Len(txs) + 1)
           /\ \A u \in DOMAIN txs : u # t => after[u] = txs[u]
           /\ after[t] = [txs[t] EXCEPT !.status = "REVERSED"]
           /\ after[Len(txs) + 1] = c
<1> DEFINE mark == [txs[t] EXCEPT !.status = "REVERSED"]
           marked == [txs EXCEPT ![t] = mark]
<1>1. txs \in Seq(Tx) /\ txs[t] \in Tx
  BY TxFields DEF TypeOK
<1>2. mark \in Tx
  BY <1>1, Zenon DEF Tx
<1>3. Reversed(t, c) = Append(marked, c)
  BY DEF Reversed
<1> HIDE DEF mark
<1>4. /\ marked \in Seq(Tx) /\ Len(marked) = Len(txs) /\ DOMAIN marked = DOMAIN txs
      /\ marked[t] = mark /\ \A u \in DOMAIN txs : u # t => marked[u] = txs[u]
  BY <1>1, <1>2, Updated
<1> HIDE DEF marked
<1>5. DOMAIN marked = 1..Len(txs)
  BY <1>1, <1>4
<1>6. /\ Append(marked, c) \in Seq(Tx)
      /\ Len(Append(marked, c)) = Len(txs) + 1
      /\ DOMAIN Append(marked, c) = 1..(Len(txs) + 1)
      /\ \A u \in DOMAIN txs : Append(marked, c)[u] = marked[u]
      /\ Append(marked, c)[Len(txs) + 1] = c
  BY <1>4, Appended
<1> QED BY <1>3, <1>4, <1>6 DEF mark

\* Marking an entry REVERSED leaves its other fields alone.
LEMMA MarkedFields ==
    ASSUME NEW tx \in Tx
    PROVE  LET after == [tx EXCEPT !.status = "REVERSED"] IN
           /\ after.status = "REVERSED"
           /\ after.type = tx.type /\ after.amount = tx.amount /\ after.lot = tx.lot
           /\ after.consumed = tx.consumed /\ after.redemption = tx.redemption
           /\ after.related = tx.related
BY DEF Tx

\* Reversing an earning keeps the rows well-formed: the lot it names exists.
LEMMA ReverseEarnRows ==
    ASSUME RowsOK, NEW t \in DOMAIN txs, NEW force \in BOOLEAN, ReverseEarn(t, force)
    PROVE  RowsOK'
<1> DEFINE l == txs[t].lot
           withdrawn == lots[l].remaining
           spentPart == lots[l].original - lots[l].remaining
           c == ReversalTx(-withdrawn, t, spentPart)
<1>1. TypeOK
  BY DEF RowsOK
<1>2. /\ Reversible(t, "CASHBACK_EARN")
      /\ lots' = [lots EXCEPT ![l] = Emptied(lots[l], "CANCELLED")]
      /\ txs' = Reversed(t, c)
      /\ state' = [state EXCEPT !.available = AtLeastZero(state.available - withdrawn),
                                !.earned = AtLeastZero(state.earned - txs[t].amount)]
      /\ UNCHANGED <<now, orgStatus, program, requests, lotJobs, requestJobs, confirming>>
  BY DEF ReverseEarn
<1>3. l \in DOMAIN lots
  BY <1>2 DEF RowsOK, EarnLotsExist, Reversible
<1>4. withdrawn \in Nat /\ spentPart \in Int /\ lots[l] \in Lot
  BY <1>1, <1>3, LotFields
<1>5. lots' \in Seq(Lot) /\ DOMAIN lots' = DOMAIN lots /\ Len(lots') = Len(lots)
  <2>1. Emptied(lots[l], "CANCELLED") \in Lot
    BY <1>4, LotType DEF Emptied, LotStatus
  <2>2. lots \in Seq(Lot)
    BY <1>1 DEF TypeOK
  <2> HIDE DEF l
  <2> QED BY <1>2, <1>3, <2>1, <2>2, Updated
<1>6. c \in Tx /\ c.type = "REVERSAL"
  BY <1>1, <1>4, TxFields, ReversalTxType
<1> HIDE DEF c
<1>7. /\ txs' \in Seq(Tx)
      /\ \A u \in DOMAIN txs' : txs'[u].type = "CASHBACK_EARN"
            => u \in DOMAIN txs /\ txs[u].type = "CASHBACK_EARN" /\ txs'[u].lot = txs[u].lot
  <2>1. /\ txs' \in Seq(Tx) /\ DOMAIN txs' = 1..(Len(txs) + 1)
        /\ \A u \in DOMAIN txs : u # t => txs'[u] = txs[u]
        /\ txs'[t] = [txs[t] EXCEPT !.status = "REVERSED"]
        /\ txs'[Len(txs) + 1] = c
    BY <1>1, <1>2, <1>6, ReversedType
  <2>2. txs'[t].type = txs[t].type /\ txs'[t].lot = txs[t].lot
    BY <1>1, <2>1, TxFields, MarkedFields
  <2>3. DOMAIN txs = 1..Len(txs) /\ Len(txs) \in Nat
    BY <1>1 DEF TypeOK
  <2>4. ASSUME NEW u \in DOMAIN txs', txs'[u].type = "CASHBACK_EARN"
        PROVE  u \in DOMAIN txs /\ txs[u].type = "CASHBACK_EARN" /\ txs'[u].lot = txs[u].lot
    <3>1. u \in DOMAIN txs
      BY <1>6, <2>1, <2>3, <2>4
    <3> QED BY <2>1, <2>2, <2>4, <3>1
  <2> QED BY <2>1, <2>4
<1>8. state' \in State
  <2>1. state \in State
    BY <1>1 DEF TypeOK
  <2>2. state.available \in Int /\ state.earned \in Nat
    BY <2>1 DEF State
  <2>3. txs[t].amount \in Int
    BY <1>1, TxFields
  <2>4. /\ AtLeastZero(state.available - withdrawn) \in Int
        /\ AtLeastZero(state.earned - txs[t].amount) \in Nat
    BY <1>4, <2>2, <2>3 DEF AtLeastZero
  <2> QED BY <1>2, <2>1, <2>4, StateType
<1>9. TypeOK'
  BY <1>1, <1>2, <1>5, <1>7, <1>8 DEF TypeOK
<1>10. JobsInRange'
  BY <1>2, <1>5 DEF RowsOK, JobsInRange
<1>11. EarnLotsExist'
  BY <1>5, <1>7 DEF RowsOK, EarnLotsExist
<1> QED BY <1>9, <1>10, <1>11 DEF RowsOK

\* What a reversal restores is a natural.
LEMMA RestoredType ==
    ASSUME NEW split \in Split, NEW back
    PROVE  Total([l \in LotId |-> IF l \in back THEN split[l] ELSE 0]) \in Nat
<1> DEFINE f == [l \in LotId |-> IF l \in back THEN split[l] ELSE 0]
<1>1. \A l \in 1..MaxLots : f[l] \in Nat
  BY DEF Split, LotId
<1> HIDE DEF f
<1>2. Total(f) \in Nat
  BY <1>1, ConstantTypes, SumToNonNegative DEF Total
<1> QED BY <1>2 DEF f

\* Reversing a spend keeps the rows well-formed.
LEMMA ReverseSpendRows ==
    ASSUME RowsOK, NEW t \in DOMAIN txs, ReverseSpend(t)
    PROVE  RowsOK'
<1> DEFINE split == txs[t].consumed
           back == Restorable(split)
           restored == Total([l \in LotId |-> IF l \in back THEN split[l] ELSE 0])
           restoredLots == [l \in DOMAIN lots |->
                              IF l \in back
                              THEN [lots[l] EXCEPT !.remaining = lots[l].remaining + split[l],
                                                   !.status = "ACTIVE"]
                              ELSE lots[l]]
           c == ReversalTx(restored, t, 0)
<1>1. TypeOK
  BY DEF RowsOK
<1>2. /\ lots' = restoredLots
      /\ txs' = Reversed(t, c)
      /\ state' = [state EXCEPT !.available = state.available + restored,
                                !.spent = AtLeastZero(state.spent - txs[t].amount)]
      /\ UNCHANGED <<now, orgStatus, program, requests, lotJobs, requestJobs, confirming>>
  BY DEF ReverseSpend
<1>3. split \in Split /\ restored \in Nat /\ t \in Nat
  BY <1>1, TxFields, RestoredType
<1>4. c \in Tx /\ c.type = "REVERSAL"
  BY <1>3, ReversalTxType
<1>5. /\ restoredLots \in Seq(Lot) /\ DOMAIN restoredLots = DOMAIN lots
      /\ Len(restoredLots) = Len(lots)
  <2>1. ASSUME NEW l \in DOMAIN lots PROVE restoredLots[l] \in Lot
    <3>1. lots[l] \in Lot /\ lots[l].remaining \in Nat /\ split[l] \in Nat
      BY <1>1, <1>3, LotFields DEF Split
    <3>2. lots[l].remaining + split[l] \in Nat /\ "ACTIVE" \in LotStatus
      BY <3>1 DEF LotStatus
    <3>3. [lots[l] EXCEPT !.remaining = lots[l].remaining + split[l], !.status = "ACTIVE"] \in Lot
      BY <3>1, <3>2, LotType
    <3> QED BY <3>1, <3>3
  <2>2. lots \in Seq(Lot)
    BY <1>1 DEF TypeOK
  <2>3. DOMAIN restoredLots = DOMAIN lots /\ restoredLots = [l \in DOMAIN lots |-> restoredLots[l]]
    OBVIOUS
  <2> HIDE DEF restoredLots
  <2> QED BY <2>1, <2>2, <2>3, Replaced
<1> HIDE DEF restoredLots, c
<1>6. /\ txs' \in Seq(Tx)
      /\ \A u \in DOMAIN txs' : txs'[u].type = "CASHBACK_EARN"
            => u \in DOMAIN txs /\ txs[u].type = "CASHBACK_EARN" /\ txs'[u].lot = txs[u].lot
  <2>1. /\ txs' \in Seq(Tx) /\ DOMAIN txs' = 1..(Len(txs) + 1)
        /\ \A u \in DOMAIN txs : u # t => txs'[u] = txs[u]
        /\ txs'[t] = [txs[t] EXCEPT !.status = "REVERSED"]
        /\ txs'[Len(txs) + 1] = c
    BY <1>1, <1>2, <1>4, ReversedType
  <2>2. txs'[t].type = txs[t].type /\ txs'[t].lot = txs[t].lot
    BY <1>1, <2>1, TxFields, MarkedFields
  <2>3. DOMAIN txs = 1..Len(txs) /\ Len(txs) \in Nat
    BY <1>1 DEF TypeOK
  <2>4. ASSUME NEW u \in DOMAIN txs', txs'[u].type = "CASHBACK_EARN"
        PROVE  u \in DOMAIN txs /\ txs[u].type = "CASHBACK_EARN" /\ txs'[u].lot = txs[u].lot
    <3>1. u \in DOMAIN txs
      BY <1>4, <2>1, <2>3, <2>4
    <3> QED BY <2>1, <2>2, <2>4, <3>1
  <2> QED BY <2>1, <2>4
<1>7. state' \in State
  <2>1. state \in State
    BY <1>1 DEF TypeOK
  <2>2. state.available \in Int /\ state.spent \in Nat
    BY <2>1 DEF State
  <2>3. txs[t].amount \in Int
    BY <1>1, TxFields
  <2> HIDE DEF restored
  <2>4. /\ state.available + restored \in Int
        /\ AtLeastZero(state.spent - txs[t].amount) \in Nat
    BY <1>3, <2>2, <2>3 DEF AtLeastZero
  <2> QED BY <1>2, <2>1, <2>4, StateType
<1>8. TypeOK'
  BY <1>1, <1>2, <1>5, <1>6, <1>7 DEF TypeOK
<1>9. JobsInRange'
  BY <1>2, <1>5 DEF RowsOK, JobsInRange
<1>10. EarnLotsExist'
  BY <1>2, <1>5, <1>6 DEF RowsOK, EarnLotsExist
<1> QED BY <1>8, <1>9, <1>10 DEF RowsOK

-----------------------------------------------------------------------------

\* The empty database is well-formed.
LEMMA InitRows == Init => RowsOK
<1> SUFFICES ASSUME Init PROVE RowsOK
  OBVIOUS
<1>1. lots = <<>> /\ txs = <<>> /\ requests = <<>>
  BY DEF Init
<1>2. lots \in Seq(Lot) /\ txs \in Seq(Tx) /\ requests \in Seq(Request) /\ Len(lots) <= MaxLots
  BY <1>1, ConstantTypes
<1>3. Idle \in Job /\ Idle.ids = {} /\ Idle.at = 0
  BY DEF Idle, Job
<1>4. state \in State
  BY DEF Init, State
<1>5. lotJobs \in [LotWorkers -> Job] /\ requestJobs \in [RequestWorkers -> Job]
  BY <1>3 DEF Init
<1>6. TypeOK
  BY <1>2, <1>4, <1>5 DEF Init, TypeOK
<1>7. JobsInRange
  BY <1>3 DEF Init, JobsInRange
<1>8. EarnLotsExist
  BY <1>1 DEF EarnLotsExist
<1> QED BY <1>6, <1>7, <1>8 DEF RowsOK

\* Every step keeps the rows well-formed.
LEMMA NextRows == RowsOK /\ [Next]_vars => RowsOK'
<1> SUFFICES ASSUME RowsOK, [Next]_vars PROVE RowsOK'
  OBVIOUS
<1>1. ASSUME NEW total \in Amounts, EarnOnly(total) PROVE RowsOK'
  BY <1>1, EarnOnlyRows
<1>2. ASSUME NEW total \in Amounts, NEW spend \in Amounts, CreateCashbackRequest(total, spend)
      PROVE RowsOK'
  BY <1>2, CreateRows
<1>3. ASSUME NEW r \in DOMAIN requests, Confirm(r) PROVE RowsOK'
  BY <1>3, ConfirmRows
<1>16. ASSUME NEW r \in DOMAIN requests, BeginConfirm(r) \/ AbandonConfirm(r) PROVE RowsOK'
  BY <1>16, HoldRows
<1>4. ASSUME NEW r \in DOMAIN requests, Reject(r) PROVE RowsOK'
  <2>1. "REJECTED" \in RequestStatus
    BY DEF RequestStatus
  <2> QED BY <1>4, <2>1, ResolveRows DEF Reject
<1>5. ASSUME NEW r \in DOMAIN requests, CancelByAdmin(r) PROVE RowsOK'
  <2>1. "CANCELLED" \in RequestStatus
    BY DEF RequestStatus
  <2> QED BY <1>5, <2>1, ResolveRows DEF CancelByAdmin
<1>6. ASSUME NEW t \in DOMAIN txs, ReverseSpend(t) PROVE RowsOK'
  BY <1>6, ReverseSpendRows
<1>7. ASSUME NEW t \in DOMAIN txs, NEW force \in BOOLEAN, ReverseEarn(t, force) PROVE RowsOK'
  BY <1>7, ReverseEarnRows
<1>8. ASSUME NEW w \in LotWorkers, StartLotSweep(w) \/ AbortLotSweep(w) PROVE RowsOK'
  BY <1>8, SweepStartRows
<1>9. ASSUME NEW w \in LotWorkers, NEW l \in lotJobs[w].ids, ExpireLot(w, l) PROVE RowsOK'
  BY <1>9, ExpireLotRows
<1>10. ASSUME NEW w \in RequestWorkers, StartRequestSweep(w) \/ AbortRequestSweep(w)
       PROVE RowsOK'
  BY <1>10, SweepStartRows
<1>11. ASSUME NEW w \in RequestWorkers, NEW r \in requestJobs[w].ids, ExpireRequest(w, r)
       PROVE RowsOK'
  BY <1>11, ExpireRequestRows
<1>12. ASSUME NEW status \in {"ACTIVE", "BLOCKED"}, SetOrganizationStatus(status) PROVE RowsOK'
  BY <1>12 DEF SetOrganizationStatus, RowsOK, TypeOK, JobsInRange, EarnLotsExist
<1>13. ASSUME NEW settings \in Programs, UpdateProgram(settings) PROVE RowsOK'
  BY <1>13 DEF UpdateProgram, RowsOK, TypeOK, JobsInRange, EarnLotsExist
<1>14. CASE Tick
  <2>1. now \in Nat /\ now' = now + 1
    BY <1>14 DEF Tick, RowsOK, TypeOK
  <2>2. TypeOK'
    BY <1>14, <2>1 DEF Tick, RowsOK, TypeOK
  <2>3. \A w \in LotWorkers : lotJobs[w].at \in Nat
    BY DEF RowsOK, TypeOK, Job
  <2>4. \A w \in RequestWorkers : requestJobs[w].at \in Nat
    BY DEF RowsOK, TypeOK, Job
  <2>5. JobsInRange'
    BY <1>14, <2>1, <2>3, <2>4 DEF Tick, RowsOK, JobsInRange
  <2> QED BY <1>14, <2>2, <2>5 DEF Tick, RowsOK, EarnLotsExist
<1>15. CASE UNCHANGED vars
  BY <1>15 DEF vars, RowsOK, TypeOK, JobsInRange, EarnLotsExist
<1> QED BY <1>1, <1>2, <1>3, <1>4, <1>5, <1>6, <1>7, <1>8, <1>9, <1>10, <1>11, <1>12, <1>13,
           <1>14, <1>15, <1>16 DEF Next

\* The inductive invariant: rows of the right shape, jobs that name only rows that exist
\* and read their clock in the past, earnings that name a lot that exists.
THEOREM RowsCorrect == Spec => []RowsOK
BY InitRows, NextRows, PTL DEF Spec

\* Whatever the constants, every row keeps the shape of its model; in particular no lot's
\* remaining_amount and no total of the aggregate goes below zero.
THEOREM TypeCorrect == Spec => []TypeOK
<1>1. RowsOK => TypeOK
  BY DEF RowsOK
<1> QED BY <1>1, RowsCorrect, PTL

\* Whatever the balance, a spend is first in, first out: see SpendIsFifo.
SpendsFifo ==
    \A amount \in Nat :
        LET spent == SpendLotsFifo(amount) IN
        /\ FifoSplits(amount) = IF spent.left = 0 THEN {spent.taken} ELSE {}
        /\ spent.left = AtLeastZero(amount - AvailableAmount)

\* The loop of _spend_lots_fifo never takes a tyiyn from a lot while one that burns earlier
\* still holds something, never overdraws a lot, and raises INSUFFICIENT_CASHBACK exactly
\* when the usable lots together hold less than the amount, by what they lack.
THEOREM SpendsFifoCorrect == Spec => []SpendsFifo
<1>1. TypeOK => SpendsFifo
  BY SpendIsFifo DEF SpendsFifo
<1> QED BY <1>1, TypeCorrect, PTL

-----------------------------------------------------------------------------

\* Adding an entry leaves the earlier ones alone.
LEMMA PrefixKept ==
    ASSUME NEW S, NEW s \in Seq(S), NEW e
    PROVE  /\ Len(Append(s, e)) >= Len(s)
           /\ \A i \in DOMAIN s : Append(s, e)[i] = s[i]
OBVIOUS

\* While a confirmation holds the row of a request, nobody else decides it.
LockedPending == \A r \in confirming : requests[r].status = "PENDING"

\* What one step may do with the requests: make one, lock one, let go of one, or decide one.
Decides(r, outcome) ==
    /\ requests[r].status = "PENDING"
    /\ \E result : requests' = [requests EXCEPT ![r] = Resolved(requests[r], outcome, result)]

RequestStep ==
    \/ UNCHANGED <<requests, confirming>>
    \/ UNCHANGED confirming /\ \E request : /\ requests' = Append(requests, request)
                                            /\ request.status = "PENDING"
    \/ UNCHANGED <<now, requests>> /\ \E r \in DOMAIN requests :
          /\ confirming' = confirming \cup {r}
          /\ requests[r].status = "PENDING" /\ now < requests[r].expiresAt
    \/ UNCHANGED <<now, requests>> /\ \E r \in confirming : confirming' = confirming \ {r}
    \/ UNCHANGED now /\ \E r \in confirming :
          Decides(r, "CONFIRMED") /\ confirming' = confirming \ {r}
    \/ UNCHANGED <<now, confirming>> /\ \E r \in DOMAIN requests \ confirming :
          \/ Decides(r, "REJECTED") \/ Decides(r, "CANCELLED")
          \/ Decides(r, "EXPIRED") /\ requests[r].expiresAt <= now

\* What every step does with the requests and their locks.
LEMMA RequestSteps ==
    ASSUME RowsOK, LockedPending, [Next]_vars
    PROVE  RequestStep
<1>1. TypeOK /\ JobsInRange /\ now \in Nat /\ requests \in Seq(Request)
  BY DEF RowsOK, TypeOK
<1>2. ASSUME NEW total \in Amounts, NEW spend \in Amounts, CreateCashbackRequest(total, spend)
      PROVE  RequestStep
  BY <1>2 DEF CreateCashbackRequest, RequestStep
<1>3. ASSUME NEW r \in DOMAIN requests, BeginConfirm(r) PROVE RequestStep
  BY <1>3 DEF BeginConfirm, Confirmable, RequestStep
<1>4. ASSUME NEW r \in DOMAIN requests, AbandonConfirm(r) PROVE RequestStep
  BY <1>4 DEF AbandonConfirm, RequestStep
<1>5. ASSUME NEW r \in DOMAIN requests, Confirm(r) PROVE RequestStep
  <2>1. PICK result : requests' = [requests EXCEPT ![r] = Resolved(requests[r], "CONFIRMED", result)]
    BY <1>5 DEF Confirm
  <2>2. r \in confirming /\ confirming' = confirming \ {r} /\ UNCHANGED now
    BY <1>5 DEF Confirm
  <2>3. Decides(r, "CONFIRMED")
    BY <2>1, <2>2 DEF Decides, LockedPending
  <2> QED BY <2>2, <2>3 DEF RequestStep
<1>6. ASSUME NEW r \in DOMAIN requests, Reject(r) PROVE RequestStep
  <2>1. r \notin confirming /\ Decides(r, "REJECTED") /\ UNCHANGED <<now, confirming>>
    BY <1>6 DEF Reject, Resolve, Unlocked, Decides
  <2> QED BY <2>1 DEF RequestStep
<1>7. ASSUME NEW r \in DOMAIN requests, CancelByAdmin(r) PROVE RequestStep
  <2>1. r \notin confirming /\ Decides(r, "CANCELLED") /\ UNCHANGED <<now, confirming>>
    BY <1>7 DEF CancelByAdmin, Resolve, Unlocked, Decides
  <2> QED BY <2>1 DEF RequestStep
<1>8. ASSUME NEW w \in RequestWorkers, NEW r \in requestJobs[w].ids, ExpireRequest(w, r) PROVE RequestStep
  <2>1. r \in DOMAIN requests /\ requestJobs[w].at <= now /\ requestJobs[w].at \in Nat
    BY <1>1 DEF JobsInRange, TypeOK, Job
  <2>2. r \notin confirming /\ UNCHANGED <<now, confirming>>
    BY <1>8 DEF ExpireRequest, Unlocked
  <2>3. CASE ExpiryDue(requests[r], requestJobs[w].at)
    <3>1. requests[r].expiresAt \in Nat
      <4>1. requests[r] \in Request
        BY <1>1, <2>1
      <4> QED BY <4>1 DEF Request
    <3>2. requests[r].status = "PENDING" /\ requests[r].expiresAt <= now
      BY <1>1, <2>1, <2>3, <3>1 DEF ExpiryDue
    <3>3. Decides(r, "EXPIRED")
      BY <1>8, <2>3, <3>2 DEF ExpireRequest, Decides
    <3> QED BY <2>1, <2>2, <3>2, <3>3 DEF RequestStep
  <2>4. CASE ~ExpiryDue(requests[r], requestJobs[w].at)
    BY <1>8, <2>2, <2>4 DEF ExpireRequest, RequestStep
  <2> QED BY <2>3, <2>4
<1>9. \/ UNCHANGED <<requests, confirming>>
      \/ \E total \in Amounts, spend \in Amounts : CreateCashbackRequest(total, spend)
      \/ \E r \in DOMAIN requests : \/ BeginConfirm(r) \/ AbandonConfirm(r) \/ Confirm(r)
                                   \/ Reject(r) \/ CancelByAdmin(r)
      \/ \E w \in RequestWorkers : \E r \in requestJobs[w].ids : ExpireRequest(w, r)
  BY DEF Next, vars, EarnOnly, ReverseEarn, ReverseSpend, StartLotSweep, AbortLotSweep,
         ExpireLot, StartRequestSweep, AbortRequestSweep, SetOrganizationStatus,
         UpdateProgram, Tick
<1> QED BY <1>2, <1>3, <1>4, <1>5, <1>6, <1>7, <1>8, <1>9 DEF RequestStep

\* What deciding a request leaves of the table.
LEMMA Decided ==
    ASSUME TypeOK, NEW r \in DOMAIN requests, NEW outcome, Decides(r, outcome)
    PROVE  /\ DOMAIN requests' = DOMAIN requests
           /\ requests[r].status = "PENDING" /\ requests'[r].status = outcome
           /\ requests'[r].expiresAt = requests[r].expiresAt
           /\ \A q \in DOMAIN requests : q # r => requests'[q] = requests[q]
<1>1. requests[r] \in Request /\ requests \in Seq(Request)
  BY DEF TypeOK
<1>2. PICK result : requests' = [requests EXCEPT ![r] = Resolved(requests[r], outcome, result)]
  BY DEF Decides
<1> DEFINE after == Resolved(requests[r], outcome, result)
<1>3. after.status = outcome /\ after.expiresAt = requests[r].expiresAt
  BY <1>1 DEF Resolved, Request
<1>4. requests' = [requests EXCEPT ![r] = after]
  BY <1>2
<1> HIDE DEF after
<1> QED BY <1>1, <1>3, <1>4 DEF Decides

\* Every step keeps the locked requests PENDING and respects the deadlines.
LEMMA DeadlineStep ==
    ASSUME RowsOK, LockedPending, [Next]_vars
    PROVE  /\ LockedPending'
           /\ \A r \in DOMAIN requests :
                 /\ requests[r].status # "PENDING" => requests'[r] = requests[r]
                 /\ Lapsed(r) => Lapsed(r)'
                 /\ requests'[r].status = "EXPIRED" /\ requests[r].status # "EXPIRED" => Lapsed(r)
<1> DEFINE Respected(r) ==
              /\ requests[r].status # "PENDING" => requests'[r] = requests[r]
              /\ Lapsed(r) => Lapsed(r)'
              /\ requests'[r].status = "EXPIRED" /\ requests[r].status # "EXPIRED" => Lapsed(r)
           Goal == LockedPending' /\ \A r \in DOMAIN requests : Respected(r)
<1>1. /\ TypeOK /\ requests \in Seq(Request) /\ now \in Nat
      /\ confirming \subseteq DOMAIN requests
      /\ \A q \in DOMAIN requests : requests[q].expiresAt \in Nat
  <2>1. TypeOK
    BY DEF RowsOK
  <2>2. \A q \in DOMAIN requests : requests[q] \in Request
    BY <2>1 DEF TypeOK
  <2> QED BY <2>1, <2>2 DEF TypeOK, Request
<1>2. now' \in Nat /\ now <= now'
  <2>1. now' = now \/ now' = now + 1
    BY DEF Next, vars, EarnOnly, CreateCashbackRequest, BeginConfirm, AbandonConfirm, Confirm,
           Reject, CancelByAdmin, ReverseEarn, ReverseSpend, StartLotSweep, AbortLotSweep,
           ExpireLot, StartRequestSweep, AbortRequestSweep, ExpireRequest,
           SetOrganizationStatus, UpdateProgram, Tick
  <2> QED BY <1>1, <2>1
<1>3. ASSUME UNCHANGED <<requests, confirming>> PROVE Goal
  BY <1>1, <1>2, <1>3 DEF LockedPending, Lapsed, Unlocked
<1>4. ASSUME NEW request, requests' = Append(requests, request), UNCHANGED confirming PROVE Goal
  <2>1. \A q \in DOMAIN requests : requests'[q] = requests[q]
    BY <1>1, <1>4, PrefixKept
  <2> QED BY <1>1, <1>2, <1>4, <2>1 DEF LockedPending, Lapsed, Unlocked
<1>5. ASSUME NEW r \in DOMAIN requests, UNCHANGED <<now, requests>>,
             confirming' = confirming \cup {r},
             requests[r].status = "PENDING", now < requests[r].expiresAt
      PROVE  Goal
  <2>1. LockedPending'
    BY <1>5 DEF LockedPending
  <2>2. ASSUME NEW q \in DOMAIN requests PROVE Respected(q)
    <3>1. requests'[q] = requests[q] /\ now' = now
      BY <1>5
    <3>2. Lapsed(q) => q # r
      BY <1>1, <1>5 DEF Lapsed
    <3> QED BY <1>5, <3>1, <3>2 DEF Lapsed, Unlocked
  <2> HIDE DEF Respected
  <2> QED BY <2>1, <2>2
<1>6. ASSUME NEW r \in confirming, UNCHANGED <<now, requests>>, confirming' = confirming \ {r}
      PROVE  Goal
  BY <1>6 DEF LockedPending, Lapsed, Unlocked
<1>7. ASSUME NEW r \in confirming, UNCHANGED now, Decides(r, "CONFIRMED"),
             confirming' = confirming \ {r}
      PROVE  Goal
  <2>1. /\ requests[r].status = "PENDING" /\ requests'[r].status = "CONFIRMED"
        /\ \A q \in DOMAIN requests : q # r => requests'[q] = requests[q]
    BY <1>1, <1>7, Decided
  <2>2. LockedPending'
    BY <1>1, <1>7, <2>1 DEF LockedPending
  <2>3. ASSUME NEW q \in DOMAIN requests PROVE Respected(q)
    BY <1>7, <2>1 DEF Lapsed, Unlocked
  <2> HIDE DEF Respected
  <2> QED BY <2>2, <2>3
<1>8. ASSUME NEW r \in DOMAIN requests \ confirming, UNCHANGED <<now, confirming>>,
             NEW outcome \in {"REJECTED", "CANCELLED", "EXPIRED"}, Decides(r, outcome),
             outcome = "EXPIRED" => requests[r].expiresAt <= now
      PROVE  Goal
  <2>1. /\ requests[r].status = "PENDING" /\ requests'[r].status = outcome
        /\ requests'[r].expiresAt = requests[r].expiresAt
        /\ \A q \in DOMAIN requests : q # r => requests'[q] = requests[q]
    BY <1>1, <1>8, Decided
  <2>2. LockedPending'
    BY <1>1, <1>8, <2>1 DEF LockedPending
  <2>3. ASSUME NEW q \in DOMAIN requests PROVE Respected(q)
    BY <1>8, <2>1 DEF Lapsed, Unlocked
  <2> HIDE DEF Respected
  <2> QED BY <2>2, <2>3
<1> HIDE DEF Goal
<1>9. Goal
  <2>1. CASE UNCHANGED confirming /\ \E request : /\ requests' = Append(requests, request)
                                                 /\ request.status = "PENDING"
    BY <1>4, <2>1
  <2>2. CASE UNCHANGED <<now, requests>> /\ \E r \in DOMAIN requests :
                /\ confirming' = confirming \cup {r}
                /\ requests[r].status = "PENDING" /\ now < requests[r].expiresAt
    BY <1>5, <2>2
  <2>3. CASE UNCHANGED <<now, requests>> /\ \E r \in confirming : confirming' = confirming \ {r}
    BY <1>6, <2>3
  <2>4. CASE UNCHANGED now /\ \E r \in confirming :
                Decides(r, "CONFIRMED") /\ confirming' = confirming \ {r}
    BY <1>7, <2>4
  <2>5. CASE UNCHANGED <<now, confirming>> /\ \E r \in DOMAIN requests \ confirming :
                \/ Decides(r, "REJECTED") \/ Decides(r, "CANCELLED")
                \/ Decides(r, "EXPIRED") /\ requests[r].expiresAt <= now
    <3>1. PICK r \in DOMAIN requests \ confirming :
                \/ Decides(r, "REJECTED") \/ Decides(r, "CANCELLED")
                \/ Decides(r, "EXPIRED") /\ requests[r].expiresAt <= now
      BY <2>5
    <3>2. CASE Decides(r, "REJECTED")
      BY <1>8, <2>5, <3>2
    <3>3. CASE Decides(r, "CANCELLED")
      BY <1>8, <2>5, <3>3
    <3>4. CASE Decides(r, "EXPIRED") /\ requests[r].expiresAt <= now
      BY <1>8, <2>5, <3>4
    <3> QED BY <3>1, <3>2, <3>3, <3>4
  <2>6. RequestStep
    BY RequestSteps
  <2> QED BY <1>3, <2>1, <2>2, <2>3, <2>4, <2>5, <2>6 DEF RequestStep
<1> QED BY <1>9 DEF Goal

\* Whatever the constants and the history, a confirmation keeps to itself the row it locked.
THEOREM LockedPendingCorrect == Spec => []LockedPending
<1>1. Init => LockedPending
  BY DEF Init, LockedPending
<1>2. RowsOK /\ LockedPending /\ [Next]_vars => LockedPending'
  BY DeadlineStep
<1> QED BY <1>1, <1>2, RowsCorrect, PTL DEF Spec

\* Whatever the number of workers and the batch, a request is decided once, is never
\* confirmed once it has lapsed, although the confirmation writes later than it looks at the
\* deadline, and expires only then, although the sweep decides by an older clock.
THEOREM DeadlineCorrect == Spec => DeadlineRespected
<1>1. RowsOK /\ LockedPending /\ [Next]_vars =>
        [\A r \in DOMAIN requests :
            /\ requests[r].status # "PENDING" => requests'[r] = requests[r]
            /\ Lapsed(r) => Lapsed(r)'
            /\ requests'[r].status = "EXPIRED" /\ requests[r].status # "EXPIRED" => Lapsed(r)]_vars
  BY DeadlineStep
<1> QED BY <1>1, LockedPendingCorrect, RowsCorrect, PTL DEF Spec, DeadlineRespected

-----------------------------------------------------------------------------

\* Adding one or two entries leaves the earlier ones alone.
LEMMA PrefixKeptTwice ==
    ASSUME NEW S, NEW s \in Seq(S), NEW d, NEW e
    PROVE  /\ Len(s \o <<d>>) >= Len(s) /\ Len(s \o <<d, e>>) >= Len(s)
           /\ \A i \in DOMAIN s : (s \o <<d>>)[i] = s[i] /\ (s \o <<d, e>>)[i] = s[i]
OBVIOUS

\* A reversal changes one earlier entry, from COMPLETED to REVERSED.
LEMMA ReversalKept ==
    ASSUME TypeOK, NEW t \in DOMAIN txs, NEW c, txs' = Reversed(t, c), txs[t].status = "COMPLETED"
    PROVE  /\ Len(txs') >= Len(txs)
           /\ \A u \in DOMAIN txs :
                 \/ txs'[u] = txs[u]
                 \/ /\ txs[u].status = "COMPLETED"
                    /\ txs'[u] = [txs[u] EXCEPT !.status = "REVERSED"]
<1> DEFINE mark == [txs[t] EXCEPT !.status = "REVERSED"]
           marked == [txs EXCEPT ![t] = mark]
<1>1. txs \in Seq(Tx) /\ txs[t] \in Tx
  BY TxFields DEF TypeOK
<1>2. mark \in Tx
  BY <1>1, Zenon DEF Tx
<1>3. txs' = Append(marked, c)
  BY DEF Reversed
<1> HIDE DEF mark
<1>4. /\ marked \in Seq(Tx) /\ Len(marked) = Len(txs) /\ DOMAIN marked = DOMAIN txs
      /\ marked[t] = mark /\ \A u \in DOMAIN txs : u # t => marked[u] = txs[u]
  BY <1>1, <1>2, Updated
<1> HIDE DEF marked
<1>5. Len(txs') >= Len(txs) /\ \A u \in DOMAIN txs : txs'[u] = marked[u]
  BY <1>3, <1>4, PrefixKept
<1> QED BY <1>4, <1>5 DEF mark

\* Every step leaves the written entries alone, but for marking one REVERSED.
LEMMA LedgerStep ==
    ASSUME RowsOK, [Next]_vars
    PROVE  [/\ Len(txs') >= Len(txs)
            /\ \A t \in DOMAIN txs :
                  \/ txs'[t] = txs[t]
                  \/ /\ txs[t].status = "COMPLETED"
                     /\ txs'[t] = [txs[t] EXCEPT !.status = "REVERSED"]]_vars
<1> DEFINE Kept == /\ Len(txs') >= Len(txs)
                   /\ \A t \in DOMAIN txs :
                         \/ txs'[t] = txs[t]
                         \/ /\ txs[t].status = "COMPLETED"
                            /\ txs'[t] = [txs[t] EXCEPT !.status = "REVERSED"]
<1>1. TypeOK /\ txs \in Seq(Tx) /\ Len(txs) \in Nat
  BY DEF RowsOK, TypeOK
<1>2. ASSUME UNCHANGED txs PROVE Kept
  BY <1>1, <1>2
<1>3. ASSUME NEW total \in Amounts, EarnOnly(total) PROVE Kept
  BY <1>1, <1>3, PrefixKept DEF EarnOnly
<1>4. ASSUME NEW r \in DOMAIN requests, Confirm(r) PROVE Kept
  <2>1. PICK split : txs' = txs \o RedemptionTxs(r, split)
    <3>1. \E split : ApplyRedemption(r, split)
      BY <1>4 DEF Confirm
    <3> QED BY <3>1 DEF ApplyRedemption
  <2>2. PICK d, e : RedemptionTxs(r, split) = <<d, e>> \/ RedemptionTxs(r, split) = <<d>>
    BY DEF RedemptionTxs
  <2> QED BY <1>1, <2>1, <2>2, PrefixKeptTwice
<1>5. ASSUME NEW t \in DOMAIN txs, ReverseSpend(t) PROVE Kept
  <2>1. txs[t].status = "COMPLETED" /\ \E c : txs' = Reversed(t, c)
    BY <1>5 DEF ReverseSpend, Reversible
  <2> QED BY <1>1, <2>1, ReversalKept
<1>6. ASSUME NEW t \in DOMAIN txs, NEW force \in BOOLEAN, ReverseEarn(t, force) PROVE Kept
  <2>1. txs[t].status = "COMPLETED" /\ \E c : txs' = Reversed(t, c)
    BY <1>6 DEF ReverseEarn, Reversible
  <2> QED BY <1>1, <2>1, ReversalKept
<1>7. ASSUME NEW w \in LotWorkers, NEW l \in lotJobs[w].ids, ExpireLot(w, l) PROVE Kept
  <2>1. UNCHANGED txs \/ \E e : txs' = Append(txs, e)
    BY <1>7 DEF ExpireLot
  <2> QED BY <1>1, <1>2, <2>1, PrefixKept
<1> HIDE DEF Kept
<1>8. \/ UNCHANGED txs
      \/ \E total \in Amounts : EarnOnly(total)
      \/ \E r \in DOMAIN requests : Confirm(r)
      \/ \E t \in DOMAIN txs : ReverseSpend(t)
      \/ \E t \in DOMAIN txs, force \in BOOLEAN : ReverseEarn(t, force)
      \/ \E w \in LotWorkers : \E l \in lotJobs[w].ids : ExpireLot(w, l)
  BY DEF Next, vars, CreateCashbackRequest, BeginConfirm, AbandonConfirm, Reject,
         CancelByAdmin, StartLotSweep, AbortLotSweep, ExpireRequest, StartRequestSweep, AbortRequestSweep,
         SetOrganizationStatus, UpdateProgram, Tick
<1>9. Kept
  BY <1>2, <1>3, <1>4, <1>5, <1>6, <1>7, <1>8
<1> QED BY <1>9 DEF Kept

\* Whatever the constants, the ledger is append-only but for the mark of a reversal.
THEOREM LedgerAppendOnlyCorrect == Spec => LedgerAppendOnly
BY LedgerStep, RowsCorrect, PTL DEF Spec, LedgerAppendOnly

-----------------------------------------------------------------------------
(* The money.  The balance of the aggregate, what the lots hold and what    *)
(* the ledger adds up to agree after any history.  MoneyOK, on top of       *)
(* RowsOK, is the inductive invariant: every step moves the three by one    *)
(* amount.  StatusMatches is in it since what a lot holds counts only while *)
(* the lot is ACTIVE.                                                      *)

\* What the lots of a table hold, and what a ledger adds up to.
Held(rows) == SumTo([l \in DOMAIN rows |-> rows[l].remaining], Len(rows))
Balance(ledger) == SumTo([t \in DOMAIN ledger |-> Signed(ledger[t])], Len(ledger))

\* What the entries of a type that still stand add up to.
Counted(tx, type) == IF tx.type = type /\ tx.status = "COMPLETED" THEN tx.amount ELSE 0
Standing(ledger, type) ==
    SumTo([t \in DOMAIN ledger |-> Counted(ledger[t], type)], Len(ledger))

\* A lot is ACTIVE as long as it holds something.
StatusMatches(rows) ==
    \A l \in DOMAIN rows : rows[l].status = "ACTIVE" <=> rows[l].remaining > 0

\* Only a compensation may have a negative amount.
Counters == {"CASHBACK_EARN", "CASHBACK_SPEND", "CASHBACK_EXPIRE"}
AmountsNatural(ledger) ==
    \A t \in DOMAIN ledger : ledger[t].type \in Counters => ledger[t].amount \in Nat

BalancesAgree == state.available = Held(lots) /\ state.available = Balance(txs)

TotalsAgree ==
    /\ state.earned = Standing(txs, "CASHBACK_EARN")
    /\ state.spent = Standing(txs, "CASHBACK_SPEND")
    /\ state.expired = Standing(txs, "CASHBACK_EXPIRE")

\* The inductive invariant.
MoneyOK ==
    RowsOK /\ StatusMatches(lots) /\ AmountsNatural(txs) /\ BalancesAgree /\ TotalsAgree

-----------------------------------------------------------------------------
(* The ledger *)

\* What an entry counts for is an integer.
LEMMA CountedType ==
    ASSUME NEW tx \in Tx, NEW type
    PROVE  Signed(tx) \in Int /\ Counted(tx, type) \in Int
<1>1. tx.amount \in Int
  BY DEF Tx
<1> QED BY <1>1 DEF Signed, Counted

\* A ledger's sums are integers.
LEMMA LedgerSumsType ==
    ASSUME NEW ledger \in Seq(Tx), NEW type
    PROVE  Balance(ledger) \in Int /\ Standing(ledger, type) \in Int
<1>1. \A t \in 1..Len(ledger) : ledger[t] \in Tx /\ t \in DOMAIN ledger
  OBVIOUS
<1>2. Len(ledger) \in Nat
  OBVIOUS
<1> DEFINE f == [t \in DOMAIN ledger |-> Signed(ledger[t])]
           g == [t \in DOMAIN ledger |-> Counted(ledger[t], type)]
<1>3. \A t \in 1..Len(ledger) : f[t] \in Int /\ g[t] \in Int
  BY <1>1, CountedType
<1> HIDE DEF f, g
<1>4. SumTo(f, Len(ledger)) \in Int /\ SumTo(g, Len(ledger)) \in Int
  BY <1>2, <1>3, SumToInt
<1> QED BY <1>4 DEF f, g, Balance, Standing

\* An entry is added.
LEMMA LedgerAppended ==
    ASSUME NEW ledger \in Seq(Tx), NEW e \in Tx, NEW type
    PROVE  /\ Balance(Append(ledger, e)) = Balance(ledger) + Signed(e)
           /\ Standing(Append(ledger, e), type) = Standing(ledger, type) + Counted(e, type)
<1> DEFINE n == Len(ledger)
           after == Append(ledger, e)
           f == [t \in DOMAIN ledger |-> Signed(ledger[t])]
           g == [t \in DOMAIN after |-> Signed(after[t])]
           h == [t \in DOMAIN ledger |-> Counted(ledger[t], type)]
           k == [t \in DOMAIN after |-> Counted(after[t], type)]
<1>1. /\ n \in Nat /\ Len(after) = n + 1 /\ DOMAIN after = 1..(n + 1) /\ DOMAIN ledger = 1..n
      /\ after[n + 1] = e /\ \A t \in 1..n : after[t] = ledger[t]
  BY Appended
<1>2. \A t \in 1..n : g[t] = f[t] /\ k[t] = h[t]
  BY <1>1
<1>3. g[n + 1] = Signed(e) /\ k[n + 1] = Counted(e, type)
  BY <1>1
<1> HIDE DEF f, g, h, k, n, after
<1>4. SumTo(g, n + 1) = SumTo(f, n) + Signed(e) /\ SumTo(k, n + 1) = SumTo(h, n) + Counted(e, type)
  BY <1>1, <1>2, <1>3, SumAppended
<1>5. Balance(after) = SumTo(g, n + 1) /\ Standing(after, type) = SumTo(k, n + 1)
  BY <1>1 DEF Balance, Standing, g, k
<1>6. Balance(ledger) = SumTo(f, n) /\ Standing(ledger, type) = SumTo(h, n)
  BY DEF Balance, Standing, f, h, n
<1> QED BY <1>4, <1>5, <1>6 DEF after

\* An entry is marked REVERSED and its compensation added: the original keeps its weight in
\* the balance and loses it in the standing total of its type.
LEMMA LedgerReversed ==
    ASSUME TypeOK, NEW t \in DOMAIN txs, NEW c \in Tx, txs[t].status = "COMPLETED",
           c.type = "REVERSAL", NEW type \in Counters
    PROVE  /\ Balance(Reversed(t, c)) = Balance(txs) + c.amount
           /\ Standing(Reversed(t, c), type) =
                 Standing(txs, type) - (IF txs[t].type = type THEN txs[t].amount ELSE 0)
<1> DEFINE n == Len(txs)
           after == Reversed(t, c)
           f == [u \in DOMAIN txs |-> Signed(txs[u])]
           g == [u \in DOMAIN after |-> Signed(after[u])]
           h == [u \in DOMAIN txs |-> Counted(txs[u], type)]
           k == [u \in DOMAIN after |-> Counted(after[u], type)]
           d == IF txs[t].type = type THEN -txs[t].amount ELSE 0
<1>1. n \in Nat /\ DOMAIN txs = 1..n /\ t \in 1..n
  BY DEF TypeOK
<1>2. /\ Len(after) = n + 1 /\ DOMAIN after = 1..(n + 1)
      /\ \A u \in 1..n : u # t => after[u] = txs[u]
      /\ after[t] = [txs[t] EXCEPT !.status = "REVERSED"] /\ after[n + 1] = c
  BY <1>1, ReversedType
<1>3. txs[t] \in Tx /\ txs[t].amount \in Int /\ d \in Int
  BY TxFields
<1>4. /\ after[t].type = txs[t].type /\ after[t].amount = txs[t].amount
      /\ after[t].status = "REVERSED"
  BY <1>2, <1>3, MarkedFields
<1>5. \A u \in 1..n : f[u] \in Int /\ h[u] \in Int
  BY <1>1, TxFields, CountedType
<1> HIDE DEF after, d, n
<1>6. ASSUME NEW u \in 1..n PROVE g[u] = f[u]
  <2>1. g[u] = Signed(after[u]) /\ f[u] = Signed(txs[u])
    BY <1>1, <1>2
  <2>2. after[u].type = txs[u].type /\ after[u].amount = txs[u].amount
    BY <1>1, <1>2, <1>4
  <2> QED BY <2>1, <2>2 DEF Signed
<1>7. k[t] = h[t] + d /\ \A u \in 1..n : u # t => k[u] = h[u]
  <2>1. k[t] = 0
    <3>1. t \in DOMAIN after
      BY <1>1, <1>2
    <3>2. Counted(after[t], type) = 0
      BY <1>4 DEF Counted
    <3> QED BY <3>1, <3>2
  <2>2. h[t] + d = 0
    BY <1>1, <1>3 DEF Counted, d
  <2>3. \A u \in 1..n : u # t => k[u] = h[u]
    BY <1>1, <1>2
  <2> QED BY <2>1, <2>2, <2>3
<1>8. g[n + 1] = c.amount /\ k[n + 1] = 0
  <2>1. Signed(c) = c.amount /\ Counted(c, type) = 0
    BY DEF Signed, Counted, Counters
  <2> QED BY <1>1, <1>2, <2>1
<1> HIDE DEF f, g, h, k
<1>9. SumTo(g, n + 1) = SumTo(f, n) + c.amount
  BY <1>1, <1>6, <1>8, SumAppended
<1>10. SumTo(k, n + 1) = SumTo(h, n) + d
  <2>1. SumTo(k, n + 1) = SumTo(h, n) + d + k[n + 1]
    <3>1. n \in Nat /\ t \in 1..n /\ d \in Int /\ \A u \in 1..n : h[u] \in Int
      BY <1>1, <1>3, <1>5
    <3>2. SumTo(k, n) = SumTo(h, n) + d
      BY <1>7, <3>1, SumMoved
    <3> QED BY <3>1, <3>2, SumToStep
  <2>2. SumTo(h, n) \in Int /\ d \in Int
    BY <1>1, <1>3, <1>5, SumToInt
  <2> QED BY <1>8, <2>1, <2>2
<1>11. Balance(after) = SumTo(g, n + 1) /\ Standing(after, type) = SumTo(k, n + 1)
  BY <1>2 DEF Balance, Standing, g, k
<1>12. Balance(txs) = SumTo(f, n) /\ Standing(txs, type) = SumTo(h, n)
  BY DEF Balance, Standing, f, h, n
<1>13. SumTo(h, n) \in Int
  BY <1>1, <1>5, SumToInt
<1> QED BY <1>3, <1>9, <1>10, <1>11, <1>12, <1>13 DEF after, d

\* A standing entry is no larger than the total of its type.
LEMMA StandingCovers ==
    ASSUME TypeOK, AmountsNatural(txs), NEW t \in DOMAIN txs, txs[t].status = "COMPLETED",
           txs[t].type \in Counters
    PROVE  txs[t].amount <= Standing(txs, txs[t].type)
<1> DEFINE n == Len(txs)
           h == [u \in DOMAIN txs |-> Counted(txs[u], txs[t].type)]
<1>1. n \in Nat /\ DOMAIN txs = 1..n /\ t \in 1..n
  BY DEF TypeOK
<1>2. \A u \in 1..n : h[u] \in Nat
  BY <1>1 DEF Counted, AmountsNatural
<1>3. h[t] = txs[t].amount
  BY DEF Counted
<1> HIDE DEF h
<1>4. h[t] <= SumTo(h, n)
  BY <1>1, <1>2, SumToNonNegative
<1> QED BY <1>3, <1>4 DEF Standing, h

-----------------------------------------------------------------------------
(* The lots *)

\* A lot of a table holds a natural.
LEMMA RowHolds ==
    ASSUME NEW rows \in Seq(Lot), NEW l \in DOMAIN rows
    PROVE  rows[l] \in Lot /\ rows[l].remaining \in Nat
<1>1. rows[l] \in Lot
  OBVIOUS
<1> QED BY <1>1 DEF Lot

\* A lot is added.
LEMMA HeldAppended ==
    ASSUME NEW rows \in Seq(Lot), NEW lot \in Lot
    PROVE  Held(Append(rows, lot)) = Held(rows) + lot.remaining
<1> DEFINE n == Len(rows)
           after == Append(rows, lot)
           f == [l \in DOMAIN rows |-> rows[l].remaining]
           g == [l \in DOMAIN after |-> after[l].remaining]
<1>1. /\ n \in Nat /\ Len(after) = n + 1 /\ DOMAIN after = 1..(n + 1) /\ DOMAIN rows = 1..n
      /\ after[n + 1] = lot /\ \A l \in 1..n : after[l] = rows[l]
  BY Appended
<1>2. (\A l \in 1..n : g[l] = f[l]) /\ g[n + 1] = lot.remaining
  BY <1>1
<1> HIDE DEF f, g, n, after
<1>3. SumTo(g, n + 1) = SumTo(f, n) + lot.remaining
  BY <1>1, <1>2, SumAppended
<1>4. Held(after) = SumTo(g, n + 1) /\ Held(rows) = SumTo(f, n)
  BY <1>1 DEF Held, f, g, n
<1> QED BY <1>3, <1>4 DEF after

\* What the lots hold is a natural, and covers each of them.
LEMMA HeldCovers ==
    ASSUME NEW rows \in Seq(Lot)
    PROVE  Held(rows) \in Nat /\ \A l \in DOMAIN rows : rows[l].remaining <= Held(rows)
<1> DEFINE n == Len(rows)
           f == [l \in DOMAIN rows |-> rows[l].remaining]
<1>1. n \in Nat /\ DOMAIN rows = 1..n
  OBVIOUS
<1>2. \A l \in 1..n : f[l] \in Nat
  BY <1>1, RowHolds
<1>3. \A l \in 1..n : f[l] = rows[l].remaining
  BY <1>1
<1> HIDE DEF f
<1>4. SumTo(f, n) \in Nat /\ \A l \in 1..n : f[l] <= SumTo(f, n)
  BY <1>1, <1>2, SumToNonNegative
<1> QED BY <1>1, <1>3, <1>4 DEF Held, f

\* Every lot of a table moves by the amount a split names for it.
LEMMA HeldMoved ==
    ASSUME NEW rows \in Seq(Lot), Len(rows) <= MaxLots, NEW after, Len(after) = Len(rows),
           DOMAIN after = DOMAIN rows, NEW split \in [LotId -> Int],
           \A l \in LotId : l > Len(rows) => split[l] = 0,
           \A l \in DOMAIN rows : after[l].remaining = rows[l].remaining + split[l]
    PROVE  Held(after) = Held(rows) + Total(split)
<1> DEFINE n == Len(rows)
           f == [l \in DOMAIN rows |-> rows[l].remaining]
           g == [l \in DOMAIN after |-> after[l].remaining]
<1>1. n \in Nat /\ DOMAIN rows = 1..n /\ MaxLots \in Nat /\ LotId = 1..MaxLots
  BY ConstantTypes DEF LotId
<1>2. \A l \in 1..n : f[l] \in Int /\ split[l] \in Int /\ g[l] = f[l] + split[l]
  BY <1>1, RowHolds
<1> HIDE DEF f, g
<1>3. SumTo(g, n) = SumTo(f, n) + SumTo(split, n)
  BY <1>1, <1>2, SumToAdd
<1>4. SumTo(split, MaxLots) = SumTo(split, n)
  BY <1>1, SumToLonger
<1>5. Held(after) = SumTo(g, n) /\ Held(rows) = SumTo(f, n)
  BY DEF Held, f, g
<1> QED BY <1>3, <1>4, <1>5 DEF Total

\* One lot is emptied.
LEMMA HeldEmptied ==
    ASSUME NEW rows \in Seq(Lot), NEW l \in DOMAIN rows, NEW status \in LotStatus
    PROVE  LET after == [rows EXCEPT ![l] = Emptied(rows[l], status)] IN
           /\ Held(after) = Held(rows) - rows[l].remaining
           /\ DOMAIN after = DOMAIN rows
           /\ \A k \in DOMAIN rows : k # l => after[k] = rows[k]
           /\ after[l].remaining = 0 /\ after[l].status = status
           /\ after[l].original = rows[l].original /\ after[l].source = rows[l].source
           /\ after[l].expiresAt = rows[l].expiresAt
<1> DEFINE n == Len(rows)
           empty == Emptied(rows[l], status)
           after == [rows EXCEPT ![l] = empty]
           f == [k \in DOMAIN rows |-> rows[k].remaining]
           g == [k \in DOMAIN after |-> after[k].remaining]
           d == -rows[l].remaining
<1>1. n \in Nat /\ DOMAIN rows = 1..n /\ rows[l] \in Lot /\ \A k \in 1..n : rows[k].remaining \in Nat
  BY RowHolds
<1>2. /\ empty \in Lot /\ empty.remaining = 0 /\ empty.status = status
      /\ empty.original = rows[l].original /\ empty.source = rows[l].source
      /\ empty.expiresAt = rows[l].expiresAt
  <2>1. empty = [rows[l] EXCEPT !.remaining = 0, !.status = status]
    BY DEF Emptied
  <2> HIDE DEF empty
  <2> QED BY <1>1, <2>1, LotType DEF Lot
<1> HIDE DEF empty
<1>3. /\ Len(after) = n /\ DOMAIN after = DOMAIN rows /\ after[l] = empty
      /\ \A k \in DOMAIN rows : k # l => after[k] = rows[k]
  BY <1>2, Updated
<1> HIDE DEF after
<1>4. /\ \A k \in 1..n : f[k] \in Int
      /\ g[l] = f[l] + d /\ \A k \in 1..n : k # l => g[k] = f[k]
      /\ d \in Int
  BY <1>1, <1>2, <1>3
<1> HIDE DEF f, g, d
<1>5. SumTo(g, n) = SumTo(f, n) + d /\ SumTo(f, n) \in Int
  <2> HIDE DEF n
  <2>1. l \in 1..n
    BY <1>1
  <2>2. n \in Nat /\ d \in Int /\ \A k \in 1..n : f[k] \in Int
    BY <1>1, <1>4
  <2>3. g[l] = f[l] + d /\ \A k \in 1..n : k # l => g[k] = f[k]
    BY <1>4
  <2>4. SumTo(g, n) = SumTo(f, n) + d
    BY <2>1, <2>2, <2>3, SumMoved
  <2> QED BY <2>2, <2>4, SumToInt
<1>6. Held(after) = SumTo(g, n) /\ Held(rows) = SumTo(f, n)
  BY <1>3 DEF Held, f, g, n
<1>7. Held(after) = Held(rows) - rows[l].remaining
  BY <1>1, <1>5, <1>6 DEF d
<1> QED BY <1>2, <1>3, <1>7 DEF after, empty

-----------------------------------------------------------------------------
(* The shape of rows that are added or changed *)

\* An entry with a proper amount is added.
LEMMA AmountsAppended ==
    ASSUME NEW ledger \in Seq(Tx), AmountsNatural(ledger), NEW e \in Tx,
           e.type \in Counters => e.amount \in Nat
    PROVE  AmountsNatural(Append(ledger, e))
<1> DEFINE n == Len(ledger)
           after == Append(ledger, e)
<1>1. /\ n \in Nat /\ DOMAIN after = 1..(n + 1) /\ DOMAIN ledger = 1..n
      /\ after[n + 1] = e /\ \A t \in 1..n : after[t] = ledger[t]
  BY Appended
<1> HIDE DEF n, after
<1>2. AmountsNatural(after)
  BY <1>1 DEF AmountsNatural
<1> QED BY <1>2 DEF after

\* An entry is marked and its compensation added.
LEMMA AmountsReversed ==
    ASSUME TypeOK, AmountsNatural(txs), NEW t \in DOMAIN txs, NEW c \in Tx, c.type = "REVERSAL"
    PROVE  AmountsNatural(Reversed(t, c))
<1> DEFINE n == Len(txs)
           after == Reversed(t, c)
<1>1. n \in Nat /\ DOMAIN txs = 1..n /\ txs[t] \in Tx
  BY TxFields DEF TypeOK
<1>2. /\ DOMAIN after = 1..(n + 1)
      /\ \A u \in DOMAIN txs : u # t => after[u] = txs[u]
      /\ after[t] = [txs[t] EXCEPT !.status = "REVERSED"] /\ after[n + 1] = c
  BY ReversedType
<1>3. after[t].type = txs[t].type /\ after[t].amount = txs[t].amount
  BY <1>1, <1>2, MarkedFields
<1> HIDE DEF n, after
<1>4. ASSUME NEW u \in DOMAIN after, after[u].type \in Counters PROVE after[u].amount \in Nat
  <2>1. u \in 1..(n + 1) /\ u # n + 1
    BY <1>2, <1>4 DEF Counters
  <2>2. u \in DOMAIN txs
    BY <1>1, <2>1
  <2>3. CASE u = t
    BY <1>3, <1>4, <2>3 DEF AmountsNatural
  <2>4. CASE u # t
    BY <1>2, <1>4, <2>2, <2>4 DEF AmountsNatural
  <2> QED BY <2>3, <2>4
<1>5. AmountsNatural(after)
  BY <1>4 DEF AmountsNatural
<1> QED BY <1>5 DEF after

\* A lot that holds something is added.
LEMMA StatusAppended ==
    ASSUME NEW rows \in Seq(Lot), StatusMatches(rows), NEW lot \in Lot,
           lot.status = "ACTIVE", lot.remaining > 0
    PROVE  StatusMatches(Append(rows, lot))
<1> DEFINE n == Len(rows)
           after == Append(rows, lot)
<1>1. /\ n \in Nat /\ DOMAIN after = 1..(n + 1) /\ DOMAIN rows = 1..n
      /\ after[n + 1] = lot /\ \A l \in 1..n : after[l] = rows[l]
  BY Appended
<1> HIDE DEF n, after
<1>2. StatusMatches(after)
  BY <1>1 DEF StatusMatches
<1> QED BY <1>2 DEF after

\* A new lot holds all it was made for.
LEMMA NewLotType ==
    ASSUME TypeOK, NEW amount \in Nat, NEW expiry \in Nat, NEW source \in Nat
    PROVE  LET lot == NewLot(amount, expiry, source) IN
           /\ lot \in Lot
           /\ lot.remaining = amount /\ lot.original = amount /\ lot.status = "ACTIVE"
           /\ lot.source = source /\ lot.expiresAt = now + expiry
BY DEF TypeOK, NewLot, Lot, LotStatus

\* The fields of the aggregate.
LEMMA StateFields ==
    ASSUME TypeOK
    PROVE  /\ state \in State /\ state.available \in Int
           /\ state.earned \in Nat /\ state.spent \in Nat /\ state.expired \in Nat
BY DEF TypeOK, State

\* The updates of the aggregate, field by field.
LEMMA StateUpdated ==
    ASSUME NEW s \in State, NEW a, NEW n, NEW m
    PROVE  /\ LET r == [s EXCEPT !.available = a, !.earned = n] IN
              /\ r.available = a /\ r.earned = n
              /\ r.spent = s.spent /\ r.expired = s.expired
           /\ LET r == [s EXCEPT !.available = a, !.spent = n] IN
              /\ r.available = a /\ r.spent = n
              /\ r.earned = s.earned /\ r.expired = s.expired
           /\ LET r == [s EXCEPT !.available = a, !.expired = n] IN
              /\ r.available = a /\ r.expired = n
              /\ r.spent = s.spent /\ r.earned = s.earned
           /\ LET r == [s EXCEPT !.available = a, !.spent = n, !.earned = m] IN
              /\ r.available = a /\ r.spent = n
              /\ r.earned = m /\ r.expired = s.expired
BY DEF State

-----------------------------------------------------------------------------
(* One lemma per action that moves money *)

\* A purchase.
LEMMA EarnOnlyMoney ==
    ASSUME MoneyOK, NEW total \in Amounts, EarnOnly(total)
    PROVE  MoneyOK'
<1> DEFINE earn == EarnAmount(total)
           tx == EarnTx(earn, Len(lots) + 1, None)
           lot == NewLot(earn, program.expiry, Len(txs) + 1)
<1>1. /\ RowsOK /\ TypeOK /\ RowsOK' /\ StatusMatches(lots) /\ AmountsNatural(txs)
      /\ BalancesAgree /\ TotalsAgree
  BY EarnOnlyRows DEF MoneyOK, RowsOK
<1>2. /\ earn > 0
      /\ txs' = Append(txs, tx)
      /\ lots' = Append(lots, lot)
      /\ state' = [state EXCEPT !.available = state.available + earn,
                                !.earned = state.earned + earn]
  BY DEF EarnOnly
<1>3. program \in Settings /\ total \in Int
  BY <1>1, ConstantTypes, CashbackAssumption DEF TypeOK
<1>4. earn \in Nat /\ program.expiry \in Nat
  BY <1>3, SettingsType, ApplyBpsType DEF EarnAmount
<1>5. lots \in Seq(Lot) /\ txs \in Seq(Tx) /\ Len(lots) + 1 \in Nat /\ Len(txs) + 1 \in Nat
  BY <1>1 DEF TypeOK
<1>6. tx \in Tx /\ tx.type = "CASHBACK_EARN" /\ tx.status = "COMPLETED" /\ tx.amount = earn
  <2>1. None \in Nat
    BY DEF None
  <2> DEFINE at == Len(lots) + 1
  <2>2. earn \in Nat /\ at \in Nat
    BY <1>4, <1>5
  <2>3. tx = EarnTx(earn, at, None)
    OBVIOUS
  <2> HIDE DEF earn, at, tx
  <2> QED BY <2>1, <2>2, <2>3, EarnTxType
<1>7. lot \in Lot /\ lot.remaining = earn /\ lot.status = "ACTIVE"
  <2> DEFINE source == Len(txs) + 1
  <2>1. earn \in Nat /\ source \in Nat /\ program.expiry \in Nat
    BY <1>4, <1>5
  <2>2. lot = NewLot(earn, program.expiry, source)
    OBVIOUS
  <2> HIDE DEF earn, source, lot
  <2> QED BY <1>1, <2>1, <2>2, NewLotType
<1> HIDE DEF earn, tx, lot
<1>8. StatusMatches(lots') /\ Held(lots') = Held(lots) + earn
  BY <1>1, <1>2, <1>5, <1>7, StatusAppended, HeldAppended
<1>9. /\ AmountsNatural(txs')
      /\ Balance(txs') = Balance(txs) + Signed(tx)
      /\ \A type \in Counters : Standing(txs', type) = Standing(txs, type) + Counted(tx, type)
  BY <1>1, <1>2, <1>4, <1>5, <1>6, AmountsAppended, LedgerAppended
<1>10. Signed(tx) = earn /\ \A type \in Counters :
          Counted(tx, type) = IF type = "CASHBACK_EARN" THEN earn ELSE 0
  BY <1>6 DEF Signed, Counted
<1>11. /\ state'.available = state.available + earn /\ state'.earned = state.earned + earn
       /\ state'.spent = state.spent /\ state'.expired = state.expired
  BY <1>1, <1>2, StateFields, StateUpdated
<1>12. BalancesAgree'
  BY <1>1, <1>8, <1>9, <1>10, <1>11 DEF BalancesAgree
<1>13. TotalsAgree'
  BY <1>1, <1>5, <1>9, <1>10, <1>11, LedgerSumsType DEF TotalsAgree, Counters
<1> QED BY <1>1, <1>8, <1>9, <1>12, <1>13 DEF MoneyOK

\* One lot of the list of the sweep.  The clamp at zero never bites.
LEMMA ExpireLotMoney ==
    ASSUME MoneyOK, NEW w \in LotWorkers, NEW l \in lotJobs[w].ids, ExpireLot(w, l)
    PROVE  MoneyOK'
<1> DEFINE amount == lots[l].remaining
           tx == ExpireTx(amount, l)
<1>1. /\ RowsOK /\ TypeOK /\ JobsInRange /\ RowsOK' /\ StatusMatches(lots) /\ AmountsNatural(txs)
      /\ BalancesAgree /\ TotalsAgree /\ l \in DOMAIN lots
  BY ExpireLotRows DEF MoneyOK, RowsOK, JobsInRange
<1>2. CASE ~BurnDue(lots[l], lotJobs[w].at)
  <2>1. UNCHANGED <<lots, txs, state>>
    BY <1>2 DEF ExpireLot
  <2> QED BY <1>1, <2>1 DEF MoneyOK, BalancesAgree, TotalsAgree
<1>3. CASE BurnDue(lots[l], lotJobs[w].at)
  <2>1. /\ lots \in Seq(Lot) /\ txs \in Seq(Tx) /\ amount \in Nat /\ l \in Nat
    BY <1>1, LotFields DEF TypeOK
  <2>2. amount > 0
    BY <1>1, <1>3 DEF StatusMatches, BurnDue
  <2>3. /\ lots' = [lots EXCEPT ![l] = Emptied(lots[l], "EXPIRED")]
        /\ txs' = Append(txs, tx)
        /\ state' = [state EXCEPT !.available = AtLeastZero(state.available - amount),
                                  !.expired = state.expired + amount]
    BY <1>3, <2>2 DEF ExpireLot
  <2>4. tx \in Tx /\ tx.type = "CASHBACK_EXPIRE" /\ tx.status = "COMPLETED" /\ tx.amount = amount
    BY <2>1, ExpireTxType
  <2> HIDE DEF tx
  <2>5. "EXPIRED" \in LotStatus
    BY DEF LotStatus
  <2>6. /\ Held(lots') = Held(lots) - amount
        /\ DOMAIN lots' = DOMAIN lots
        /\ \A k \in DOMAIN lots : k # l => lots'[k] = lots[k]
        /\ lots'[l].remaining = 0 /\ lots'[l].status = "EXPIRED"
    BY <1>1, <2>1, <2>3, <2>5, HeldEmptied
  <2>7. StatusMatches(lots')
    BY <1>1, <2>6 DEF StatusMatches
  <2>8. /\ AmountsNatural(txs')
        /\ Balance(txs') = Balance(txs) + Signed(tx)
        /\ \A type \in Counters : Standing(txs', type) = Standing(txs, type) + Counted(tx, type)
    BY <1>1, <2>1, <2>3, <2>4, AmountsAppended, LedgerAppended
  <2>9. Signed(tx) = -amount /\ \A type \in Counters :
           Counted(tx, type) = IF type = "CASHBACK_EXPIRE" THEN amount ELSE 0
    BY <2>4 DEF Signed, Counted
  <2>10. amount <= Held(lots) /\ Held(lots) \in Nat
    BY <1>1, <2>1, HeldCovers
  <2> HIDE DEF amount
  <2>11. AtLeastZero(state.available - amount) = state.available - amount
    BY <1>1, <2>1, <2>10 DEF AtLeastZero, BalancesAgree
  <2>12. /\ state'.available = state.available - amount /\ state'.expired = state.expired + amount
         /\ state'.spent = state.spent /\ state'.earned = state.earned
    BY <1>1, <2>3, <2>11, StateFields, StateUpdated
  <2>13. BalancesAgree'
    BY <1>1, <2>1, <2>6, <2>8, <2>9, <2>10, <2>12 DEF BalancesAgree
  <2>14. TotalsAgree'
    BY <1>1, <2>1, <2>8, <2>9, <2>12, LedgerSumsType DEF TotalsAgree, Counters
  <2> QED BY <1>1, <2>7, <2>8, <2>13, <2>14 DEF MoneyOK
<1> QED BY <1>2, <1>3

\* The reversal of an earning: what is left of its lot leaves the balance, the whole of it
\* the total.  Neither clamp at zero ever bites.
LEMMA ReverseEarnMoney ==
    ASSUME MoneyOK, NEW t \in DOMAIN txs, NEW force \in BOOLEAN, ReverseEarn(t, force)
    PROVE  MoneyOK'
<1> DEFINE l == txs[t].lot
           withdrawn == lots[l].remaining
           amount == txs[t].amount
           c == ReversalTx(-withdrawn, t, lots[l].original - lots[l].remaining)
<1>1. /\ RowsOK /\ TypeOK /\ RowsOK' /\ StatusMatches(lots) /\ AmountsNatural(txs)
      /\ BalancesAgree /\ TotalsAgree
  BY ReverseEarnRows DEF MoneyOK, RowsOK
<1>2. /\ txs[t].status = "COMPLETED" /\ txs[t].type = "CASHBACK_EARN"
      /\ lots' = [lots EXCEPT ![l] = Emptied(lots[l], "CANCELLED")]
      /\ txs' = Reversed(t, c)
      /\ state' = [state EXCEPT !.available = AtLeastZero(state.available - withdrawn),
                                !.earned = AtLeastZero(state.earned - amount)]
  BY DEF ReverseEarn, Reversible
<1>3. l \in DOMAIN lots
  BY <1>1, <1>2 DEF RowsOK, EarnLotsExist
<1>4. /\ withdrawn \in Nat /\ lots[l].original - lots[l].remaining \in Int
      /\ lots \in Seq(Lot) /\ txs \in Seq(Tx) /\ t \in Nat
  BY <1>1, <1>3, LotFields, TxFields DEF TypeOK
<1>5. c \in Tx /\ c.type = "REVERSAL" /\ c.amount = -withdrawn
  <2> DEFINE lost == lots[l].original - lots[l].remaining
  <2>1. -withdrawn \in Int /\ lost \in Int
    BY <1>4
  <2> DEFINE back == -withdrawn
  <2>2. c = ReversalTx(back, t, lost)
    OBVIOUS
  <2> HIDE DEF lost, back, c
  <2>3. c \in Tx /\ c.type = "REVERSAL" /\ c.amount = back
    <3>1. t \in Nat /\ back \in Int
      BY <1>4, <2>1 DEF back
    <3> QED BY <2>1, <2>2, <3>1, ReversalTxType
  <2> QED BY <2>3 DEF back
<1> HIDE DEF c
<1>6. amount \in Nat /\ amount <= Standing(txs, "CASHBACK_EARN")
  BY <1>1, <1>2, StandingCovers DEF AmountsNatural, Counters
<1>7. "CANCELLED" \in LotStatus
  BY DEF LotStatus
<1> HIDE DEF l
<1>8. /\ Held(lots') = Held(lots) - withdrawn
      /\ DOMAIN lots' = DOMAIN lots
      /\ \A k \in DOMAIN lots : k # l => lots'[k] = lots[k]
      /\ lots'[l].remaining = 0 /\ lots'[l].status = "CANCELLED"
  BY <1>2, <1>3, <1>4, <1>7, HeldEmptied
<1>9. StatusMatches(lots')
  BY <1>1, <1>8 DEF StatusMatches
<1>10. /\ AmountsNatural(txs')
       /\ Balance(txs') = Balance(txs) + c.amount
       /\ \A type \in Counters : Standing(txs', type) =
             Standing(txs, type) - (IF txs[t].type = type THEN amount ELSE 0)
  BY <1>1, <1>2, <1>5, AmountsReversed, LedgerReversed DEF Counters
<1>11. withdrawn <= Held(lots) /\ Held(lots) \in Nat
  BY <1>3, <1>4, HeldCovers
<1> HIDE DEF withdrawn, amount
<1>12. AtLeastZero(state.available - withdrawn) = state.available - withdrawn
  BY <1>1, <1>4, <1>11 DEF AtLeastZero, BalancesAgree
<1>13. state.earned \in Nat /\ state.earned = Standing(txs, "CASHBACK_EARN")
  BY <1>1, StateFields DEF TotalsAgree
<1>14. AtLeastZero(state.earned - amount) = state.earned - amount
  BY <1>6, <1>13 DEF AtLeastZero
<1>15. /\ state'.available = state.available - withdrawn /\ state'.earned = state.earned - amount
       /\ state'.spent = state.spent /\ state'.expired = state.expired
  BY <1>1, <1>2, <1>12, <1>14, StateFields, StateUpdated
<1>16. BalancesAgree'
  BY <1>1, <1>4, <1>5, <1>8, <1>10, <1>11, <1>15 DEF BalancesAgree
<1>17. TotalsAgree'
  BY <1>1, <1>2, <1>4, <1>10, <1>15, LedgerSumsType DEF TotalsAgree, Counters
<1> QED BY <1>1, <1>9, <1>10, <1>16, <1>17 DEF MoneyOK

\* The reversal of a spend: what flows back into the lots is what the balance grows by.
LEMMA ReverseSpendMoney ==
    ASSUME MoneyOK, NEW t \in DOMAIN txs, ReverseSpend(t)
    PROVE  MoneyOK'
<1> DEFINE split == txs[t].consumed
           back == Restorable(split)
           given == [l \in LotId |-> IF l \in back THEN split[l] ELSE 0]
           restored == Total(given)
           restoredLots == [l \in DOMAIN lots |->
                              IF l \in back
                              THEN [lots[l] EXCEPT !.remaining = lots[l].remaining + split[l],
                                                   !.status = "ACTIVE"]
                              ELSE lots[l]]
           amount == txs[t].amount
           c == ReversalTx(restored, t, 0)
<1>1. /\ RowsOK /\ TypeOK /\ RowsOK' /\ StatusMatches(lots) /\ AmountsNatural(txs)
      /\ BalancesAgree /\ TotalsAgree
  BY ReverseSpendRows DEF MoneyOK, RowsOK
<1>2. /\ txs[t].status = "COMPLETED" /\ txs[t].type = "CASHBACK_SPEND"
      /\ lots' = restoredLots
      /\ txs' = Reversed(t, c)
      /\ state' = [state EXCEPT !.available = state.available + restored,
                                !.spent = AtLeastZero(state.spent - amount)]
  BY DEF ReverseSpend, Reversible
<1>3. /\ split \in [LotId -> Nat] /\ restored \in Nat /\ t \in Nat
      /\ lots \in Seq(Lot) /\ Len(lots) <= MaxLots /\ Len(lots) \in Nat
      /\ txs \in Seq(Tx) /\ DOMAIN lots = 1..Len(lots)
  <2>1. split \in Split /\ t \in Nat
    BY <1>1, TxFields
  <2> HIDE DEF split
  <2>2. restored \in Nat
    BY <2>1, RestoredType
  <2> HIDE DEF restored
  <2> QED BY <1>1, <2>1, <2>2 DEF TypeOK, Split
<1>4. c \in Tx /\ c.type = "REVERSAL" /\ c.amount = restored
  BY <1>3, ReversalTxType
<1>5. amount \in Nat /\ amount <= Standing(txs, "CASHBACK_SPEND")
  BY <1>1, <1>2, StandingCovers DEF AmountsNatural, Counters
<1>6. back \subseteq DOMAIN lots /\ \A l \in back : split[l] > 0
  BY DEF Restorable
<1>7. ASSUME NEW l \in DOMAIN lots
      PROVE  /\ restoredLots[l].remaining = lots[l].remaining + given[l]
             /\ l \in back => restoredLots[l].status = "ACTIVE" /\ restoredLots[l].remaining > 0
             /\ l \notin back => restoredLots[l] = lots[l]
  <2>1. lots[l] \in Lot /\ lots[l].remaining \in Nat /\ l \in LotId /\ split[l] \in Nat
    BY <1>1, <1>3, LotFields
  <2> DEFINE refilled == [lots[l] EXCEPT !.remaining = lots[l].remaining + split[l],
                                         !.status = "ACTIVE"]
  <2>2. refilled.remaining = lots[l].remaining + split[l] /\ refilled.status = "ACTIVE"
    BY <2>1 DEF Lot
  <2>3. CASE l \in back
    <3>1. split[l] > 0
      BY <1>6, <2>3
    <3>2. restoredLots[l] = refilled /\ given[l] = split[l]
      BY <2>1, <2>3
    <3> HIDE DEF restoredLots, refilled, given, split, back
    <3> QED BY <2>1, <2>2, <2>3, <3>1, <3>2
  <2>4. CASE l \notin back
    <3>1. restoredLots[l] = lots[l] /\ given[l] = 0
      BY <2>1, <2>4
    <3> HIDE DEF restoredLots, refilled, given, split, back
    <3> QED BY <2>1, <2>4, <3>1
  <2> QED BY <2>3, <2>4
<1>8. given \in [LotId -> Int] /\ \A l \in LotId : l > Len(lots) => given[l] = 0
  <2>1. \A l \in LotId : l > Len(lots) => l \notin back
    BY <1>3, <1>6 DEF LotId
  <2> HIDE DEF back
  <2> QED BY <1>3, <2>1
<1>9. DOMAIN restoredLots = DOMAIN lots /\ Len(restoredLots) = Len(lots)
  <2>1. DOMAIN restoredLots = 1..Len(lots)
    BY <1>3
  <2>2. lots' \in Seq(Lot)
    BY <1>1 DEF RowsOK, TypeOK
  <2> HIDE DEF restoredLots
  <2> QED BY <1>2, <1>3, <2>1, <2>2
<1> HIDE DEF restoredLots, given, c, back, split
<1>10. Held(lots') = Held(lots) + restored
  BY <1>2, <1>3, <1>7, <1>8, <1>9, HeldMoved
<1>11. StatusMatches(lots')
  BY <1>1, <1>2, <1>7, <1>9 DEF StatusMatches
<1>12. /\ AmountsNatural(txs')
       /\ Balance(txs') = Balance(txs) + c.amount
       /\ \A type \in Counters : Standing(txs', type) =
             Standing(txs, type) - (IF txs[t].type = type THEN amount ELSE 0)
  BY <1>1, <1>2, <1>4, AmountsReversed, LedgerReversed DEF Counters
<1> HIDE DEF restored, amount
<1>13. state.spent \in Nat /\ state.spent = Standing(txs, "CASHBACK_SPEND")
  BY <1>1, StateFields DEF TotalsAgree
<1>14. AtLeastZero(state.spent - amount) = state.spent - amount
  BY <1>5, <1>13 DEF AtLeastZero
<1>15. /\ state'.available = state.available + restored /\ state'.spent = state.spent - amount
       /\ state'.earned = state.earned /\ state'.expired = state.expired
  BY <1>1, <1>2, <1>14, StateFields, StateUpdated
<1>16. BalancesAgree'
  BY <1>1, <1>4, <1>10, <1>12, <1>15 DEF BalancesAgree
<1>17. TotalsAgree'
  BY <1>1, <1>2, <1>3, <1>12, <1>15, LedgerSumsType DEF TotalsAgree, Counters
<1> QED BY <1>1, <1>11, <1>12, <1>16, <1>17 DEF MoneyOK

\* The lots a confirmation takes from: they lose what it spends, and those it empties are
\* marked SPENT.
LEMMA SpentLots ==
    ASSUME RowsOK, StatusMatches(lots), NEW amount \in Nat, NEW split \in FifoSplits(amount)
    PROVE  LET spentLots == [l \in DOMAIN lots |-> Consume(lots[l], split[l])] IN
           /\ spentLots \in Seq(Lot)
           /\ Held(spentLots) = Held(lots) - amount
           /\ StatusMatches(spentLots)
<1> DEFINE spentLots == [l \in DOMAIN lots |-> Consume(lots[l], split[l])]
           taken == [l \in LotId |-> -split[l]]
<1>1. TypeOK /\ lots \in Seq(Lot) /\ Len(lots) <= MaxLots /\ Len(lots) \in Nat
      /\ DOMAIN lots = 1..Len(lots)
  BY DEF RowsOK, TypeOK
<1>2. /\ split \in [LotId -> Nat] /\ Total(split) = amount
      /\ \A l \in DOMAIN lots : split[l] \in Nat /\ split[l] <= lots[l].remaining
      /\ \A l \in LotId : split[l] > 0 => l \in DOMAIN lots
  BY <1>1, FifoSplitType DEF Split
<1>3. ASSUME NEW l \in DOMAIN lots
      PROVE  /\ spentLots[l] \in Lot
             /\ spentLots[l].remaining = lots[l].remaining + taken[l]
             /\ spentLots[l].status = "ACTIVE" <=> spentLots[l].remaining > 0
  <2>1. lots[l] \in Lot /\ lots[l].remaining \in Nat /\ l \in LotId
    BY <1>1, LotFields
  <2>2. split[l] \in Nat /\ split[l] <= lots[l].remaining /\ taken[l] = -split[l]
    BY <1>2, <2>1
  <2>3. lots[l].status = "ACTIVE" <=> lots[l].remaining > 0
    BY DEF StatusMatches
  <2>4. spentLots[l] = Consume(lots[l], split[l])
    OBVIOUS
  <2> HIDE DEF spentLots, taken
  <2>5. /\ spentLots[l] \in Lot /\ spentLots[l].remaining = lots[l].remaining - split[l]
        /\ spentLots[l].status =
              IF split[l] > 0 /\ split[l] = lots[l].remaining THEN "SPENT" ELSE lots[l].status
    BY <2>1, <2>2, <2>4, ConsumeType
  <2> QED BY <2>1, <2>2, <2>3, <2>5
<1>4. taken \in [LotId -> Int] /\ \A l \in LotId : l > Len(lots) => taken[l] = 0
  <2>1. \A l \in LotId : l > Len(lots) => split[l] = 0
    BY <1>1, <1>2 DEF LotId
  <2> QED BY <1>2, <2>1
<1>5. DOMAIN spentLots = DOMAIN lots /\ spentLots = [l \in DOMAIN lots |-> spentLots[l]]
  OBVIOUS
<1> HIDE DEF spentLots
<1>6. spentLots \in Seq(Lot) /\ Len(spentLots) = Len(lots)
  BY <1>1, <1>3, <1>5, Replaced
<1>7. Total(taken) = -amount
  <2>1. /\ \A l \in 1..MaxLots : split[l] \in Int /\ taken[l] \in Int
        /\ MaxLots \in Nat
    BY <1>2, <1>4, ConstantTypes DEF LotId
  <2> DEFINE zero == [l \in LotId |-> 0]
  <2>2. \A l \in 1..MaxLots : zero[l] = split[l] + taken[l] /\ zero[l] = 0
    BY <1>2, <2>1 DEF LotId
  <2> HIDE DEF zero, taken
  <2>3. SumTo(zero, MaxLots) = SumTo(split, MaxLots) + SumTo(taken, MaxLots)
    BY <2>1, <2>2, SumToAdd
  <2>4. SumTo(zero, MaxLots) = SumTo(zero, 0)
    BY <2>1, <2>2, SumToLonger
  <2>5. SumTo(zero, 0) = 0
    BY SumToZero
  <2>6. SumTo(taken, MaxLots) \in Int
    BY <2>1, SumToInt
  <2> QED BY <1>2, <2>3, <2>4, <2>5, <2>6 DEF Total
<1>8. Held(spentLots) = Held(lots) + Total(taken)
  <2> HIDE DEF taken
  <2> QED BY <1>1, <1>3, <1>4, <1>5, <1>6, HeldMoved
<1>9. Held(lots) \in Nat
  BY <1>1, HeldCovers
<1>10. StatusMatches(spentLots)
  BY <1>3, <1>5 DEF StatusMatches
<1> QED BY <1>6, <1>7, <1>8, <1>9, <1>10 DEF spentLots

\* The confirmation of a request: the spend leaves the lots, the balance and the ledger, and
\* what the cash part earns comes into all three.
LEMMA ConfirmMoney ==
    ASSUME MoneyOK, NEW r \in DOMAIN requests, Confirm(r)
    PROVE  MoneyOK'
<1> DEFINE spend == requests[r].spend
           earn == requests[r].earn
<1>1. /\ RowsOK /\ TypeOK /\ RowsOK' /\ StatusMatches(lots) /\ AmountsNatural(txs)
      /\ BalancesAgree /\ TotalsAgree
  BY ConfirmRows DEF MoneyOK, RowsOK
<1>2. /\ spend \in Nat /\ earn \in Nat /\ requests[r].expiry \in Nat /\ r \in Nat
  <2>1. requests[r] \in Request /\ r \in Nat
    BY <1>1 DEF TypeOK
  <2> QED BY <2>1 DEF Request
<1>3. PICK split \in FifoSplits(spend) : ApplyRedemption(r, split)
  BY <1>1, ConfirmSplits
<1> DEFINE spentLots == [l \in DOMAIN lots |-> Consume(lots[l], split[l])]
           spendTx == SpendTx(spend, split, r)
           earnTx == EarnTx(earn, Len(lots) + 1, r)
           lot == NewLot(earn, requests[r].expiry, Len(txs) + 2)
<1>4. /\ txs' = txs \o RedemptionTxs(r, split)
      /\ lots' = IF earn > 0 THEN Append(spentLots, lot) ELSE spentLots
      /\ state' = [state EXCEPT !.available = state.available - spend + earn,
                                !.spent = state.spent + spend,
                                !.earned = state.earned + earn]
  BY <1>3 DEF ApplyRedemption
<1>5. /\ spentLots \in Seq(Lot) /\ Held(spentLots) = Held(lots) - spend
      /\ StatusMatches(spentLots)
  BY <1>1, <1>2, SpentLots
<1>6. /\ txs \in Seq(Tx) /\ Len(txs) + 2 \in Nat /\ Len(lots) + 1 \in Nat
      /\ Held(lots) \in Nat
  BY <1>1, HeldCovers DEF TypeOK
<1>7. /\ spendTx \in Tx /\ spendTx.type = "CASHBACK_SPEND" /\ spendTx.status = "COMPLETED"
      /\ spendTx.amount = spend
  BY <1>1, <1>2, FifoSplitType, SpendTxType
<1>8. /\ earnTx \in Tx /\ earnTx.type = "CASHBACK_EARN" /\ earnTx.status = "COMPLETED"
      /\ earnTx.amount = earn
  <2> DEFINE at == Len(lots) + 1
  <2>1. earn \in Nat /\ at \in Nat
    BY <1>2, <1>6
  <2>2. earnTx = EarnTx(earn, at, r)
    OBVIOUS
  <2> HIDE DEF earn, at, earnTx
  <2>3. r \in Nat
    BY <1>2
  <2> QED BY <2>1, <2>2, <2>3, EarnTxType
<1>9. lot \in Lot /\ lot.remaining = earn /\ lot.status = "ACTIVE"
  <2> DEFINE source == Len(txs) + 2
             expiry == requests[r].expiry
  <2>1. earn \in Nat /\ source \in Nat /\ expiry \in Nat
    BY <1>2, <1>6
  <2>2. lot = NewLot(earn, expiry, source)
    OBVIOUS
  <2> HIDE DEF earn, source, expiry, lot
  <2> QED BY <1>1, <2>1, <2>2, NewLotType
<1>10. RedemptionTxs(r, split) = IF earn > 0 THEN <<spendTx, earnTx>> ELSE <<spendTx>>
  BY DEF RedemptionTxs
<1> HIDE DEF spentLots, spendTx, earnTx, lot, spend, earn
<1>11. /\ Signed(spendTx) = -spend
       /\ \A type \in Counters :
             Counted(spendTx, type) = IF type = "CASHBACK_SPEND" THEN spend ELSE 0
       /\ Signed(earnTx) = earn
       /\ \A type \in Counters :
             Counted(earnTx, type) = IF type = "CASHBACK_EARN" THEN earn ELSE 0
  BY <1>7, <1>8 DEF Signed, Counted
<1> DEFINE first == Append(txs, spendTx)
<1>12. /\ first \in Seq(Tx) /\ AmountsNatural(first)
       /\ Balance(first) = Balance(txs) - spend
       /\ \A type \in Counters :
             Standing(first, type) = Standing(txs, type) + Counted(spendTx, type)
  <2>1. first \in Seq(Tx) /\ AmountsNatural(first)
    BY <1>1, <1>2, <1>6, <1>7, Appended, AmountsAppended
  <2>2. /\ Balance(first) = Balance(txs) + Signed(spendTx)
        /\ \A type \in Counters :
              Standing(first, type) = Standing(txs, type) + Counted(spendTx, type)
    BY <1>6, <1>7, LedgerAppended
  <2>3. Balance(txs) \in Int
    BY <1>6, LedgerSumsType
  <2> HIDE DEF first
  <2> QED BY <1>2, <1>11, <2>1, <2>2, <2>3
<1>13. /\ state'.available = state.available - spend + earn /\ state'.earned = state.earned + earn
       /\ state'.spent = state.spent + spend /\ state'.expired = state.expired
  BY <1>1, <1>4, StateFields, StateUpdated
<1>14. state.available \in Int /\ state.earned \in Nat /\ state.spent \in Nat
  BY <1>1, StateFields
<1>15. Balance(txs) \in Int /\ \A type \in Counters : Standing(txs, type) \in Int
  BY <1>6, LedgerSumsType
<1>16. /\ StatusMatches(lots') /\ AmountsNatural(txs')
       /\ Held(lots') = Held(lots) - spend + earn
       /\ Balance(txs') = Balance(txs) - spend + earn
       /\ \A type \in Counters : Standing(txs', type) =
             Standing(txs, type) + Counted(spendTx, type)
                + (IF type = "CASHBACK_EARN" THEN earn ELSE 0)
  <2>1. CASE earn > 0
    <3>1. lots' = Append(spentLots, lot) /\ txs' = Append(first, earnTx)
      BY <1>4, <1>6, <1>7, <1>8, <1>10, <2>1, TwoAppended
    <3> HIDE DEF first
    <3>2. StatusMatches(lots') /\ Held(lots') = Held(lots) - spend + earn
      BY <1>2, <1>5, <1>6, <1>9, <2>1, <3>1, StatusAppended, HeldAppended
    <3>3. AmountsNatural(txs')
      BY <1>2, <1>8, <1>12, <3>1, AmountsAppended
    <3>4. /\ Balance(txs') = Balance(first) + Signed(earnTx)
          /\ \A type \in Counters :
                Standing(txs', type) = Standing(first, type) + Counted(earnTx, type)
      BY <1>8, <1>12, <3>1, LedgerAppended
    <3> QED BY <1>2, <1>11, <1>12, <1>15, <3>2, <3>3, <3>4
  <2>2. CASE ~(earn > 0)
    <3>1. lots' = spentLots /\ txs' = first /\ earn = 0
      BY <1>2, <1>4, <1>6, <1>7, <1>8, <1>10, <2>2, TwoAppended
    <3> HIDE DEF first
    <3>2. \A type \in Counters : Counted(spendTx, type) \in Int
      BY <1>2, <1>11
    <3> QED BY <1>2, <1>5, <1>6, <1>12, <1>15, <3>1, <3>2
  <2> QED BY <2>1, <2>2
<1>17. BalancesAgree'
  BY <1>1, <1>13, <1>16 DEF BalancesAgree
<1>18. TotalsAgree'
  BY <1>1, <1>2, <1>11, <1>13, <1>14, <1>15, <1>16 DEF TotalsAgree, Counters
<1> QED BY <1>1, <1>16, <1>17, <1>18 DEF MoneyOK

-----------------------------------------------------------------------------
(* Every step *)

\* With no lots and no entries the three agree on nothing.
LEMMA InitMoney == Init => MoneyOK
<1> SUFFICES ASSUME Init PROVE MoneyOK
  OBVIOUS
<1>1. lots = <<>> /\ txs = <<>>
  BY DEF Init
<1>2. Len(lots) = 0 /\ Len(txs) = 0 /\ DOMAIN lots = {} /\ DOMAIN txs = {}
  BY <1>1
<1>3. Held(lots) = 0 /\ Balance(txs) = 0 /\ \A type \in Counters : Standing(txs, type) = 0
  BY <1>2, SumToZero DEF Held, Balance, Standing
<1>4. BalancesAgree /\ TotalsAgree
  BY <1>3 DEF Init, BalancesAgree, TotalsAgree, Counters
<1>5. StatusMatches(lots) /\ AmountsNatural(txs)
  BY <1>2 DEF StatusMatches, AmountsNatural
<1> QED BY <1>4, <1>5, InitRows DEF MoneyOK

\* Every step moves the three by one amount.
LEMMA NextMoney == MoneyOK /\ [Next]_vars => MoneyOK'
<1> SUFFICES ASSUME MoneyOK, [Next]_vars PROVE MoneyOK'
  OBVIOUS
<1>1. ASSUME UNCHANGED <<state, lots, txs>> PROVE MoneyOK'
  <2>1. RowsOK'
    BY NextRows DEF MoneyOK
  <2> QED BY <1>1, <2>1 DEF MoneyOK, BalancesAgree, TotalsAgree
<1>2. \/ UNCHANGED <<state, lots, txs>>
      \/ \E total \in Amounts : EarnOnly(total)
      \/ \E r \in DOMAIN requests : Confirm(r)
      \/ \E t \in DOMAIN txs : ReverseSpend(t)
      \/ \E t \in DOMAIN txs, force \in BOOLEAN : ReverseEarn(t, force)
      \/ \E w \in LotWorkers : \E l \in lotJobs[w].ids : ExpireLot(w, l)
  BY DEF Next, vars, CreateCashbackRequest, BeginConfirm, AbandonConfirm, Reject,
         CancelByAdmin, StartLotSweep, AbortLotSweep, ExpireRequest, StartRequestSweep, AbortRequestSweep,
         SetOrganizationStatus, UpdateProgram, Tick
<1> QED BY <1>1, <1>2, EarnOnlyMoney, ConfirmMoney, ReverseSpendMoney, ReverseEarnMoney,
           ExpireLotMoney

\* The inductive invariant.
THEOREM MoneyCorrect == Spec => []MoneyOK
BY InitMoney, NextMoney, PTL DEF Spec

\* Whatever the constants and the history, the balance is what the ledger adds up to.
THEOREM LedgerBalanceCorrect == Spec => []LedgerBalance
<1>1. MoneyOK => LedgerBalance
  BY DEF MoneyOK, BalancesAgree, LedgerBalance, Balance
<1> QED BY <1>1, MoneyCorrect, PTL

\* What lots hold that are not ACTIVE is nothing.
LEMMA ActiveHold ==
    ASSUME MoneyOK
    PROVE  Remaining({l \in DOMAIN lots : lots[l].status = "ACTIVE"}) = Held(lots)
<1> DEFINE active == {l \in DOMAIN lots : lots[l].status = "ACTIVE"}
           f == [l \in DOMAIN lots |-> IF l \in active THEN lots[l].remaining ELSE 0]
           g == [l \in DOMAIN lots |-> lots[l].remaining]
<1>1. TypeOK /\ StatusMatches(lots) /\ Len(lots) \in Nat /\ DOMAIN lots = 1..Len(lots)
  BY DEF MoneyOK, RowsOK, TypeOK
<1>2. ASSUME NEW l \in 1..Len(lots) PROVE f[l] = g[l]
  <2>1. lots[l].remaining \in Nat /\ l \in DOMAIN lots
    BY <1>1, LotFields
  <2> QED BY <1>1, <2>1 DEF StatusMatches
<1> HIDE DEF f, g
<1>3. SumTo(f, Len(lots)) = SumTo(g, Len(lots))
  BY <1>1, <1>2, SumToSame
<1> QED BY <1>3 DEF f, g, Remaining, Held

\* Whatever the constants and the history, the balance is what the ACTIVE lots hold.
THEOREM AggregateMatchesLotsCorrect == Spec => []AggregateMatchesLots
<1>1. MoneyOK => AggregateMatchesLots
  BY ActiveHold DEF MoneyOK, BalancesAgree, AggregateMatchesLots
<1> QED BY <1>1, MoneyCorrect, PTL

\* The entries of a type that stand, added up as the statistics do.
LEMMA StandingIsSum ==
    ASSUME TypeOK, NEW type
    PROVE  Sum(Completed(type)) = Standing(txs, type)
<1> DEFINE f == [t \in DOMAIN txs |-> IF t \in Completed(type) THEN txs[t].amount ELSE 0]
           g == [t \in DOMAIN txs |-> Counted(txs[t], type)]
<1>1. Len(txs) \in Nat /\ DOMAIN txs = 1..Len(txs)
  BY DEF TypeOK
<1>2. \A t \in 1..Len(txs) : f[t] = g[t]
  BY <1>1 DEF Completed, Entries, Counted
<1> HIDE DEF f, g
<1>3. SumTo(f, Len(txs)) = SumTo(g, Len(txs))
  BY <1>1, <1>2, SumToSame
<1> QED BY <1>3 DEF f, g, Sum, Standing

\* What is ACTIVE is usable or overdue.
LEMMA ActiveOrOverdue ==
    ASSUME MoneyOK
    PROVE  state.available - AvailableAmount =
             Remaining({l \in DOMAIN lots : lots[l].status = "ACTIVE" /\ lots[l].expiresAt <= now})
<1> DEFINE overdue == {l \in DOMAIN lots : lots[l].status = "ACTIVE" /\ lots[l].expiresAt <= now}
           f == [l \in DOMAIN lots |-> IF l \in UsableLots THEN lots[l].remaining ELSE 0]
           g == [l \in DOMAIN lots |-> IF l \in overdue THEN lots[l].remaining ELSE 0]
           h == [l \in DOMAIN lots |-> lots[l].remaining]
<1>1. TypeOK /\ StatusMatches(lots) /\ Len(lots) \in Nat /\ DOMAIN lots = 1..Len(lots) /\ now \in Nat
  BY DEF MoneyOK, RowsOK, TypeOK
<1>2. ASSUME NEW l \in 1..Len(lots)
      PROVE  f[l] \in Int /\ g[l] \in Int /\ h[l] = f[l] + g[l]
  <2>1. lots[l].remaining \in Nat /\ lots[l].expiresAt \in Nat /\ l \in DOMAIN lots
    BY <1>1, LotFields
  <2>2. lots[l].status = "ACTIVE" <=> lots[l].remaining > 0
    BY <1>1, <2>1 DEF StatusMatches
  <2> QED BY <1>1, <2>1, <2>2 DEF UsableLots
<1> HIDE DEF f, g, h
<1>3. /\ SumTo(h, Len(lots)) = SumTo(f, Len(lots)) + SumTo(g, Len(lots))
      /\ SumTo(f, Len(lots)) \in Int /\ SumTo(g, Len(lots)) \in Int
  BY <1>1, <1>2, SumToAdd, SumToInt
<1>4. state.available = SumTo(h, Len(lots))
  BY DEF MoneyOK, BalancesAgree, Held, h
<1>5. AvailableAmount = SumTo(f, Len(lots)) /\ Remaining(overdue) = SumTo(g, Len(lots))
  BY DEF AvailableAmount, Remaining, f, g
<1> QED BY <1>3, <1>4, <1>5

\* Whatever the constants and the history, the client's totals are those of the standing
\* entries, and the balances differ by the lots that wait for the sweep.
THEOREM TotalsMatchLedgerCorrect == Spec => []TotalsMatchLedger
<1>1. MoneyOK => TotalsMatchLedger
  <2> SUFFICES ASSUME MoneyOK PROVE TotalsMatchLedger
    OBVIOUS
  <2>1. TypeOK /\ TotalsAgree
    BY DEF MoneyOK, RowsOK
  <2> QED BY <2>1, StandingIsSum, ActiveOrOverdue
          DEF TotalsMatchLedger, OrganizationStatistics, TotalsAgree
<1> QED BY <1>1, MoneyCorrect, PTL

=============================================================================

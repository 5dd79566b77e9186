----------------------------- MODULE SumProofs -----------------------------
(***************************************************************************)
(* Lemmas about SumFunction, the sum of a function over its domain, which  *)
(* the properties that add up over writers, slots and connections use.     *)
(* SumFunction folds over the set one member after the other, in an order  *)
(* that CHOOSE picks; the lemmas show that the order does not matter.      *)
(*                                                                         *)
(* The library's induction theorems take an operator as a parameter, which *)
(* the provers cannot instantiate.  Induction is done here by a minimal    *)
(* counterexample instead, with its first-order theorems that the strict   *)
(* subsets of a finite set, and the natural numbers, are well founded.     *)
(***************************************************************************)
EXTENDS Integers, FiniteSets, Functions, FiniteSetTheorems, TLAPS

\* Every set of subsets of a finite set has a minimal member.
LEMMA MinimalSubset ==
  ASSUME NEW S, IsFiniteSet(S), NEW C \in SUBSET SUBSET S, C # {}
  PROVE  \E T \in C : \A U \in C : U \subseteq T => U = T
<1>1. IsWellFoundedOn(StrictSubsetOrdering(S), SUBSET S)
  BY FS_StrictSubsetOrderingWellFounded, FS_FiniteSubsetsOfFinite, Zenon
<1>2. PICK T \in C : \A U \in C : ~ (<<U, T>> \in StrictSubsetOrdering(S))
  BY <1>1, WFMin
<1>. QED BY <1>2 DEF StrictSubsetOrdering

\* The member of a set that is summed first.
Member(s) == CHOOSE x \in s : TRUE

\* Member picks a member.
LEMMA MemberOf ==
  ASSUME NEW s, s # {}
  PROVE  Member(s) \in s
  BY DEF Member

\* Induction over the subsets of a finite set: Good are those the claim holds of.
LEMMA SubsetInduction ==
  ASSUME NEW S, IsFiniteSet(S), NEW Good, {} \in Good,
         \A T \in SUBSET S : T # {} /\ T \ {Member(T)} \in Good => T \in Good
  PROVE  \A T \in SUBSET S : T \in Good
<1>. DEFINE C == {T \in SUBSET S : T \notin Good}
<1>1. C \in SUBSET SUBSET S
  OBVIOUS
<1>2. SUFFICES ASSUME C # {} PROVE FALSE
  OBVIOUS
<1>. HIDE DEF C
<1>3. PICK T \in C : \A U \in C : U \subseteq T => U = T
  BY <1>1, <1>2, MinimalSubset
<1>. USE DEF C
<1>4. T # {} /\ T \in SUBSET S /\ T \notin Good
  OBVIOUS
<1>5. Member(T) \in T
  BY <1>4, MemberOf
<1>6. T \ {Member(T)} \in SUBSET S /\ T \ {Member(T)} \notin C
  BY <1>3, <1>4, <1>5
<1>. QED BY <1>4, <1>6

\* Every set of natural numbers has a smallest member.
LEMMA SmallestNat ==
  ASSUME NEW C \in SUBSET Nat, C # {}
  PROVE  \E m \in C : \A n \in C : m <= n
<1>1. IsWellFoundedOn(OpToRel(<, Nat), Nat)
  BY NatLessThanWellFounded
<1>2. OpToRel(<, Nat) = {ss \in Nat \X Nat : ss[1] < ss[2]}
  BY DEF OpToRel
<1>3. IsWellFoundedOn({ss \in Nat \X Nat : ss[1] < ss[2]}, Nat)
  BY <1>1, <1>2
<1>4. PICK m \in C : \A n \in C : ~ (<<n, m>> \in {ss \in Nat \X Nat : ss[1] < ss[2]})
  BY <1>3, WFMin
<1>5. \A n \in C : ~ (n < m)
  BY <1>4
<1>. QED BY <1>5

-----------------------------------------------------------------------------
\* F is the function that sums f up over each set in D, by recursion on the set.
Sums(F, f, D) ==
  F = [s \in D |-> IF s = {} THEN 0 ELSE f[Member(s)] + F[s \ {Member(s)}]]

\* The sum over a set is what the recursive function says, if there is one.
LEMMA SumIsSums ==
  ASSUME NEW f, NEW S
  PROVE  SumFunctionOnSet(f, S) = (CHOOSE F : Sums(F, f, SUBSET S))[S]
  BY DEF SumFunctionOnSet, FoldFunctionOnSet, MapThenFoldSet, Sums, Member

\* There is one, for the subsets of a finite set: it is built up by the size of the sets.
LEMMA SumsExist ==
  ASSUME NEW S, IsFiniteSet(S), NEW f
  PROVE  \E F : Sums(F, f, SUBSET S)
<1>. DEFINE D(n) == {s \in SUBSET S : Cardinality(s) <= n}
            Bad  == {n \in Nat : ~ \E F : Sums(F, f, D(n))}
<1>1. \A s \in SUBSET S :
        IsFiniteSet(s) /\ Cardinality(s) \in Nat /\ Cardinality(s) <= Cardinality(S)
  BY FS_Subset, FS_CardinalityType
<1>2. \A s \in SUBSET S : s # {} =>
        /\ Member(s) \in s
        /\ s \ {Member(s)} \in SUBSET S
        /\ Cardinality(s \ {Member(s)}) = Cardinality(s) - 1
  BY <1>1, FS_RemoveElement, MemberOf
<1>3. \A s \in SUBSET S : Cardinality(s) = 0 <=> s = {}
  BY <1>1, FS_EmptySet
<1>4. 0 \notin Bad
  <2>. DEFINE F == [s \in D(0) |-> 0]
  <2>1. D(0) = {{}}
    BY <1>1, <1>3
  <2>2. Sums(F, f, D(0))
    BY <2>1 DEF Sums
  <2>. QED BY <2>2
<1>5. ASSUME NEW n \in Nat, n \notin Bad PROVE n + 1 \notin Bad
  <2>1. PICK F : Sums(F, f, D(n))
    BY <1>5
  <2>. DEFINE G == [s \in D(n + 1) |-> IF s = {} THEN 0 ELSE f[Member(s)] + F[s \ {Member(s)}]]
  <2>2. \A s \in D(n) : F[s] = IF s = {} THEN 0 ELSE f[Member(s)] + F[s \ {Member(s)}]
    BY <2>1 DEF Sums
  <2>3. D(n) \subseteq D(n + 1)
    BY <1>1
  <2>4. \A s \in D(n) : G[s] = F[s]
    BY <2>2, <2>3
  <2>5. \A s \in D(n + 1) : s # {} => s \ {Member(s)} \in D(n)
    BY <1>1, <1>2
  <2>6. \A s \in D(n + 1) : G[s] = IF s = {} THEN 0 ELSE f[Member(s)] + G[s \ {Member(s)}]
    BY <2>4, <2>5
  <2>7. Sums(G, f, D(n + 1))
    BY <2>6 DEF Sums
  <2>. QED BY <2>7
<1>6. Bad = {}
  <2>. SUFFICES ASSUME Bad # {} PROVE FALSE
    OBVIOUS
  <2>1. PICK m \in Bad : \A n \in Bad : m <= n
    BY SmallestNat
  <2>2. m \in Nat /\ m # 0
    BY <1>4
  <2>3. m - 1 \in Nat /\ m - 1 \notin Bad
    <3>1. m - 1 \in Nat /\ ~ (m <= m - 1)
      BY <2>2
    <3>. HIDE DEF Bad
    <3>. QED BY <2>1, <3>1
  <2>4. (m - 1) + 1 \notin Bad
    BY <1>5, <2>3
  <2>. QED BY <2>2, <2>4
<1>7. D(Cardinality(S)) = SUBSET S
  BY <1>1
<1>8. Cardinality(S) \in Nat
  BY FS_CardinalityType
<1>. QED BY <1>6, <1>7, <1>8

\* F sums up f over each subset of S, one member after the other.
Unfolds(F, f, S) ==
  /\ F \in [SUBSET S -> Int]
  /\ F[{}] = 0
  /\ \A s \in SUBSET S : s # {} => F[s] = f[Member(s)] + F[s \ {Member(s)}]

\* The sum of a function over a set is obtained by summing up one member after the other.
LEMMA SumOnSetUnfolds ==
  ASSUME NEW S, IsFiniteSet(S), NEW f, \A x \in S : f[x] \in Int
  PROVE  \E F : SumFunctionOnSet(f, S) = F[S] /\ Unfolds(F, f, S)
<1>. DEFINE F == CHOOSE F : Sums(F, f, SUBSET S)
<1>1. Sums(F, f, SUBSET S)
  BY SumsExist
<1>2. SumFunctionOnSet(f, S) = F[S]
  BY SumIsSums
<1>. HIDE DEF F
<1>3. /\ F = [s \in SUBSET S |-> F[s]]
      /\ F[{}] = 0
      /\ \A s \in SUBSET S : s # {} => F[s] = f[Member(s)] + F[s \ {Member(s)}]
  BY <1>1 DEF Sums
<1>4. \A s \in SUBSET S : F[s] \in Int
  <2>. DEFINE Good == {s \in SUBSET S : F[s] \in Int}
  <2>1. {} \in Good
    BY <1>3
  <2>2. ASSUME NEW T \in SUBSET S, T # {}, T \ {Member(T)} \in Good PROVE T \in Good
    <3>1. Member(T) \in S
      BY <2>2, MemberOf
    <3>2. f[Member(T)] \in Int /\ F[T \ {Member(T)}] \in Int
      BY <2>2, <3>1
    <3>3. F[T] = f[Member(T)] + F[T \ {Member(T)}]
      BY <1>3, <2>2
    <3>4. F[T] \in Int
      BY <3>2, <3>3
    <3>. QED BY <3>4
  <2>. HIDE DEF Good
  <2>3. \A T \in SUBSET S : T \in Good
    BY <2>1, <2>2, SubsetInduction
  <2>. QED BY <2>3 DEF Good
<1>5. F \in [SUBSET S -> Int]
  BY <1>3, <1>4
<1>6. Unfolds(F, f, S)
  BY <1>3, <1>5 DEF Unfolds
<1>. QED BY <1>2, <1>6

\* So is the sum of a function over its domain.
LEMMA SumUnfolds ==
  ASSUME NEW S, IsFiniteSet(S), NEW f \in [S -> Int]
  PROVE  \E F : SumFunction(f) = F[S] /\ Unfolds(F, f, S)
<1>1. \A x \in S : f[x] \in Int
  OBVIOUS
<1>2. DOMAIN f = S
  OBVIOUS
<1>. QED BY <1>1, <1>2, SumOnSetUnfolds DEF SumFunction

\* Summing a function up over a set is summing its restriction to the set up.
LEMMA SumOnSet ==
  ASSUME NEW S, IsFiniteSet(S), NEW f, NEW g \in [S -> Int], \A x \in S : f[x] = g[x]
  PROVE  SumFunctionOnSet(f, S) = SumFunction(g)
<1>1. PICK F : SumFunctionOnSet(f, S) = F[S] /\ Unfolds(F, f, S)
  <2>1. \A x \in S : f[x] \in Int
    OBVIOUS
  <2>. QED BY <2>1, SumOnSetUnfolds
<1>2. PICK G : SumFunction(g) = G[S] /\ Unfolds(G, g, S)
  BY SumUnfolds
<1>. DEFINE Good == {s \in SUBSET S : F[s] = G[s]}
<1>3. {} \in Good
  BY <1>1, <1>2 DEF Unfolds
<1>4. ASSUME NEW T \in SUBSET S, T # {}, T \ {Member(T)} \in Good PROVE T \in Good
  <2>1. Member(T) \in S
    BY <1>4, MemberOf
  <2>. QED BY <1>1, <1>2, <1>4, <2>1 DEF Unfolds
<1>. HIDE DEF Good
<1>5. S \in Good
  BY <1>3, <1>4, SubsetInduction
<1>. QED BY <1>1, <1>2, <1>5 DEF Good

-----------------------------------------------------------------------------
\* A sum changes by as much as its one summand that changes.
LEMMA SumChange ==
  ASSUME NEW S, IsFiniteSet(S), NEW f \in [S -> Int], NEW g \in [S -> Int], NEW x \in S,
         \A y \in S \ {x} : g[y] = f[y]
  PROVE  /\ SumFunction(f) \in Int
         /\ SumFunction(g) = SumFunction(f) + (g[x] - f[x])
<1>1. PICK F : SumFunction(f) = F[S] /\ Unfolds(F, f, S)
  BY SumUnfolds
<1>2. PICK G : SumFunction(g) = G[S] /\ Unfolds(G, g, S)
  BY SumUnfolds
<1>. DEFINE d == g[x] - f[x]
            Good == {s \in SUBSET S : G[s] = F[s] + (IF x \in s THEN d ELSE 0)}
<1>3. {} \in Good
  BY <1>1, <1>2 DEF Unfolds
<1>4. ASSUME NEW T \in SUBSET S, T # {}, T \ {Member(T)} \in Good PROVE T \in Good
  <2>. DEFINE m == Member(T)
  <2>1. m \in T /\ m \in S
    BY <1>4, MemberOf
  <2>2. F[T] = f[m] + F[T \ {m}] /\ G[T] = g[m] + G[T \ {m}]
    BY <1>1, <1>2, <1>4 DEF Unfolds
  <2>3. G[T \ {m}] = F[T \ {m}] + (IF x \in T \ {m} THEN d ELSE 0)
    BY <1>4
  <2>4. F[T \ {m}] \in Int /\ f[m] \in Int /\ g[m] \in Int /\ d \in Int
    BY <1>1, <2>1 DEF Unfolds
  <2>. HIDE DEF m
  <2>5. CASE m = x
    <3>1. G[T \ {m}] = F[T \ {m}] /\ g[m] = f[m] + d
      BY <2>3, <2>4, <2>5
    <3>2. G[T] = F[T] + d
      BY <2>2, <2>4, <3>1
    <3>. QED BY <2>1, <2>5, <3>2
  <2>6. CASE m # x
    <3>1. g[m] = f[m] /\ (x \in T \ {m} <=> x \in T)
      BY <2>1, <2>6
    <3>. QED BY <2>2, <2>3, <2>4, <3>1
  <2>. QED BY <2>5, <2>6
<1>. HIDE DEF Good
<1>5. S \in Good
  BY <1>3, <1>4, SubsetInduction
<1>6. G[S] = F[S] + d
  BY <1>5 DEF Good
<1>. QED BY <1>1, <1>2, <1>6 DEF Unfolds

\* A sum does not shrink when none of its summands does.
LEMMA SumOrder ==
  ASSUME NEW S, IsFiniteSet(S), NEW f \in [S -> Int], NEW g \in [S -> Int],
         \A y \in S : f[y] <= g[y]
  PROVE  /\ SumFunction(f) \in Int /\ SumFunction(g) \in Int
         /\ SumFunction(f) <= SumFunction(g)
<1>1. PICK F : SumFunction(f) = F[S] /\ Unfolds(F, f, S)
  BY SumUnfolds
<1>2. PICK G : SumFunction(g) = G[S] /\ Unfolds(G, g, S)
  BY SumUnfolds
<1>. DEFINE Good == {s \in SUBSET S : F[s] <= G[s]}
<1>3. {} \in Good
  BY <1>1, <1>2 DEF Unfolds
<1>4. ASSUME NEW T \in SUBSET S, T # {}, T \ {Member(T)} \in Good PROVE T \in Good
  <2>. DEFINE m == Member(T)
  <2>1. m \in S
    BY <1>4, MemberOf
  <2>2. F[T] = f[m] + F[T \ {m}] /\ G[T] = g[m] + G[T \ {m}]
    BY <1>1, <1>2, <1>4 DEF Unfolds
  <2>3. F[T \ {m}] <= G[T \ {m}] /\ f[m] <= g[m]
    BY <1>4, <2>1
  <2>4. /\ F[T \ {m}] \in Int /\ G[T \ {m}] \in Int
        /\ f[m] \in Int /\ g[m] \in Int
    BY <1>1, <1>2, <2>1 DEF Unfolds
  <2>. HIDE DEF m
  <2>5. F[T] <= G[T]
    BY <2>2, <2>3, <2>4
  <2>. QED BY <2>5
<1>. HIDE DEF Good
<1>5. S \in Good
  BY <1>3, <1>4, SubsetInduction
<1>. QED BY <1>1, <1>2, <1>5 DEF Good, Unfolds

\* The sum of summands that are all alike is a product.
LEMMA SumConstant ==
  ASSUME NEW S, IsFiniteSet(S), NEW k \in Int, NEW f \in [S -> Int], \A y \in S : f[y] = k
  PROVE  SumFunction(f) = k * Cardinality(S)
<1>1. PICK F : SumFunction(f) = F[S] /\ Unfolds(F, f, S)
  BY SumUnfolds
<1>. DEFINE Good == {s \in SUBSET S : F[s] = k * Cardinality(s)}
<1>2. {} \in Good
  BY <1>1, FS_EmptySet DEF Unfolds
<1>3. ASSUME NEW T \in SUBSET S, T # {}, T \ {Member(T)} \in Good PROVE T \in Good
  <2>. DEFINE m == Member(T)
              c == Cardinality(T \ {m})
  <2>1. m \in T /\ m \in S
    BY <1>3, MemberOf
  <2>2. IsFiniteSet(T) /\ IsFiniteSet(T \ {m})
    BY FS_Subset
  <2>3. Cardinality(T) \in Nat /\ c \in Nat /\ c = Cardinality(T) - 1
    BY <2>1, <2>2, FS_RemoveElement, FS_CardinalityType
  <2>4. F[T] = k + F[T \ {m}]
    BY <1>1, <1>3, <2>1 DEF Unfolds
  <2>5. F[T \ {m}] = k * c
    BY <1>3
  <2>. HIDE DEF m, c
  <2>6. F[T] = k * Cardinality(T)
    <3>1. Cardinality(T) = c + 1
      BY <2>3
    <3>2. k * (c + 1) = k + k * c
      BY <2>3
    <3>. QED BY <2>4, <2>5, <3>1, <3>2
  <2>. QED BY <2>6
<1>. HIDE DEF Good
<1>4. S \in Good
  BY <1>2, <1>3, SubsetInduction
<1>. QED BY <1>1, <1>4 DEF Good

\* Nothing sums up to nothing.
LEMMA SumZero ==
  ASSUME NEW S, IsFiniteSet(S), NEW f \in [S -> Int], \A y \in S : f[y] = 0
  PROVE  SumFunction(f) = 0
<1>1. SumFunction(f) = 0 * Cardinality(S)
  BY SumConstant
<1>2. Cardinality(S) \in Nat
  BY FS_CardinalityType
<1>. QED BY <1>1, <1>2

\* Each summand of h is k times that of f plus that of g.
Linear(h, k, f, g, S) == \A y \in S : h[y] = k * f[y] + g[y]

\* A sum is linear in its summands.
LEMMA SumLinear ==
  ASSUME NEW S, IsFiniteSet(S), NEW k \in Int, NEW f \in [S -> Int], NEW g \in [S -> Int],
         NEW h \in [S -> Int], Linear(h, k, f, g, S)
  PROVE  SumFunction(h) = k * SumFunction(f) + SumFunction(g)
<1>1. PICK F : SumFunction(f) = F[S] /\ Unfolds(F, f, S)
  BY SumUnfolds
<1>2. PICK G : SumFunction(g) = G[S] /\ Unfolds(G, g, S)
  BY SumUnfolds
<1>3. PICK H : SumFunction(h) = H[S] /\ Unfolds(H, h, S)
  BY SumUnfolds
<1>. DEFINE Good == {s \in SUBSET S : H[s] = k * F[s] + G[s]}
<1>4. {} \in Good
  BY <1>1, <1>2, <1>3 DEF Unfolds
<1>5. ASSUME NEW T \in SUBSET S, T # {}, T \ {Member(T)} \in Good PROVE T \in Good
  <2>. DEFINE m == Member(T)
              a == F[T \ {m}]
              b == G[T \ {m}]
              p == f[m]
  <2>1. m \in T /\ m \in S
    BY <1>5, MemberOf
  <2>2. F[T] = p + a /\ G[T] = g[m] + b /\ H[T] = h[m] + H[T \ {m}]
    BY <1>1, <1>2, <1>3, <1>5 DEF Unfolds
  <2>3. H[T \ {m}] = k * a + b
    BY <1>5
  <2>4. a \in Int /\ b \in Int /\ p \in Int /\ g[m] \in Int /\ h[m] = k * p + g[m]
    BY <1>1, <1>2, <2>1 DEF Unfolds, Linear
  <2>. HIDE DEF m, a, b, p
  <2>5. k * (p + a) = k * p + k * a
    BY <2>4
  <2>6. k * p \in Int /\ k * a \in Int
    BY <2>4
  <2>7. H[T] = k * F[T] + G[T]
    BY <2>2, <2>3, <2>4, <2>5, <2>6
  <2>. QED BY <2>7
<1>. HIDE DEF Good
<1>6. S \in Good
  BY <1>4, <1>5, SubsetInduction
<1>. QED BY <1>1, <1>2, <1>3, <1>6 DEF Good

\* Any member may be summed up last.
LEMMA AnyLast ==
  ASSUME NEW S, IsFiniteSet(S), NEW f \in [S -> Int], NEW F, Unfolds(F, f, S)
  PROVE  \A T \in SUBSET S : \A m \in T : F[T] = f[m] + F[T \ {m}]
<1>. DEFINE Bad == {T \in SUBSET S : \E m \in T : F[T] # f[m] + F[T \ {m}]}
<1>1. SUFFICES ASSUME Bad # {} PROVE FALSE
  OBVIOUS
<1>2. Bad \in SUBSET SUBSET S
  OBVIOUS
<1>. HIDE DEF Bad
<1>3. PICK T \in Bad : \A U \in Bad : U \subseteq T => U = T
  BY <1>1, <1>2, MinimalSubset
<1>. USE DEF Bad
<1>4. PICK m \in T : F[T] # f[m] + F[T \ {m}]
  BY <1>3
<1>. DEFINE l == Member(T)
<1>5. l \in T /\ T \in SUBSET S /\ F[T] = f[l] + F[T \ {l}]
  BY <1>3, <1>4, MemberOf DEF Unfolds
<1>. HIDE DEF l
<1>6. l # m
  BY <1>4, <1>5
<1>. HIDE DEF Bad
<1>7. T \ {l} \notin Bad /\ T \ {m} \notin Bad
  BY <1>3, <1>4, <1>5
<1>. USE DEF Bad
<1>8. F[T \ {l}] = f[m] + F[(T \ {l}) \ {m}] /\ F[T \ {m}] = f[l] + F[(T \ {m}) \ {l}]
  BY <1>4, <1>5, <1>6, <1>7
<1>9. (T \ {l}) \ {m} = (T \ {m}) \ {l}
  OBVIOUS
<1>. DEFINE r == F[(T \ {m}) \ {l}]
            u == F[T]
            v == F[T \ {m}]
            a == f[m]
            b == f[l]
<1>10. a \in Int /\ b \in Int /\ r \in Int
  BY <1>4, <1>5 DEF Unfolds
<1>11. u = b + (a + r) /\ v = b + r /\ u # a + v
  BY <1>4, <1>5, <1>8, <1>9
<1>. HIDE DEF r, u, v, a, b
<1>. QED BY <1>10, <1>11

\* One more summand adds its value.
LEMMA SumExtended ==
  ASSUME NEW S, IsFiniteSet(S), NEW x, x \notin S, NEW f \in [S -> Int],
         NEW g \in [S \cup {x} -> Int], \A y \in S : g[y] = f[y]
  PROVE  /\ SumFunction(f) \in Int
         /\ SumFunction(g) = SumFunction(f) + g[x]
<1>. DEFINE X == S \cup {x}
<1>1. IsFiniteSet(X)
  BY FS_AddElement
<1>2. PICK F : SumFunction(f) = F[S] /\ Unfolds(F, f, S)
  BY SumUnfolds
<1>3. PICK G : SumFunction(g) = G[X] /\ Unfolds(G, g, X)
  BY <1>1, SumUnfolds
<1>. DEFINE Good == {s \in SUBSET S : G[s] = F[s]}
<1>4. {} \in Good
  BY <1>2, <1>3 DEF Unfolds
<1>5. ASSUME NEW T \in SUBSET S, T # {}, T \ {Member(T)} \in Good PROVE T \in Good
  <2>. DEFINE m == Member(T)
  <2>1. m \in S /\ T \in SUBSET X
    BY <1>5, MemberOf
  <2>2. F[T] = f[m] + F[T \ {m}] /\ G[T] = g[m] + G[T \ {m}]
    BY <1>2, <1>3, <1>5, <2>1 DEF Unfolds
  <2>. QED BY <1>5, <2>1, <2>2
<1>. HIDE DEF Good
<1>6. S \in Good
  BY <1>4, <1>5, SubsetInduction
<1>7. G[X] = g[x] + G[X \ {x}]
  BY <1>1, <1>3, AnyLast
<1>8. X \ {x} = S
  OBVIOUS
<1>9. G[X] = g[x] + F[S] /\ F[S] \in Int /\ g[x] \in Int
  BY <1>2, <1>6, <1>7, <1>8 DEF Good, Unfolds
<1>. QED BY <1>2, <1>3, <1>9

\* The sizes of the parts of a set add up to its size.
LEMMA SumOfParts ==
  ASSUME NEW S, IsFiniteSet(S), NEW T, IsFiniteSet(T), NEW h \in [T -> S]
  PROVE  SumFunction([s \in S |-> Cardinality({t \in T : h[t] = s})]) = Cardinality(T)
<1>. DEFINE P(U, s) == {t \in U : h[t] = s}
            f(U) == [s \in S |-> Cardinality(P(U, s))]
            Good == {U \in SUBSET T : SumFunction(f(U)) = Cardinality(U)}
<1>1. \A U \in SUBSET T : /\ IsFiniteSet(U) /\ Cardinality(U) \in Int
                          /\ \A s \in S : IsFiniteSet(P(U, s)) /\ Cardinality(P(U, s)) \in Int
  <2>. TAKE U \in SUBSET T
  <2>1. IsFiniteSet(U)
    BY FS_Subset
  <2>2. \A s \in S : P(U, s) \subseteq U
    OBVIOUS
  <2>. HIDE DEF P
  <2>. QED BY <2>1, <2>2, FS_Subset, FS_CardinalityType
<1>2. \A U \in SUBSET T : f(U) \in [S -> Int]
  BY <1>1
<1>3. {} \in Good
  <2>1. \A s \in S : P({}, s) = {}
    OBVIOUS
  <2>2. \A s \in S : f({})[s] = 0
    BY <2>1, FS_EmptySet
  <2>3. f({}) \in [S -> Int]
    BY <1>2
  <2>. HIDE DEF f
  <2>4. SumFunction(f({})) = 0
    BY <2>2, <2>3, SumZero
  <2>. QED BY <2>4, FS_EmptySet
<1>4. ASSUME NEW U \in SUBSET T, U # {}, U \ {Member(U)} \in Good PROVE U \in Good
  <2>. DEFINE m == Member(U)
              V == U \ {m}
              p == h[m]
  <2>1. m \in U /\ p \in S /\ V \in SUBSET T
    BY <1>4, MemberOf
  <2>2. SumFunction(f(V)) = Cardinality(V)
    BY <1>4
  <2>3. \A s \in S \ {p} : P(U, s) = P(V, s)
    OBVIOUS
  <2>4. P(U, p) = P(V, p) \cup {m} /\ m \notin P(V, p)
    BY <2>1
  <2>5. Cardinality(P(U, p)) = Cardinality(P(V, p)) + 1
    <3>1. IsFiniteSet(P(V, p))
      BY <1>1, <2>1
    <3>. HIDE DEF P, m, V, p
    <3>. QED BY <2>4, <3>1, FS_AddElement
  <2>6. /\ \A s \in S \ {p} : f(U)[s] = f(V)[s]
        /\ f(U)[p] = f(V)[p] + 1 /\ f(V)[p] \in Int
    BY <1>1, <2>1, <2>3, <2>5
  <2>7. f(U) \in [S -> Int] /\ f(V) \in [S -> Int]
    BY <1>2, <2>1
  <2>8. Cardinality(U) = Cardinality(V) + 1 /\ Cardinality(V) \in Int
    BY <1>1, <2>1, FS_RemoveElement
  <2>. HIDE DEF f, m, V, p
  <2>9. SumFunction(f(U)) = SumFunction(f(V)) + (f(U)[p] - f(V)[p])
    BY <2>1, <2>6, <2>7, SumChange
  <2>10. SumFunction(f(U)) = Cardinality(U)
    BY <2>2, <2>6, <2>8, <2>9
  <2>. QED BY <2>10
<1>. HIDE DEF Good
<1>5. T \in Good
  BY <1>3, <1>4, SubsetInduction
<1>. QED BY <1>5 DEF Good
=============================================================================

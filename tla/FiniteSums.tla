------------------------------ MODULE FiniteSums ------------------------------
(***************************************************************************)
(* Sums over finite sets, the sums the ledgers of this project are made of *)
(* (the bytes the store accounts for, the files a squash leaves): what     *)
(* adding, removing or changing a summand does to them.                    *)
(*                                                                         *)
(* MapThenSumSet is defined by a recursion that takes out an arbitrary     *)
(* element.  What holds for it by induction is proved here from a smallest *)
(* counterexample: strict inclusion of finite sets is well founded.  The   *)
(* least element of a set of numbers comes from the same place.            *)
(***************************************************************************)
EXTENDS Integers, FiniteSetsExt, FiniteSetTheorems, WellFoundedInduction, TLAPS

\* The sum of f[x] over the elements of S.
SumOver(f, S) == MapThenSumSet(LAMBDA x : f[x], S)

\* The element the recursion takes out.
Pick(s) == CHOOSE x \in s : TRUE

\* g satisfies the recursion on the subsets of S.
Solves(g, f, S) ==
    g = [s \in SUBSET S |-> IF s = {} THEN 0 ELSE f[Pick(s)] + g[s \ {Pick(s)}]]

\* A set of numbers has a least element.
LEMMA LeastNat ==
    ASSUME NEW L \in SUBSET Nat, NEW i \in L
    PROVE  \E m \in L : \A j \in L : m <= j
<1>1. PICK m \in L : \A j \in L : <<j, m>> \notin OpToRel(<, Nat)
    BY NatLessThanWellFounded, WFMin
<1>2. \A j \in L : ~(j < m) BY <1>1 DEF OpToRel
<1> QED BY <1>2

\* A family of subsets of a finite set has a minimal member.
LEMMA MinimalSubset ==
    ASSUME NEW S, IsFiniteSet(S), NEW B, B \subseteq SUBSET S, B # {}
    PROVE  \E U \in B : \A V \in B : V \subseteq U => V = U
<1>1. IsWellFoundedOn(StrictSubsetOrdering(S), FiniteSubsetsOf(S))
    BY FS_StrictSubsetOrderingWellFounded
<1>2. B \subseteq FiniteSubsetsOf(S) BY FS_Subset DEF FiniteSubsetsOf
<1>3. PICK U \in B : \A V \in B : ~(<<V, U>> \in StrictSubsetOrdering(S))
    BY <1>1, <1>2, WFMin
<1> QED BY <1>2, <1>3 DEF StrictSubsetOrdering, FiniteSubsetsOf

\* The recursion has one solution at most.
LEMMA SolutionUnique ==
    ASSUME NEW f, NEW S, NEW T, IsFiniteSet(S), NEW g, NEW h,
           Solves(g, f, S), Solves(h, f, T)
    PROVE  \A s \in SUBSET (S \cap T) : g[s] = h[s]
<1> DEFINE B == {s \in SUBSET (S \cap T) : g[s] # h[s]}
<1> SUFFICES ASSUME B # {} PROVE FALSE OBVIOUS
<1>0. B \subseteq SUBSET S OBVIOUS
<1>1. PICK U \in B : \A V \in B : V \subseteq U => V = U
  <2> HIDE DEF B
  <2> QED BY <1>0, MinimalSubset
<1>2. g[U] = IF U = {} THEN 0 ELSE f[Pick(U)] + g[U \ {Pick(U)}]
    BY DEF Solves
<1>3. h[U] = IF U = {} THEN 0 ELSE f[Pick(U)] + h[U \ {Pick(U)}]
    BY DEF Solves
<1>4. U # {} BY <1>2, <1>3
<1>5. Pick(U) \in U BY <1>4 DEF Pick
<1>6. U \ {Pick(U)} \notin B BY <1>1, <1>5
<1> QED BY <1>2, <1>3, <1>6

\* And it has one.
LEMMA SolutionExists ==
    ASSUME NEW f, NEW S, IsFiniteSet(S)
    PROVE  \E g : Solves(g, f, S)
<1> DEFINE B == {s \in SUBSET S : ~ \E g : Solves(g, f, s)}
           F(s) == CHOOSE g : Solves(g, f, s)
<1> HIDE DEF F
<1> SUFFICES ASSUME B # {} PROVE FALSE OBVIOUS
<1>0. B \subseteq SUBSET S OBVIOUS
<1>1. PICK U \in B : \A V \in B : V \subseteq U => V = U
  <2> HIDE DEF B
  <2> QED BY <1>0, MinimalSubset
<1>2. \A s \in SUBSET U : s # U => Solves(F(s), f, s)
    BY <1>1 DEF F
<1> DEFINE G == [s \in SUBSET U |->
                    IF s = {} THEN 0 ELSE f[Pick(s)] + F(s \ {Pick(s)})[s \ {Pick(s)}]]
<1>3. \A s \in SUBSET U : s # U => G[s] = F(s)[s]
  <2> SUFFICES ASSUME NEW s \in SUBSET U, s # U PROVE G[s] = F(s)[s] OBVIOUS
  <2>1. CASE s = {} BY <1>2, <2>1 DEF Solves
  <2>2. CASE s # {}
    <3> DEFINE t == s \ {Pick(s)}
    <3>1. Pick(s) \in s BY <2>2 DEF Pick
    <3>2. t \in SUBSET U /\ t # U /\ t \subseteq s BY <3>1
    <3>3. Solves(F(s), f, s) /\ Solves(F(t), f, t) BY <1>2, <3>2
    <3>4. IsFiniteSet(s) BY FS_Subset
    <3>5. F(s)[t] = F(t)[t] BY <3>2, <3>3, <3>4, SolutionUnique
    <3>6. F(s)[s] = f[Pick(s)] + F(s)[t] BY <2>2, <3>3 DEF Solves
    <3> QED BY <2>2, <3>5, <3>6
  <2> QED BY <2>1, <2>2
<1>4. Solves(G, f, U)
  <2> SUFFICES ASSUME NEW s \in SUBSET U, s # {}
               PROVE  F(s \ {Pick(s)})[s \ {Pick(s)}] = G[s \ {Pick(s)}]
      BY DEF Solves
  <2>1. Pick(s) \in s BY DEF Pick
  <2> QED BY <1>3, <2>1
<1> QED BY <1>1, <1>4

\* The sum of a set is what that solution says of it.
LEMMA SumIsSolution ==
    ASSUME NEW f, NEW S, IsFiniteSet(S), NEW g, Solves(g, f, S)
    PROVE  SumOver(f, S) = g[S]
<1> DEFINE h == CHOOSE k : k = [s \in SUBSET S |->
                        IF s = {} THEN 0 ELSE f[Pick(s)] + k[s \ {Pick(s)}]]
<1>1. SumOver(f, S) = h[S]
    BY DEF SumOver, MapThenSumSet, MapThenFoldSet, Pick
<1>2. Solves(h, f, S) BY SolutionExists DEF Solves
<1> QED BY <1>1, <1>2, SolutionUnique

\* The sum over nothing is zero.
LEMMA SumEmpty == ASSUME NEW f PROVE SumOver(f, {}) = 0
<1>1. PICK g : Solves(g, f, {}) BY SolutionExists, FS_EmptySet
<1>2. g[{}] = 0 BY <1>1 DEF Solves
<1> QED BY <1>1, <1>2, SumIsSolution, FS_EmptySet

\* The recursion, as a fact about sums: one element is taken out.
LEMMA SumStep ==
    ASSUME NEW f, NEW S, IsFiniteSet(S), S # {}
    PROVE  SumOver(f, S) = f[Pick(S)] + SumOver(f, S \ {Pick(S)})
<1> DEFINE T == S \ {Pick(S)}
<1>1. PICK g : Solves(g, f, S) BY SolutionExists
<1>2. IsFiniteSet(T) /\ T \in SUBSET S BY FS_Subset
<1>3. PICK h : Solves(h, f, T) BY <1>2, SolutionExists
<1>4. g[T] = h[T] BY <1>1, <1>2, <1>3, SolutionUnique
<1>5. g[S] = f[Pick(S)] + g[T] BY <1>1 DEF Solves
<1> QED BY <1>1, <1>2, <1>3, <1>4, <1>5, SumIsSolution

\* Sums of integers are integers, of natural numbers natural numbers.
LEMMA SumTyped ==
    ASSUME NEW f, NEW S, IsFiniteSet(S)
    PROVE  /\ (\A x \in S : f[x] \in Int) => SumOver(f, S) \in Int
           /\ (\A x \in S : f[x] \in Nat) => SumOver(f, S) \in Nat
<1> DEFINE Typed(s) == /\ (\A x \in s : f[x] \in Int) => SumOver(f, s) \in Int
                       /\ (\A x \in s : f[x] \in Nat) => SumOver(f, s) \in Nat
           B == {s \in SUBSET S : ~Typed(s)}
<1> SUFFICES ASSUME B # {} PROVE FALSE OBVIOUS
<1>0. B \subseteq SUBSET S OBVIOUS
<1>1. PICK U \in B : \A V \in B : V \subseteq U => V = U
  <2> HIDE DEF B
  <2> QED BY <1>0, MinimalSubset
<1>2. U # {} BY SumEmpty
<1> DEFINE V == U \ {Pick(U)}
<1>3. Pick(U) \in U BY <1>2 DEF Pick
<1>4. V \subseteq U /\ V # U /\ V \in SUBSET S BY <1>3
<1>5. Typed(V) BY <1>1, <1>4
<1>6. IsFiniteSet(U) BY FS_Subset
<1>7. SumOver(f, U) = f[Pick(U)] + SumOver(f, V) BY <1>2, <1>6, SumStep
<1> HIDE DEF V
<1> QED BY <1>3, <1>4, <1>5, <1>7

\* Any element may be taken first.
LEMMA SumRemove ==
    ASSUME NEW f, NEW S, IsFiniteSet(S), \A x \in S : f[x] \in Int, NEW e \in S
    PROVE  SumOver(f, S) = f[e] + SumOver(f, S \ {e})
<1> DEFINE Any(s) == \A x \in s : SumOver(f, s) = f[x] + SumOver(f, s \ {x})
           B == {s \in SUBSET S : ~Any(s)}
<1> SUFFICES ASSUME B # {} PROVE FALSE OBVIOUS
<1>0. B \subseteq SUBSET S OBVIOUS
<1>1. PICK U \in B : \A V \in B : V \subseteq U => V = U
  <2> HIDE DEF B
  <2> QED BY <1>0, MinimalSubset
<1>2. PICK x \in U : SumOver(f, U) # f[x] + SumOver(f, U \ {x}) OBVIOUS
<1> DEFINE p == Pick(U)
<1>3. p \in U BY DEF Pick
<1>4. IsFiniteSet(U) /\ IsFiniteSet(U \ {p, x}) BY FS_Subset
<1>5. SumOver(f, U) = f[p] + SumOver(f, U \ {p}) BY <1>4, SumStep
<1> HIDE DEF p
<1>6. x # p BY <1>2, <1>5
<1>7. Any(U \ {p}) /\ Any(U \ {x}) BY <1>1, <1>3
<1>8. (U \ {p}) \ {x} = U \ {p, x} /\ (U \ {x}) \ {p} = U \ {p, x} OBVIOUS
<1>9. SumOver(f, U \ {p}) = f[x] + SumOver(f, U \ {p, x}) BY <1>6, <1>7, <1>8
<1>10. SumOver(f, U \ {x}) = f[p] + SumOver(f, U \ {p, x}) BY <1>3, <1>6, <1>7, <1>8
<1>11. SumOver(f, U \ {p, x}) \in Int BY <1>4, SumTyped
<1>12. f[p] \in Int /\ f[x] \in Int BY <1>3
<1> QED BY <1>2, <1>5, <1>9, <1>10, <1>11, <1>12

\* A new element adds its value.
LEMMA SumInsert ==
    ASSUME NEW f, NEW S, IsFiniteSet(S), NEW e, e \notin S, \A x \in S \cup {e} : f[x] \in Int
    PROVE  SumOver(f, S \cup {e}) = f[e] + SumOver(f, S)
<1>1. IsFiniteSet(S \cup {e}) BY FS_AddElement
<1>2. (S \cup {e}) \ {e} = S OBVIOUS
<1> QED BY <1>1, <1>2, SumRemove

\* Only the values on the set matter.
LEMMA SumSame ==
    ASSUME NEW f, NEW g, NEW S, IsFiniteSet(S), \A x \in S : f[x] = g[x]
    PROVE  SumOver(f, S) = SumOver(g, S)
<1> DEFINE B == {s \in SUBSET S : SumOver(f, s) # SumOver(g, s)}
<1> SUFFICES ASSUME B # {} PROVE FALSE OBVIOUS
<1>0. B \subseteq SUBSET S OBVIOUS
<1>1. PICK U \in B : \A V \in B : V \subseteq U => V = U
  <2> HIDE DEF B
  <2> QED BY <1>0, MinimalSubset
<1>2. U # {} BY SumEmpty
<1> DEFINE V == U \ {Pick(U)}
<1>3. Pick(U) \in U BY <1>2 DEF Pick
<1>4. SumOver(f, V) = SumOver(g, V) BY <1>1, <1>3
<1>5. IsFiniteSet(U) BY FS_Subset
<1>6. SumOver(f, U) = f[Pick(U)] + SumOver(f, V) /\ SumOver(g, U) = g[Pick(U)] + SumOver(g, V)
    BY <1>2, <1>5, SumStep
<1> QED BY <1>3, <1>4, <1>6

\* One value changes.
LEMMA SumChange ==
    ASSUME NEW f, NEW g, NEW S, IsFiniteSet(S), NEW e \in S,
           \A x \in S : f[x] \in Int /\ g[x] \in Int,
           \A x \in S \ {e} : f[x] = g[x]
    PROVE  SumOver(g, S) = SumOver(f, S) - f[e] + g[e]
<1>1. IsFiniteSet(S \ {e}) BY FS_Subset
<1>2. SumOver(f, S) = f[e] + SumOver(f, S \ {e}) BY SumRemove
<1>3. SumOver(g, S) = g[e] + SumOver(g, S \ {e}) BY SumRemove
<1>4. SumOver(f, S \ {e}) = SumOver(g, S \ {e}) BY <1>1, SumSame
<1>5. SumOver(f, S \ {e}) \in Int BY <1>1, SumTyped
<1> QED BY <1>2, <1>3, <1>4, <1>5

\* What is taken out is what the sum loses.
LEMMA SumWithout ==
    ASSUME NEW f, NEW S, IsFiniteSet(S), \A x \in S : f[x] \in Int, NEW T \in SUBSET S
    PROVE  SumOver(f, S \ T) = SumOver(f, S) - SumOver(f, T)
<1> DEFINE B == {s \in SUBSET S : SumOver(f, S \ s) # SumOver(f, S) - SumOver(f, s)}
<1> SUFFICES ASSUME B # {} PROVE FALSE OBVIOUS
<1>0. B \subseteq SUBSET S OBVIOUS
<1>1. PICK U \in B : \A V \in B : V \subseteq U => V = U
  <2> HIDE DEF B
  <2> QED BY <1>0, MinimalSubset
<1>s. SumOver(f, S) \in Int BY SumTyped
<1>2. U # {}
  <2>1. S \ {} = S OBVIOUS
  <2>2. SumOver(f, {}) = 0 BY SumEmpty
  <2>3. SumOver(f, S \ {}) = SumOver(f, S) - SumOver(f, {}) BY <1>s, <2>1, <2>2
  <2>4. {} \notin B BY <2>3
  <2> QED BY <2>4
<1>3. PICK e \in U : TRUE BY <1>2
<1> DEFINE V == U \ {e}
<1>4. SumOver(f, S \ V) = SumOver(f, S) - SumOver(f, V) BY <1>1, <1>3
<1>5. IsFiniteSet(U) /\ IsFiniteSet(V) /\ IsFiniteSet(S \ V) /\ IsFiniteSet(S \ U) BY FS_Subset
<1>6. SumOver(f, U) = f[e] + SumOver(f, V) BY <1>3, <1>5, SumRemove
<1>7. SumOver(f, S \ V) = f[e] + SumOver(f, S \ U)
  <2>1. (S \ V) \ {e} = S \ U /\ e \in S \ V BY <1>3
  <2> QED BY <1>5, <2>1, SumRemove
<1>8. SumOver(f, V) \in Int /\ SumOver(f, S \ U) \in Int /\ f[e] \in Int BY <1>3, <1>5, SumTyped
<1> HIDE DEF V
<1> QED BY <1>s, <1>4, <1>6, <1>7, <1>8

\* A sum of nothing but zeros is zero.
LEMMA SumZero ==
    ASSUME NEW f, NEW S, IsFiniteSet(S), \A x \in S : f[x] = 0
    PROVE  SumOver(f, S) = 0
<1> DEFINE B == {s \in SUBSET S : SumOver(f, s) # 0}
<1> SUFFICES ASSUME B # {} PROVE FALSE OBVIOUS
<1>0. B \subseteq SUBSET S OBVIOUS
<1>1. PICK U \in B : \A V \in B : V \subseteq U => V = U
  <2> HIDE DEF B
  <2> QED BY <1>0, MinimalSubset
<1>2. U # {} BY SumEmpty
<1>3. Pick(U) \in U BY <1>2 DEF Pick
<1>4. SumOver(f, U \ {Pick(U)}) = 0 BY <1>1, <1>3
<1>5. IsFiniteSet(U) BY FS_Subset
<1> QED BY <1>2, <1>3, <1>4, <1>5, SumStep

\* Two sums over sets that do not meet are the sum over both.
LEMMA SumUnion ==
    ASSUME NEW f, NEW S, IsFiniteSet(S), NEW T, IsFiniteSet(T), S \cap T = {},
           \A x \in S \cup T : f[x] \in Int
    PROVE  SumOver(f, S \cup T) = SumOver(f, S) + SumOver(f, T)
<1>1. IsFiniteSet(S \cup T) /\ (S \cup T) \ T = S BY FS_Union
<1>2. SumOver(f, S) = SumOver(f, S \cup T) - SumOver(f, T) BY <1>1, SumWithout
<1>3. SumOver(f, S \cup T) \in Int /\ SumOver(f, T) \in Int BY <1>1, SumTyped
<1> QED BY <1>2, <1>3

\* Neither do the sums of a family of sets, no two of which meet.
LEMMA SumFamily ==
    ASSUME NEW f, NEW I, IsFiniteSet(I), NEW W, NEW g,
           \A i \in I : IsFiniteSet(W[i]) /\ \A x \in W[i] : f[x] \in Int,
           \A i, j \in I : i # j => W[i] \cap W[j] = {},
           \A i \in I : g[i] = SumOver(f, W[i])
    PROVE  LET U == UNION {W[i] : i \in I}
           IN  IsFiniteSet(U) /\ SumOver(f, U) = SumOver(g, I)
<1> DEFINE All(J) == UNION {W[i] : i \in J}
           Holds(J) == IsFiniteSet(All(J)) /\ SumOver(f, All(J)) = SumOver(g, J)
           B == {J \in SUBSET I : ~Holds(J)}
<1> SUFFICES ASSUME B # {} PROVE FALSE OBVIOUS
<1>0. B \subseteq SUBSET I OBVIOUS
<1>1. PICK J \in B : \A V \in B : V \subseteq J => V = J
  <2> HIDE DEF B
  <2> QED BY <1>0, MinimalSubset
<1>2. J # {}
  <2>1. All({}) = {} OBVIOUS
  <2>2. Holds({}) BY <2>1, SumEmpty, FS_EmptySet
  <2> QED BY <2>2
<1>3. PICK e \in J : TRUE BY <1>2
<1>4. PICK V : V = J \ {e} OBVIOUS
<1>5. Holds(V)
  <2>1. V \subseteq J /\ V # J /\ V \in SUBSET I BY <1>3, <1>4
  <2>2. V \notin B BY <1>1, <2>1
  <2> HIDE DEF Holds
  <2> QED BY <2>1, <2>2
<1>6. All(J) = All(V) \cup W[e] BY <1>3, <1>4
<1>7. All(V) \cap W[e] = {} BY <1>3, <1>4
<1>8. IsFiniteSet(W[e]) /\ IsFiniteSet(J) BY <1>3, FS_Subset
<1>9. \A x \in All(V) \cup W[e] : f[x] \in Int BY <1>3, <1>4
<1>10. IsFiniteSet(All(J))
  <2>1. IsFiniteSet(All(V)) BY <1>5
  <2> HIDE DEF All
  <2>2. IsFiniteSet(All(V) \cup W[e]) BY <1>8, <2>1, FS_Union
  <2> QED BY <1>6, <2>2
<1>11. SumOver(f, All(J)) = SumOver(f, All(V)) + SumOver(f, W[e])
  <2> HIDE DEF All
  <2> QED BY <1>5, <1>6, <1>7, <1>8, <1>9, SumUnion
<1>12. \A i \in J : g[i] \in Int BY SumTyped
<1>13. SumOver(g, J) = g[e] + SumOver(g, V) BY <1>3, <1>4, <1>8, <1>12, SumRemove
<1>14. SumOver(g, V) \in Int /\ g[e] \in Int
  <2>1. IsFiniteSet(V) BY <1>4, <1>8, FS_Subset
  <2> QED BY <1>3, <1>4, <1>12, <2>1, SumTyped
<1>15. g[e] = SumOver(f, W[e]) BY <1>3
<1> HIDE DEF All
<1> QED BY <1>5, <1>10, <1>11, <1>13, <1>14, <1>15

\* Zeros may be left out.
LEMMA SumSupport ==
    ASSUME NEW f, NEW S, IsFiniteSet(S), \A x \in S : f[x] \in Int, NEW T \in SUBSET S,
           \A x \in S \ T : f[x] = 0
    PROVE  SumOver(f, S) = SumOver(f, T)
<1>1. S \ (S \ T) = T /\ IsFiniteSet(S \ T) BY FS_Subset
<1>2. SumOver(f, S \ T) = 0 BY <1>1, SumZero
<1>3. SumOver(f, T) = SumOver(f, S) - SumOver(f, S \ T) BY <1>1, SumWithout
<1>4. SumOver(f, S) \in Int BY SumTyped
<1> QED BY <1>2, <1>3, <1>4

\* Ones are counted.
LEMMA SumCount ==
    ASSUME NEW f, NEW S, IsFiniteSet(S), \A x \in S : f[x] = 1
    PROVE  SumOver(f, S) = Cardinality(S)
<1> DEFINE B == {s \in SUBSET S : SumOver(f, s) # Cardinality(s)}
<1> SUFFICES ASSUME B # {} PROVE FALSE OBVIOUS
<1>0. B \subseteq SUBSET S OBVIOUS
<1>1. PICK U \in B : \A V \in B : V \subseteq U => V = U
  <2> HIDE DEF B
  <2> QED BY <1>0, MinimalSubset
<1>2. U # {} BY SumEmpty, FS_EmptySet
<1>3. Pick(U) \in U BY <1>2 DEF Pick
<1>4. IsFiniteSet(U) /\ IsFiniteSet(U \ {Pick(U)}) BY FS_Subset
<1>5. SumOver(f, U \ {Pick(U)}) = Cardinality(U \ {Pick(U)}) BY <1>1, <1>3
<1>6. Cardinality(U \ {Pick(U)}) = Cardinality(U) - 1 /\ Cardinality(U) \in Nat
    BY <1>3, <1>4, FS_RemoveElement, FS_CardinalityType
<1>7. SumOver(f, U) = 1 + SumOver(f, U \ {Pick(U)}) BY <1>2, <1>3, <1>4, SumStep
<1> QED BY <1>5, <1>6, <1>7

\* A sum is no less than another whose every summand has a partner of its own
\* in it that is no less.
LEMMA SumCarried ==
    ASSUME NEW f, NEW S, IsFiniteSet(S), NEW g, NEW T, IsFiniteSet(T), NEW m,
           \A x \in S : m[x] \in T /\ f[x] \in Nat /\ f[x] <= g[m[x]],
           \A x, y \in S : m[x] = m[y] => x = y,
           \A y \in T : g[y] \in Nat
    PROVE  SumOver(f, S) <= SumOver(g, T)
<1> DEFINE To(U) == {y \in T : \E x \in U : m[x] = y}
           Less(U) == SumOver(f, U) <= SumOver(g, To(U))
           B == {U \in SUBSET S : ~Less(U)}
<1>1. B = {}
  <2> SUFFICES ASSUME B # {} PROVE FALSE OBVIOUS
  <2>0. B \subseteq SUBSET S OBVIOUS
  <2>1. PICK U \in B : \A V \in B : V \subseteq U => V = U
    <3> HIDE DEF B
    <3> QED BY <2>0, MinimalSubset
  <2>2. U # {}
    <3>1. To({}) = {} OBVIOUS
    <3>2. Less({}) BY <3>1, SumEmpty
    <3> QED BY <3>2
  <2>3. PICK e \in U : TRUE BY <2>2
  <2>4. PICK V : V = U \ {e} OBVIOUS
  <2>5. Less(V)
    <3>1. V \subseteq U /\ V # U /\ V \in SUBSET S BY <2>3, <2>4
    <3>2. V \notin B BY <2>1, <3>1
    <3> HIDE DEF Less
    <3> QED BY <3>1, <3>2
  <2>6. To(U) \ {m[e]} = To(V) /\ m[e] \in To(U) BY <2>3, <2>4
  <2>7. IsFiniteSet(U) /\ IsFiniteSet(V) /\ IsFiniteSet(To(U)) /\ IsFiniteSet(To(V))
      BY <2>4, FS_Subset
  <2>8. SumOver(f, U) = f[e] + SumOver(f, V) BY <2>3, <2>4, <2>7, SumRemove
  <2>9. SumOver(g, To(U)) = g[m[e]] + SumOver(g, To(V))
    <3>1. \A y \in To(U) : g[y] \in Int OBVIOUS
    <3> HIDE DEF To
    <3> QED BY <2>6, <2>7, <3>1, SumRemove
  <2>10. SumOver(f, V) \in Nat /\ SumOver(g, To(V)) \in Nat
    <3>1. (\A x \in V : f[x] \in Nat) /\ \A y \in To(V) : g[y] \in Nat BY <2>4
    <3> HIDE DEF To
    <3> QED BY <2>7, <3>1, SumTyped
  <2>11. f[e] \in Nat /\ g[m[e]] \in Nat /\ f[e] <= g[m[e]] BY <2>3
  <2>12. SumOver(f, U) <= SumOver(g, To(U))
    <3> HIDE DEF To
    <3> QED BY <2>5, <2>8, <2>9, <2>10, <2>11
  <2> QED BY <2>12
<1>2. Less(S)
  <2> HIDE DEF Less
  <2> QED BY <1>1
<1>3. To(S) \in SUBSET T OBVIOUS
<1> HIDE DEF To
<1>4. SumOver(g, T \ To(S)) = SumOver(g, T) - SumOver(g, To(S)) BY <1>3, SumWithout
<1>5. IsFiniteSet(To(S)) /\ IsFiniteSet(T \ To(S)) BY <1>3, FS_Subset
<1>6. /\ SumOver(g, T) \in Nat /\ SumOver(g, To(S)) \in Nat /\ SumOver(g, T \ To(S)) \in Nat
      /\ SumOver(f, S) \in Nat
    BY <1>3, <1>5, SumTyped
<1> QED BY <1>2, <1>4, <1>6

\* A part of a sum of natural numbers is no more than the whole, nor is a sum
\* over the part whose summands are no more.
LEMMA SumPart ==
    ASSUME NEW f, NEW g, NEW T, IsFiniteSet(T), NEW S \in SUBSET T,
           \A x \in S : f[x] \in Nat /\ f[x] <= g[x],
           \A x \in T : g[x] \in Nat
    PROVE  SumOver(f, S) <= SumOver(g, T)
<1> DEFINE m == [x \in S |-> x]
<1>1. IsFiniteSet(S) BY FS_Subset
<1>2. /\ \A x \in S : m[x] \in T /\ f[x] \in Nat /\ f[x] <= g[m[x]]
      /\ \A x, y \in S : m[x] = m[y] => x = y
    OBVIOUS
<1> HIDE DEF m
<1> QED BY <1>1, <1>2, SumCarried
===============================================================================

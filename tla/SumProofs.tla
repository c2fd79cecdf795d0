----------------------------- MODULE SumProofs -----------------------------
(***************************************************************************)
(* Sums over a finite set, as the model writes them (MapThenSumSet, a fold *)
(* that takes the elements in an order nobody fixes): the sum does not     *)
(* depend on the order, so an element can be added or taken away, and a    *)
(* sum of numbers that are not negative grows with the set.                *)
(***************************************************************************)
EXTENDS Integers, FiniteSetsExt, FiniteSetTheorems, TLAPS

\* A collection of subsets of a finite set has a member that contains no other.
LEMMA SmallestSet ==
  ASSUME NEW S, IsFiniteSet(S), NEW B, B \subseteq SUBSET S, B # {}
  PROVE  \E m \in B : \A t \in B : t \subseteq m => t = m
  <1>1. IsWellFoundedOn(StrictSubsetOrdering(S), SUBSET S)
    BY FS_StrictSubsetOrderingWellFounded, FS_FiniteSubsetsOfFinite, Zenon
  <1>2. PICK m \in B : \A t \in B : <<t, m>> \notin StrictSubsetOrdering(S)
    BY <1>1, WFMin, Zenon
  <1>3. \A t \in B : t \subseteq m => t = m
    BY <1>2 DEF StrictSubsetOrdering
  <1> QED
    BY <1>3

\* The element of s a fold takes next; nothing is known of it.
Pick(s) == CHOOSE x \in s : TRUE

\* F is the table of the partial sums of w over the subsets of S.
Sums(F, w, S) ==
  F = [s \in SUBSET S |-> IF s = {} THEN 0 ELSE w[Pick(s)] + F[s \ {Pick(s)}]]

\* The sum of the weights w over S.
Sum(w, S) == MapThenSumSet(LAMBDA x : w[x], S)

\* The sum of w over S is the entry of S in a table of partial sums.
LEMMA Unfolded ==
  ASSUME NEW w, NEW S
  PROVE  Sum(w, S) = (CHOOSE F : Sums(F, w, S))[S]
  BY DEF Sum, MapThenSumSet, MapThenFoldSet, Sums, Pick

\* Two tables of partial sums agree where both are defined.
LEMMA SumsAgree ==
  ASSUME NEW S, IsFiniteSet(S), NEW T, S \subseteq T, NEW w, NEW v, NEW F, NEW G,
         Sums(F, w, S), Sums(G, v, T), \A x \in S : w[x] = v[x]
  PROVE  \A s \in SUBSET S : F[s] = G[s]
  <1> DEFINE B == {s \in SUBSET S : F[s] # G[s]}
  <1> SUFFICES ASSUME B # {} PROVE FALSE
    BY Zenon
  <1>1. PICK m \in B : \A t \in B : t \subseteq m => t = m
    <2>1. B \subseteq SUBSET S
      OBVIOUS
    <2> HIDE DEF B
    <2> QED
      BY <2>1, SmallestSet
  <1>2. m # {}
    BY DEF Sums
  <1>3. PICK c \in m : c = Pick(m)
    BY <1>2 DEF Pick
  <1>4. m \ {c} \subseteq m /\ m \ {c} # m
    OBVIOUS
  <1>5. F[m \ {c}] = G[m \ {c}] /\ w[c] = v[c]
    BY <1>1, <1>3, <1>4
  <1>6. F[m] = w[c] + F[m \ {c}] /\ G[m] = v[c] + G[m \ {c}]
    BY <1>2, <1>3 DEF Sums
  <1> QED
    BY <1>5, <1>6

\* The table of partial sums exists, and its values are integers.
LEMMA SumsExist ==
  ASSUME NEW S, IsFiniteSet(S), NEW w, \A x \in S : w[x] \in Int
  PROVE  \E F \in [SUBSET S -> Int] : Sums(F, w, S)
  <1> DEFINE Has(s) == \E F \in [SUBSET s -> Int] : Sums(F, w, s)
  <1> SUFFICES ASSUME NEW B, B = {s \in SUBSET S : ~Has(s)}, B # {} PROVE FALSE
    OBVIOUS
  <1> HIDE DEF Has
  <1>1. PICK m \in B : \A t \in B : t \subseteq m => t = m
    BY SmallestSet
  <1> DEFINE Table(s) == CHOOSE F : F \in [SUBSET s -> Int] /\ Sums(F, w, s)
             V(s) == Table(s)[s]
             G == [s \in SUBSET m |-> IF s = {} THEN 0 ELSE
                     w[Pick(s)] + V(s \ {Pick(s)})]
  <1>2. ASSUME NEW s \in SUBSET m, s # m
        PROVE  Table(s) \in [SUBSET s -> Int] /\ Sums(Table(s), w, s)
    <2>1. Has(s)
      BY <1>1, <1>2
    <2> QED
      BY <2>1 DEF Has
  <1>3. \A s \in SUBSET m : s # {} => Pick(s) \in s
    BY DEF Pick
  <1>4. ASSUME NEW s \in SUBSET m, s # m PROVE V(s) \in Int
    <2>1. Table(s) \in [SUBSET s -> Int] /\ s \in SUBSET s
      BY <1>2, <1>4
    <2> HIDE DEF Table
    <2> QED
      BY <2>1
  <1>5. ASSUME NEW s \in SUBSET m, s # m PROVE G[s] = V(s)
    <2>1. Sums(Table(s), w, s)
      BY <1>2, <1>5
    <2>2. CASE s = {}
      BY <2>1, <2>2 DEF Sums
    <2>3. CASE s # {}
      <3>1. PICK c \in s : c = Pick(s)
        BY <1>3, <2>3
      <3>2. V(s) = w[c] + Table(s)[s \ {c}]
        <4> HIDE DEF Table
        <4> QED
          BY <2>1, <2>3, <3>1 DEF Sums
      <3>3. s \ {c} \in SUBSET m /\ s \ {c} # m /\ s \ {c} \subseteq s /\ IsFiniteSet(s \ {c})
        BY <1>1, FS_Subset
      <3>4. Sums(Table(s \ {c}), w, s \ {c})
        BY <1>2, <3>3
      <3>5. V(s \ {c}) = Table(s)[s \ {c}]
        <4> HIDE DEF Table
        <4>1. \A t \in SUBSET (s \ {c}) : Table(s \ {c})[t] = Table(s)[t]
          BY <2>1, <3>3, <3>4, SumsAgree
        <4> QED
          BY <4>1
      <3> HIDE DEF V, Table
      <3> QED
        BY <2>3, <3>1, <3>2, <3>5
    <2> QED
      BY <2>2, <2>3
  <1>6. G \in [SUBSET m -> Int]
    <2> HIDE DEF V
    <2>1. ASSUME NEW s \in SUBSET m, s # {}
          PROVE  w[Pick(s)] + V(s \ {Pick(s)}) \in Int
      <3>1. Pick(s) \in s /\ Pick(s) \in S
        BY <1>1, <1>3, <2>1
      <3>2. s \ {Pick(s)} \in SUBSET m /\ s \ {Pick(s)} # m
        BY <3>1
      <3> QED
        BY <1>4, <3>1, <3>2
    <2> QED
      BY <2>1
  <1>7. Sums(G, w, m)
    <2> HIDE DEF V
    <2>1. ASSUME NEW s \in SUBSET m, s # {}
          PROVE  G[s \ {Pick(s)}] = V(s \ {Pick(s)})
      <3>1. s \ {Pick(s)} \in SUBSET m /\ s \ {Pick(s)} # m
        BY <1>3, <2>1
      <3> HIDE DEF G
      <3> QED
        BY <1>5, <3>1
    <2>2. \A s \in SUBSET m : G[s] = IF s = {} THEN 0 ELSE w[Pick(s)] + G[s \ {Pick(s)}]
      BY <2>1
    <2>3. G = [s \in SUBSET m |-> G[s]]
      OBVIOUS
    <2> HIDE DEF G
    <2> QED
      BY <2>2, <2>3 DEF Sums
  <1>8. Has(m)
    <2> HIDE DEF G
    <2> QED
      BY <1>6, <1>7 DEF Has
  <1> QED
    BY <1>1, <1>8

\* A sum of integers is an integer, of naturals a natural.  The partial sums of a
\* larger table give it.
LEMMA SumInTable ==
  ASSUME NEW S, IsFiniteSet(S), NEW w, NEW F, Sums(F, w, S), NEW T \in SUBSET S
  PROVE  Sum(w, T) = F[T]
  <1>0. IsFiniteSet(T)
    BY FS_Subset
  <1> DEFINE E == [s \in SUBSET T |-> F[s]]
  <1>1. Sums(E, w, T)
    <2>1. ASSUME NEW s \in SUBSET T
          PROVE  E[s] = IF s = {} THEN 0 ELSE w[Pick(s)] + E[s \ {Pick(s)}]
      <3>1. s \in SUBSET S /\ s \ {Pick(s)} \in SUBSET T
        OBVIOUS
      <3> QED
        BY <3>1 DEF Sums
    <2>2. E = [s \in SUBSET T |-> E[s]]
      OBVIOUS
    <2> HIDE DEF E
    <2> QED
      BY <2>1, <2>2 DEF Sums
  <1>2. Sums(CHOOSE G : Sums(G, w, T), w, T)
    <2> HIDE DEF E
    <2> QED
      BY <1>1
  <1> HIDE DEF E
  <1>3. \A s \in SUBSET T : (CHOOSE G : Sums(G, w, T))[s] = E[s]
    <2> DEFINE C == CHOOSE G : Sums(G, w, T)
    <2>1. Sums(C, w, T)
      BY <1>2
    <2> HIDE DEF C
    <2>2. \A s \in SUBSET T : C[s] = E[s]
      BY <1>0, <1>1, <2>1, SumsAgree
    <2> QED
      BY <2>2 DEF C
  <1>4. Sum(w, T) = E[T]
    BY <1>3, Unfolded
  <1> QED
    BY <1>4 DEF E

\* A sum of integers is an integer.
LEMMA SumInteger ==
  ASSUME NEW S, IsFiniteSet(S), NEW w, \A x \in S : w[x] \in Int
  PROVE  Sum(w, S) \in Int
  <1>1. PICK F \in [SUBSET S -> Int] : Sums(F, w, S)
    BY SumsExist
  <1>2. Sum(w, S) = F[S]
    BY <1>1, SumInTable
  <1> QED
    BY <1>1, <1>2

\* Nothing sums to zero.
LEMMA SumEmpty == ASSUME NEW w PROVE Sum(w, {}) = 0
  <1>1. PICK F : Sums(F, w, {})
    BY FS_EmptySet, SumsExist
  <1>2. Sum(w, {}) = F[{}]
    BY <1>1, FS_EmptySet, SumInTable
  <1> QED
    BY <1>1, <1>2 DEF Sums

\* Any element may be taken out of a sum first.
LEMMA SumRemove ==
  ASSUME NEW S, IsFiniteSet(S), NEW w, \A x \in S : w[x] \in Int, NEW x \in S
  PROVE  Sum(w, S) = w[x] + Sum(w, S \ {x})
  <1>1. PICK F \in [SUBSET S -> Int] : Sums(F, w, S)
    BY SumsExist
  <1> DEFINE B == {s \in SUBSET S : \E y \in s : F[s] # w[y] + F[s \ {y}]}
  <1>2. ASSUME B # {} PROVE FALSE
    <2>1. B \subseteq SUBSET S
      OBVIOUS
    <2>2. PICK m \in B : \A t \in B : t \subseteq m => t = m
      <3> HIDE DEF B
      <3> QED
        BY <1>2, <2>1, SmallestSet
    <2>3. PICK y \in m : F[m] # w[y] + F[m \ {y}]
      BY <2>2
    <2>4. PICK c \in m : c = Pick(m)
      BY <2>3 DEF Pick
    <2>5. m \in SUBSET S /\ F[m] = w[c] + F[m \ {c}]
      BY <1>1, <2>2, <2>4 DEF Sums
    <2>6. c # y
      BY <2>3, <2>5
    <2>7. F[m \ {c}] = w[y] + F[(m \ {c}) \ {y}]
      <3>1. m \ {c} \in SUBSET S /\ y \in m \ {c} /\ m \ {c} \notin B
        <4> HIDE DEF B
        <4> QED
          BY <2>2, <2>3, <2>4, <2>5, <2>6
      <3> QED
        BY <3>1
    <2>8. F[m \ {y}] = w[c] + F[(m \ {y}) \ {c}]
      <3>1. m \ {y} \in SUBSET S /\ c \in m \ {y} /\ m \ {y} \notin B
        <4> HIDE DEF B
        <4> QED
          BY <2>2, <2>3, <2>4, <2>5, <2>6
      <3> QED
        BY <3>1
    <2>9. (m \ {c}) \ {y} = (m \ {y}) \ {c} /\ (m \ {y}) \ {c} \in SUBSET S
      BY <2>5
    <2>10. w[c] \in Int /\ w[y] \in Int /\ F[(m \ {y}) \ {c}] \in Int
      BY <1>1, <2>3, <2>4, <2>5, <2>9
    <2>11. PICK r \in Int : r = F[(m \ {y}) \ {c}]
      BY <2>10
    <2>12. F[m] = w[c] + (w[y] + r) /\ F[m \ {y}] = w[c] + r
      BY <2>5, <2>7, <2>8, <2>9, <2>11
    <2>13. w[c] + (w[y] + r) = w[y] + (w[c] + r)
      BY <2>10
    <2> QED
      BY <2>3, <2>12, <2>13
  <1>3. F[S] = w[x] + F[S \ {x}]
    BY <1>2
  <1>4. Sum(w, S) = F[S] /\ Sum(w, S \ {x}) = F[S \ {x}]
    <2>1. S \in SUBSET S /\ S \ {x} \in SUBSET S
      OBVIOUS
    <2> QED
      BY <1>1, <2>1, SumInTable
  <1> QED
    BY <1>3, <1>4

\* An element that was not in the set adds its weight.
LEMMA SumAdd ==
  ASSUME NEW S, IsFiniteSet(S), NEW w, \A y \in S : w[y] \in Int,
         NEW x, x \notin S, w[x] \in Int
  PROVE  Sum(w, S \cup {x}) = Sum(w, S) + w[x]
  <1>1. IsFiniteSet(S \cup {x}) /\ (S \cup {x}) \ {x} = S
    BY FS_AddElement
  <1>2. Sum(w, S \cup {x}) = w[x] + Sum(w, S)
    BY <1>1, SumRemove
  <1> QED
    BY <1>2, SumInteger

\* A sum of numbers that are not negative grows with the set.
LEMMA SumGrows ==
  ASSUME NEW S, IsFiniteSet(S), NEW w, \A x \in S : w[x] \in Nat, NEW T \in SUBSET S
  PROVE  Sum(w, T) <= Sum(w, S)
  <1> DEFINE B == {s \in SUBSET S : T \subseteq s /\ ~ Sum(w, T) <= Sum(w, s)}
  <1>0. \A s \in SUBSET S : IsFiniteSet(s) /\ Sum(w, s) \in Int
    BY FS_Subset, SumInteger
  <1>1. ASSUME B # {} PROVE FALSE
    <2>1. B \subseteq SUBSET S
      OBVIOUS
    <2>2. PICK m \in B : \A t \in B : t \subseteq m => t = m
      <3> HIDE DEF B
      <3> QED
        BY <1>1, <2>1, SmallestSet
    <2>3. m \in SUBSET S /\ T \subseteq m /\ m # T
      BY <1>0, <2>2
    <2>4. PICK x \in m : x \notin T
      BY <2>3
    <2>5. m \ {x} \in SUBSET S /\ T \subseteq m \ {x} /\ m \ {x} \notin B
      <3> HIDE DEF B
      <3> QED
        BY <2>2, <2>3, <2>4
    <2>6. Sum(w, T) <= Sum(w, m \ {x})
      BY <2>5
    <2>7. Sum(w, m) = w[x] + Sum(w, m \ {x}) /\ w[x] \in Nat
      BY <1>0, <2>3, SumRemove
    <2> QED
      BY <1>0, <2>2, <2>3, <2>5, <2>6, <2>7
  <1> QED
    BY <1>1

\* A sum of naturals is a natural.
LEMMA SumNatural ==
  ASSUME NEW S, IsFiniteSet(S), NEW w, \A x \in S : w[x] \in Nat
  PROVE  Sum(w, S) \in Nat
  <1>1. Sum(w, {}) <= Sum(w, S)
    BY SumGrows
  <1> QED
    BY <1>1, SumEmpty, SumInteger

\* A sum depends on the weights of the set's members only.
LEMMA SumSame ==
  ASSUME NEW S, IsFiniteSet(S), NEW w, NEW v, \A x \in S : w[x] = v[x] /\ w[x] \in Int
  PROVE  Sum(w, S) = Sum(v, S)
  <1>1. PICK F \in [SUBSET S -> Int] : Sums(F, w, S)
    BY SumsExist
  <1>2. PICK G \in [SUBSET S -> Int] : Sums(G, v, S)
    BY SumsExist
  <1>3. \A s \in SUBSET S : F[s] = G[s]
    BY <1>1, <1>2, SumsAgree
  <1> QED
    BY <1>1, <1>2, <1>3, SumInTable
=============================================================================

------------------------------- MODULE Totals -------------------------------
(***************************************************************************)
(* Sums of the values v of finitely many rows, as the queries of the       *)
(* reconciliation and of the summary compute them.  The sums of the        *)
(* community modules are recursive functions over the subsets of a set;    *)
(* that the recursion defines a function, and that its value does not      *)
(* depend on the order in which it takes the rows, is proved here from a   *)
(* minimal counterexample.                                                 *)
(***************************************************************************)
EXTENDS Integers, FiniteSets, FiniteSetsExt, FiniteSetTheorems, WellFoundedInduction, TLAPS

Total(v, S) == MapThenSumSet(LAMBDA e : v[e], S)

(* The row a sum over s takes first.                                       *)
First(s) == CHOOSE x \in s : TRUE

(* g sums up the sets of D by taking their rows one by one.                *)
SumsUp(v, D, g) ==
  g = [s \in D |-> IF s = {} THEN 0 ELSE v[First(s)] + g[s \ {First(s)}]]

Amounts(v, S) == \A x \in S : v[x] \in Int

-----------------------------------------------------------------------------

LEMMA FirstIn == ASSUME NEW s, s # {} PROVE First(s) \in s
BY DEF First

(* A non-empty set of natural numbers has a least element.                 *)
LEMMA LeastNat ==
  ASSUME NEW T, T \subseteq Nat, T # {}
  PROVE  \E n \in T : \A m \in T : n <= m
<1> DEFINE R == {ss \in Nat \X Nat : ss[1] < ss[2]}
<1>1. OpToRel(<, Nat) = R
  BY DEF OpToRel
<1>2. IsWellFoundedOn(R, Nat)
  BY <1>1, NatLessThanWellFounded
<1>3. \E x \in T : \A y \in T : ~(<<y, x>> \in R)
  <2> HIDE DEF R
  <2>1. QED
    BY <1>2, WFMin
<1>4. ASSUME NEW x \in Nat, NEW y \in Nat, y < x
      PROVE  <<y, x>> \in R
  BY <1>4
<1>5. \A x, y \in Nat : y < x \/ x <= y
  OBVIOUS
<1> HIDE DEF R
<1>6. QED
  BY <1>3, <1>4, <1>5

(* Of some subsets of a finite set, one is minimal: no element can be      *)
(* taken from it.                                                          *)
LEMMA MinimalSubset ==
  ASSUME NEW S, IsFiniteSet(S), NEW T, T \subseteq SUBSET S, T # {}
  PROVE  \E U \in T : \A x \in U : U \ {x} \notin T
<1> DEFINE N == {Cardinality(U) : U \in T}
<1>1. \A U \in T : IsFiniteSet(U) /\ Cardinality(U) \in Nat
  BY FS_Subset, FS_CardinalityType
<1>2. N \subseteq Nat /\ N # {}
  BY <1>1
<1>3. PICK n \in N : \A m \in N : n <= m
  <2> HIDE DEF N
  <2>1. QED
    BY <1>2, LeastNat
<1>4. PICK U \in T : Cardinality(U) = n
  BY <1>3
<1>5. ASSUME NEW x \in U, U \ {x} \in T
      PROVE  FALSE
  <2>1. Cardinality(U \ {x}) = Cardinality(U) - 1
    BY <1>1, <1>4, <1>5, FS_RemoveElement
  <2>2. n <= Cardinality(U \ {x})
    BY <1>3, <1>5
  <2>3. QED
    BY <1>1, <1>4, <2>1, <2>2
<1>6. QED
  BY <1>4, <1>5

-----------------------------------------------------------------------------
(* The recursion defines a function *)

LEMMA Extend ==
  ASSUME NEW v, NEW D, NEW E, D \subseteq E, NEW g, SumsUp(v, D, g),
         \A s \in E : s # {} => s \ {First(s)} \in D
  PROVE  \E h : SumsUp(v, E, h)
<1> DEFINE h == [s \in E |-> IF s = {} THEN 0 ELSE v[First(s)] + g[s \ {First(s)}]]
<1>1. \A t \in D : g[t] = IF t = {} THEN 0 ELSE v[First(t)] + g[t \ {First(t)}]
  BY DEF SumsUp
<1>2. \A t \in D : h[t] = g[t]
  BY <1>1
<1>3. \A s \in E : s # {} => g[s \ {First(s)}] = h[s \ {First(s)}]
  BY <1>2
<1>4. h = [s \in E |-> IF s = {} THEN 0 ELSE v[First(s)] + h[s \ {First(s)}]]
  <2>1. \A s \in E : h[s] = IF s = {} THEN 0 ELSE v[First(s)] + h[s \ {First(s)}]
    BY <1>3
  <2>2. h = [s \in E |-> h[s]]
    OBVIOUS
  <2> HIDE DEF h
  <2>3. QED
    BY <2>1, <2>2
<1>5. QED
  BY <1>4 DEF SumsUp

LEMMA SumExists ==
  ASSUME NEW v, NEW S, IsFiniteSet(S)
  PROVE  \E g : SumsUp(v, SUBSET S, g)
<1> DEFINE D(n) == {s \in SUBSET S : Cardinality(s) <= n}
           Bad  == {n \in Nat : ~\E g : SumsUp(v, D(n), g)}
<1>1. \A s \in SUBSET S : IsFiniteSet(s) /\ Cardinality(s) \in Nat
  BY FS_Subset, FS_CardinalityType
<1>2. ASSUME NEW n \in Nat
      PROVE  \A s \in D(n) : s # {} => n # 0 /\ s \ {First(s)} \in D(n - 1)
  <2>1. ASSUME NEW s \in D(n), s # {}
        PROVE  n # 0 /\ s \ {First(s)} \in D(n - 1)
    <3>1. First(s) \in s
      BY <2>1, FirstIn
    <3>2. Cardinality(s \ {First(s)}) = Cardinality(s) - 1
      BY <1>1, <3>1, FS_RemoveElement
    <3>3. Cardinality(s \ {First(s)}) \in Nat
      BY <1>1
    <3>4. QED
      BY <1>1, <3>2, <3>3
  <2>2. QED
    BY <2>1
<1>3. 0 \notin Bad
  <2> DEFINE g == [s \in D(0) |-> 0]
  <2>1. SumsUp(v, D(0), g)
    BY <1>2 DEF SumsUp
  <2>2. QED
    BY <2>1
<1>4. ASSUME NEW n \in Nat, n \notin Bad
      PROVE  n + 1 \notin Bad
  <2>1. PICK g : SumsUp(v, D(n), g)
    BY <1>4
  <2>2. D(n) \subseteq D(n + 1)
    BY <1>1
  <2>3. \A s \in D(n + 1) : s # {} => s \ {First(s)} \in D(n)
    <3>1. n + 1 \in Nat /\ (n + 1) - 1 = n
      OBVIOUS
    <3>2. QED
      BY <1>2, <3>1
  <2>4. \E h : SumsUp(v, D(n + 1), h)
    <3> HIDE DEF D
    <3>1. QED
      BY <2>1, <2>2, <2>3, Extend
  <2>5. QED
    BY <2>4
<1>5. Bad = {}
  <2> SUFFICES ASSUME Bad # {}
               PROVE  FALSE
    OBVIOUS
  <2>1. Bad \subseteq Nat
    OBVIOUS
  <2> HIDE DEF Bad
  <2>2. PICK n \in Bad : \A m \in Bad : n <= m
    BY <2>1, LeastNat
  <2>3. n - 1 \in Nat /\ n - 1 \notin Bad
    BY <1>3, <2>1, <2>2
  <2>4. (n - 1) + 1 = n
    BY <2>1, <2>2
  <2>5. QED
    BY <1>4, <2>2, <2>3, <2>4
<1>6. \E g : SumsUp(v, D(Cardinality(S)), g)
  BY <1>1, <1>5
<1>7. D(Cardinality(S)) = SUBSET S
  BY FS_Subset
<1>8. QED
  BY <1>6, <1>7

(* It is the only one.                                                     *)
LEMMA SumUnique ==
  ASSUME NEW v, NEW S, NEW T, IsFiniteSet(S), NEW g, NEW h,
         SumsUp(v, SUBSET S, g), SumsUp(v, SUBSET T, h)
  PROVE  \A U : U \subseteq S /\ U \subseteq T => g[U] = h[U]
<1> DEFINE Bad == {s \in SUBSET S : s \subseteq T /\ g[s] # h[s]}
<1>1. \A s \in SUBSET S : g[s] = IF s = {} THEN 0 ELSE v[First(s)] + g[s \ {First(s)}]
  BY DEF SumsUp
<1>2. \A s \in SUBSET T : h[s] = IF s = {} THEN 0 ELSE v[First(s)] + h[s \ {First(s)}]
  BY DEF SumsUp
<1>3. Bad = {}
  <2> SUFFICES ASSUME Bad # {}
               PROVE  FALSE
    OBVIOUS
  <2>1. Bad \subseteq SUBSET S
    OBVIOUS
  <2>2. PICK s \in Bad : \A x \in s : s \ {x} \notin Bad
    <3> HIDE DEF Bad
    <3>1. QED
      BY <2>1, MinimalSubset
  <2>3. s # {} /\ First(s) \in s
    BY <1>1, <1>2, <2>2, FirstIn
  <2>4. g[s \ {First(s)}] = h[s \ {First(s)}]
    BY <2>2, <2>3
  <2>5. QED
    BY <1>1, <1>2, <2>2, <2>3, <2>4
<1>4. QED
  BY <1>3

-----------------------------------------------------------------------------
(* What a total is *)

LEMMA TotalUnfold ==
  ASSUME NEW v, NEW S
  PROVE  Total(v, S) = (CHOOSE g : SumsUp(v, SUBSET S, g))[S]
BY DEF Total, MapThenSumSet, MapThenFoldSet, SumsUp, First

LEMMA TotalIs ==
  ASSUME NEW v, NEW S, IsFiniteSet(S), NEW g, SumsUp(v, SUBSET S, g)
  PROVE  Total(v, S) = g[S]
<1> DEFINE c == CHOOSE h : SumsUp(v, SUBSET S, h)
<1>1. SumsUp(v, SUBSET S, c)
  OBVIOUS
<1>2. c[S] = g[S]
  <2> HIDE DEF c
  <2>1. QED
    BY <1>1, SumUnique
<1>3. QED
  BY <1>2, TotalUnfold

LEMMA TotalEmpty ==
  ASSUME NEW v
  PROVE  Total(v, {}) = 0
<1>1. IsFiniteSet({})
  BY FS_EmptySet
<1>2. PICK g : SumsUp(v, SUBSET {}, g)
  BY <1>1, SumExists
<1>3. g[{}] = 0
  BY <1>2 DEF SumsUp
<1>4. QED
  BY <1>1, <1>2, <1>3, TotalIs

LEMMA TotalFirst ==
  ASSUME NEW v, NEW S, IsFiniteSet(S), S # {}
  PROVE  Total(v, S) = v[First(S)] + Total(v, S \ {First(S)})
<1> DEFINE R == S \ {First(S)}
<1>1. IsFiniteSet(R)
  BY FS_RemoveElement
<1>2. PICK g : SumsUp(v, SUBSET S, g)
  BY SumExists
<1>3. PICK h : SumsUp(v, SUBSET R, h)
  BY <1>1, SumExists
<1>4. g[S] = v[First(S)] + g[R]
  BY <1>2 DEF SumsUp
<1>5. g[R] = h[R]
  <2>1. R \subseteq S /\ R \subseteq R
    OBVIOUS
  <2> HIDE DEF R
  <2>2. \A U : U \subseteq S /\ U \subseteq R => g[U] = h[U]
    BY <1>2, <1>3, SumUnique
  <2>3. QED
    BY <2>1, <2>2
<1>6. Total(v, S) = g[S] /\ Total(v, R) = h[R]
  BY <1>1, <1>2, <1>3, TotalIs
<1>7. QED
  BY <1>4, <1>5, <1>6

LEMMA TotalType ==
  ASSUME NEW v, NEW S, IsFiniteSet(S), Amounts(v, S)
  PROVE  Total(v, S) \in Int
<1> DEFINE Bad == {s \in SUBSET S : Total(v, s) \notin Int}
<1>1. Bad = {}
  <2> SUFFICES ASSUME Bad # {}
               PROVE  FALSE
    OBVIOUS
  <2>1. Bad \subseteq SUBSET S
    OBVIOUS
  <2>2. PICK s \in Bad : \A x \in s : s \ {x} \notin Bad
    <3> HIDE DEF Bad
    <3>1. QED
      BY <2>1, MinimalSubset
  <2>3. s # {} /\ First(s) \in s /\ IsFiniteSet(s)
    <3>1. s # {}
      BY <2>2, TotalEmpty
    <3>2. QED
      BY <2>2, <3>1, FirstIn, FS_Subset
  <2>4. Total(v, s \ {First(s)}) \in Int /\ v[First(s)] \in Int
    BY <2>2, <2>3 DEF Amounts
  <2>5. Total(v, s) = v[First(s)] + Total(v, s \ {First(s)})
    BY <2>3, TotalFirst
  <2>6. QED
    BY <2>2, <2>4, <2>5
<1>2. QED
  BY <1>1

(* A total does not depend on the order: it is that of the other rows and  *)
(* any one of them.                                                        *)
LEMMA TotalRemove ==
  ASSUME NEW v, NEW S, IsFiniteSet(S), Amounts(v, S), NEW x \in S
  PROVE  Total(v, S \ {x}) = Total(v, S) - v[x]
<1> DEFINE Wrong(s) == \E y \in s : Total(v, s) # v[y] + Total(v, s \ {y})
           Bad == {s \in SUBSET S : Wrong(s)}
<1>1. \A s \in SUBSET S : IsFiniteSet(s) /\ Total(v, s) \in Int
  BY FS_Subset, TotalType DEF Amounts
<1>2. Bad = {}
  <2> SUFFICES ASSUME Bad # {}
               PROVE  FALSE
    OBVIOUS
  <2>1. Bad \subseteq SUBSET S
    OBVIOUS
  <2>2. PICK s \in Bad : \A z \in s : s \ {z} \notin Bad
    <3> HIDE DEF Bad
    <3>1. QED
      BY <2>1, MinimalSubset
  <2>3. PICK y \in s : Total(v, s) # v[y] + Total(v, s \ {y})
    BY <2>2
  <2> DEFINE f == First(s)
  <2>4. f \in s /\ Total(v, s) = v[f] + Total(v, s \ {f})
    BY <1>1, <2>2, <2>3, FirstIn, TotalFirst
  <2>5. f # y
    BY <2>3, <2>4
  <2>6. Total(v, s \ {f}) = v[y] + Total(v, (s \ {f}) \ {y})
    BY <2>2, <2>4, <2>5
  <2>7. Total(v, s \ {y}) = v[f] + Total(v, (s \ {y}) \ {f})
    BY <2>2, <2>4, <2>5
  <2>8. (s \ {f}) \ {y} = (s \ {y}) \ {f}
    OBVIOUS
  <2>9. /\ v[f] \in Int /\ v[y] \in Int
        /\ Total(v, (s \ {f}) \ {y}) \in Int
    <3>1. (s \ {f}) \ {y} \in SUBSET S
      BY <2>2
    <3>2. QED
      BY <1>1, <2>2, <2>4, <3>1 DEF Amounts
  <2>10. \A i, j, k \in Int : i + (j + k) = j + (i + k)
    OBVIOUS
  <2>11. Total(v, s) = v[y] + (v[f] + Total(v, (s \ {f}) \ {y}))
    BY <2>4, <2>6, <2>9, <2>10
  <2>12. QED
    BY <2>3, <2>7, <2>8, <2>11
<1>3. Total(v, S) = v[x] + Total(v, S \ {x})
  BY <1>2
<1>4. v[x] \in Int /\ Total(v, S \ {x}) \in Int
  BY <1>1 DEF Amounts
<1>5. QED
  BY <1>3, <1>4

LEMMA TotalAdd ==
  ASSUME NEW v, NEW S, IsFiniteSet(S), Amounts(v, S), NEW x, x \notin S, v[x] \in Int
  PROVE  Total(v, S \cup {x}) = Total(v, S) + v[x]
<1>1. IsFiniteSet(S \cup {x}) /\ Amounts(v, S \cup {x}) /\ (S \cup {x}) \ {x} = S
  BY FS_AddElement DEF Amounts
<1>2. Total(v, S) = Total(v, S \cup {x}) - v[x]
  BY <1>1, TotalRemove
<1>3. Total(v, S \cup {x}) \in Int
  BY <1>1, TotalType
<1>4. QED
  BY <1>2, <1>3

-----------------------------------------------------------------------------
(* Totals of parts *)

(* The total of two sets without a common row.                             *)
LEMMA TotalUnion ==
  ASSUME NEW v, NEW S, NEW T, IsFiniteSet(S), IsFiniteSet(T), Amounts(v, S), Amounts(v, T),
         S \cap T = {}
  PROVE  Total(v, S \cup T) = Total(v, S) + Total(v, T)
<1> DEFINE Bad == {s \in SUBSET S : Total(v, s \cup T) # Total(v, s) + Total(v, T)}
<1>1. \A s \in SUBSET S : /\ IsFiniteSet(s) /\ Amounts(v, s)
                          /\ IsFiniteSet(s \cup T) /\ Amounts(v, s \cup T)
  BY FS_Subset, FS_Union DEF Amounts
<1>2. Total(v, T) \in Int
  BY TotalType
<1>3. Bad = {}
  <2> SUFFICES ASSUME Bad # {}
               PROVE  FALSE
    OBVIOUS
  <2>1. Bad \subseteq SUBSET S
    OBVIOUS
  <2>2. PICK s \in Bad : \A x \in s : s \ {x} \notin Bad
    <3> HIDE DEF Bad
    <3>1. QED
      BY <2>1, MinimalSubset
  <2>3. CASE s = {}
    <3>1. {} \cup T = T
      OBVIOUS
    <3>2. QED
      BY <1>2, <2>2, <2>3, <3>1, TotalEmpty
  <2>4. CASE s # {}
    <3>1. PICK x \in s : TRUE
      BY <2>4
    <3> DEFINE r == s \ {x}
    <3>2. /\ r \in SUBSET S /\ (s \cup T) \ {x} = r \cup T
          /\ x \in s \cup T
      BY <2>2, <3>1
    <3>3. Total(v, r \cup T) = Total(v, r) + Total(v, T)
      BY <2>2, <3>1, <3>2
    <3>4. Total(v, r) = Total(v, s) - v[x]
      BY <1>1, <2>2, <3>1, TotalRemove
    <3>5. Total(v, r \cup T) = Total(v, s \cup T) - v[x]
      <4> HIDE DEF r
      <4>1. QED
        BY <1>1, <2>2, <3>2, TotalRemove
    <3>6. v[x] \in Int /\ Total(v, s) \in Int /\ Total(v, s \cup T) \in Int
      BY <1>1, <2>2, <3>1, TotalType DEF Amounts
    <3>7. QED
      BY <1>2, <2>2, <3>3, <3>4, <3>5, <3>6
  <2>5. QED
    BY <2>3, <2>4
<1>4. QED
  BY <1>3

LEMMA TotalNat ==
  ASSUME NEW v, NEW S, IsFiniteSet(S), \A x \in S : v[x] \in Nat
  PROVE  Total(v, S) \in Nat
<1> DEFINE Bad == {s \in SUBSET S : Total(v, s) \notin Nat}
<1>1. Bad = {}
  <2> SUFFICES ASSUME Bad # {}
               PROVE  FALSE
    OBVIOUS
  <2>1. Bad \subseteq SUBSET S
    OBVIOUS
  <2>2. PICK s \in Bad : \A x \in s : s \ {x} \notin Bad
    <3> HIDE DEF Bad
    <3>1. QED
      BY <2>1, MinimalSubset
  <2>3. s # {} /\ First(s) \in s /\ IsFiniteSet(s)
    <3>1. s # {}
      BY <2>2, TotalEmpty
    <3>2. QED
      BY <2>2, <3>1, FirstIn, FS_Subset
  <2>4. Total(v, s \ {First(s)}) \in Nat /\ v[First(s)] \in Nat
    BY <2>2, <2>3
  <2>5. Total(v, s) = v[First(s)] + Total(v, s \ {First(s)})
    BY <2>3, TotalFirst
  <2>6. QED
    BY <2>2, <2>4, <2>5
<1>2. QED
  BY <1>1

(* A part of some natural numbers is no more than they are.                *)
LEMMA TotalPart ==
  ASSUME NEW v, NEW S, NEW T, IsFiniteSet(T), S \subseteq T, \A x \in T : v[x] \in Nat
  PROVE  Total(v, S) <= Total(v, T)
<1>1. IsFiniteSet(S) /\ IsFiniteSet(T \ S) /\ S \cup (T \ S) = T /\ S \cap (T \ S) = {}
  BY FS_Subset
<1>2. Amounts(v, S) /\ Amounts(v, T \ S)
  BY DEF Amounts
<1>3. Total(v, T) = Total(v, S) + Total(v, T \ S)
  BY <1>1, <1>2, TotalUnion
<1>4. Total(v, S) \in Nat /\ Total(v, T \ S) \in Nat
  BY <1>1, TotalNat
<1>5. QED
  BY <1>3, <1>4

(* The totals of parts that have no row in common, put together.           *)
LEMMA TotalParts ==
  ASSUME NEW v, NEW T, IsFiniteSet(T), \A x \in T : v[x] \in Nat,
         NEW B, IsFiniteSet(B), NEW P, \A b \in B : P[b] \subseteq T,
         \A b, c \in B : b # c => P[b] \cap P[c] = {},
         NEW w, \A b \in B : w[b] = Total(v, P[b])
  PROVE  Total(w, B) <= Total(v, T)
<1> DEFINE All(s) == {x \in T : \E b \in s : x \in P[b]}
           Bad == {s \in SUBSET B : Total(w, s) # Total(v, All(s))}
<1>1. \A s \in SUBSET B : IsFiniteSet(s) /\ IsFiniteSet(All(s))
  BY FS_Subset
<1>2. Bad = {}
  <2> SUFFICES ASSUME Bad # {}
               PROVE  FALSE
    OBVIOUS
  <2>1. Bad \subseteq SUBSET B
    OBVIOUS
  <2>2. PICK s \in Bad : \A x \in s : s \ {x} \notin Bad
    <3> HIDE DEF Bad
    <3>1. QED
      BY <2>1, MinimalSubset
  <2>3. s # {}
    <3>1. All({}) = {}
      OBVIOUS
    <3> HIDE DEF All
    <3>2. QED
      BY <2>2, <3>1, TotalEmpty
  <2> DEFINE f == First(s)
             r == s \ {f}
  <2>4. f \in s /\ f \in B /\ r \in SUBSET B
    BY <2>2, <2>3, FirstIn
  <2>5. Total(w, s) = w[f] + Total(w, r)
    BY <1>1, <2>2, <2>3, TotalFirst
  <2>6. Total(w, r) = Total(v, All(r)) /\ w[f] = Total(v, P[f])
    BY <2>2, <2>4
  <2>7. P[f] \cup All(r) = All(s) /\ P[f] \cap All(r) = {}
    <3>1. \A b \in r : P[f] \cap P[b] = {}
      BY <2>4
    <3>2. \A b : b \in s <=> b = f \/ b \in r
      BY <2>4
    <3> HIDE DEF f, r
    <3>3. QED
      BY <2>4, <3>1, <3>2
  <2>8. IsFiniteSet(P[f]) /\ IsFiniteSet(All(r)) /\ Amounts(v, P[f]) /\ Amounts(v, All(r))
    <3>1. IsFiniteSet(P[f]) /\ P[f] \subseteq T
      BY <2>4, FS_Subset
    <3>2. IsFiniteSet(All(r)) /\ All(r) \subseteq T
      BY <1>1, <2>4
    <3>3. QED
      BY <3>1, <3>2 DEF Amounts
  <2>9. Total(v, All(s)) = Total(v, P[f]) + Total(v, All(r))
    <3> HIDE DEF All, f, r
    <3>1. QED
      BY <2>7, <2>8, TotalUnion
  <2>10. QED
    BY <2>2, <2>5, <2>6, <2>9
<1>3. Total(w, B) = Total(v, All(B))
  BY <1>2
<1>4. All(B) \subseteq T
  OBVIOUS
<1>5. QED
  <2> HIDE DEF All
  <2>1. QED
    BY <1>3, <1>4, TotalPart

(* The sum of the amounts of rows, and of rows found by their ids.         *)
LEMMA TotalOfAmounts ==
  ASSUME NEW S, IsFiniteSet(S), NEW v, \A e \in S : v[e] = e.amount
  PROVE  MapThenSumSet(LAMBDA e : e.amount, S) = Total(v, S)
<1> DEFINE Adds(g) ==
      g = [s \in SUBSET S |-> IF s = {} THEN 0 ELSE First(s).amount + g[s \ {First(s)}]]
           c == CHOOSE g : Adds(g)
<1>1. \A g : Adds(g) <=> SumsUp(v, SUBSET S, g)
  <2>1. \A s \in SUBSET S : s # {} => v[First(s)] = First(s).amount
    BY FirstIn
  <2>2. ASSUME NEW g
        PROVE  [s \in SUBSET S |-> IF s = {} THEN 0 ELSE First(s).amount + g[s \ {First(s)}]]
               = [s \in SUBSET S |-> IF s = {} THEN 0 ELSE v[First(s)] + g[s \ {First(s)}]]
    BY <2>1
  <2>3. QED
    BY <2>2 DEF SumsUp
<1>2. MapThenSumSet(LAMBDA e : e.amount, S) = c[S]
  BY DEF MapThenSumSet, MapThenFoldSet, First
<1>3. \E g : SumsUp(v, SUBSET S, g)
  BY SumExists
<1>4. SumsUp(v, SUBSET S, c)
  <2> HIDE DEF Adds
  <2>1. QED
    BY <1>1, <1>3
<1>5. QED
  <2> HIDE DEF c
  <2>1. QED
    BY <1>2, <1>4, TotalIs
=============================================================================

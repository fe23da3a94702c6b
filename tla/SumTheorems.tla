---------------------------- MODULE SumTheorems ----------------------------
(***************************************************************************)
(* Facts about sums of numbers over finite sets, and the greatest of their *)
(* elements, that the library of the prover does not have.  Its induction  *)
(* theorems take an operator, which no installed prover can instantiate,   *)
(* so each induction here is an argument about a smallest set that fails.  *)
(***************************************************************************)
EXTENDS Integers, FiniteSets, FiniteSetsExt, Functions, FiniteSetTheorems,
        WellFoundedInduction, TLAPS

(* Of the finite sets that fail, one has no smaller one.                     *)
LEMMA SmallestSet ==
    ASSUME NEW U, IsFiniteSet(U), NEW T, T \subseteq SUBSET U, T # {}
    PROVE  \E S \in T : \A R \in T : R \subseteq S => R = S
<1>1. IsWellFoundedOn(StrictSubsetOrdering(U), FiniteSubsetsOf(U))
  BY FS_StrictSubsetOrderingWellFounded
<1>2. T \subseteq FiniteSubsetsOf(U)
  BY FS_FiniteSubsetsOfFinite
<1>3. PICK S \in T : \A R \in T : <<R, S>> \notin StrictSubsetOrdering(U)
  BY <1>1, <1>2, WFMin
<1>4. ASSUME NEW R \in T, R \subseteq S, R # S
      PROVE  <<R, S>> \in StrictSubsetOrdering(U)
  BY <1>4 DEF StrictSubsetOrdering
<1>5. \A R \in T : R \subseteq S => R = S
  BY <1>3, <1>4, Zenon
<1> QED
  BY <1>5, Zenon

(***************************************************************************)
(* The fold that sums is defined.                                          *)
(***************************************************************************)

Chosen(s) == CHOOSE x \in s : TRUE

(* g sums w over the subsets of S. *)
Sums(w, S, g) ==
    g = [s \in SUBSET S |-> IF s = {} THEN 0 ELSE w[Chosen(s)] + g[s \ {Chosen(s)}]]

LEMMA SumIsFold ==
    ASSUME NEW w, NEW S
    PROVE  SumFunctionOnSet(w, S) = (CHOOSE g : Sums(w, S, g))[S]
BY DEF SumFunctionOnSet, FoldFunctionOnSet, MapThenFoldSet, Sums, Chosen

LEMMA ChosenIn ==
    ASSUME NEW s, s # {}
    PROVE  Chosen(s) \in s
BY DEF Chosen

LEMMA SumsAt ==
    ASSUME NEW w, NEW S, NEW g, Sums(w, S, g), NEW s \in SUBSET S
    PROVE  g[s] = IF s = {} THEN 0 ELSE w[Chosen(s)] + g[s \ {Chosen(s)}]
<1> DEFINE body(r) == IF r = {} THEN 0 ELSE w[Chosen(r)] + g[r \ {Chosen(r)}]
<1>1. g = [r \in SUBSET S |-> body(r)]
  BY DEF Sums
<1> HIDE DEF body
<1>2. g[s] = body(s)
  BY <1>1
<1> QED
  BY <1>2 DEF body

(* Two such functions agree where both are defined.                          *)
LEMMA SumsAgree ==
    ASSUME NEW U, IsFiniteSet(U), NEW w, NEW S \in SUBSET U, NEW R \in SUBSET U, NEW g, NEW h,
           Sums(w, S, g), Sums(w, R, h), NEW s \in SUBSET (S \cap R)
    PROVE  g[s] = h[s]
<1> DEFINE T == {r \in SUBSET (S \cap R) : g[r] # h[r]}
<1> SUFFICES ASSUME T # {}
             PROVE  FALSE
  OBVIOUS
<1>1. T \subseteq SUBSET U
  OBVIOUS
<1>2. PICK m \in T : \A r \in T : r \subseteq m => r = m
  <2> HIDE DEF T
  <2> QED
    BY <1>1, SmallestSet
<1>3. m \in SUBSET S /\ m \in SUBSET R /\ g[m] # h[m]
  OBVIOUS
<1> HIDE DEF T
<1>4. g[m] = IF m = {} THEN 0 ELSE w[Chosen(m)] + g[m \ {Chosen(m)}]
  BY ONLY <1>3, Sums(w, S, g), SumsAt
<1>5. h[m] = IF m = {} THEN 0 ELSE w[Chosen(m)] + h[m \ {Chosen(m)}]
  BY ONLY <1>3, Sums(w, R, h), SumsAt
<1>10. m # {}
  BY <1>3, <1>4, <1>5
<1>6. Chosen(m) \in m
  BY <1>10, ChosenIn
<1>7. m \ {Chosen(m)} \subseteq m /\ m \ {Chosen(m)} # m
  BY <1>6
<1>8. m \ {Chosen(m)} \notin T
  BY <1>2, <1>7
<1>9. g[m \ {Chosen(m)}] = h[m \ {Chosen(m)}]
  BY <1>3, <1>8 DEF T
<1> QED
  BY <1>3, <1>4, <1>5, <1>9, <1>10

LEMMA SumsExist ==
    ASSUME NEW U, IsFiniteSet(U), NEW w, NEW S \in SUBSET U
    PROVE  \E g : Sums(w, S, g)
<1> DEFINE T == {r \in SUBSET U : ~ \E g : Sums(w, r, g)}
<1> SUFFICES ASSUME T # {}
             PROVE  FALSE
  OBVIOUS
<1>1. T \subseteq SUBSET U
  OBVIOUS
<1>2. PICK m \in T : \A r \in T : r \subseteq m => r = m
  <2> HIDE DEF T
  <2> QED
    BY <1>1, SmallestSet
<1>3. m \in SUBSET U /\ ~ \E g : Sums(w, m, g)
  OBVIOUS
<1> DEFINE G(r) == CHOOSE g : Sums(w, r, g)
<1>4. ASSUME NEW r \in SUBSET m, r # m
      PROVE  Sums(w, r, G(r))
  <2>1. r \in SUBSET U /\ r \notin T
    BY <1>2, <1>3, <1>4
  <2>2. \E g : Sums(w, r, g)
    BY <2>1
  <2> QED
    BY <2>2
<1> HIDE DEF T, G
<1> DEFINE rest(s) == s \ {Chosen(s)}
           at(s) == IF s = {} THEN 0 ELSE w[Chosen(s)] + G(rest(s))[rest(s)]
           h == [s \in SUBSET m |-> at(s)]
<1>5. ASSUME NEW s \in SUBSET m, s # {}
      PROVE  rest(s) \in SUBSET m /\ rest(s) # m /\ rest(s) # s /\ Chosen(s) \in s
  BY <1>5, ChosenIn
<1>6. ASSUME NEW s \in SUBSET m, s # m
      PROVE  h[s] = G(s)[s]
  <2>1. CASE s = {}
    BY <1>4, <1>6, <2>1, SumsAt
  <2>2. CASE s # {}
    <3>1. Sums(w, s, G(s)) /\ Sums(w, rest(s), G(rest(s)))
      BY <1>4, <1>5, <1>6, <2>2
    <3>2. s \in SUBSET U /\ rest(s) \in SUBSET U /\ rest(s) \in SUBSET (s \cap rest(s))
      BY <1>3, <1>5, <2>2
    <3>3. G(s)[rest(s)] = G(rest(s))[rest(s)]
      BY <3>1, <3>2, SumsAgree
    <3>4. G(s)[s] = w[Chosen(s)] + G(s)[rest(s)]
      BY <2>2, <3>1, SumsAt
    <3> QED
      BY <2>2, <3>3, <3>4
  <2> QED
    BY <2>1, <2>2
<1>7. \A s \in SUBSET m : h[s] = IF s = {} THEN 0 ELSE w[Chosen(s)] + h[rest(s)]
  <2> SUFFICES ASSUME NEW s \in SUBSET m, s # {}
               PROVE  h[s] = w[Chosen(s)] + h[rest(s)]
    OBVIOUS
  <2>1. h[rest(s)] = G(rest(s))[rest(s)]
    BY <1>5, <1>6
  <2>2. h[s] = w[Chosen(s)] + G(rest(s))[rest(s)]
    OBVIOUS
  <2> QED
    BY <2>1, <2>2
<1>8. h = [s \in SUBSET m |-> h[s]]
  OBVIOUS
<1> HIDE DEF h, at
<1>9. Sums(w, m, h)
  BY <1>7, <1>8 DEF Sums
<1> QED
  BY <1>3, <1>9

(* The sum in terms of the chosen element: what all the rest follows from.   *)
LEMMA SumOfChosen ==
    ASSUME NEW S, IsFiniteSet(S), NEW w
    PROVE  SumFunctionOnSet(w, S) =
               IF S = {} THEN 0 ELSE w[Chosen(S)] + SumFunctionOnSet(w, S \ {Chosen(S)})
<1> DEFINE R == S \ {Chosen(S)}
           g == CHOOSE f : Sums(w, S, f)
           h == CHOOSE f : Sums(w, R, f)
<1>1. Sums(w, S, g)
  <2>1. \E f : Sums(w, S, f)
    BY SumsExist
  <2> QED
    BY <2>1
<1>2. Sums(w, R, h)
  <2>1. \E f : Sums(w, R, f)
    BY SumsExist
  <2> QED
    BY <2>1
<1>3. SumFunctionOnSet(w, S) = g[S] /\ SumFunctionOnSet(w, R) = h[R]
  BY SumIsFold
<1> HIDE DEF g, h
<1>4. R \in SUBSET S /\ S \in SUBSET S /\ R \in SUBSET (S \cap R)
  OBVIOUS
<1>5. g[R] = h[R]
  BY <1>1, <1>2, <1>4, SumsAgree
<1>6. g[S] = IF S = {} THEN 0 ELSE w[Chosen(S)] + g[R]
  BY <1>1, <1>4, SumsAt
<1> QED
  BY <1>3, <1>5, <1>6

(***************************************************************************)
(* What a sum is, and how it changes.                                      *)
(***************************************************************************)

LEMMA SumNothing == ASSUME NEW w PROVE SumFunctionOnSet(w, {}) = 0
BY SumOfChosen, FS_EmptySet

(* The sum of numbers is one, and loses what an element weighs when the      *)
(* element goes.                                                             *)
LEMMA SumIn ==
    ASSUME NEW N \in {Nat, Int}, NEW U, IsFiniteSet(U), NEW w \in [U -> N], NEW S \in SUBSET U
    PROVE  /\ SumFunctionOnSet(w, S) \in N
           /\ \A x \in S : SumFunctionOnSet(w, S) = w[x] + SumFunctionOnSet(w, S \ {x})
<1> DEFINE Good(r) == /\ SumFunctionOnSet(w, r) \in N
                      /\ \A x \in r : SumFunctionOnSet(w, r) = w[x] + SumFunctionOnSet(w, r \ {x})
           T == {r \in SUBSET U : ~ Good(r)}
<1> SUFFICES ASSUME T # {}
             PROVE  FALSE
  OBVIOUS
<1>1. T \subseteq SUBSET U
  OBVIOUS
<1>2. PICK m \in T : \A r \in T : r \subseteq m => r = m
  <2> HIDE DEF T
  <2> QED
    BY <1>1, SmallestSet
<1>3. m \in SUBSET U /\ ~ Good(m)
  OBVIOUS
<1>4. \A r \in SUBSET m : r # m => Good(r)
  BY <1>2, <1>3
<1> HIDE DEF T
<1>5. IsFiniteSet(m)
  BY <1>3, FS_Subset
<1> DEFINE c == Chosen(m)
<1>6. CASE m = {}
  BY <1>3, <1>6, SumNothing
<1>7. CASE m # {}
  <2>1. c \in m
    BY <1>7, ChosenIn
  <2>2. SumFunctionOnSet(w, m) = w[c] + SumFunctionOnSet(w, m \ {c})
    BY <1>5, <1>7, SumOfChosen
  <2> HIDE DEF c
  <2>3. Good(m \ {c})
    BY <1>4, <2>1
  <2>4. SumFunctionOnSet(w, m) \in N
    BY <1>3, <2>1, <2>2, <2>3
  <2>5. ASSUME NEW x \in m
        PROVE  SumFunctionOnSet(w, m) = w[x] + SumFunctionOnSet(w, m \ {x})
    <3>1. CASE x = c
      BY <2>2, <3>1
    <3>2. CASE x # c
      <4>1. (m \ {x}) \ {c} = (m \ {c}) \ {x}
        OBVIOUS
      <4>2. SumFunctionOnSet(w, m \ {c}) = w[x] + SumFunctionOnSet(w, (m \ {c}) \ {x})
        BY <2>3, <3>2
      <4>3. Good(m \ {x})
        BY <1>4
      <4>4. SumFunctionOnSet(w, m \ {x}) = w[c] + SumFunctionOnSet(w, (m \ {x}) \ {c})
        BY <2>1, <3>2, <4>3
      <4>5. Good((m \ {c}) \ {x})
        BY <1>4, <2>1
      <4>6. w[x] \in Int /\ w[c] \in Int /\ SumFunctionOnSet(w, (m \ {c}) \ {x}) \in Int
        BY <1>3, <2>1, <4>5
      <4>7. SumFunctionOnSet(w, m \ {x}) = w[c] + SumFunctionOnSet(w, (m \ {c}) \ {x})
        BY <4>1, <4>4, Zenon
      <4>8. SumFunctionOnSet(w, m) = w[c] + (w[x] + SumFunctionOnSet(w, (m \ {c}) \ {x}))
        BY <2>2, <4>2, Zenon
      <4>9. \A a, b, r \in Int : a + (b + r) = b + (a + r)
        OBVIOUS
      <4> QED
        BY <4>6, <4>7, <4>8, <4>9
    <3> QED
      BY <3>1, <3>2
  <2> QED
    BY <1>3, <2>4, <2>5
<1> QED
  BY <1>6, <1>7

LEMMA SumAny ==
    ASSUME NEW U, IsFiniteSet(U), NEW w \in [U -> Nat], NEW S \in SUBSET U
    PROVE  /\ SumFunctionOnSet(w, S) \in Nat
           /\ \A x \in S : SumFunctionOnSet(w, S) = w[x] + SumFunctionOnSet(w, S \ {x})
BY SumIn

LEMMA SumOfIntegers ==
    ASSUME NEW U, IsFiniteSet(U), NEW w \in [U -> Int], NEW S \in SUBSET U
    PROVE  /\ SumFunctionOnSet(w, S) \in Int
           /\ \A x \in S : SumFunctionOnSet(w, S) = w[x] + SumFunctionOnSet(w, S \ {x})
BY SumIn

(* A sum depends on what its elements weigh, and nothing else.               *)
LEMMA SumCongruent ==
    ASSUME NEW S, IsFiniteSet(S), NEW v, NEW w, \A x \in S : v[x] = w[x]
    PROVE  SumFunctionOnSet(v, S) = SumFunctionOnSet(w, S)
<1> DEFINE T == {r \in SUBSET S : SumFunctionOnSet(v, r) # SumFunctionOnSet(w, r)}
<1> SUFFICES ASSUME T # {}
             PROVE  FALSE
  OBVIOUS
<1>1. T \subseteq SUBSET S
  OBVIOUS
<1>2. PICK m \in T : \A r \in T : r \subseteq m => r = m
  <2> HIDE DEF T
  <2> QED
    BY <1>1, SmallestSet
<1>3. m \in SUBSET S /\ SumFunctionOnSet(v, m) # SumFunctionOnSet(w, m)
  OBVIOUS
<1> HIDE DEF T
<1> DEFINE c == Chosen(m)
<1>4. IsFiniteSet(m)
  BY <1>3, FS_Subset
<1>5. m # {}
  BY <1>3, SumNothing
<1>6. c \in m /\ v[c] = w[c]
  BY <1>3, <1>5, ChosenIn
<1>7. SumFunctionOnSet(v, m) = v[c] + SumFunctionOnSet(v, m \ {c})
  BY <1>4, <1>5, SumOfChosen
<1>8. SumFunctionOnSet(w, m) = w[c] + SumFunctionOnSet(w, m \ {c})
  BY <1>4, <1>5, SumOfChosen
<1> HIDE DEF c
<1>9. m \ {c} \notin T
  BY <1>2, <1>6
<1>10. SumFunctionOnSet(v, m \ {c}) = SumFunctionOnSet(w, m \ {c})
  BY <1>3, <1>9 DEF T
<1> QED
  BY <1>3, <1>6, <1>7, <1>8, <1>10

(* Weights that agree on a set have the same sum over it, larger ones no     *)
(* smaller one.                                                              *)
LEMMA SumPointwise ==
    ASSUME NEW U, IsFiniteSet(U), NEW v \in [U -> Nat], NEW w \in [U -> Nat], NEW S \in SUBSET U,
           \A x \in S : v[x] <= w[x]
    PROVE  SumFunctionOnSet(v, S) <= SumFunctionOnSet(w, S)
<1> DEFINE T == {r \in SUBSET S : ~ (SumFunctionOnSet(v, r) <= SumFunctionOnSet(w, r))}
<1> SUFFICES ASSUME T # {}
             PROVE  FALSE
  OBVIOUS
<1>1. T \subseteq SUBSET U
  OBVIOUS
<1>2. PICK m \in T : \A r \in T : r \subseteq m => r = m
  <2> HIDE DEF T
  <2> QED
    BY <1>1, SmallestSet
<1>3. m \in SUBSET S /\ m \in SUBSET U /\ ~ (SumFunctionOnSet(v, m) <= SumFunctionOnSet(w, m))
  OBVIOUS
<1>4. CASE m = {}
  BY <1>3, <1>4, SumNothing
<1>5. CASE m # {}
  <2>1. PICK x \in m : TRUE
    BY <1>5
  <2>2. m \ {x} \notin T
    BY <1>2
  <2>3. SumFunctionOnSet(v, m \ {x}) <= SumFunctionOnSet(w, m \ {x})
    BY <1>3, <2>2
  <2>4. m \ {x} \in SUBSET U
    BY <1>3
  <2>5. SumFunctionOnSet(v, m \ {x}) \in Nat /\ SumFunctionOnSet(w, m \ {x}) \in Nat
    BY <2>4, SumAny
  <2>6. /\ SumFunctionOnSet(v, m) = v[x] + SumFunctionOnSet(v, m \ {x})
        /\ SumFunctionOnSet(w, m) = w[x] + SumFunctionOnSet(w, m \ {x})
    BY <1>3, SumAny
  <2>7. v[x] \in Nat /\ w[x] \in Nat /\ v[x] <= w[x]
    BY <1>3
  <2> QED
    BY <1>3, <2>3, <2>5, <2>6, <2>7
<1> QED
  BY <1>4, <1>5

LEMMA SumSame ==
    ASSUME NEW U, IsFiniteSet(U), NEW v \in [U -> Nat], NEW w \in [U -> Nat], NEW S \in SUBSET U,
           \A x \in S : v[x] = w[x]
    PROVE  SumFunctionOnSet(v, S) = SumFunctionOnSet(w, S)
<1>1. \A x \in S : v[x] <= w[x] /\ w[x] <= v[x]
  OBVIOUS
<1>2. SumFunctionOnSet(v, S) \in Nat /\ SumFunctionOnSet(w, S) \in Nat
  BY SumAny
<1>3. SumFunctionOnSet(v, S) <= SumFunctionOnSet(w, S)
  BY <1>1, SumPointwise
<1>4. SumFunctionOnSet(w, S) <= SumFunctionOnSet(v, S)
  BY <1>1, SumPointwise
<1> QED
  BY <1>2, <1>3, <1>4

LEMMA SumZero ==
    ASSUME NEW U, IsFiniteSet(U), NEW w \in [U -> Nat], NEW S \in SUBSET U, \A x \in S : w[x] = 0
    PROVE  SumFunctionOnSet(w, S) = 0
<1> DEFINE T == {r \in SUBSET S : SumFunctionOnSet(w, r) # 0}
<1> SUFFICES ASSUME T # {}
             PROVE  FALSE
  OBVIOUS
<1>1. T \subseteq SUBSET U
  OBVIOUS
<1>2. PICK m \in T : \A r \in T : r \subseteq m => r = m
  <2> HIDE DEF T
  <2> QED
    BY <1>1, SmallestSet
<1>3. m \in SUBSET S /\ m \in SUBSET U /\ SumFunctionOnSet(w, m) # 0
  OBVIOUS
<1>4. m # {}
  BY <1>3, SumNothing
<1>5. PICK x \in m : TRUE
  BY <1>4
<1>6. m \ {x} \notin T
  BY <1>2
<1>7. SumFunctionOnSet(w, m \ {x}) = 0 /\ w[x] = 0
  BY <1>3, <1>6
<1>8. SumFunctionOnSet(w, m) = w[x] + SumFunctionOnSet(w, m \ {x})
  BY <1>3, SumAny
<1> QED
  BY <1>3, <1>7, <1>8

(* A sum over a part of a set is no larger.                                  *)
LEMMA SumPart ==
    ASSUME NEW U, IsFiniteSet(U), NEW w \in [U -> Nat], NEW S \in SUBSET U, NEW R \in SUBSET S
    PROVE  SumFunctionOnSet(w, R) <= SumFunctionOnSet(w, S)
<1> DEFINE T == {r \in SUBSET S : R \subseteq r /\ ~ (SumFunctionOnSet(w, R) <= SumFunctionOnSet(w, r))}
<1> SUFFICES ASSUME T # {}
             PROVE  FALSE
  OBVIOUS
<1>1. T \subseteq SUBSET U
  OBVIOUS
<1>2. PICK m \in T : \A r \in T : r \subseteq m => r = m
  <2> HIDE DEF T
  <2> QED
    BY <1>1, SmallestSet
<1>3. /\ m \in SUBSET S /\ m \in SUBSET U /\ R \subseteq m
      /\ ~ (SumFunctionOnSet(w, R) <= SumFunctionOnSet(w, m))
  OBVIOUS
<1>4. SumFunctionOnSet(w, R) \in Nat /\ SumFunctionOnSet(w, m) \in Nat
  <2>1. R \in SUBSET U
    OBVIOUS
  <2> QED
    BY <1>3, <2>1, SumAny
<1>5. m # R
  BY <1>3, <1>4
<1>6. PICK x \in m : x \notin R
  BY <1>3, <1>5
<1>7. m \ {x} \notin T
  BY <1>2
<1>8. SumFunctionOnSet(w, R) <= SumFunctionOnSet(w, m \ {x})
  BY <1>3, <1>6, <1>7
<1>9. m \ {x} \in SUBSET U
  BY <1>3
<1>10. SumFunctionOnSet(w, m \ {x}) \in Nat
  BY <1>9, SumAny
<1>11. SumFunctionOnSet(w, m) = w[x] + SumFunctionOnSet(w, m \ {x}) /\ w[x] \in Nat
  BY <1>3, SumAny
<1> QED
  BY <1>3, <1>4, <1>8, <1>10, <1>11

(* Changing one weight changes the sum by as much.                           *)
LEMMA SumChanges ==
    ASSUME NEW U, IsFiniteSet(U), NEW v \in [U -> Nat], NEW w \in [U -> Nat], NEW x \in U,
           \A y \in U \ {x} : v[y] = w[y]
    PROVE  SumFunction(v) + w[x] = SumFunction(w) + v[x]
<1>1. SumFunction(v) = SumFunctionOnSet(v, U) /\ SumFunction(w) = SumFunctionOnSet(w, U)
  BY DEF SumFunction
<1>2. /\ SumFunctionOnSet(v, U) = v[x] + SumFunctionOnSet(v, U \ {x})
      /\ SumFunctionOnSet(w, U) = w[x] + SumFunctionOnSet(w, U \ {x})
  BY SumAny
<1>3. U \ {x} \in SUBSET U
  OBVIOUS
<1>4. SumFunctionOnSet(v, U \ {x}) = SumFunctionOnSet(w, U \ {x})
  BY <1>3, SumSame
<1>5. SumFunctionOnSet(w, U \ {x}) \in Nat
  BY <1>3, SumAny
<1>6. v[x] \in Nat /\ w[x] \in Nat
  OBVIOUS
<1> QED
  BY <1>1, <1>2, <1>4, <1>5, <1>6

(* The same for the sum over a part of the domain.                           *)
LEMMA SumMoves ==
    ASSUME NEW U, IsFiniteSet(U), NEW v \in [U -> Nat], NEW w \in [U -> Nat], NEW x \in U,
           \A y \in U \ {x} : v[y] = w[y], NEW S \in SUBSET U
    PROVE  IF x \in S THEN SumFunctionOnSet(v, S) + w[x] = SumFunctionOnSet(w, S) + v[x]
           ELSE SumFunctionOnSet(v, S) = SumFunctionOnSet(w, S)
<1>1. CASE x \notin S
  <2>1. \A y \in S : v[y] = w[y]
    BY <1>1
  <2> QED
    BY <1>1, <2>1, SumSame
<1>2. CASE x \in S
  <2>1. /\ SumFunctionOnSet(v, S) = v[x] + SumFunctionOnSet(v, S \ {x})
        /\ SumFunctionOnSet(w, S) = w[x] + SumFunctionOnSet(w, S \ {x})
    BY <1>2, SumAny
  <2>2. S \ {x} \in SUBSET U /\ \A y \in S \ {x} : v[y] = w[y]
    OBVIOUS
  <2>3. SumFunctionOnSet(v, S \ {x}) = SumFunctionOnSet(w, S \ {x})
    BY <2>2, SumSame
  <2>4. SumFunctionOnSet(w, S \ {x}) \in Nat /\ v[x] \in Nat /\ w[x] \in Nat
    BY <2>2, SumAny
  <2> QED
    BY <1>2, <2>1, <2>3, <2>4
<1> QED
  BY <1>1, <1>2

(***************************************************************************)
(* The greatest element of a set of natural numbers.                       *)
(***************************************************************************)

LEMMA GreatestElement ==
    ASSUME NEW S \in SUBSET Nat, S # {}, NEW b \in Nat, \A s \in S : s <= b
    PROVE  Max(S) \in S /\ \A s \in S : s <= Max(S)
<1> DEFINE U == 0 .. b
           above(x) == {y \in U : y > x}
           T == {above(x) : x \in S}
<1>1. IsFiniteSet(U)
  BY FS_Interval
<1>2. T \subseteq SUBSET U /\ T # {}
  OBVIOUS
<1>3. PICK A \in T : \A B \in T : B \subseteq A => B = A
  <2> HIDE DEF T, U, above
  <2> QED
    BY <1>1, <1>2, SmallestSet
<1>4. PICK m \in S : A = above(m)
  OBVIOUS
<1>5. ASSUME NEW s \in S
      PROVE  m >= s
  <2> SUFFICES ASSUME s > m
               PROVE  FALSE
    OBVIOUS
  <2>1. above(s) \subseteq above(m)
    OBVIOUS
  <2>2. above(s) = above(m)
    <3>1. above(s) \in T
      OBVIOUS
    <3> HIDE DEF above, T
    <3> QED
      BY <1>3, <1>4, <2>1, <3>1
  <2>3. s \in above(m) /\ s \notin above(s)
    OBVIOUS
  <2> QED
    BY <2>2, <2>3
<1> HIDE DEF T
<1>6. Max(S) \in S /\ \A s \in S : Max(S) >= s
  BY <1>5 DEF Max
<1>7. \A x, y \in Nat : x >= y => y <= x
  OBVIOUS
<1> QED
  BY <1>6, <1>7

(* What it takes to be it. *)
LEMMA GreatestIs ==
    ASSUME NEW S \in SUBSET Nat, NEW m \in S, \A s \in S : s <= m
    PROVE  Max(S) = m
<1>1. Max(S) \in S /\ \A s \in S : s <= Max(S)
  BY GreatestElement
<1>2. Max(S) \in Nat /\ m <= Max(S) /\ Max(S) <= m /\ m \in Nat
  BY <1>1
<1> QED
  BY <1>2

(* Of the elements of a finite set that nothing in the set surpasses, one is *)
(* any given element or surpasses it; R says which surpasses which.          *)
LEMMA FiniteHasGreatest ==
    ASSUME NEW U, IsFiniteSet(U), NEW R \in SUBSET (U \X U), NEW r \in U,
           \A x \in U : <<x, x>> \notin R,
           \A x, y, z \in U : <<x, y>> \in R /\ <<y, z>> \in R => <<x, z>> \in R
    PROVE  \E x \in U : (x = r \/ <<x, r>> \in R) /\ \A y \in U : <<y, x>> \notin R
<1> DEFINE above(x) == {y \in U : <<y, x>> \in R}
           V == {x \in U : x = r \/ <<x, r>> \in R}
           T == {above(x) : x \in V}
<1>1. T \subseteq SUBSET U /\ T # {}
  <2>1. \A x \in U : above(x) \subseteq U
    OBVIOUS
  <2>2. above(r) \in T
    OBVIOUS
  <2> HIDE DEF above
  <2>3. ASSUME NEW A \in T PROVE A \in SUBSET U
    <3>1. PICK x \in V : A = above(x)
      OBVIOUS
    <3> QED
      BY <2>1, <3>1
  <2> HIDE DEF T
  <2> QED
    BY <2>2, <2>3
<1>2. PICK A \in T : \A B \in T : B \subseteq A => B = A
  <2> HIDE DEF T
  <2> QED
    BY <1>1, SmallestSet
<1>3. PICK x \in V : A = above(x)
  OBVIOUS
<1>4. ASSUME NEW y \in U, <<y, x>> \in R PROVE FALSE
  <2>1. y \in V
    BY <1>4
  <2>2. above(y) \subseteq above(x)
    BY <1>4
  <2>3. above(y) \in T
    BY <2>1
  <2>4. y \in above(x) /\ y \notin above(y)
    BY <1>4
  <2> HIDE DEF above, T, V
  <2>5. above(y) = above(x)
    BY <1>2, <1>3, <2>2, <2>3
  <2> QED
    BY <2>4, <2>5
<1> QED
  BY <1>4

=============================================================================

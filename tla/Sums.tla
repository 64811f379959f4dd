-------------------------------- MODULE Sums --------------------------------
(***************************************************************************)
(* Sums over a finite set of a function's values, as the community module  *)
(* Functions defines them: by a recursive function that takes the elements *)
(* in the order CHOOSE yields.  The lemmas show that this recursion has a  *)
(* solution, and that the order does not matter.                           *)
(***************************************************************************)
EXTENDS Functions, FiniteSetTheorems, NaturalsInduction, TLAPS

Chosen(s) == CHOOSE x \in s : TRUE

\* One turn of the recursion, for a candidate g that maps subsets of S to sums.
Turn(f, S, g) == [s \in SUBSET S |-> IF s = {} THEN 0 ELSE f[Chosen(s)] + g[s \ {Chosen(s)}]]

Table(f, S) == CHOOSE g : g = Turn(f, S, g)

LEMMA SumFromTable ==
  ASSUME NEW f, NEW S
  PROVE  SumFunctionOnSet(f, S) = Table(f, S)[S]
BY DEF SumFunctionOnSet, FoldFunctionOnSet, MapThenFoldSet, Table, Turn, Chosen

\* Induction on finite sets, without a predicate as a parameter: what some subsets of S are has a
\* subset of S that is it while no proper part of that subset is.
LEMMA SmallestSubset ==
  ASSUME NEW S, IsFiniteSet(S), NEW C, C \subseteq SUBSET S, C # {}
  PROVE  \E T \in C : IsFiniteSet(T) /\ \A U \in C : U \subseteq T => U = T
<1> DEFINE R == StrictSubsetOrdering(S)
<1>1. IsWellFoundedOn(R, FiniteSubsetsOf(S)) /\ FiniteSubsetsOf(S) = SUBSET S
  BY FS_StrictSubsetOrderingWellFounded, FS_FiniteSubsetsOfFinite
<1> HIDE DEF R
<1>2. PICK T \in C : \A U \in C : ~(<<U, T>> \in R)
  BY <1>1, WFMin
<1>3. ASSUME NEW U \in C, U \subseteq T
      PROVE  U = T
  <2>1. <<U, T>> \in (SUBSET S) \X (SUBSET S)
    OBVIOUS
  <2> QED BY <1>2, <1>3, <2>1 DEF R, StrictSubsetOrdering
<1>4. IsFiniteSet(T)
  BY FS_Subset
<1> QED BY <1>3, <1>4

\* A set of natural numbers that is not empty has a least element.
LEMMA Least ==
  ASSUME NEW T, T \subseteq Nat, T # {}
  PROVE  \E x \in T : \A y \in T : x <= y
<1> DEFINE R == OpToRel(<, Nat)
<1>1. IsWellFoundedOn(R, Nat)
  BY NatLessThanWellFounded
<1> HIDE DEF R
<1>2. \E x \in T : \A y \in T : ~(<<y, x>> \in R)
  BY <1>1, WFMin
<1> USE DEF R
<1>3. \A x, y \in Nat : <<y, x>> \in R <=> y < x
  BY DEF OpToRel
<1> HIDE DEF R
<1>4. \A x, y \in Nat : ~(y < x) => x <= y
  OBVIOUS
<1> QED BY <1>2, <1>3, <1>4

\* A finite set of integers that is not empty has a greatest element.
LEMMA Greatest ==
  ASSUME NEW S, S \subseteq Int, IsFiniteSet(S), S # {}
  PROVE  \E x \in S : \A y \in S : y <= x
<1> DEFINE C == {T \in SUBSET S : T # {} /\ \A x \in T : \E y \in T : ~(y <= x)}
<1> SUFFICES ASSUME C # {} PROVE FALSE
  OBVIOUS
<1>1. C \subseteq SUBSET S
  OBVIOUS
<1> HIDE DEF C
<1>2. PICK T \in C : IsFiniteSet(T) /\ \A U \in C : U \subseteq T => U = T
  BY ONLY IsFiniteSet(S), C # {}, <1>1, SmallestSubset
<1> USE DEF C
<1>3. PICK t \in T : TRUE
  OBVIOUS
<1>4. T \ {t} \notin C
  BY <1>2, <1>3
<1>5. CASE T \ {t} = {}
  BY <1>3, <1>5
<1>6. CASE T \ {t} # {}
  <2>1. PICK x \in T \ {t} : \A y \in T \ {t} : y <= x
    BY <1>4, <1>6
  <2>2. x \in Int /\ t \in Int /\ T \subseteq Int
    BY <1>3, <2>1
  <2>3. CASE t <= x
    <3>1. \A y \in T : y <= x
      BY <2>1, <2>3
    <3> QED
      BY <2>1, <3>1
  <2>4. CASE ~(t <= x)
    <3>1. \A y \in T : y <= t
      BY <2>1, <2>2, <2>4
    <3> QED
      BY <1>3, <3>1
  <2> QED
    BY <2>3, <2>4
<1> QED
  BY <1>5, <1>6
-----------------------------------------------------------------------------
(* The recursion has exactly one solution.                                 *)

LEMMA ChosenElement ==
  ASSUME NEW s, s # {}
  PROVE  Chosen(s) \in s
BY DEF Chosen

LEMMA TurnEquation ==
  ASSUME NEW f, NEW S, NEW g, g = Turn(f, S, g)
  PROVE  /\ g[{}] = 0
         /\ \A s \in SUBSET S : s # {} => g[s] = f[Chosen(s)] + g[s \ {Chosen(s)}]
BY DEF Turn

LEMMA TableUnique ==
  ASSUME NEW f, NEW S, IsFiniteSet(S), NEW T \in SUBSET S,
         NEW g, g = Turn(f, S, g), NEW h, h = Turn(f, T, h)
  PROVE  g[T] = h[T]
<1> DEFINE C == {s \in SUBSET T : g[s] # h[s]}
<1> SUFFICES ASSUME C # {} PROVE FALSE
  OBVIOUS
<1>1. IsFiniteSet(T)
  BY FS_Subset
<1> HIDE DEF C
<1>2. PICK s \in C : \A U \in C : U \subseteq s => U = s
  <2>1. C \subseteq SUBSET T
    BY DEF C
  <2> QED BY <1>1, <2>1, SmallestSubset
<1>3. s \in SUBSET T /\ s \in SUBSET S /\ g[s] # h[s]
  BY <1>2 DEF C
<1>4. s # {}
  <2>1. g[{}] = 0 /\ h[{}] = 0
    BY TurnEquation
  <2> QED BY <1>3, <2>1
<1> DEFINE x == Chosen(s)
<1>5. x \in s
  BY <1>4, ChosenElement
<1>6. g[s] = f[x] + g[s \ {x}] /\ h[s] = f[x] + h[s \ {x}]
  <2>1. g[s] = f[x] + g[s \ {x}]
    BY <1>3, <1>4, TurnEquation
  <2>2. h[s] = f[x] + h[s \ {x}]
    BY <1>3, <1>4, TurnEquation
  <2> QED BY <2>1, <2>2
<1> HIDE DEF x
<1>7. s \ {x} \in SUBSET T /\ s \ {x} \subseteq s /\ s \ {x} # s
  BY <1>3, <1>5
<1>8. g[s \ {x}] = h[s \ {x}]
  <2>1. s \ {x} \notin C
    BY <1>2, <1>7
  <2> QED BY <1>7, <2>1 DEF C
<1> QED BY <1>3, <1>6, <1>8

LEMMA TableExists ==
  ASSUME NEW f, NEW S, IsFiniteSet(S)
  PROVE  Table(f, S) = Turn(f, S, Table(f, S))
<1> DEFINE Solved(T) == Table(f, T) = Turn(f, T, Table(f, T))
           C == {T \in SUBSET S : ~Solved(T)}
<1> SUFFICES ASSUME C # {} PROVE FALSE
  <2>1. S \in SUBSET S
    OBVIOUS
  <2> QED BY <2>1
<1> HIDE DEF C
<1>1. PICK T \in C : IsFiniteSet(T) /\ \A U \in C : U \subseteq T => U = T
  <2>1. C \subseteq SUBSET S
    BY DEF C
  <2> QED BY <2>1, SmallestSubset
<1>2. T \in SUBSET S /\ ~Solved(T)
  BY <1>1 DEF C
<1>3. \A U \in SUBSET T : U # T => Solved(U) /\ IsFiniteSet(U)
  <2>1. \A U \in SUBSET T : U # T => U \notin C
    BY <1>1
  <2> QED BY <1>1, <1>2, <2>1, FS_Subset DEF C
<1> HIDE DEF Solved
<1> DEFINE value(s) == IF s = {} THEN 0 ELSE f[Chosen(s)] + Table(f, s \ {Chosen(s)})[s \ {Chosen(s)}]
           g == [s \in SUBSET T |-> value(s)]
<1>4. ASSUME NEW U \in SUBSET T, U # T
      PROVE  g[U] = Table(f, U)[U]
  <2>1. Table(f, U) = Turn(f, U, Table(f, U)) /\ IsFiniteSet(U)
    BY <1>3, <1>4 DEF Solved
  <2>2. g[U] = value(U)
    OBVIOUS
  <2>3. CASE U = {}
    <3>1. Table(f, U)[U] = 0
      BY <2>1, <2>3, TurnEquation
    <3> QED BY <2>2, <2>3, <3>1
  <2>4. CASE U # {}
    <3>1. Chosen(U) \in U
      BY <2>4, ChosenElement
    <3>2. Table(f, U)[U] = f[Chosen(U)] + Table(f, U)[U \ {Chosen(U)}]
      <4>1. U \in SUBSET U
        OBVIOUS
      <4> QED BY <2>1, <2>4, <4>1, TurnEquation
    <3>3. value(U) = f[Chosen(U)] + Table(f, U \ {Chosen(U)})[U \ {Chosen(U)}]
      BY <2>4
    <3> HIDE DEF value
    <3> DEFINE V == U \ {Chosen(U)}
    <3>4. V \in SUBSET U /\ V \in SUBSET T /\ V # T
      BY <1>4, <3>1
    <3>5. Table(f, V) = Turn(f, V, Table(f, V))
      BY <1>3, <3>4 DEF Solved
    <3>6. Table(f, U)[V] = Table(f, V)[V]
      <4> HIDE DEF V
      <4> QED BY <2>1, <3>4, <3>5, TableUnique
    <3> QED BY <2>2, <3>2, <3>3, <3>6
  <2> QED BY <2>3, <2>4
<1>5. g = Turn(f, T, g)
  <2>1. ASSUME NEW s \in SUBSET T, s # {}
        PROVE  g[s] = f[Chosen(s)] + g[s \ {Chosen(s)}]
    <3>1. Chosen(s) \in s
      BY <2>1, ChosenElement
    <3>2. g[s] = f[Chosen(s)] + Table(f, s \ {Chosen(s)})[s \ {Chosen(s)}]
      BY <2>1
    <3> HIDE DEF g
    <3>3. s \ {Chosen(s)} \in SUBSET T /\ s \ {Chosen(s)} # T
      BY <3>1
    <3> QED BY <1>4, <3>2, <3>3
  <2>2. g[{}] = 0
    BY Zenon
  <2>3. g = [s \in SUBSET T |-> g[s]]
    OBVIOUS
  <2> HIDE DEF g
  <2>4. \A s \in SUBSET T : g[s] = IF s = {} THEN 0 ELSE f[Chosen(s)] + g[s \ {Chosen(s)}]
    BY <2>1, <2>2
  <2>5. Turn(f, T, g) = [s \in SUBSET T |-> IF s = {} THEN 0 ELSE f[Chosen(s)] + g[s \ {Chosen(s)}]]
    BY DEF Turn
  <2> QED BY <2>3, <2>4, <2>5
<1>6. Solved(T)
  <2> HIDE DEF g
  <2> QED BY <1>5 DEF Solved, Table
<1> QED BY <1>2, <1>6

-----------------------------------------------------------------------------
(* The sum, one element at a time.                                         *)

LEMMA SumEmpty ==
  ASSUME NEW f
  PROVE  SumFunctionOnSet(f, {}) = 0
<1>1. IsFiniteSet({})
  BY FS_EmptySet
<1>2. Table(f, {}) = Turn(f, {}, Table(f, {}))
  BY <1>1, TableExists
<1> QED BY <1>2, SumFromTable, TurnEquation

LEMMA SumChosen ==
  ASSUME NEW f, NEW S, IsFiniteSet(S), S # {}
  PROVE  SumFunctionOnSet(f, S) = f[Chosen(S)] + SumFunctionOnSet(f, S \ {Chosen(S)})
<1> DEFINE T == S \ {Chosen(S)}
<1>1. IsFiniteSet(T) /\ T \in SUBSET S /\ S \in SUBSET S
  BY FS_Subset
<1>2. Table(f, S) = Turn(f, S, Table(f, S))
  BY TableExists
<1>3. Table(f, S)[S] = f[Chosen(S)] + Table(f, S)[T]
  BY <1>1, <1>2, TurnEquation
<1> HIDE DEF T
<1>4. Table(f, T) = Turn(f, T, Table(f, T))
  BY <1>1, TableExists
<1>5. Table(f, S)[T] = Table(f, T)[T]
  BY <1>1, <1>2, <1>4, TableUnique
<1> QED BY <1>3, <1>5, SumFromTable DEF T

LEMMA SumType ==
  ASSUME NEW D \in {Nat, Int}, NEW f, NEW S, IsFiniteSet(S), \A x \in S : f[x] \in D
  PROVE  SumFunctionOnSet(f, S) \in D
<1> DEFINE C == {T \in SUBSET S : SumFunctionOnSet(f, T) \notin D}
<1> SUFFICES ASSUME C # {} PROVE FALSE
  OBVIOUS
<1>1. C \subseteq SUBSET S
  OBVIOUS
<1> HIDE DEF C
<1>2. PICK T \in C : IsFiniteSet(T) /\ \A U \in C : U \subseteq T => U = T
  BY <1>1, SmallestSubset
<1>3. T \subseteq S /\ SumFunctionOnSet(f, T) \notin D
  BY <1>2 DEF C
<1>4. T # {}
  BY <1>3, SumEmpty
<1> DEFINE U == T \ {Chosen(T)}
<1>5. Chosen(T) \in T /\ U \subseteq T /\ U # T
  BY <1>4, ChosenElement
<1>6. SumFunctionOnSet(f, U) \in D
  BY <1>2, <1>3, <1>5 DEF C
<1>7. SumFunctionOnSet(f, T) = f[Chosen(T)] + SumFunctionOnSet(f, U)
  BY <1>2, <1>4, SumChosen
<1>8. f[Chosen(T)] \in D
  BY <1>3, <1>5
<1> HIDE DEF U
<1>9. \A m, n \in D : m + n \in D
  OBVIOUS
<1> QED BY <1>3, <1>6, <1>7, <1>8, <1>9

\* The order does not matter: any element may be taken out first.
LEMMA SumRemove ==
  ASSUME NEW f, NEW S, IsFiniteSet(S), \A y \in S : f[y] \in Int, NEW x \in S
  PROVE  SumFunctionOnSet(f, S) = f[x] + SumFunctionOnSet(f, S \ {x})
<1> DEFINE Splits(T) == \A y \in T : SumFunctionOnSet(f, T) = f[y] + SumFunctionOnSet(f, T \ {y})
           C == {T \in SUBSET S : ~Splits(T)}
<1> SUFFICES ASSUME C # {} PROVE FALSE
  <2>1. S \in SUBSET S
    OBVIOUS
  <2> QED BY <2>1
<1>1. C \subseteq SUBSET S
  OBVIOUS
<1> HIDE DEF C
<1>2. PICK T \in C : IsFiniteSet(T) /\ \A U \in C : U \subseteq T => U = T
  BY <1>1, SmallestSubset
<1>3. PICK y \in T : SumFunctionOnSet(f, T) # f[y] + SumFunctionOnSet(f, T \ {y})
  BY <1>2 DEF C
<1>4. T \subseteq S
  BY <1>2 DEF C
<1> DEFINE c == Chosen(T)
<1>5. c \in T
  BY <1>3, ChosenElement
<1>6. SumFunctionOnSet(f, T) = f[c] + SumFunctionOnSet(f, T \ {c})
  BY <1>2, <1>3, SumChosen
<1> HIDE DEF c
<1>7. c # y
  BY <1>3, <1>6
<1>8. \A z \in T : Splits(T \ {z})
  BY <1>2, <1>4 DEF C
<1> DEFINE R == (T \ {c}) \ {y}
<1>9. R = (T \ {y}) \ {c} /\ R \subseteq S
  BY <1>4
<1>10. SumFunctionOnSet(f, T \ {c}) = f[y] + SumFunctionOnSet(f, R)
  BY <1>5, <1>7, <1>8
<1>11. SumFunctionOnSet(f, T \ {y}) = f[c] + SumFunctionOnSet(f, R)
  BY <1>5, <1>7, <1>8, <1>9
<1> HIDE DEF R
<1>12. SumFunctionOnSet(f, R) \in Int
  BY <1>9, FS_Subset, SumType
<1>13. f[c] \in Int /\ f[y] \in Int
  BY <1>4, <1>5
<1> QED BY <1>3, <1>6, <1>10, <1>11, <1>12, <1>13

\* An element put in.
LEMMA SumAdd ==
  ASSUME NEW f, NEW S, IsFiniteSet(S), NEW x, x \notin S, \A y \in S \cup {x} : f[y] \in Int
  PROVE  SumFunctionOnSet(f, S \cup {x}) = f[x] + SumFunctionOnSet(f, S)
<1>1. IsFiniteSet(S \cup {x})
  BY FS_AddElement
<1>2. (S \cup {x}) \ {x} = S
  OBVIOUS
<1> QED BY <1>1, <1>2, SumRemove

-----------------------------------------------------------------------------
(* Sums of functions that are related element by element.                  *)

\* What relates sums is shown of every subset at once: a smallest subset for which it fails has an
\* element x, and it holds of the subset without x.
LEMMA SumSame ==
  ASSUME NEW f, NEW g, NEW S, IsFiniteSet(S), \A x \in S : f[x] = g[x]
  PROVE  SumFunctionOnSet(f, S) = SumFunctionOnSet(g, S)
<1> DEFINE C == {T \in SUBSET S : SumFunctionOnSet(f, T) # SumFunctionOnSet(g, T)}
<1> SUFFICES ASSUME C # {} PROVE FALSE
  OBVIOUS
<1>1. C \subseteq SUBSET S
  OBVIOUS
<1> HIDE DEF C
<1>2. PICK T \in C : IsFiniteSet(T) /\ \A U \in C : U \subseteq T => U = T
  BY <1>1, SmallestSubset
<1>3. T \subseteq S /\ SumFunctionOnSet(f, T) # SumFunctionOnSet(g, T)
  BY <1>2 DEF C
<1>4. T # {}
  BY <1>3, SumEmpty
<1> DEFINE U == T \ {Chosen(T)}
<1>5. Chosen(T) \in T /\ U \subseteq T /\ U # T
  BY <1>4, ChosenElement
<1>6. SumFunctionOnSet(f, U) = SumFunctionOnSet(g, U)
  BY <1>2, <1>3, <1>5 DEF C
<1>7. /\ SumFunctionOnSet(f, T) = f[Chosen(T)] + SumFunctionOnSet(f, U)
      /\ SumFunctionOnSet(g, T) = g[Chosen(T)] + SumFunctionOnSet(g, U)
  BY <1>2, <1>4, SumChosen
<1> HIDE DEF U
<1> QED BY <1>3, <1>5, <1>6, <1>7

LEMMA SumPlus ==
  ASSUME NEW f, NEW g, NEW h, NEW S, IsFiniteSet(S),
         \A x \in S : f[x] \in Int /\ g[x] \in Int /\ h[x] = f[x] + g[x]
  PROVE  SumFunctionOnSet(h, S) = SumFunctionOnSet(f, S) + SumFunctionOnSet(g, S)
<1> DEFINE C == {T \in SUBSET S :
                   SumFunctionOnSet(h, T) # SumFunctionOnSet(f, T) + SumFunctionOnSet(g, T)}
<1> SUFFICES ASSUME C # {} PROVE FALSE
  OBVIOUS
<1>1. C \subseteq SUBSET S
  OBVIOUS
<1> HIDE DEF C
<1>2. PICK T \in C : IsFiniteSet(T) /\ \A U \in C : U \subseteq T => U = T
  BY <1>1, SmallestSubset
<1>3. T \subseteq S /\ SumFunctionOnSet(h, T) # SumFunctionOnSet(f, T) + SumFunctionOnSet(g, T)
  BY <1>2 DEF C
<1>4. T # {}
  BY <1>3, SumEmpty
<1> DEFINE c == Chosen(T)
           U == T \ {c}
<1>5. c \in T /\ U \subseteq T /\ U # T
  BY <1>4, ChosenElement
<1>6. SumFunctionOnSet(h, U) = SumFunctionOnSet(f, U) + SumFunctionOnSet(g, U)
  BY <1>2, <1>3, <1>5 DEF C
<1>7. /\ SumFunctionOnSet(f, T) = f[c] + SumFunctionOnSet(f, U)
      /\ SumFunctionOnSet(g, T) = g[c] + SumFunctionOnSet(g, U)
      /\ SumFunctionOnSet(h, T) = h[c] + SumFunctionOnSet(h, U)
  BY <1>2, <1>4, SumChosen
<1>8. IsFiniteSet(U)
  BY <1>2, <1>5, FS_Subset
<1> HIDE DEF c, U
<1>9. SumFunctionOnSet(f, U) \in Int /\ SumFunctionOnSet(g, U) \in Int
  <2>1. \A x \in U : f[x] \in Int /\ g[x] \in Int
    BY <1>3, <1>5
  <2> QED BY <1>8, <2>1, SumType
<1>10. f[c] \in Int /\ g[c] \in Int /\ h[c] = f[c] + g[c]
  BY <1>3, <1>5
<1> QED BY <1>3, <1>6, <1>7, <1>9, <1>10

LEMMA SumAtMost ==
  ASSUME NEW f, NEW g, NEW S, IsFiniteSet(S),
         \A x \in S : f[x] \in Int /\ g[x] \in Int /\ f[x] <= g[x]
  PROVE  SumFunctionOnSet(f, S) <= SumFunctionOnSet(g, S)
<1> DEFINE d == [x \in S |-> g[x] - f[x]]
<1>1. SumFunctionOnSet(g, S) = SumFunctionOnSet(f, S) + SumFunctionOnSet(d, S)
  <2>1. \A x \in S : f[x] \in Int /\ d[x] \in Int /\ g[x] = f[x] + d[x]
    OBVIOUS
  <2> HIDE DEF d
  <2> QED BY <2>1, SumPlus
<1>2. SumFunctionOnSet(d, S) \in Nat
  <2>1. \A x \in S : d[x] \in Nat
    OBVIOUS
  <2> HIDE DEF d
  <2> QED BY <2>1, SumType
<1>3. SumFunctionOnSet(f, S) \in Int
  BY SumType
<1> HIDE DEF d
<1> QED BY <1>1, <1>2, <1>3

LEMMA SumSplit ==
  ASSUME NEW f, NEW S, IsFiniteSet(S), \A x \in S : f[x] \in Int, NEW T \in SUBSET S
  PROVE  SumFunctionOnSet(f, S) = SumFunctionOnSet(f, T) + SumFunctionOnSet(f, S \ T)
<1> DEFINE C == {U \in SUBSET S :
                   SumFunctionOnSet(f, S) # SumFunctionOnSet(f, U) + SumFunctionOnSet(f, S \ U)}
<1> SUFFICES ASSUME C # {} PROVE FALSE
  OBVIOUS
<1>1. C \subseteq SUBSET S
  OBVIOUS
<1> HIDE DEF C
<1>2. PICK U \in C : IsFiniteSet(U) /\ \A V \in C : V \subseteq U => V = U
  BY <1>1, SmallestSubset
<1>3. U \subseteq S /\ SumFunctionOnSet(f, S) # SumFunctionOnSet(f, U) + SumFunctionOnSet(f, S \ U)
  BY <1>2 DEF C
<1>4. SumFunctionOnSet(f, S) \in Int
  BY SumType
<1>5. U # {}
  <2> SUFFICES ASSUME U = {} PROVE FALSE
    OBVIOUS
  <2>1. SumFunctionOnSet(f, U) = 0 /\ S \ U = S
    BY SumEmpty
  <2>2. \A n \in Int : n = 0 + n
    OBVIOUS
  <2> QED BY <1>3, <1>4, <2>1, <2>2
<1>6. PICK x \in U : TRUE
  BY <1>5
<1> DEFINE V == U \ {x}
<1>7. V \subseteq U /\ V # U /\ V \subseteq S /\ x \in S \ V
  BY <1>3, <1>6
<1>8. SumFunctionOnSet(f, S) = SumFunctionOnSet(f, V) + SumFunctionOnSet(f, S \ V)
  BY <1>2, <1>7 DEF C
<1>9. SumFunctionOnSet(f, U) = f[x] + SumFunctionOnSet(f, V)
  BY <1>2, <1>3, <1>6, SumRemove
<1>10. SumFunctionOnSet(f, S \ V) = f[x] + SumFunctionOnSet(f, S \ U)
  <2>1. IsFiniteSet(S \ V) /\ (S \ V) \ {x} = S \ U
    BY <1>3, <1>7, FS_Subset
  <2> QED BY <1>7, <2>1, SumRemove
<1>11. f[x] \in Int /\ SumFunctionOnSet(f, V) \in Int /\ SumFunctionOnSet(f, S \ U) \in Int
  BY <1>3, <1>7, FS_Subset, SumType
<1> HIDE DEF V
<1> QED BY <1>3, <1>8, <1>9, <1>10, <1>11

\* No part of a sum of natural numbers is larger than the whole.
LEMMA SumOfPart ==
  ASSUME NEW f, NEW S, IsFiniteSet(S), \A x \in S : f[x] \in Nat, NEW T \in SUBSET S
  PROVE  SumFunctionOnSet(f, T) <= SumFunctionOnSet(f, S)
<1>1. SumFunctionOnSet(f, T) \in Nat /\ SumFunctionOnSet(f, S \ T) \in Nat
  BY FS_Subset, SumType
<1>2. SumFunctionOnSet(f, S) = SumFunctionOnSet(f, T) + SumFunctionOnSet(f, S \ T)
  BY SumSplit
<1> QED BY <1>1, <1>2

LEMMA SumOfElement ==
  ASSUME NEW f, NEW S, IsFiniteSet(S), \A x \in S : f[x] \in Nat, NEW x \in S
  PROVE  f[x] <= SumFunctionOnSet(f, S)
<1>1. SumFunctionOnSet(f, S) = f[x] + SumFunctionOnSet(f, S \ {x})
  BY SumRemove
<1>2. SumFunctionOnSet(f, S \ {x}) \in Nat
  BY FS_Subset, SumType
<1> QED BY <1>1, <1>2

LEMMA SumOfZeros ==
  ASSUME NEW f, NEW S, IsFiniteSet(S), \A x \in S : f[x] = 0
  PROVE  SumFunctionOnSet(f, S) = 0
<1>1. SumFunctionOnSet(f, S) = SumFunctionOnSet(f, S) + SumFunctionOnSet(f, S)
  BY SumPlus
<1>2. SumFunctionOnSet(f, S) \in Nat
  BY SumType
<1>3. \A n \in Nat : n = n + n => n = 0
  OBVIOUS
<1> QED BY <1>1, <1>2, <1>3
Column(f, S, y) == [x \in S |-> f[x][y]]

\* The sums of a table's rows and the sums of its columns have the same sum.
LEMMA SumSwap ==
  ASSUME NEW S, IsFiniteSet(S), NEW T, IsFiniteSet(T), NEW f,
         \A x \in S, y \in T : f[x][y] \in Int,
         NEW rows, \A x \in S : rows[x] = SumFunctionOnSet(f[x], T),
         NEW cols, \A y \in T : cols[y] = SumFunctionOnSet(Column(f, S, y), S)
  PROVE  SumFunctionOnSet(rows, S) = SumFunctionOnSet(cols, T)
<1> DEFINE Cols(U) == [y \in T |-> SumFunctionOnSet(Column(f, S, y), U)]
           C == {U \in SUBSET S : SumFunctionOnSet(rows, U) # SumFunctionOnSet(Cols(U), T)}
<1>1. S \notin C
  <2> SUFFICES ASSUME C # {} PROVE FALSE
    OBVIOUS
  <2>1. C \subseteq SUBSET S
    OBVIOUS
  <2> HIDE DEF C
  <2>2. PICK U \in C : IsFiniteSet(U) /\ \A V \in C : V \subseteq U => V = U
    BY ONLY IsFiniteSet(S), C # {}, <2>1, SmallestSubset
  <2>3. U \subseteq S /\ SumFunctionOnSet(rows, U) # SumFunctionOnSet(Cols(U), T)
    BY <2>2 DEF C
  <2>4. U # {}
    <3>1. ASSUME U = {} PROVE FALSE
      <4>1. \A y \in T : Cols(U)[y] = 0
        BY <3>1, SumEmpty
      <4> HIDE DEF Cols
      <4>2. SumFunctionOnSet(Cols(U), T) = 0
        BY <4>1, SumOfZeros
      <4> QED BY <2>3, <3>1, <4>2, SumEmpty
    <3> QED BY <3>1
  <2>5. PICK u \in U : TRUE
    BY <2>4
  <2> DEFINE V == U \ {u}
  <2>6. V \subseteq U /\ V # U /\ V \subseteq S /\ u \in S /\ IsFiniteSet(V)
    BY <2>2, <2>3, <2>5, FS_Subset
  <2>7. SumFunctionOnSet(rows, V) = SumFunctionOnSet(Cols(V), T)
    BY <2>2, <2>6 DEF C
  <2>8. \A x \in S : rows[x] \in Int
    <3> SUFFICES ASSUME NEW x \in S PROVE rows[x] \in Int
      OBVIOUS
    <3>1. \A y \in T : f[x][y] \in Int
      OBVIOUS
    <3>2. SumFunctionOnSet(f[x], T) \in Int
      BY <3>1, SumType
    <3> QED BY <3>2
  <2>9. SumFunctionOnSet(rows, U) = rows[u] + SumFunctionOnSet(rows, V)
    <3>1. \A x \in U : rows[x] \in Int
      BY <2>3, <2>8
    <3> QED BY <2>2, <2>5, <3>1, SumRemove
  <2>10. ASSUME NEW y \in T
         PROVE  /\ f[u][y] \in Int /\ Cols(V)[y] \in Int
                /\ Cols(U)[y] = f[u][y] + Cols(V)[y]
    <3>1. \A x \in U : Column(f, S, y)[x] = f[x][y] /\ Column(f, S, y)[x] \in Int
      BY <2>3 DEF Column
    <3>2. Cols(U)[y] = SumFunctionOnSet(Column(f, S, y), U) /\ Cols(V)[y] = SumFunctionOnSet(Column(f, S, y), V)
      OBVIOUS
    <3> HIDE DEF Cols
    <3>3. SumFunctionOnSet(Column(f, S, y), U) = Column(f, S, y)[u] + SumFunctionOnSet(Column(f, S, y), V)
      BY <2>2, <2>5, <3>1, SumRemove
    <3>4. SumFunctionOnSet(Column(f, S, y), V) \in Int
      BY <2>6, <3>1, SumType
    <3> QED BY <2>5, <3>1, <3>2, <3>3, <3>4
  <2>11. SumFunctionOnSet(Cols(U), T) = SumFunctionOnSet(f[u], T) + SumFunctionOnSet(Cols(V), T)
    <3> HIDE DEF Cols, V
    <3> QED BY <2>10, SumPlus
  <2>12. rows[u] = SumFunctionOnSet(f[u], T)
    BY <2>6
  <2> QED BY <2>3, <2>7, <2>9, <2>11, <2>12
<1>2. SumFunctionOnSet(Cols(S), T) = SumFunctionOnSet(cols, T)
  <2>1. \A y \in T : Cols(S)[y] = cols[y]
    OBVIOUS
  <2> HIDE DEF Cols
  <2> QED BY <2>1, SumSame
<1> QED BY <1>1, <1>2
=============================================================================

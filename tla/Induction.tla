------------------------------ MODULE Induction -------------------------------
(***************************************************************************)
(* Induction over numbers and over finite sets, and what follows from it   *)
(* for maxima, sums, the ranks of a set's numbers and the concatenation of *)
(* sequences.  The induction principles speak of sets, not of predicates:  *)
(* the set of those n for which something holds.  They follow from the     *)
(* minimum of a set under a well-founded relation.                         *)
(***************************************************************************)
EXTENDS Integers, SequencesExt, FiniteSetsExt, Functions, FiniteSetTheorems,
        SequenceTheorems, WellFoundedInduction, TLAPS

LEMMA LeastNumber ==
  ASSUME NEW T, T \subseteq Nat, T # {}
  PROVE  \E m \in T : \A n \in T : m <= n
<1> DEFINE R == {ss \in Nat \X Nat : ss[1] < ss[2]}
<1>1. IsWellFoundedOn(R, Nat)
  BY NatLessThanWellFounded, Zenon DEF OpToRel
<1>2. PICK m \in T : \A n \in T : ~(<<n, m>> \in R)
  <2> HIDE DEF R
  <2> QED BY <1>1, WFMin
<1>3. ASSUME NEW n \in T PROVE m <= n
  <2>1. n \in Nat /\ m \in Nat /\ <<n, m>> \in Nat \X Nat
    OBVIOUS
  <2>2. <<n, m>>[1] = n /\ <<n, m>>[2] = m
    OBVIOUS
  <2>3. ~(n < m)
    BY <1>2, <2>1, <2>2, Zenon
  <2> QED BY <2>1, <2>3
<1> QED BY <1>3

LEMMA NumberInduction ==
  ASSUME NEW T, T \subseteq Nat, 0 \in T, \A n \in T : n + 1 \in T
  PROVE  T = Nat
<1> DEFINE U == Nat \ T
<1>1. SUFFICES ASSUME U # {} PROVE FALSE
  OBVIOUS
<1>2. PICK m \in U : \A n \in U : m <= n
  <2> HIDE DEF U
  <2>1. U \subseteq Nat
    BY DEF U
  <2> QED BY <1>1, <2>1, LeastNumber
<1>3. m # 0 /\ m - 1 \in Nat /\ m - 1 \notin U
  BY <1>2
<1>4. m - 1 \in T
  BY <1>3
<1> QED BY <1>2, <1>4

\* A set of finite sets has a minimal one.
LEMMA MinimalSet ==
  ASSUME NEW S, IsFiniteSet(S), NEW U, U \subseteq SUBSET S, U # {}
  PROVE  \E A \in U : \A B \in U : B \subseteq A => B = A
<1> DEFINE R == StrictSubsetOrdering(S)
<1>1. IsWellFoundedOn(R, SUBSET S)
  BY FS_StrictSubsetOrderingWellFounded, FS_FiniteSubsetsOfFinite
<1>2. PICK A \in U : \A B \in U : ~(<<B, A>> \in R)
  <2> HIDE DEF R
  <2> QED BY <1>1, WFMin
<1>3. ASSUME NEW B \in U, B \subseteq A PROVE B = A
  <2>1. <<B, A>> \in (SUBSET S) \X (SUBSET S) /\ <<B, A>>[1] = B /\ <<B, A>>[2] = A
    OBVIOUS
  <2> QED BY <1>2, <1>3, <2>1, Zenon DEF StrictSubsetOrdering
<1> QED BY <1>3

-----------------------------------------------------------------------------
(* Extrema.                                                                *)

LEMMA FiniteMax ==
  ASSUME NEW D, IsFiniteSet(D), D # {}
  PROVE  D \subseteq Int => Max(D) \in D /\ \A y \in D : Max(D) >= y
<1> DEFINE Bounded(A) == \E x \in A : \A y \in A : x >= y
           U == {A \in SUBSET D : A # {} /\ ~Bounded(A)}
<1>0. SUFFICES ASSUME D \subseteq Int PROVE Bounded(D)
  BY DEF Max
<1>1. U \subseteq SUBSET D
  OBVIOUS
<1>2. ASSUME U # {} PROVE \E A \in U : \A B \in U : B \subseteq A => B = A
  <2> HIDE DEF U
  <2> QED BY <1>1, <1>2, MinimalSet
<1>3. ASSUME NEW A \in U, \A B \in U : B \subseteq A => B = A PROVE FALSE
  <2>1. PICK x \in A : TRUE
    OBVIOUS
  <2>2. A \subseteq Int
    BY <1>0
  <2>3. CASE A \ {x} = {}
    <3>1. \A y \in A : x >= y
      BY <2>2, <2>3
    <3> QED BY <3>1
  <2>4. CASE A \ {x} # {}
    <3>1. A \ {x} \notin U
      BY <1>3
    <3>2. PICK m \in A \ {x} : \A y \in A \ {x} : m >= y
      BY <2>4, <3>1
    <3>3. CASE x >= m
      <4>1. \A y \in A : x >= y
        BY <2>2, <3>2, <3>3
      <4> QED BY <4>1
    <3>4. CASE ~(x >= m)
      <4>1. \A y \in A : m >= y
        BY <2>2, <3>2, <3>4
      <4> QED BY <3>2, <4>1
    <3> QED BY <3>3, <3>4
  <2> QED BY <2>3, <2>4
<1>4. U = {}
  BY <1>2, <1>3
<1> QED BY <1>4

LEMMA NaturalMin ==
  ASSUME NEW S, S \subseteq Nat, S # {}
  PROVE  Min(S) \in S /\ \A y \in S : Min(S) <= y
BY LeastNumber DEF Min
-----------------------------------------------------------------------------
(* Sums.  The sum is a fold that takes out one element after the other, as *)
(* CHOOSE picks them.                                                      *)

Pick(s) == CHOOSE x \in s : TRUE

\* The equation of the fold.
SumsUp(g, f, S) ==
  g = [s \in SUBSET S |-> IF s = {} THEN 0 ELSE f[Pick(s)] + g[s \ {Pick(s)}]]

LEMMA PickPicks == \A s : s # {} => Pick(s) \in s
BY DEF Pick

\* The equation has a solution, by induction on the size of sets.
LEMMA SumExists ==
  ASSUME NEW f, NEW S, IsFiniteSet(S)
  PROVE  \E g : SumsUp(g, f, S)
<1> DEFINE Upto(n) == {s \in SUBSET S : Cardinality(s) <= n}
           Solves(g, n) == g = [s \in Upto(n) |->
                                 IF s = {} THEN 0 ELSE f[Pick(s)] + g[s \ {Pick(s)}]]
           T == {n \in Nat : \E g : Solves(g, n)}
<1>1. \A s \in SUBSET S :
        /\ IsFiniteSet(s) /\ Cardinality(s) \in Nat
        /\ Cardinality(s) = 0 <=> s = {}
        /\ s # {} => Cardinality(s \ {Pick(s)}) = Cardinality(s) - 1
  BY FS_Subset, FS_EmptySet, FS_RemoveElement, FS_CardinalityType, PickPicks
<1>2. 0 \in T
  <2> DEFINE g == [s \in Upto(0) |-> 0]
  <2>1. ASSUME NEW s \in Upto(0) PROVE s = {}
    <3>1. s \in SUBSET S /\ Cardinality(s) <= 0
      OBVIOUS
    <3>2. Cardinality(s) \in Nat /\ (Cardinality(s) = 0 <=> s = {})
      BY <1>1, <3>1, Zenon
    <3> QED BY <3>1, <3>2
  <2>2. Solves(g, 0)
    BY <2>1
  <2> HIDE DEF g, Solves
  <2> QED BY <2>2
<1>3. ASSUME NEW n \in T PROVE n + 1 \in T
  <2>1. PICK g : Solves(g, n)
    OBVIOUS
  <2> DEFINE h == [s \in Upto(n + 1) |->
                     IF s = {} THEN 0 ELSE f[Pick(s)] + g[s \ {Pick(s)}]]
  <2>2. ASSUME NEW s \in Upto(n + 1), s # {} PROVE s \ {Pick(s)} \in Upto(n)
    <3>1. s \in SUBSET S /\ s \ {Pick(s)} \in SUBSET S /\ Cardinality(s) <= n + 1
      OBVIOUS
    <3>2. Cardinality(s \ {Pick(s)}) <= n
      <4> HIDE DEF Upto
      <4> QED BY <1>1, <2>2, <3>1
    <3> QED BY <3>1, <3>2
  <2>3. ASSUME NEW s \in Upto(n) PROVE s \in Upto(n + 1)
    <3>1. s \in SUBSET S /\ Cardinality(s) <= n
      OBVIOUS
    <3>2. Cardinality(s) \in Nat /\ n \in Nat
      BY <1>1, <3>1, Zenon
    <3>3. Cardinality(s) <= n + 1
      BY <3>1, <3>2
    <3> QED BY <3>1, <3>3
  <2>4. \A s \in Upto(n) : g[s] = IF s = {} THEN 0 ELSE f[Pick(s)] + g[s \ {Pick(s)}]
    BY <2>1
  <2>5. \A s \in Upto(n) : h[s] = g[s]
    <3> HIDE DEF Upto
    <3> QED BY <2>3, <2>4
  <2>6. \A s \in Upto(n + 1) :
          h[s] = IF s = {} THEN 0 ELSE f[Pick(s)] + h[s \ {Pick(s)}]
    <3> HIDE DEF Upto
    <3> QED BY <2>2, <2>5
  <2>7. Solves(h, n + 1)
    <3> HIDE DEF Upto
    <3>1. h = [s \in Upto(n + 1) |-> h[s]]
      OBVIOUS
    <3>2. [s \in Upto(n + 1) |-> h[s]]
            = [s \in Upto(n + 1) |->
                 IF s = {} THEN 0 ELSE f[Pick(s)] + h[s \ {Pick(s)}]]
      <4> HIDE DEF h
      <4> QED BY <2>6
    <3> QED BY <3>1, <3>2
  <2> HIDE DEF h, Solves
  <2> QED BY <2>7
<1>4. T = Nat
  <2>1. T \subseteq Nat
    OBVIOUS
  <2> HIDE DEF T
  <2> QED BY <1>2, <1>3, <2>1, NumberInduction
<1>5. PICK g : Solves(g, Cardinality(S))
  <2>1. Cardinality(S) \in T
    BY <1>4, FS_CardinalityType
  <2> QED BY <2>1
<1>6. Upto(Cardinality(S)) = SUBSET S
  BY FS_Subset
<1> QED BY <1>5, <1>6 DEF SumsUp

\* Two solutions agree wherever both are defined.
LEMMA SumIsUnique ==
  ASSUME NEW f, NEW S, NEW R, IsFiniteSet(R), R \subseteq S,
         NEW g, SumsUp(g, f, S), NEW h, SumsUp(h, f, R)
  PROVE  g[R] = h[R]
<1> DEFINE U == {A \in SUBSET R : g[A] # h[A]}
<1>1. ASSUME U # {} PROVE FALSE
  <2>1. U \subseteq SUBSET R
    OBVIOUS
  <2>2. PICK A \in U : \A B \in U : B \subseteq A => B = A
    <3> HIDE DEF U
    <3> QED BY <1>1, <2>1, MinimalSet
  <2>3. A \in SUBSET S /\ A \in SUBSET R
    OBVIOUS
  <2>4. /\ g[A] = IF A = {} THEN 0 ELSE f[Pick(A)] + g[A \ {Pick(A)}]
        /\ h[A] = IF A = {} THEN 0 ELSE f[Pick(A)] + h[A \ {Pick(A)}]
    BY <2>3 DEF SumsUp
  <2>5. A # {}
    BY <2>4
  <2>6. A \ {Pick(A)} \notin U
    BY <2>2, <2>5, PickPicks
  <2>7. g[A \ {Pick(A)}] = h[A \ {Pick(A)}]
    BY <2>3, <2>6
  <2> QED BY <2>4, <2>7
<1> QED BY <1>1

\* The sum over a set, by its first element.
LEMMA SumUnfolds ==
  ASSUME NEW f, NEW S, IsFiniteSet(S)
  PROVE  SumFunctionOnSet(f, S) =
           IF S = {} THEN 0
           ELSE f[Pick(S)] + SumFunctionOnSet(f, S \ {Pick(S)})
<1> DEFINE Sum(R) == CHOOSE g : SumsUp(g, f, R)
<1>1. \A R : SumFunctionOnSet(f, R) = Sum(R)[R]
  BY DEF SumFunctionOnSet, FoldFunctionOnSet, MapThenFoldSet, SumsUp, Pick
<1>2. \A R : R \subseteq S => IsFiniteSet(R) /\ SumsUp(Sum(R), f, R)
  BY SumExists, FS_Subset
<1> HIDE DEF Sum
<1>3. Sum(S)[S] = IF S = {} THEN 0 ELSE f[Pick(S)] + Sum(S)[S \ {Pick(S)}]
  BY <1>2 DEF SumsUp
<1>4. Sum(S)[S \ {Pick(S)}] = Sum(S \ {Pick(S)})[S \ {Pick(S)}]
  BY <1>2, SumIsUnique
<1> QED BY <1>1, <1>3, <1>4

LEMMA SumIsNatural ==
  ASSUME NEW f, NEW S, IsFiniteSet(S), \A x \in S : f[x] \in Nat
  PROVE  SumFunctionOnSet(f, S) \in Nat
<1> DEFINE U == {A \in SUBSET S : SumFunctionOnSet(f, A) \notin Nat}
<1>1. ASSUME U # {} PROVE FALSE
  <2>1. U \subseteq SUBSET S
    OBVIOUS
  <2>2. PICK A \in U : \A B \in U : B \subseteq A => B = A
    <3> HIDE DEF U
    <3> QED BY <1>1, <2>1, MinimalSet
  <2>3. A \subseteq S /\ IsFiniteSet(A)
    BY FS_Subset
  <2>4. SumFunctionOnSet(f, A) =
          IF A = {} THEN 0 ELSE f[Pick(A)] + SumFunctionOnSet(f, A \ {Pick(A)})
    BY <2>3, SumUnfolds
  <2>5. A # {} /\ Pick(A) \in A
    BY <2>4, PickPicks
  <2>6. A \ {Pick(A)} \notin U
    BY <2>2, <2>5
  <2>7. f[Pick(A)] \in Nat /\ SumFunctionOnSet(f, A \ {Pick(A)}) \in Nat
    BY <2>3, <2>5, <2>6
  <2> QED BY <2>4, <2>5, <2>7
<1> QED BY <1>1

\* ... by any of its elements.
LEMMA SumOfElement ==
  ASSUME NEW f, NEW S, IsFiniteSet(S), \A x \in S : f[x] \in Nat, NEW e \in S
  PROVE  SumFunctionOnSet(f, S) = f[e] + SumFunctionOnSet(f, S \ {e})
<1> DEFINE Splits(A, x) ==
             SumFunctionOnSet(f, A) = f[x] + SumFunctionOnSet(f, A \ {x})
           U == {A \in SUBSET S : \E x \in A : ~Splits(A, x)}
<1>1. ASSUME U # {} PROVE FALSE
  <2>1. U \subseteq SUBSET S
    OBVIOUS
  <2>2. PICK A \in U : \A B \in U : B \subseteq A => B = A
    <3> HIDE DEF U
    <3> QED BY <1>1, <2>1, MinimalSet
  <2>3. PICK x \in A : ~Splits(A, x)
    OBVIOUS
  <2>4. A \subseteq S /\ IsFiniteSet(A) /\ A # {} /\ Pick(A) \in A
    BY <2>3, FS_Subset, PickPicks
  <2>5. Splits(A, Pick(A))
    BY <2>4, SumUnfolds
  <2> DEFINE p == Pick(A)
             rest == (A \ {p}) \ {x}
  <2> HIDE DEF p
  <2>6. p \in A /\ p # x /\ Splits(A, p)
    BY <2>3, <2>4, <2>5 DEF p
  <2>7. A \ {p} \notin U /\ A \ {x} \notin U
    BY <2>2, <2>6
  <2>8. Splits(A \ {p}, x) /\ Splits(A \ {x}, p)
    BY <2>4, <2>6, <2>7
  <2>9. rest = (A \ {x}) \ {p} /\ rest \subseteq S
    BY <2>4
  <2>10. f[x] \in Nat /\ f[p] \in Nat
    BY <2>4, <2>6
  <2>11. SumFunctionOnSet(f, rest) \in Nat
    <3>1. IsFiniteSet(rest) /\ \A y \in rest : f[y] \in Nat
      BY <2>9, FS_Subset
    <3> QED BY <3>1, SumIsNatural
  <2>12. Splits(A, x)
    <3>1. SumFunctionOnSet(f, A) = f[p] + (f[x] + SumFunctionOnSet(f, rest))
      BY <2>6, <2>8
    <3>2. SumFunctionOnSet(f, A \ {x}) = f[p] + SumFunctionOnSet(f, rest)
      BY <2>8, <2>9
    <3> HIDE DEF rest
    <3> QED BY <3>1, <3>2, <2>10, <2>11
  <2> QED BY <2>3, <2>12
<1> QED BY <1>1

LEMMA SumMonotone ==
  ASSUME NEW f, NEW S, IsFiniteSet(S), \A x \in S : f[x] \in Nat,
         NEW R, R \subseteq S
  PROVE  SumFunctionOnSet(f, R) <= SumFunctionOnSet(f, S)
<1> DEFINE Sum(A) == SumFunctionOnSet(f, A)
           U == {B \in SUBSET S : \E A \in SUBSET B : ~(Sum(A) <= Sum(B))}
<1>0. ASSUME NEW A, A \subseteq S PROVE Sum(A) \in Nat
  <2>1. IsFiniteSet(A) /\ \A x \in A : f[x] \in Nat
    BY <1>0, FS_Subset
  <2> QED BY <2>1, SumIsNatural
<1>1. ASSUME U # {} PROVE FALSE
  <2>1. U \subseteq SUBSET S
    OBVIOUS
  <2>2. PICK B \in U : \A C \in U : C \subseteq B => C = B
    <3> HIDE DEF U
    <3> QED BY <1>1, <2>1, MinimalSet
  <2>3. PICK A \in SUBSET B : ~(Sum(A) <= Sum(B))
    OBVIOUS
  <2>4. B \subseteq S /\ A \subseteq S /\ IsFiniteSet(B)
    BY FS_Subset
  <2>5. Sum(A) \in Nat /\ Sum(B) \in Nat
    BY <1>0, <2>4
  <2>6. PICK x \in B : x \notin A
    <3> HIDE DEF Sum
    <3>1. A # B
      BY <2>3, <2>5
    <3> QED BY <3>1
  <2>7. B \ {x} \notin U
    BY <2>2, <2>6
  <2>8. Sum(A) <= Sum(B \ {x})
    BY <2>4, <2>6, <2>7
  <2>9. Sum(B) = f[x] + Sum(B \ {x}) /\ f[x] \in Nat /\ Sum(B \ {x}) \in Nat
    <3>1. \A y \in B : f[y] \in Nat
      BY <2>4
    <3>2. Sum(B \ {x}) \in Nat
      BY <1>0, <2>4
    <3> QED BY <2>4, <3>1, <3>2, SumOfElement
  <2> HIDE DEF Sum
  <2> QED BY <2>3, <2>5, <2>8, <2>9
<1> QED BY <1>1

\* The sum over a set depends on what the function is there.
LEMMA SumAgrees ==
  ASSUME NEW f, NEW g, NEW S, IsFiniteSet(S), \A x \in S : f[x] = g[x]
  PROVE  SumFunctionOnSet(f, S) = SumFunctionOnSet(g, S)
<1> DEFINE U == {A \in SUBSET S : SumFunctionOnSet(f, A) # SumFunctionOnSet(g, A)}
<1>1. ASSUME U # {} PROVE FALSE
  <2>1. U \subseteq SUBSET S
    OBVIOUS
  <2>2. PICK A \in U : \A B \in U : B \subseteq A => B = A
    <3> HIDE DEF U
    <3> QED BY <1>1, <2>1, MinimalSet
  <2>3. A \subseteq S /\ IsFiniteSet(A)
    BY FS_Subset
  <2>4. /\ SumFunctionOnSet(f, A) =
             IF A = {} THEN 0 ELSE f[Pick(A)] + SumFunctionOnSet(f, A \ {Pick(A)})
        /\ SumFunctionOnSet(g, A) =
             IF A = {} THEN 0 ELSE g[Pick(A)] + SumFunctionOnSet(g, A \ {Pick(A)})
    BY <2>3, SumUnfolds
  <2>5. A # {} /\ Pick(A) \in A
    BY <2>4, PickPicks
  <2>6. A \ {Pick(A)} \notin U
    BY <2>2, <2>5
  <2> QED BY <2>3, <2>4, <2>5, <2>6
<1> QED BY <1>1

\* The sum of a function with natural values, and of one that extends it.
LEMMA SumGrows ==
  ASSUME NEW f, NEW g, IsFiniteSet(DOMAIN g), DOMAIN f \subseteq DOMAIN g,
         \A x \in DOMAIN g : g[x] \in Nat, \A x \in DOMAIN f : f[x] = g[x]
  PROVE  /\ SumFunction(f) \in Nat /\ SumFunction(g) \in Nat
         /\ SumFunction(f) <= SumFunction(g)
<1>1. IsFiniteSet(DOMAIN f)
  BY FS_Subset
<1>2. SumFunctionOnSet(f, DOMAIN f) = SumFunctionOnSet(g, DOMAIN f)
  BY <1>1, SumAgrees
<1>3. SumFunctionOnSet(g, DOMAIN f) <= SumFunctionOnSet(g, DOMAIN g)
  BY SumMonotone
<1>4. SumFunctionOnSet(g, DOMAIN g) \in Nat
  BY SumIsNatural
<1>5. SumFunctionOnSet(g, DOMAIN f) \in Nat
  BY <1>1, SumIsNatural
<1> QED BY <1>2, <1>3, <1>4, <1>5 DEF SumFunction

\* The sum of a function of which one value is another's, plus the rest.
LEMMA SumWithout ==
  ASSUME NEW f, IsFiniteSet(DOMAIN f), \A x \in DOMAIN f : f[x] \in Nat,
         NEW e \in DOMAIN f, NEW g, DOMAIN g = DOMAIN f \ {e},
         \A x \in DOMAIN g : g[x] = f[x]
  PROVE  /\ SumFunction(f) \in Nat /\ SumFunction(g) \in Nat
         /\ SumFunction(f) = f[e] + SumFunction(g)
<1>1. IsFiniteSet(DOMAIN g)
  BY FS_Subset
<1>2. SumFunctionOnSet(f, DOMAIN f) = f[e] + SumFunctionOnSet(f, DOMAIN g)
  BY SumOfElement
<1>3. SumFunctionOnSet(f, DOMAIN g) = SumFunctionOnSet(g, DOMAIN g)
  BY <1>1, SumAgrees
<1>4. SumFunctionOnSet(f, DOMAIN f) \in Nat /\ SumFunctionOnSet(g, DOMAIN g) \in Nat
  BY <1>1, SumIsNatural
<1> QED BY <1>2, <1>3, <1>4 DEF SumFunction

\* The sums of two functions that differ in one value.
LEMMA SumChanges ==
  ASSUME NEW f, NEW g, IsFiniteSet(DOMAIN f), DOMAIN g = DOMAIN f,
         \A x \in DOMAIN f : f[x] \in Nat /\ g[x] \in Nat,
         NEW e \in DOMAIN f, \A x \in DOMAIN f \ {e} : f[x] = g[x]
  PROVE  /\ SumFunction(f) \in Nat /\ SumFunction(g) \in Nat
         /\ SumFunction(f) + g[e] = SumFunction(g) + f[e]
<1>1. PICK h : h = [x \in DOMAIN f \ {e} |-> f[x]]
  OBVIOUS
<1>2. DOMAIN h = DOMAIN f \ {e} /\ \A x \in DOMAIN h : h[x] = f[x] /\ h[x] = g[x]
  BY <1>1
<1>3. /\ SumFunction(f) \in Nat /\ SumFunction(h) \in Nat
      /\ SumFunction(f) = f[e] + SumFunction(h)
  BY <1>2, SumWithout
<1>4. SumFunction(g) \in Nat /\ SumFunction(g) = g[e] + SumFunction(h)
  BY <1>2, SumWithout
<1> QED BY <1>3, <1>4

LEMMA SumOfZeros ==
  ASSUME NEW f, IsFiniteSet(DOMAIN f), \A x \in DOMAIN f : f[x] = 0
  PROVE  SumFunction(f) = 0
<1> DEFINE U == {A \in SUBSET DOMAIN f : SumFunctionOnSet(f, A) # 0}
<1>1. ASSUME U # {} PROVE FALSE
  <2>1. U \subseteq SUBSET DOMAIN f
    OBVIOUS
  <2>2. PICK A \in U : \A B \in U : B \subseteq A => B = A
    <3> HIDE DEF U
    <3> QED BY <1>1, <2>1, MinimalSet
  <2>3. A \subseteq DOMAIN f /\ IsFiniteSet(A)
    BY FS_Subset
  <2>4. SumFunctionOnSet(f, A) =
          IF A = {} THEN 0 ELSE f[Pick(A)] + SumFunctionOnSet(f, A \ {Pick(A)})
    BY <2>3, SumUnfolds
  <2>5. A # {} /\ Pick(A) \in A
    BY <2>4, PickPicks
  <2>6. A \ {Pick(A)} \notin U
    BY <2>2, <2>5
  <2>7. f[Pick(A)] = 0 /\ SumFunctionOnSet(f, A \ {Pick(A)}) = 0
    BY <2>3, <2>5, <2>6
  <2> QED BY <2>4, <2>5, <2>7
<1> QED BY <1>1 DEF SumFunction

-----------------------------------------------------------------------------
(* The elements of a finite set of numbers, ranked.                        *)

LEMMA RankGrows ==
  ASSUME NEW D, D \subseteq Nat, IsFiniteSet(D), NEW i \in D, NEW j \in D, i < j
  PROVE  /\ Cardinality({k \in D : k < i}) \in Nat
         /\ Cardinality({k \in D : k < i}) < Cardinality({k \in D : k < j})
         /\ Cardinality({k \in D : k < j}) < Cardinality(D)
<1> DEFINE A == {k \in D : k < i}
           B == {k \in D : k < j}
<1>1. A \subseteq D /\ B \subseteq D /\ i \notin A /\ j \notin B
  OBVIOUS
<1>2. A \cup {i} \subseteq B /\ B \cup {j} \subseteq D
  <2>1. i \in Nat /\ j \in Nat /\ i < j /\ i \in D /\ \A k \in D : k \in Nat
    OBVIOUS
  <2>2. \A k \in A \cup {i} : k \in D /\ k < j
    BY ONLY <2>1
  <2> QED BY <2>2
<1> HIDE DEF A, B
<1>3. IsFiniteSet(A) /\ IsFiniteSet(B)
  BY <1>1, FS_Subset
<1>4. /\ Cardinality(A \cup {i}) = Cardinality(A) + 1
      /\ Cardinality(B \cup {j}) = Cardinality(B) + 1
  BY <1>1, <1>3, FS_AddElement
<1>5. /\ Cardinality(A \cup {i}) <= Cardinality(B)
      /\ Cardinality(B \cup {j}) <= Cardinality(D)
  BY <1>2, <1>3, FS_Subset
<1>6. Cardinality(A) \in Nat /\ Cardinality(B) \in Nat /\ Cardinality(D) \in Nat
  BY <1>3, FS_CardinalityType
<1>7. Cardinality(A) < Cardinality(B) /\ Cardinality(B) < Cardinality(D)
  BY <1>4, <1>5, <1>6
<1> QED BY <1>6, <1>7 DEF A, B

\* Every number below the size is the rank of an element.
LEMMA RankExists ==
  ASSUME NEW D, D \subseteq Nat, IsFiniteSet(D)
  PROVE  \A n \in Nat : n < Cardinality(D) =>
           \E i \in D : Cardinality({k \in D : k < i}) = n
<1> DEFINE Below(i) == {k \in D : k < i}
           T == {n \in Nat : n < Cardinality(D) => \E i \in D : Cardinality(Below(i)) = n}
<1>1. Cardinality(D) \in Nat
  BY FS_CardinalityType
<1>2. 0 \in T
  <2>1. ASSUME 0 < Cardinality(D) PROVE \E i \in D : Cardinality(Below(i)) = 0
    <3>1. D # {}
      BY <2>1, FS_EmptySet
    <3>2. PICK m \in D : \A j \in D : m <= j
      BY <3>1, LeastNumber
    <3>3. Below(m) = {}
      <4>1. m \in Nat /\ \A j \in D : j \in Nat
        OBVIOUS
      <4>2. \A j \in D : ~(j < m)
        BY ONLY <3>2, <4>1
      <4> QED BY <4>2
    <3>4. Cardinality(Below(m)) = 0
      BY <3>3, FS_EmptySet
    <3> QED BY <3>4
  <2> QED BY <2>1
<1>3. ASSUME NEW n \in T PROVE n + 1 \in T
  <2>0. n \in Nat /\ n + 1 \in Nat
    OBVIOUS
  <2>1. ASSUME n + 1 < Cardinality(D) PROVE \E i \in D : Cardinality(Below(i)) = n + 1
    <3>1. n < Cardinality(D)
      BY <1>1, <2>0, <2>1
    <3>2. PICK i \in D : Cardinality(Below(i)) = n
      BY <3>1
    <3> DEFINE U == {j \in D : j > i}
    <3>3. U # {}
      <4> SUFFICES ASSUME U = {} PROVE FALSE
        OBVIOUS
      <4>1. Below(i) = D \ {i}
        <5>1. \A k \in D : k < i <=> k # i
          <6>1. \A k \in D : ~(k > i) /\ k \in Nat /\ i \in Nat
            OBVIOUS
          <6> QED BY <6>1
        <5> QED BY <5>1
      <4>2. Cardinality(D \ {i}) = Cardinality(D) - 1
        BY FS_RemoveElement
      <4> QED BY <1>1, <2>0, <2>1, <3>2, <4>1, <4>2
    <3>4. PICK m \in U : \A j \in U : m <= j
      <4>1. U \subseteq Nat
        OBVIOUS
      <4> HIDE DEF U
      <4> QED BY <3>3, <4>1, LeastNumber
    <3>5. m \in D /\ m \in Nat /\ i \in Nat /\ m > i
      OBVIOUS
    <3>6. Below(m) = Below(i) \cup {i}
      <4>1. \A k \in D : k < m <=> k < i \/ k = i
        <5> TAKE k \in D
        <5>1. k \in Nat /\ (k > i => m <= k)
          BY <3>4
        <5> QED BY <3>5, <5>1
      <4> QED BY <4>1
    <3>7. Cardinality(Below(m)) = n + 1
      <4>1. IsFiniteSet(Below(i)) /\ i \notin Below(i)
        BY FS_Subset, <3>5
      <4> HIDE DEF Below
      <4> QED BY <3>2, <3>6, <4>1, FS_AddElement
    <3> QED BY <3>5, <3>7
  <2> QED BY <2>0, <2>1
<1>4. T = Nat
  <2>1. T \subseteq Nat
    OBVIOUS
  <2> HIDE DEF T
  <2> QED BY <1>2, <1>3, <2>1, NumberInduction
<1> QED BY <1>4

\* A finite set of numbers, by rank.
Ranked(D) == [n \in 1..Cardinality(D) |->
               CHOOSE i \in D : Cardinality({j \in D : j < i}) = n - 1]

LEMMA Ranks ==
  ASSUME NEW D, D \subseteq Nat, IsFiniteSet(D),
         NEW at, at = Ranked(D)
  PROVE  /\ \A n \in 1..Cardinality(D) : at[n] \in D
         /\ \A m, n \in 1..Cardinality(D) : m < n => at[m] < at[n]
         /\ \A i \in D : \E n \in 1..Cardinality(D) : at[n] = i
<1> DEFINE Rank(i) == Cardinality({j \in D : j < i})
<1>0. Cardinality(D) \in Nat
  BY FS_CardinalityType
<1>1. \A i, j \in D : i < j => Rank(i) \in Nat /\ Rank(i) < Rank(j)
  BY RankGrows
<1>2. \A i \in D : Rank(i) \in Nat /\ Rank(i) < Cardinality(D)
  <2> TAKE i \in D
  <2>1. {j \in D : j < i} \subseteq D \ {i}
    OBVIOUS
  <2>2. IsFiniteSet(D \ {i}) /\ Cardinality(D \ {i}) = Cardinality(D) - 1
    BY FS_RemoveElement
  <2>3. Rank(i) \in Nat /\ Rank(i) <= Cardinality(D \ {i})
    BY <2>1, <2>2, FS_Subset, FS_CardinalityType
  <2> QED BY <1>0, <2>2, <2>3
<1>3. \A n \in Nat : n < Cardinality(D) => \E i \in D : Rank(i) = n
  BY RankExists
<1> HIDE DEF Rank
<1>4. \A i, j \in D : Rank(i) = Rank(j) => i = j
  <2> TAKE i, j \in D
  <2>1. i \in Nat /\ j \in Nat
    OBVIOUS
  <2>2. i < j \/ j < i \/ i = j
    BY <2>1
  <2>3. Rank(i) \in Nat /\ Rank(j) \in Nat
    BY <1>2
  <2> QED BY <1>1, <2>2, <2>3
<1>5. \A n \in 1..Cardinality(D) : at[n] \in D /\ Rank(at[n]) = n - 1
  <2> TAKE n \in 1..Cardinality(D)
  <2>1. n - 1 \in Nat /\ n - 1 < Cardinality(D)
    BY <1>0
  <2>2. at[n] = CHOOSE i \in D : Rank(i) = n - 1
    BY DEF Rank, Ranked
  <2> QED BY <1>3, <2>1, <2>2
<1>6. \A m, n \in 1..Cardinality(D) : m < n => at[m] < at[n]
  <2> TAKE m, n \in 1..Cardinality(D)
  <2> HAVE m < n
  <2>1. m \in Nat /\ n \in Nat
    BY ONLY <1>0
  <2>2. at[m] \in D /\ at[n] \in D /\ Rank(at[m]) = m - 1 /\ Rank(at[n]) = n - 1
    BY <1>5
  <2> DEFINE a == at[m]
             b == at[n]
  <2>3. a \in D /\ b \in D /\ Rank(a) = m - 1 /\ Rank(b) = n - 1
    BY <2>2
  <2> HIDE DEF a, b
  <2>4. a \in Nat /\ b \in Nat
    BY <2>3
  <2>5. Rank(a) < Rank(b)
    BY ONLY <2>1, <2>3, m < n
  <2>6. ~(b < a)
    BY ONLY <1>1, <2>3, <2>5, Rank(a) \in Nat, Rank(b) \in Nat
  <2>7. a # b
    BY <1>2, <2>3, <2>5
  <2>8. a < b
    BY ONLY <2>4, <2>6, <2>7
  <2> QED BY <2>8 DEF a, b
<1>7. \A i \in D : \E n \in 1..Cardinality(D) : at[n] = i
  <2> TAKE i \in D
  <2>1. Rank(i) + 1 \in 1..Cardinality(D) /\ (Rank(i) + 1) - 1 = Rank(i)
    BY <1>0, <1>2
  <2>2. at[Rank(i) + 1] = i
    BY <1>4, <1>5, <2>1
  <2> QED BY <2>1, <2>2
<1> QED BY <1>5, <1>6, <1>7

-----------------------------------------------------------------------------
(* Sequences, one after the other.                                         *)

\* The equation of FlattenSeq has a solution.
Flattens(g, q, n) ==
  g = [i \in 1..n |-> IF i = 1 THEN q[i] ELSE g[i - 1] \o q[i]]

LEMMA FlatExists ==
  ASSUME NEW q, NEW n \in Nat
  PROVE  \E g : Flattens(g, q, n)
<1> DEFINE T == {k \in Nat : \E g : Flattens(g, q, k)}
<1>1. 0 \in T
  <2>1. PICK g : g = [i \in {} |-> {}]
    OBVIOUS
  <2>2. 1..0 = {}
    OBVIOUS
  <2>3. Flattens(g, q, 0)
    BY <2>1, <2>2 DEF Flattens
  <2> QED BY <2>3
<1>2. ASSUME NEW k \in T PROVE k + 1 \in T
  <2>0. k \in Nat
    OBVIOUS
  <2>1. PICK g : Flattens(g, q, k)
    OBVIOUS
  <2>2. PICK h : h = [i \in 1..(k + 1) |-> IF i = 1 THEN q[i] ELSE g[i - 1] \o q[i]]
    OBVIOUS
  <2>3. \A i \in 1..k : i \in 1..(k + 1) /\ i \in Nat
    BY <2>0
  <2>4. \A i \in 1..(k + 1) : i # 1 => i - 1 \in 1..k
    BY <2>0
  <2>5. \A i \in 1..k : g[i] = IF i = 1 THEN q[i] ELSE g[i - 1] \o q[i]
    BY <2>1 DEF Flattens
  <2>6. \A i \in 1..k : h[i] = g[i]
    BY <2>2, <2>3, <2>5
  <2>7. \A i \in 1..(k + 1) : h[i] = IF i = 1 THEN q[i] ELSE h[i - 1] \o q[i]
    BY <2>2, <2>4, <2>6
  <2>8. h = [i \in 1..(k + 1) |-> h[i]]
    BY <2>2
  <2>9. [i \in 1..(k + 1) |-> h[i]]
          = [i \in 1..(k + 1) |-> IF i = 1 THEN q[i] ELSE h[i - 1] \o q[i]]
    BY <2>7
  <2>10. Flattens(h, q, k + 1)
    BY <2>8, <2>9 DEF Flattens
  <2> QED BY <2>0, <2>10
<1>3. T = Nat
  <2>1. T \subseteq Nat
    OBVIOUS
  <2> HIDE DEF T
  <2> QED BY <1>1, <1>2, <2>1, NumberInduction
<1> QED BY <1>3

\* f is made of the first n sequences of q, each behind the one before.
BehindBy(f, q, n, row, col) ==
  /\ \A p \in DOMAIN f :
       /\ row[p] \in 1..n /\ col[p] \in DOMAIN q[row[p]]
       /\ f[p] = q[row[p]][col[p]]
  /\ \A o, p \in DOMAIN f :
       o < p => row[o] < row[p] \/ (row[o] = row[p] /\ col[o] < col[p])
  /\ \A i \in 1..n : \A k \in DOMAIN q[i] : \E p \in DOMAIN f : row[p] = i /\ col[p] = k
Behind(f, q, n) == \E row, col : BehindBy(f, q, n, row, col)

LEMMA FirstBehind ==
  ASSUME NEW S, NEW q, q[1] \in Seq(S)
  PROVE  Behind(q[1], q, 1)
<1> DEFINE row == [p \in DOMAIN q[1] |-> 1]
           col == [p \in DOMAIN q[1] |-> p]
<1>1. \A p \in DOMAIN q[1] : p \in Nat /\ row[p] = 1 /\ col[p] = p
  OBVIOUS
<1>2. 1..1 = {1}
  OBVIOUS
<1> HIDE DEF row, col
<1>3. BehindBy(q[1], q, 1, row, col)
  BY <1>1, <1>2 DEF BehindBy
<1> QED BY <1>3 DEF Behind

LEMMA NextBehind ==
  ASSUME NEW S, NEW q, NEW n \in Nat, n > 0, NEW f \in Seq(S), q[n + 1] \in Seq(S),
         Behind(f, q, n)
  PROVE  Behind(f \o q[n + 1], q, n + 1)
<1> DEFINE l == Len(f)
           g == q[n + 1]
           h == f \o g
<1>0. PICK r, c : BehindBy(f, q, n, r, c)
  BY DEF Behind
<1>1. /\ \A p \in DOMAIN f :
           /\ r[p] \in 1..n /\ c[p] \in DOMAIN q[r[p]]
           /\ f[p] = q[r[p]][c[p]]
      /\ \A o, p \in DOMAIN f :
           o < p => r[o] < r[p] \/ (r[o] = r[p] /\ c[o] < c[p])
      /\ \A i \in 1..n : \A k \in DOMAIN q[i] : \E p \in DOMAIN f : r[p] = i /\ c[p] = k
  BY <1>0 DEF BehindBy
<1> DEFINE row == [p \in DOMAIN h |-> IF p \in DOMAIN f THEN r[p] ELSE n + 1]
           col == [p \in DOMAIN h |-> IF p \in DOMAIN f THEN c[p] ELSE p - l]
<1>2. /\ l \in Nat /\ Len(g) \in Nat /\ DOMAIN f = 1..l /\ DOMAIN g = 1..Len(g)
      /\ DOMAIN h = 1..(l + Len(g)) /\ h \in Seq(S)
      /\ \A p \in 1..(l + Len(g)) : h[p] = IF p <= l THEN f[p] ELSE g[p - l]
  <2>1. g \in Seq(S)
    OBVIOUS
  <2> HIDE DEF g
  <2> QED BY <2>1, ConcatProperties
<1>3. \A p \in DOMAIN h :
        \/ p \in DOMAIN f /\ h[p] = f[p]
        \/ p \notin DOMAIN f /\ p - l \in DOMAIN g /\ h[p] = g[p - l]
  <2> HIDE DEF g, l, h
  <2> TAKE p \in DOMAIN h
  <2>1. p \in Nat /\ p >= 1 /\ p <= l + Len(g)
    BY <1>2
  <2>2. CASE p <= l
    BY <1>2, <2>1, <2>2
  <2>3. CASE ~(p <= l)
    BY <1>2, <2>1, <2>3
  <2> QED BY <2>2, <2>3
<1>4. \A p \in DOMAIN h :
        \/ p \in DOMAIN f /\ row[p] = r[p] /\ col[p] = c[p]
        \/ p \notin DOMAIN f /\ row[p] = n + 1 /\ col[p] = p - l
  OBVIOUS
<1> HIDE DEF l, h, g, row, col
<1>5. \A i \in 1..n : i \in 1..(n + 1) /\ i < n + 1
  OBVIOUS
<1>6. n + 1 \in 1..(n + 1) /\ \A i \in 1..(n + 1) : i \in 1..n \/ i = n + 1
  OBVIOUS
<1>7. \A p \in DOMAIN h :
        /\ row[p] \in 1..(n + 1) /\ col[p] \in DOMAIN q[row[p]]
        /\ h[p] = q[row[p]][col[p]]
  <2> TAKE p \in DOMAIN h
  <2>1. CASE p \in DOMAIN f
    BY <1>1, <1>3, <1>4, <1>5, <2>1
  <2>2. CASE p \notin DOMAIN f
    BY <1>3, <1>4, <1>6, <2>2 DEF g
  <2> QED BY <2>1, <2>2
<1>8. \A o, p \in DOMAIN h :
        o < p => row[o] < row[p] \/ (row[o] = row[p] /\ col[o] < col[p])
  <2> TAKE o, p \in DOMAIN h
  <2> HAVE o < p
  <2>0. o \in Nat /\ p \in Nat /\ l \in Nat /\ DOMAIN f = 1..l /\ o >= 1 /\ p >= 1
    BY <1>2
  <2>1. CASE o \in DOMAIN f /\ p \in DOMAIN f
    <3>1. r[o] < r[p] \/ (r[o] = r[p] /\ c[o] < c[p])
      BY <1>1, <2>1
    <3>2. row[o] = r[o] /\ row[p] = r[p] /\ col[o] = c[o] /\ col[p] = c[p]
      BY <1>4, <2>1
    <3> QED BY <3>1, <3>2
  <2>2. CASE o \in DOMAIN f /\ p \notin DOMAIN f
    BY <1>1, <1>4, <1>5, <2>2
  <2>3. CASE o \notin DOMAIN f
    <3>1. o > l /\ p > l
      BY <2>0, <2>3
    <3>2. p \notin DOMAIN f
      BY <2>0, <3>1
    <3>3. o - l < p - l
      BY <2>0
    <3>4. row[o] = n + 1 /\ row[p] = n + 1 /\ col[o] = o - l /\ col[p] = p - l
      BY <1>4, <2>3, <3>2
    <3> QED BY <3>3, <3>4
  <2> QED BY <2>1, <2>2, <2>3
<1>9. ASSUME NEW i \in 1..(n + 1), NEW k \in DOMAIN q[i]
      PROVE  \E p \in DOMAIN h : row[p] = i /\ col[p] = k
  <2>1. CASE i \in 1..n
    <3>1. PICK p \in DOMAIN f : r[p] = i /\ c[p] = k
      BY <1>1, <2>1
    <3>2. p \in DOMAIN h
      BY <1>2
    <3> QED BY <1>4, <3>1, <3>2
  <2>2. CASE i = n + 1
    <3>1. k \in DOMAIN g /\ k \in Nat /\ k >= 1 /\ k <= Len(g)
      BY <1>2, <2>2 DEF g
    <3>2. l + k \in DOMAIN h /\ l + k \notin DOMAIN f /\ (l + k) - l = k
      BY <1>2, <3>1
    <3> QED BY <1>4, <2>2, <3>2
  <2> QED BY <1>6, <2>1, <2>2
<1>10. BehindBy(h, q, n + 1, row, col)
  BY <1>7, <1>8, <1>9 DEF BehindBy
<1>11. Behind(h, q, n + 1)
  BY <1>10 DEF Behind
<1> QED BY <1>11 DEF h, g

\* A flattened sequence has the members of its sequences, in order.
LEMMA FlatIs ==
  ASSUME NEW S, NEW q \in Seq(Seq(S))
  PROVE  FlattenSeq(q) \in Seq(S) /\ Behind(FlattenSeq(q), q, Len(q))
<1>1. Len(q) \in Nat /\ \A i \in 1..Len(q) : q[i] \in Seq(S)
  OBVIOUS
<1>2. CASE Len(q) = 0
  <2>1. q = <<>>
    BY <1>2, EmptySeq
  <2>2. FlattenSeq(q) = <<>>
    BY <1>2, <2>1 DEF FlattenSeq
  <2>3. DOMAIN <<>> = {} /\ 1..0 = {}
    OBVIOUS
  <2>4. BehindBy(<<>>, q, 0, <<>>, <<>>)
    BY <2>3 DEF BehindBy
  <2>5. Behind(<<>>, q, 0)
    BY <2>4 DEF Behind
  <2> QED BY <1>2, <2>2, <2>5
<1>3. CASE Len(q) # 0
  <2> DEFINE flat == CHOOSE g : Flattens(g, q, Len(q))
             V == {k \in Nat : k + 1 <= Len(q) =>
                     flat[k + 1] \in Seq(S) /\ Behind(flat[k + 1], q, k + 1)}
  <2>1. FlattenSeq(q) = flat[Len(q)]
    BY <1>3 DEF FlattenSeq, Flattens
  <2>2. Flattens(flat, q, Len(q))
    BY <1>1, FlatExists
  <2> HIDE DEF flat
  <2>3. \A i \in 1..Len(q) : flat[i] = IF i = 1 THEN q[i] ELSE flat[i - 1] \o q[i]
    BY <2>2 DEF Flattens
  <2>4. 0 \in V
    <3>1. 1 \in 1..Len(q)
      BY <1>1, <1>3
    <3>2. flat[1] = q[1] /\ q[1] \in Seq(S)
      BY <1>1, <2>3, <3>1
    <3>3. Behind(flat[1], q, 1)
      BY <3>2, FirstBehind
    <3>4. 0 + 1 = 1
      OBVIOUS
    <3> QED BY <3>2, <3>3, <3>4
  <2>5. ASSUME NEW k \in V PROVE k + 1 \in V
    <3>0. k \in Nat /\ k + 1 \in Nat
      OBVIOUS
    <3>1. ASSUME (k + 1) + 1 <= Len(q)
          PROVE  /\ flat[(k + 1) + 1] \in Seq(S)
                 /\ Behind(flat[(k + 1) + 1], q, (k + 1) + 1)
      <4>1. k + 1 <= Len(q) /\ (k + 1) + 1 \in 1..Len(q) /\ (k + 1) + 1 # 1
            /\ ((k + 1) + 1) - 1 = k + 1 /\ k + 1 > 0
        BY <1>1, <3>0, <3>1
      <4>2. flat[k + 1] \in Seq(S) /\ Behind(flat[k + 1], q, k + 1)
        BY <4>1
      <4>3. flat[(k + 1) + 1] = flat[k + 1] \o q[(k + 1) + 1]
        BY <2>3, <4>1
      <4>4. q[(k + 1) + 1] \in Seq(S)
        BY <1>1, <4>1
      <4> HIDE DEF V
      <4>5. Behind(flat[k + 1] \o q[(k + 1) + 1], q, (k + 1) + 1)
        BY <3>0, <4>1, <4>2, <4>4, NextBehind
      <4>6. flat[k + 1] \o q[(k + 1) + 1] \in Seq(S)
        BY <4>2, <4>4, ConcatProperties
      <4> QED BY <4>3, <4>5, <4>6
    <3> QED BY <3>0, <3>1
  <2>6. V = Nat
    <3>1. V \subseteq Nat
      OBVIOUS
    <3> HIDE DEF V
    <3> QED BY <2>4, <2>5, <3>1, NumberInduction
  <2>7. Len(q) - 1 \in V /\ (Len(q) - 1) + 1 = Len(q)
    <3>1. Len(q) - 1 \in Nat /\ (Len(q) - 1) + 1 = Len(q)
      BY <1>1, <1>3
    <3> HIDE DEF V
    <3> QED BY <2>6, <3>1
  <2>8. (Len(q) - 1) + 1 <= Len(q)
    BY <1>1
  <2>9. flat[Len(q)] \in Seq(S) /\ Behind(flat[Len(q)], q, Len(q))
    BY <2>7, <2>8
  <2> QED BY <2>1, <2>9
<1> QED BY <1>2, <1>3
==============================================================================

---------------------------- MODULE Lists_proofs ----------------------------
(***************************************************************************)
(* Facts about finite sets, sums and sequences that the library does not   *)
(* state.  What is proved by induction is proved by a least counterexample *)
(* among the numbers, or among the subsets of a finite set.                *)
(***************************************************************************)
EXTENDS Lists, Functions, FiniteSetsExt, FiniteSetTheorems, WellFoundedInduction, TLAPS

-----------------------------------------------------------------------------
(* Least elements and induction. *)

(* A set of naturals has a least element. *)
LEMMA LeastNat ==
  ASSUME NEW T, T \subseteq Nat, T # {}
  PROVE  \E x \in T : \A y \in T : x <= y
<1> DEFINE less == OpToRel(<, Nat)
<1>1. IsWellFoundedOn(less, Nat)
  BY NatLessThanWellFounded
<1>2. \A x \in T, y \in T : x \in Nat /\ y \in Nat /\ (y < x => <<y, x>> \in less)
  BY DEF OpToRel
<1> HIDE DEF less
<1>3. PICK x \in T : \A y \in T : ~(<<y, x>> \in less)
  <2>1. \E x \in T : \A y \in T : ~(<<y, x>> \in less)
    BY <1>1, WFMin
  <2> QED BY <2>1
<1>4. ASSUME NEW y \in T PROVE x <= y
  <2>1. x \in Nat /\ y \in Nat
    OBVIOUS
  <2>2. ~(y < x)
    BY <1>2, <1>3
  <2> QED BY <2>1, <2>2
<1> QED BY <1>4

(* Induction over the naturals, for a set of numbers. *)
LEMMA NatInductionSet ==
  ASSUME NEW T, 0 \in T, \A n \in Nat : n \in T => n + 1 \in T
  PROVE  Nat \subseteq T
<1>1. SUFFICES ASSUME Nat \ T # {} PROVE FALSE
  OBVIOUS
<1>2. PICK x \in Nat \ T : \A y \in Nat \ T : x <= y
  BY <1>1, LeastNat
<1>3. x - 1 \in Nat /\ x - 1 \in T
  BY <1>2
<1> QED BY <1>2, <1>3

(* Induction over the subsets of a finite set, for a set of sets. *)
LEMMA SubsetInduction ==
  ASSUME NEW S, IsFiniteSet(S), NEW T,
         \A A \in SUBSET S : (\A B \in SUBSET A : B # A => B \in T) => A \in T
  PROVE  \A A \in SUBSET S : A \in T
<1> DEFINE Bad == {A \in SUBSET S : A \notin T}
           Sizes == {Cardinality(A) : A \in Bad}
<1>1. SUFFICES ASSUME Bad # {} PROVE FALSE
  OBVIOUS
<1>2. \A A \in SUBSET S : IsFiniteSet(A) /\ Cardinality(A) \in Nat
  BY FS_Subset, FS_CardinalityType
<1>3. Sizes \subseteq Nat /\ Sizes # {}
  BY <1>1, <1>2
<1>4. PICK n \in Sizes : \A m \in Sizes : n <= m
  BY <1>3, LeastNat
<1>5. PICK A \in Bad : n = Cardinality(A)
  OBVIOUS
<1>6. \A B \in SUBSET A : B # A => Cardinality(B) < Cardinality(A) /\ B \in SUBSET S
  BY <1>2, <1>5, FS_Subset
<1>7. ASSUME NEW B \in SUBSET A, B # A
      PROVE  B \in T
  <2>1. SUFFICES ASSUME B \in Bad PROVE FALSE
    BY <1>6, <1>7
  <2>2. Cardinality(B) \in Sizes
    BY <2>1
  <2>3. n <= Cardinality(B) /\ n \in Nat
    BY <2>2, <1>3, <1>4
  <2> QED BY <2>3, <1>2, <1>5, <1>6, <1>7
<1> QED BY <1>5, <1>7

(* A function into the integers has a least value on a finite set. *)
LEMMA LeastValue ==
  ASSUME NEW S, IsFiniteSet(S), S # {}, NEW f, \A x \in S : f[x] \in Int
  PROVE  \E x \in S : \A y \in S : f[x] <= f[y]
<1> DEFINE T == {A \in SUBSET S : A = {} \/ \E x \in A : \A y \in A : f[x] <= f[y]}
<1>1. ASSUME NEW A \in SUBSET S, \A B \in SUBSET A : B # A => B \in T
      PROVE  A \in T
  <2>1. SUFFICES ASSUME A # {} PROVE \E x \in A : \A y \in A : f[x] <= f[y]
    OBVIOUS
  <2>2. PICK a \in A : TRUE
    BY <2>1
  <2>3. A \ {a} \in T
    BY <1>1, <2>2
  <2>4. CASE A \ {a} = {}
    BY <2>4, <2>2
  <2>5. CASE A \ {a} # {}
    <3>1. PICK x \in A \ {a} : \A y \in A \ {a} : f[x] <= f[y]
      BY <2>3, <2>5
    <3>2. CASE f[x] <= f[a]
      BY <3>1, <3>2
    <3>3. CASE ~(f[x] <= f[a])
      <4>1. \A y \in A : f[a] <= f[y]
        BY <3>1, <3>3, <2>2
      <4> QED BY <4>1, <2>2
    <3> QED BY <3>2, <3>3
  <2> QED BY <2>4, <2>5
<1>2. \A A \in SUBSET S : A \in T
  <2>1. \A A \in SUBSET S : (\A B \in SUBSET A : B # A => B \in T) => A \in T
    BY <1>1
  <2> HIDE DEF T
  <2> QED BY <2>1, SubsetInduction
<1>3. S \in T
  BY <1>2
<1> QED BY <1>3

-----------------------------------------------------------------------------
(* Sums. *)

Some(s) == CHOOSE x \in s : TRUE

(* The recursive function that SumFunctionOnSet stands for. *)
SumFrom(fun, S) ==
  CHOOSE iter : iter = [s \in SUBSET S |->
                          IF s = {} THEN 0 ELSE fun[Some(s)] + iter[s \ {Some(s)}]]

LEMMA SumIsSumFrom == \A fun, S : SumFunctionOnSet(fun, S) = SumFrom(fun, S)[S]
  BY DEF SumFunctionOnSet, FoldFunctionOnSet, MapThenFoldSet, SumFrom, Some

(* It exists: it can be built for larger and larger sets. *)
LEMMA SumFromDef ==
  ASSUME NEW fun, NEW S, IsFiniteSet(S)
  PROVE  \A s \in SUBSET S : SumFrom(fun, S)[s] =
           IF s = {} THEN 0 ELSE fun[Some(s)] + SumFrom(fun, S)[s \ {Some(s)}]
<1> DEFINE Step(g, s) == IF s = {} THEN 0 ELSE fun[Some(s)] + g[s \ {Some(s)}]
           Upto(n) == \E g : \A s \in SUBSET S : Cardinality(s) < n => g[s] = Step(g, s)
           Built == {n \in Nat : Upto(n)}
<1>1. \A s \in SUBSET S : s # {} =>
        /\ Some(s) \in s /\ s \ {Some(s)} \in SUBSET S
        /\ Cardinality(s) \in Nat
        /\ Cardinality(s \ {Some(s)}) = Cardinality(s) - 1
  BY FS_Subset, FS_CardinalityType, FS_RemoveElement DEF Some
<1>2. 0 \in Built
  BY FS_Subset, FS_CardinalityType
<1>3. ASSUME NEW n \in Nat, n \in Built PROVE n + 1 \in Built
  <2>1. PICK g : \A s \in SUBSET S : Cardinality(s) < n => g[s] = Step(g, s)
    BY <1>3
  <2> DEFINE h == [s \in SUBSET S |-> Step(g, s)]
  <2>2. ASSUME NEW s \in SUBSET S, Cardinality(s) < n + 1
        PROVE  h[s] = Step(h, s)
    <3>1. CASE s = {}
      BY <3>1
    <3>2. CASE s # {}
      <4>1. Cardinality(s \ {Some(s)}) < n
        BY <1>1, <2>2, <3>2
      <4>2. h[s \ {Some(s)}] = g[s \ {Some(s)}]
        BY <1>1, <2>1, <3>2, <4>1
      <4> QED BY <3>2, <4>2
    <3> QED BY <3>1, <3>2
  <2>3. Upto(n + 1)
    <3> HIDE DEF h, Step
    <3> QED BY <2>2
  <2> QED BY <2>3
<1>4. Cardinality(S) + 1 \in Built
  <2> HIDE DEF Built
  <2> QED BY <1>2, <1>3, NatInductionSet, FS_CardinalityType
<1>5. PICK g : \A s \in SUBSET S : g[s] = Step(g, s)
  <2>1. PICK g : \A s \in SUBSET S : Cardinality(s) < Cardinality(S) + 1 => g[s] = Step(g, s)
    BY <1>4
  <2>2. \A s \in SUBSET S : Cardinality(s) < Cardinality(S) + 1
    BY FS_Subset, FS_CardinalityType
  <2> QED BY <2>1, <2>2
<1> DEFINE f == [s \in SUBSET S |-> Step(g, s)]
<1>6. \A s \in SUBSET S : f[s] = Step(f, s)
  BY <1>1, <1>5
<1>7. f = [s \in SUBSET S |-> Step(f, s)]
  BY <1>6
<1>8. \E iter : iter = [s \in SUBSET S |-> Step(iter, s)]
  <2> HIDE DEF f, Step
  <2> QED BY <1>7
<1>9. SumFrom(fun, S) = [s \in SUBSET S |-> Step(SumFrom(fun, S), s)]
  BY <1>8 DEF SumFrom
<1> QED BY <1>9

(* The sum over a set does not depend on the set its recursion started in. *)
LEMMA SumFromAny ==
  ASSUME NEW fun, NEW S, IsFiniteSet(S)
  PROVE  \A T \in SUBSET S : \A U \in SUBSET S :
           T \subseteq U => SumFrom(fun, U)[T] = SumFrom(fun, T)[T]
<1> DEFINE Same == {T \in SUBSET S : \A U \in SUBSET S :
                      T \subseteq U => SumFrom(fun, U)[T] = SumFrom(fun, T)[T]}
<1>1. ASSUME NEW U \in SUBSET S, NEW T \in SUBSET U
      PROVE  SumFrom(fun, U)[T] =
               IF T = {} THEN 0 ELSE fun[Some(T)] + SumFrom(fun, U)[T \ {Some(T)}]
  <2>1. IsFiniteSet(U)
    BY FS_Subset
  <2> QED BY <2>1, SumFromDef
<1>2. ASSUME NEW T \in SUBSET S, \A B \in SUBSET T : B # T => B \in Same
      PROVE  T \in Same
  <2>1. SUFFICES ASSUME NEW U \in SUBSET S, T \subseteq U
                 PROVE  SumFrom(fun, U)[T] = SumFrom(fun, T)[T]
    OBVIOUS
  <2>2. CASE T = {}
    BY <1>1, <2>1, <2>2
  <2>3. CASE T # {}
    <3>1. Some(T) \in T
      BY <2>3 DEF Some
    <3>2. T \ {Some(T)} \in Same
      BY <1>2, <3>1
    <3>3. SumFrom(fun, U)[T \ {Some(T)}] = SumFrom(fun, T)[T \ {Some(T)}]
      BY <2>1, <3>2
    <3>4. SumFrom(fun, U)[T] = fun[Some(T)] + SumFrom(fun, U)[T \ {Some(T)}]
      BY <1>1, <2>1, <2>3
    <3>5. SumFrom(fun, T)[T] = fun[Some(T)] + SumFrom(fun, T)[T \ {Some(T)}]
      BY <1>1, <2>3
    <3> QED BY <3>3, <3>4, <3>5
  <2> QED BY <2>2, <2>3
<1>3. \A T \in SUBSET S : T \in Same
  <2>1. \A T \in SUBSET S : (\A B \in SUBSET T : B # T => B \in Same) => T \in Same
    BY <1>2
  <2> HIDE DEF Same
  <2> QED BY <2>1, SubsetInduction
<1> QED BY <1>3

(* A sum, unfolded once. *)
LEMMA SumStep ==
  ASSUME NEW fun, NEW S, IsFiniteSet(S)
  PROVE  SumFunctionOnSet(fun, S) =
           IF S = {} THEN 0
           ELSE fun[Some(S)] + SumFunctionOnSet(fun, S \ {Some(S)})
<1>1. SumFrom(fun, S)[S] = IF S = {} THEN 0 ELSE fun[Some(S)] + SumFrom(fun, S)[S \ {Some(S)}]
  BY SumFromDef
<1>2. SumFrom(fun, S)[S \ {Some(S)}] = SumFrom(fun, S \ {Some(S)})[S \ {Some(S)}]
  BY SumFromAny
<1> QED BY <1>1, <1>2, SumIsSumFrom

(* Sums of naturals are naturals, and any element may be taken out first. *)
LEMMA SumRemove ==
  ASSUME NEW fun, NEW S, IsFiniteSet(S), \A x \in S : fun[x] \in Nat
  PROVE  /\ SumFunctionOnSet(fun, S) \in Nat
         /\ \A x \in S : SumFunctionOnSet(fun, S) = fun[x] + SumFunctionOnSet(fun, S \ {x})
<1> DEFINE Sum(A) == SumFunctionOnSet(fun, A)
           Good == {A \in SUBSET S : Sum(A) \in Nat /\ \A x \in A : Sum(A) = fun[x] + Sum(A \ {x})}
<1>1. \A A \in SUBSET S : Sum(A) = IF A = {} THEN 0 ELSE fun[Some(A)] + Sum(A \ {Some(A)})
  BY SumStep, FS_Subset
<1> HIDE DEF Sum
<1>2. ASSUME NEW A \in SUBSET S, \A B \in SUBSET A : B # A => B \in Good
      PROVE  A \in Good
  <2>1. CASE A = {}
    BY <1>1, <2>1
  <2>2. CASE A # {}
    <3> DEFINE y == Some(A)
    <3>1. y \in A
      BY <2>2 DEF Some
    <3>2. Sum(A) = fun[y] + Sum(A \ {y}) /\ A \ {y} \in Good
      BY <1>1, <1>2, <2>2, <3>1
    <3> HIDE DEF y
    <3>3. Sum(A) \in Nat
      BY <3>1, <3>2
    <3>4. ASSUME NEW x \in A, x # y
          PROVE  Sum(A) = fun[x] + Sum(A \ {x})
      <4>1. A \ {x} \in Good /\ y \in A \ {x} /\ x \in A \ {y}
        BY <1>2, <3>1, <3>4
      <4>2. Sum(A \ {y}) = fun[x] + Sum((A \ {y}) \ {x})
        BY <3>2, <4>1
      <4>3. Sum(A \ {x}) = fun[y] + Sum((A \ {x}) \ {y})
        BY <4>1
      <4>4. (A \ {x}) \ {y} = (A \ {y}) \ {x} /\ (A \ {x}) \ {y} \in Good
        BY <1>2, <4>1
      <4>5. Sum((A \ {x}) \ {y}) \in Nat /\ fun[x] \in Nat /\ fun[y] \in Nat
        BY <3>1, <4>4
      <4> QED BY <3>2, <4>2, <4>3, <4>4, <4>5
    <3> QED BY <3>2, <3>3, <3>4
  <2> QED BY <2>1, <2>2
<1>3. \A A \in SUBSET S : A \in Good
  <2>1. \A A \in SUBSET S : (\A B \in SUBSET A : B # A => B \in Good) => A \in Good
    BY <1>2
  <2> HIDE DEF Good
  <2> QED BY <2>1, SubsetInduction
<1>4. S \in Good
  BY <1>3
<1> QED BY <1>4 DEF Sum

(* A larger set has a larger sum. *)
LEMMA SumSubset ==
  ASSUME NEW fun, NEW S, IsFiniteSet(S), \A x \in S : fun[x] \in Nat, NEW T \in SUBSET S
  PROVE  SumFunctionOnSet(fun, T) <= SumFunctionOnSet(fun, S)
<1> DEFINE Sum(A) == SumFunctionOnSet(fun, A)
           Good == {A \in SUBSET S : T \subseteq A => Sum(T) <= Sum(A)}
<1>1. \A A \in SUBSET S : Sum(A) \in Nat /\ \A x \in A : Sum(A) = fun[x] + Sum(A \ {x})
  BY SumRemove, FS_Subset
<1> HIDE DEF Sum
<1>2. ASSUME NEW A \in SUBSET S, \A B \in SUBSET A : B # A => B \in Good
      PROVE  A \in Good
  <2>1. SUFFICES ASSUME T \subseteq A PROVE Sum(T) <= Sum(A)
    OBVIOUS
  <2>2. CASE T = A
    BY <1>1, <2>2
  <2>3. CASE T # A
    <3>1. PICK x \in A : x \notin T
      BY <2>1, <2>3
    <3>2. A \ {x} \in Good /\ T \subseteq A \ {x}
      BY <1>2, <2>1, <3>1
    <3>3. Sum(T) <= Sum(A \ {x})
      BY <3>2
    <3>4. Sum(A) = fun[x] + Sum(A \ {x}) /\ fun[x] \in Nat
      BY <1>1, <3>1
    <3>5. Sum(A \ {x}) \in Nat /\ Sum(T) \in Nat
      BY <1>1, <3>1
    <3> QED BY <3>3, <3>4, <3>5
  <2> QED BY <2>2, <2>3
<1>3. \A A \in SUBSET S : A \in Good
  <2>1. \A A \in SUBSET S : (\A B \in SUBSET A : B # A => B \in Good) => A \in Good
    BY <1>2
  <2> HIDE DEF Good
  <2> QED BY <2>1, SubsetInduction
<1>4. S \in Good
  BY <1>3
<1> QED BY <1>4 DEF Sum

(* What adds nothing may be left out of a sum. *)
LEMMA SumNonZero ==
  ASSUME NEW fun, NEW S, IsFiniteSet(S), \A x \in S : fun[x] \in Nat
  PROVE  SumFunctionOnSet(fun, S) = SumFunctionOnSet(fun, {x \in S : fun[x] # 0})
<1> DEFINE Sum(A) == SumFunctionOnSet(fun, A)
           Rest(A) == {x \in A : fun[x] # 0}
           Good == {A \in SUBSET S : Sum(A) = Sum(Rest(A))}
<1>1. \A A \in SUBSET S : Sum(A) \in Nat /\ \A x \in A : Sum(A) = fun[x] + Sum(A \ {x})
  BY SumRemove, FS_Subset
<1> HIDE DEF Sum
<1>2. ASSUME NEW A \in SUBSET S, \A B \in SUBSET A : B # A => B \in Good
      PROVE  A \in Good
  <2>1. CASE Rest(A) = A
    BY <2>1
  <2>2. CASE Rest(A) # A
    <3>1. PICK x \in A : fun[x] = 0
      BY <2>2
    <3>2. A \ {x} \in Good /\ Rest(A \ {x}) = Rest(A)
      BY <1>2, <3>1
    <3>3. Sum(A) = 0 + Sum(A \ {x}) /\ Sum(A \ {x}) \in Nat
      BY <1>1, <3>1
    <3>4. Sum(A \ {x}) = Sum(Rest(A))
      BY <3>2
    <3> QED BY <3>3, <3>4
  <2> QED BY <2>1, <2>2
<1>3. \A A \in SUBSET S : A \in Good
  <2>1. \A A \in SUBSET S : (\A B \in SUBSET A : B # A => B \in Good) => A \in Good
    BY <1>2
  <2> HIDE DEF Good
  <2> QED BY <2>1, SubsetInduction
<1>4. S \in Good
  BY <1>3
<1> QED BY <1>4 DEF Sum

(* So a sum is at most another that covers all it adds. *)
LEMMA SumCovered ==
  ASSUME NEW fun, NEW S, NEW T, IsFiniteSet(S), IsFiniteSet(T),
         \A x \in S \cup T : fun[x] \in Nat,
         \A x \in S : fun[x] # 0 => x \in T
  PROVE  SumFunctionOnSet(fun, S) <= SumFunctionOnSet(fun, T)
<1> DEFINE R == {x \in S : fun[x] # 0}
<1>1. SumFunctionOnSet(fun, S) = SumFunctionOnSet(fun, R)
  BY SumNonZero
<1>2. R \in SUBSET T
  OBVIOUS
<1>3. SumFunctionOnSet(fun, R) <= SumFunctionOnSet(fun, T)
  <2> HIDE DEF R
  <2> QED BY <1>2, SumSubset
<1> QED BY <1>1, <1>3

-----------------------------------------------------------------------------
(* Sequences. *)

LEMMA RangeHas ==
  ASSUME NEW A, NEW s \in Seq(A), NEW n \in 1..Len(s)
  PROVE  s[n] \in Range(s)
  BY DEF Range

LEMMA RangeFrom ==
  ASSUME NEW A, NEW s \in Seq(A), NEW x \in Range(s)
  PROVE  \E n \in 1..Len(s) : x = s[n]
  BY DEF Range

LEMMA RangeType ==
  ASSUME NEW A, NEW s \in Seq(A)
  PROVE  Range(s) \subseteq A
  BY DEF Range

LEMMA RangeHead ==
  ASSUME NEW A, NEW s \in Seq(A), s # << >>
  PROVE  Head(s) \in Range(s)
  BY DEF Range

LEMMA EmptyRange ==
  ASSUME NEW A, NEW s \in Seq(A), Len(s) = 0
  PROVE  Range(s) = {}
  BY DEF Range

LEMMA RangeOfConcat ==
  ASSUME NEW A, NEW s \in Seq(A), NEW t \in Seq(A)
  PROVE  s \o t \in Seq(A) /\ Range(s \o t) = Range(s) \cup Range(t)
<1>1. s \o t \in Seq(A) /\ Len(s \o t) = Len(s) + Len(t)
  OBVIOUS
<1>2. \A n \in 1..(Len(s) + Len(t)) :
        (s \o t)[n] = IF n <= Len(s) THEN s[n] ELSE t[n - Len(s)]
  OBVIOUS
<1>3. /\ \A n \in 1..Len(s) : s[n] \in Range(s)
      /\ \A x \in Range(s) : \E n \in 1..Len(s) : x = s[n]
      /\ \A n \in 1..Len(t) : t[n] \in Range(t)
      /\ \A x \in Range(t) : \E n \in 1..Len(t) : x = t[n]
  BY RangeHas, RangeFrom
<1>8. /\ \A n \in 1..Len(s \o t) : (s \o t)[n] \in Range(s \o t)
      /\ \A x \in Range(s \o t) : \E n \in 1..Len(s \o t) : x = (s \o t)[n]
  BY <1>1, RangeHas, RangeFrom
<1>4. Len(s) \in Nat /\ Len(t) \in Nat
  OBVIOUS
<1>5. ASSUME NEW n \in 1..(Len(s) + Len(t))
      PROVE  (s \o t)[n] \in Range(s) \cup Range(t)
  <2>1. CASE n <= Len(s)
    BY <1>2, <1>3, <1>4, <2>1
  <2>2. CASE ~(n <= Len(s))
    <3>1. n - Len(s) \in 1..Len(t) /\ (s \o t)[n] = t[n - Len(s)]
      BY <1>2, <1>4, <2>2
    <3> QED BY <1>3, <3>1
  <2> QED BY <2>1, <2>2
<1>6. ASSUME NEW n \in 1..Len(s) PROVE s[n] \in Range(s \o t)
  BY <1>1, <1>2, <1>4, <1>8
<1>7. ASSUME NEW n \in 1..Len(t) PROVE t[n] \in Range(s \o t)
  <2>1. n + Len(s) \in 1..(Len(s) + Len(t)) /\ (s \o t)[n + Len(s)] = t[n]
    BY <1>2, <1>4
  <2> QED BY <1>1, <1>8, <2>1
<1> QED BY <1>1, <1>3, <1>5, <1>6, <1>7, <1>8

LEMMA HeadOfConcat ==
  ASSUME NEW A, NEW s \in Seq(A), NEW t \in Seq(A), Len(s) # 0
  PROVE  Len(s \o t) # 0 /\ Head(s \o t) = Head(s)
<1>1. Len(s) \in Nat /\ Len(t) \in Nat /\ Len(s \o t) = Len(s) + Len(t)
  OBVIOUS
<1>2. Head(s) = s[1] /\ Head(s \o t) = (s \o t)[1]
  OBVIOUS
<1>3. (s \o t)[1] = s[1]
  BY <1>1
<1> QED BY <1>1, <1>2, <1>3

(* The recursive function that FlattenSeq stands for. *)
FlattenFrom(ss) ==
  CHOOSE f : f = [i \in 1..Len(ss) |-> IF i = 1 THEN ss[i] ELSE f[i - 1] \o ss[i]]

LEMMA FlattenIsFlattenFrom ==
  \A ss : FlattenSeq(ss) = IF Len(ss) = 0 THEN ss ELSE FlattenFrom(ss)[Len(ss)]
  BY DEF FlattenSeq, FlattenFrom

LEMMA FlattenFromDef ==
  ASSUME NEW ss, Len(ss) \in Nat
  PROVE  \A i \in 1..Len(ss) :
           FlattenFrom(ss)[i] = IF i = 1 THEN ss[i] ELSE FlattenFrom(ss)[i - 1] \o ss[i]
<1> DEFINE Step(g, i) == IF i = 1 THEN ss[i] ELSE g[i - 1] \o ss[i]
           Upto(n) == \E g : \A i \in 1..Len(ss) : i <= n => g[i] = Step(g, i)
           Built == {n \in Nat : Upto(n)}
<1>1. 0 \in Built
  OBVIOUS
<1>2. ASSUME NEW n \in Nat, n \in Built PROVE n + 1 \in Built
  <2>1. PICK g : \A i \in 1..Len(ss) : i <= n => g[i] = Step(g, i)
    BY <1>2
  <2> DEFINE h == [i \in 1..Len(ss) |-> Step(g, i)]
  <2>2. ASSUME NEW i \in 1..Len(ss), i <= n + 1
        PROVE  h[i] = Step(h, i)
    <3>1. CASE i = 1
      BY <3>1
    <3>2. CASE i # 1
      <4>1. i - 1 \in 1..Len(ss) /\ i - 1 <= n
        BY <2>2, <3>2
      <4>2. h[i - 1] = g[i - 1]
        BY <2>1, <4>1
      <4> QED BY <3>2, <4>2
    <3> QED BY <3>1, <3>2
  <2>3. Upto(n + 1)
    <3> HIDE DEF h, Step
    <3> QED BY <2>2
  <2> QED BY <2>3
<1>3. Len(ss) \in Built
  <2> HIDE DEF Built
  <2> QED BY <1>1, <1>2, NatInductionSet
<1>4. PICK g : \A i \in 1..Len(ss) : i <= Len(ss) => g[i] = Step(g, i)
  BY <1>3
<1> DEFINE f == [i \in 1..Len(ss) |-> Step(g, i)]
<1>5. \A i \in 1..Len(ss) : f[i] = g[i]
  BY <1>4
<1>6. \A i \in 1..Len(ss) : f[i] = Step(f, i)
  <2>1. \A i \in 1..Len(ss) : i # 1 => i - 1 \in 1..Len(ss)
    OBVIOUS
  <2> QED BY <1>5, <2>1
<1>7. f = [i \in 1..Len(ss) |-> Step(f, i)]
  BY <1>6
<1>8. \E g2 : g2 = [i \in 1..Len(ss) |-> Step(g2, i)]
  <2> HIDE DEF f, Step
  <2> QED BY <1>7
<1>9. FlattenFrom(ss) = [i \in 1..Len(ss) |-> Step(FlattenFrom(ss), i)]
  BY <1>8 DEF FlattenFrom
<1> QED BY <1>9

(* A flattened sequence has the elements of all its parts. *)
LEMMA RangeOfFlatten ==
  ASSUME NEW A, NEW ss \in Seq(Seq(A))
  PROVE  /\ FlattenSeq(ss) \in Seq(A)
         /\ Range(FlattenSeq(ss)) = UNION {Range(ss[n]) : n \in 1..Len(ss)}
<1>1. CASE Len(ss) = 0
  <2>1. FlattenSeq(ss) = << >> /\ ss = << >>
    BY <1>1, FlattenIsFlattenFrom
  <2>2. Range(FlattenSeq(ss)) = {}
    BY <2>1 DEF Range
  <2> QED BY <2>1, <2>2
<1>2. CASE Len(ss) # 0
  <2> DEFINE F == FlattenFrom(ss)
             Good == {n \in Nat : n + 1 \in 1..Len(ss) =>
                        /\ F[n + 1] \in Seq(A)
                        /\ Range(F[n + 1]) = UNION {Range(ss[m]) : m \in 1..(n + 1)}}
  <2>1. \A i \in 1..Len(ss) : F[i] = IF i = 1 THEN ss[i] ELSE F[i - 1] \o ss[i]
    BY FlattenFromDef
  <2>2. \A i \in 1..Len(ss) : ss[i] \in Seq(A)
    OBVIOUS
  <2> HIDE DEF F
  <2>3. 0 \in Good
    <3>1. 1 \in 1..Len(ss) => F[1] = ss[1]
      BY <2>1
    <3> QED BY <2>2, <3>1
  <2>4. ASSUME NEW n \in Nat, n \in Good PROVE n + 1 \in Good
    <3>1. SUFFICES ASSUME (n + 1) + 1 \in 1..Len(ss)
                   PROVE  /\ F[(n + 1) + 1] \in Seq(A)
                          /\ Range(F[(n + 1) + 1]) = UNION {Range(ss[m]) : m \in 1..((n + 1) + 1)}
      OBVIOUS
    <3>2. n + 1 \in 1..Len(ss) /\ (n + 1) + 1 # 1 /\ ((n + 1) + 1) - 1 = n + 1
      BY <3>1
    <3>3. /\ F[n + 1] \in Seq(A)
          /\ Range(F[n + 1]) = UNION {Range(ss[m]) : m \in 1..(n + 1)}
      BY <2>4, <3>2
    <3>4. F[(n + 1) + 1] = F[n + 1] \o ss[(n + 1) + 1]
      BY <2>1, <3>1, <3>2
    <3>5. /\ F[(n + 1) + 1] \in Seq(A)
          /\ Range(F[(n + 1) + 1]) = Range(F[n + 1]) \cup Range(ss[(n + 1) + 1])
      BY <2>2, <3>1, <3>3, <3>4, RangeOfConcat
    <3>6. 1..((n + 1) + 1) = (1..(n + 1)) \cup {(n + 1) + 1}
      OBVIOUS
    <3> QED BY <3>3, <3>5, <3>6
  <2>5. Len(ss) - 1 \in Nat /\ (Len(ss) - 1) + 1 = Len(ss) /\ Len(ss) \in 1..Len(ss)
    BY <1>2
  <2>6. Len(ss) - 1 \in Good
    <3> HIDE DEF Good
    <3> QED BY <2>3, <2>4, <2>5, NatInductionSet
  <2>7. FlattenSeq(ss) = F[Len(ss)]
    BY <1>2, FlattenIsFlattenFrom DEF F
  <2> QED BY <2>5, <2>6, <2>7
<1> QED BY <1>1, <1>2

LEMMA OnlyKeeps ==
  ASSUME NEW A, NEW s \in Seq(A), NEW S
  PROVE  Only(s, S) \in Seq(A) /\ Range(Only(s, S)) = Range(s) \cap S
<1> DEFINE ss == [n \in 1..Len(s) |-> When(s[n] \in S, <<s[n]>>)]
<1>1. \A n \in 1..Len(s) : When(s[n] \in S, <<s[n]>>) \in Seq(A)
  BY DEF When
<1>2. ss \in Seq(Seq(A)) /\ Len(ss) = Len(s)
  BY <1>1
<1>3. \A n \in 1..Len(s) : Range(ss[n]) = {s[n]} \cap S
  BY DEF When, Range
<1>4. /\ FlattenSeq(ss) \in Seq(A)
      /\ Range(FlattenSeq(ss)) = UNION {Range(ss[n]) : n \in 1..Len(s)}
  <2> HIDE DEF ss
  <2> QED BY <1>2, RangeOfFlatten
<1>5. /\ \A n \in 1..Len(s) : s[n] \in Range(s)
      /\ \A x \in Range(s) : \E n \in 1..Len(s) : x = s[n]
  BY RangeHas, RangeFrom
<1> HIDE DEF ss
<1>6. UNION {Range(ss[n]) : n \in 1..Len(s)} = Range(s) \cap S
  BY <1>3, <1>5
<1> QED BY <1>4, <1>6 DEF Only, ss

LEMMA HeadOfFlatten ==
  ASSUME NEW A, NEW ss \in Seq(Seq(A)), Len(ss) # 0, Len(ss[1]) # 0
  PROVE  Len(FlattenSeq(ss)) # 0 /\ Head(FlattenSeq(ss)) = Head(ss[1])
<1> DEFINE F == FlattenFrom(ss)
           h == Head(ss[1])
           Good == {n \in Nat : n + 1 \in 1..Len(ss) =>
                      F[n + 1] \in Seq(A) /\ Len(F[n + 1]) # 0 /\ Head(F[n + 1]) = h}
<1>1. \A i \in 1..Len(ss) : F[i] = IF i = 1 THEN ss[i] ELSE F[i - 1] \o ss[i]
  BY FlattenFromDef
<1>2. \A i \in 1..Len(ss) : ss[i] \in Seq(A)
  OBVIOUS
<1>3. 1 \in 1..Len(ss)
  OBVIOUS
<1>4. Len(ss[1]) # 0 /\ Head(ss[1]) = h
  OBVIOUS
<1>5. FlattenSeq(ss) = F[Len(ss)]
  BY FlattenIsFlattenFrom
<1>6. Len(ss) - 1 \in Nat /\ (Len(ss) - 1) + 1 = Len(ss) /\ Len(ss) \in 1..Len(ss)
  OBVIOUS
<1> HIDE DEF F, h
<1>7. 0 \in Good
  <2>1. F[1] = ss[1] /\ ss[1] \in Seq(A)
    BY <1>1, <1>2, <1>3
  <2>2. F[0 + 1] \in Seq(A) /\ Len(F[0 + 1]) # 0 /\ Head(F[0 + 1]) = h
    BY <1>4, <2>1
  <2> QED BY <2>2
<1>8. ASSUME NEW n \in Nat, n \in Good PROVE n + 1 \in Good
  <2>1. SUFFICES ASSUME (n + 1) + 1 \in 1..Len(ss)
                 PROVE  /\ F[(n + 1) + 1] \in Seq(A)
                        /\ Len(F[(n + 1) + 1]) # 0
                        /\ Head(F[(n + 1) + 1]) = h
    OBVIOUS
  <2>2. n + 1 \in 1..Len(ss) /\ (n + 1) + 1 # 1 /\ ((n + 1) + 1) - 1 = n + 1
    BY <2>1
  <2>3. F[n + 1] \in Seq(A) /\ Len(F[n + 1]) # 0 /\ Head(F[n + 1]) = h
    BY <1>8, <2>2
  <2>4. F[(n + 1) + 1] = F[n + 1] \o ss[(n + 1) + 1]
    BY <1>1, <2>1, <2>2
  <2>5. ss[(n + 1) + 1] \in Seq(A)
    BY <1>2, <2>1
  <2> DEFINE front == F[n + 1]
             next == ss[(n + 1) + 1]
  <2>6. /\ front \in Seq(A) /\ Len(front) # 0 /\ Head(front) = h /\ next \in Seq(A)
        /\ F[(n + 1) + 1] = front \o next
    BY <2>3, <2>4, <2>5
  <2> HIDE DEF front, next
  <2>7. front \o next \in Seq(A)
    BY <2>6, RangeOfConcat
  <2>8. Len(front \o next) # 0 /\ Head(front \o next) = h
    BY <2>6, HeadOfConcat
  <2> QED BY <2>6, <2>7, <2>8
<1>9. Len(ss) - 1 \in Good
  <2> HIDE DEF Good
  <2> QED BY <1>6, <1>7, <1>8, NatInductionSet
<1> QED BY <1>5, <1>6, <1>9 DEF h

LEMMA OnlyHead ==
  ASSUME NEW A, NEW s \in Seq(A), NEW S, Len(s) # 0, Head(s) \in S
  PROVE  Len(Only(s, S)) # 0 /\ Head(Only(s, S)) = Head(s)
<1> DEFINE ss == [n \in 1..Len(s) |-> When(s[n] \in S, <<s[n]>>)]
<1>1. \A n \in 1..Len(s) : When(s[n] \in S, <<s[n]>>) \in Seq(A)
  BY DEF When
<1>2. ss \in Seq(Seq(A)) /\ Len(ss) = Len(s)
  BY <1>1
<1>3. 1 \in 1..Len(s) /\ Head(s) = s[1]
  OBVIOUS
<1>4. ss[1] = <<s[1]>>
  BY <1>3 DEF When
<1>5. Len(ss[1]) = 1 /\ Head(ss[1]) = s[1]
  <2> HIDE DEF ss
  <2> QED BY <1>4
<1>6. Only(s, S) = FlattenSeq(ss)
  BY DEF Only
<1> HIDE DEF ss
<1>7. Len(FlattenSeq(ss)) # 0 /\ Head(FlattenSeq(ss)) = Head(ss[1])
  BY <1>2, <1>5, HeadOfFlatten
<1> QED BY <1>3, <1>5, <1>6, <1>7

(* A sequence has finitely many elements. *)
LEMMA FiniteRange ==
  ASSUME NEW A, NEW s \in Seq(A)
  PROVE  IsFiniteSet(Range(s))
<1>1. s \in Surjection(1..Len(s), Range(s))
  <2>1. \A n \in 1..Len(s) : s[n] \in Range(s)
    BY RangeHas
  <2>2. s \in [1..Len(s) -> Range(s)]
    <3>1. s \in [1..Len(s) -> A]
      OBVIOUS
    <3> QED BY <2>1, <3>1
  <2>3. \A x \in Range(s) : \E n \in 1..Len(s) : s[n] = x
    BY RangeFrom
  <2> QED BY <2>2, <2>3 DEF Surjection
<1>2. Len(s) \in Nat /\ IsFiniteSet(1..Len(s))
  BY FS_Interval
<1> QED BY <1>1, <1>2, FS_Surjection

(* Sequences in which nothing occurs twice. *)
LEMMA InjectiveConcat ==
  ASSUME NEW A, NEW s \in Seq(A), NEW t \in Seq(A),
         IsInjective(s), IsInjective(t), Range(s) \cap Range(t) = {}
  PROVE  s \o t \in Seq(A) /\ IsInjective(s \o t)
<1>1. Len(s) \in Nat /\ Len(t) \in Nat /\ s \o t \in Seq(A) /\ Len(s \o t) = Len(s) + Len(t)
  OBVIOUS
<1>2. \A n \in 1..(Len(s) + Len(t)) :
        (s \o t)[n] = IF n <= Len(s) THEN s[n] ELSE t[n - Len(s)]
  OBVIOUS
<1>3. /\ \A n \in 1..Len(s) : s[n] \in Range(s)
      /\ \A n \in 1..Len(t) : t[n] \in Range(t)
  BY RangeHas
<1>4. /\ \A m, n \in 1..Len(s) : s[m] = s[n] => m = n
      /\ \A m, n \in 1..Len(t) : t[m] = t[n] => m = n
  BY DEF IsInjective
<1>5. ASSUME NEW m \in 1..(Len(s) + Len(t)), NEW n \in 1..(Len(s) + Len(t)),
             (s \o t)[m] = (s \o t)[n]
      PROVE  m = n
  <2>1. CASE m <= Len(s) /\ n <= Len(s)
    <3>1. m \in 1..Len(s) /\ n \in 1..Len(s)
      BY <1>1, <2>1
    <3>2. s[m] = s[n]
      BY <1>2, <1>5, <2>1
    <3> QED BY <1>4, <3>1, <3>2
  <2>2. CASE m <= Len(s) /\ ~(n <= Len(s))
    <3>1. m \in 1..Len(s) /\ n - Len(s) \in 1..Len(t)
      BY <1>1, <2>2
    <3>2. s[m] = t[n - Len(s)]
      BY <1>2, <1>5, <2>2
    <3>3. s[m] \in Range(s) /\ t[n - Len(s)] \in Range(t)
      BY <1>3, <3>1
    <3> QED BY <3>2, <3>3
  <2>3. CASE ~(m <= Len(s)) /\ n <= Len(s)
    <3>1. n \in 1..Len(s) /\ m - Len(s) \in 1..Len(t)
      BY <1>1, <2>3
    <3>2. s[n] = t[m - Len(s)]
      BY <1>2, <1>5, <2>3
    <3>3. s[n] \in Range(s) /\ t[m - Len(s)] \in Range(t)
      BY <1>3, <3>1
    <3> QED BY <3>2, <3>3
  <2>4. CASE ~(m <= Len(s)) /\ ~(n <= Len(s))
    <3>1. m - Len(s) \in 1..Len(t) /\ n - Len(s) \in 1..Len(t)
      BY <1>1, <2>4
    <3>2. t[m - Len(s)] = t[n - Len(s)]
      BY <1>2, <1>5, <2>4
    <3>3. m - Len(s) = n - Len(s)
      BY <1>4, <3>1, <3>2
    <3> QED BY <1>1, <3>3
  <2> QED BY <2>1, <2>2, <2>3, <2>4
<1>6. DOMAIN (s \o t) = 1..(Len(s) + Len(t))
  BY <1>1
<1> HIDE DEF IsInjective
<1> QED BY <1>1, <1>5, <1>6 DEF IsInjective

(* A filter leaves it so. *)
LEMMA OnlyInjective ==
  ASSUME NEW A, NEW s \in Seq(A), IsInjective(s), NEW S
  PROVE  IsInjective(Only(s, S))
<1> DEFINE ss == [n \in 1..Len(s) |-> When(s[n] \in S, <<s[n]>>)]
           F == FlattenFrom(ss)
           Good == {n \in Nat : n + 1 \in 1..Len(s) =>
                      /\ F[n + 1] \in Seq(A) /\ IsInjective(F[n + 1])
                      /\ Range(F[n + 1]) \subseteq {s[m] : m \in 1..(n + 1)}}
<1>1. \A n \in 1..Len(s) : /\ ss[n] = << >> \/ ss[n] = <<s[n]>>
                           /\ s[n] \in A
  BY DEF When
<1>2. Len(ss) = Len(s) /\ Len(s) \in Nat
  OBVIOUS
<1>3. Only(s, S) = IF Len(s) = 0 THEN ss ELSE F[Len(s)]
  BY <1>2, FlattenIsFlattenFrom DEF Only
<1>4. CASE Len(s) = 0
  <2>1. Only(s, S) = ss /\ DOMAIN ss = {}
    BY <1>3, <1>4
  <2> QED BY <2>1 DEF IsInjective
<1>5. CASE Len(s) # 0
  <2>1. \A i \in 1..Len(s) : F[i] = IF i = 1 THEN ss[i] ELSE F[i - 1] \o ss[i]
    BY <1>2, FlattenFromDef
  <2> HIDE DEF F
  <2>2. ASSUME NEW n \in 1..Len(s)
        PROVE  /\ ss[n] \in Seq(A) /\ IsInjective(ss[n])
               /\ Range(ss[n]) \subseteq {s[n]}
    <3> HIDE DEF ss
    <3>1. CASE ss[n] = << >>
      BY <3>1 DEF IsInjective, Range
    <3>2. CASE ss[n] = <<s[n]>>
      <4>1. <<s[n]>> \in Seq(A)
        BY <1>1
      <4>2. DOMAIN <<s[n]>> = {1} /\ <<s[n]>>[1] = s[n]
        OBVIOUS
      <4> QED BY <3>2, <4>1, <4>2 DEF IsInjective, Range
    <3> QED BY <1>1, <3>1, <3>2
  <2> HIDE DEF ss
  <2>3. 0 \in Good
    <3>1. 1 \in 1..Len(s) /\ F[1] = ss[1]
      BY <1>2, <1>5, <2>1
    <3>2. /\ F[1] \in Seq(A) /\ IsInjective(F[1])
          /\ Range(F[1]) \subseteq {s[1]}
      BY <2>2, <3>1
    <3>3. s[1] \in {s[m] : m \in 1..(0 + 1)}
      OBVIOUS
    <3> QED BY <3>2, <3>3
  <2>4. ASSUME NEW n \in Nat, n \in Good PROVE n + 1 \in Good
    <3>1. SUFFICES ASSUME (n + 1) + 1 \in 1..Len(s)
                   PROVE  /\ F[(n + 1) + 1] \in Seq(A) /\ IsInjective(F[(n + 1) + 1])
                          /\ Range(F[(n + 1) + 1]) \subseteq {s[m] : m \in 1..((n + 1) + 1)}
      OBVIOUS
    <3> DEFINE k == (n + 1) + 1
               front == F[n + 1]
    <3>2. n + 1 \in 1..Len(s) /\ k # 1 /\ k - 1 = n + 1 /\ k \in 1..Len(s)
      BY <3>1
    <3>3. /\ front \in Seq(A) /\ IsInjective(front)
          /\ Range(front) \subseteq {s[m] : m \in 1..(n + 1)}
      BY <2>4, <3>2
    <3>4. F[k] = front \o ss[k]
      BY <2>1, <3>2
    <3>5. \A m \in 1..(n + 1) : s[m] # s[k]
      BY <3>2 DEF IsInjective
    <3>6. Range(front) \cap Range(ss[k]) = {}
      BY <2>2, <3>2, <3>3, <3>5
    <3>7. ss[k] \in Seq(A) /\ IsInjective(ss[k]) /\ Range(ss[k]) \subseteq {s[k]}
      BY <2>2, <3>2
    <3> HIDE DEF front, k
    <3>8. front \o ss[k] \in Seq(A) /\ IsInjective(front \o ss[k])
      BY <3>3, <3>6, <3>7, InjectiveConcat
    <3>9. Range(front \o ss[k]) = Range(front) \cup Range(ss[k])
      BY <3>3, <3>7, RangeOfConcat
    <3>10. 1..k = (1..(n + 1)) \cup {k}
      BY DEF k
    <3> QED BY <3>3, <3>4, <3>7, <3>8, <3>9, <3>10 DEF k
  <2>5. Len(s) - 1 \in Nat /\ (Len(s) - 1) + 1 = Len(s) /\ Len(s) \in 1..Len(s)
    BY <1>2, <1>5
  <2>6. Len(s) - 1 \in Good
    <3> HIDE DEF Good
    <3> QED BY <2>3, <2>4, <2>5, NatInductionSet
  <2> QED BY <1>3, <1>5, <2>5, <2>6
<1> QED BY <1>4, <1>5

=============================================================================

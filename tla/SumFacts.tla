------------------------------- MODULE SumFacts -------------------------------
(***************************************************************************)
(* What the sums of the models are: SumFunctionOnSet(F, S) of the          *)
(* community module Functions adds F[x] for x in S, one chosen element     *)
(* after the other.  The facts below hold for every finite set; each is    *)
(* proved by taking a smallest set for which it would fail.                *)
(***************************************************************************)
EXTENDS Integers, Functions, FiniteSetTheorems, TLAPS

(* The element a sum takes next, and what it leaves. *)
NextTerm(s) == CHOOSE x \in s : TRUE

RestTerms(s) == s \ {NextTerm(s)}

(* g gives the sums of F over the subsets of S. *)
IsSums(F, S, g) ==
    g = [s \in SUBSET S |-> IF s = {} THEN 0 ELSE F[NextTerm(s)] + g[RestTerms(s)]]

Integral(F, S) == \A x \in S : F[x] \in Int

-----------------------------------------------------------------------------

(* Of any sets some are smallest. *)
LEMMA SmallestSet ==
    ASSUME NEW S, IsFiniteSet(S), NEW C \in SUBSET (SUBSET S), C # {}
    PROVE  \E T \in C : \A U \in C : U \subseteq T => U = T
<1>1. C \subseteq FiniteSubsetsOf(S)
    BY FS_Subset DEF FiniteSubsetsOf
<1>2. IsWellFoundedOn(StrictSubsetOrdering(S), FiniteSubsetsOf(S))
    BY FS_StrictSubsetOrderingWellFounded
<1>3. PICK T \in C : \A U \in C : ~ (<<U, T>> \in StrictSubsetOrdering(S))
    BY <1>1, <1>2, WFMin
<1>4. \A U \in C : U \subseteq T /\ U # T => <<U, T>> \in StrictSubsetOrdering(S)
    BY DEF StrictSubsetOrdering
<1>5. \A U \in C : U \subseteq T => U = T
    BY <1>3, <1>4, Zenon
<1> QED BY <1>5, Zenon

LEMMA RestSmaller ==
    ASSUME NEW s, s # {}
    PROVE  NextTerm(s) \in s /\ RestTerms(s) \subseteq s /\ RestTerms(s) # s
BY DEF NextTerm, RestTerms

(* The sums over the subsets of T agree with those over the subsets of U. *)
LEMMA SumsAgree ==
    ASSUME NEW S, IsFiniteSet(S), NEW T \in SUBSET S, NEW U \in SUBSET S, NEW F, NEW g, NEW h,
           IsSums(F, T, g), IsSums(F, U, h), NEW s, s \subseteq T, s \subseteq U
    PROVE  g[s] = h[s]
<1> DEFINE Bad == {r \in SUBSET S : r \subseteq T /\ r \subseteq U /\ g[r] # h[r]}
<1> SUFFICES ASSUME Bad # {} PROVE FALSE
    OBVIOUS
<1>1. PICK r \in Bad : \A q \in Bad : q \subseteq r => q = r
    <2>1. Bad \in SUBSET (SUBSET S)
        OBVIOUS
    <2> HIDE DEF Bad
    <2> QED BY <2>1, SmallestSet
<1>2. r # {}
    BY <1>1 DEF IsSums
<1>3. g[RestTerms(r)] = h[RestTerms(r)]
    BY <1>1, <1>2, RestSmaller
<1>4. g[r] = F[NextTerm(r)] + g[RestTerms(r)] /\ h[r] = F[NextTerm(r)] + h[RestTerms(r)]
    BY <1>1, <1>2 DEF IsSums
<1> QED BY <1>1, <1>3, <1>4

(* There are such sums: those over smaller sets make those over T. *)
LEMMA SumsExist ==
    ASSUME NEW S, IsFiniteSet(S), NEW F, Integral(F, S)
    PROVE  \E g \in [SUBSET S -> Int] : IsSums(F, S, g)
<1> DEFINE Has(T) == \E g \in [SUBSET T -> Int] : IsSums(F, T, g)
           Bad == {T \in SUBSET S : ~Has(T)}
<1> SUFFICES ASSUME Bad # {} PROVE FALSE
    OBVIOUS
<1>1. PICK T \in Bad : \A U \in Bad : U \subseteq T => U = T
    <2>1. Bad \in SUBSET (SUBSET S)
        OBVIOUS
    <2> HIDE DEF Bad
    <2> QED BY <2>1, SmallestSet
<1> DEFINE G(U) == CHOOSE g \in [SUBSET U -> Int] : IsSums(F, U, g)
           f == [s \in SUBSET T |->
                   IF s = {} THEN 0 ELSE F[NextTerm(s)] + G(RestTerms(s))[RestTerms(s)]]
<1>2. \A U \in SUBSET T : U # T => Has(U)
    BY <1>1
<1>3. ASSUME NEW U \in SUBSET T, U # T
      PROVE  G(U) \in [SUBSET U -> Int] /\ IsSums(F, U, G(U))
    BY <1>2, <1>3
<1>4. f \in [SUBSET T -> Int]
    <2>0. SUFFICES \A s \in SUBSET T :
                       s # {} => F[NextTerm(s)] + G(RestTerms(s))[RestTerms(s)] \in Int
        <3> HIDE DEF G
        <3> QED BY <2>0
    <2> TAKE s \in SUBSET T
    <2> HAVE s # {}
    <2>1. NextTerm(s) \in s /\ RestTerms(s) \in SUBSET T /\ RestTerms(s) # T
        BY RestSmaller
    <2>2. F[NextTerm(s)] \in Int
        BY <2>1, <1>1 DEF Integral
    <2>3. G(RestTerms(s)) \in [SUBSET RestTerms(s) -> Int]
        BY <1>3, <2>1
    <2> HIDE DEF G
    <2> QED BY <2>2, <2>3
<1>5. ASSUME NEW s \in SUBSET T, s # {}
      PROVE  f[RestTerms(s)] = G(RestTerms(s))[RestTerms(s)]
    <2> DEFINE r == RestTerms(s)
    <2>1. r \in SUBSET T /\ r # T
        BY <1>5, RestSmaller
    <2>2. IsSums(F, r, G(r))
        BY <1>3, <2>1
    <2>3. CASE r = {}
        <3>1. f[r] = 0
            BY <2>1, <2>3
        <3>2. G(r)[r] = 0
            BY <2>2, <2>3 DEF IsSums
        <3> QED BY <3>1, <3>2
    <2>4. CASE r # {}
        <3>1. /\ NextTerm(r) \in r
              /\ RestTerms(r) \in SUBSET r /\ RestTerms(r) # T /\ RestTerms(r) \in SUBSET T
            BY <2>1, <2>4, RestSmaller
        <3>2. IsSums(F, RestTerms(r), G(RestTerms(r)))
            BY <1>3, <3>1
        <3>3. f[r] = F[NextTerm(r)] + G(RestTerms(r))[RestTerms(r)]
            BY <2>1, <2>4
        <3> HIDE DEF G, f
        <3>4. G(r)[r] = F[NextTerm(r)] + G(r)[RestTerms(r)]
            BY <2>2, <2>4 DEF IsSums
        <3> HIDE DEF r
        <3>5. r \in SUBSET S /\ RestTerms(r) \in SUBSET S /\ RestTerms(r) \subseteq r
            BY <1>1, <2>1, <3>1
        <3>6. G(r)[RestTerms(r)] = G(RestTerms(r))[RestTerms(r)]
            BY <2>2, <3>2, <3>5, SumsAgree
        <3> QED BY <3>3, <3>4, <3>6 DEF r
    <2> QED BY <2>3, <2>4
<1>6. IsSums(F, T, f)
    <2>0. \A s \in SUBSET T : s # {} => f[RestTerms(s)] = G(RestTerms(s))[RestTerms(s)]
        BY <1>5, Zenon
    <2>1. f = [s \in SUBSET T |-> IF s = {} THEN 0 ELSE F[NextTerm(s)] + f[RestTerms(s)]]
        <3> HIDE DEF G
        <3> DEFINE h == [s \in SUBSET T |-> IF s = {} THEN 0 ELSE F[NextTerm(s)] + f[RestTerms(s)]]
        <3>1. \A s \in SUBSET T : f[s] = h[s]
            BY <2>0
        <3> QED BY <3>1
    <2> HIDE DEF f
    <2> QED BY <2>1 DEF IsSums
<1> HIDE DEF f
<1> QED BY <1>1, <1>4, <1>6

-----------------------------------------------------------------------------

(* The sum chooses such sums, if there are any. *)
LEMMA SumChooses ==
    ASSUME NEW F, NEW S, NEW h, IsSums(F, S, h)
    PROVE  \E g : SumFunctionOnSet(F, S) = g[S] /\ IsSums(F, S, g)
<1> DEFINE Written(g) == g = [s \in SUBSET S |->
                IF s = {} THEN 0 ELSE F[CHOOSE x \in s : TRUE] + g[s \ {CHOOSE x \in s : TRUE}]]
<1>1. Written(h)
    BY DEF IsSums, NextTerm, RestTerms
<1>2. SumFunctionOnSet(F, S) = (CHOOSE g : Written(g))[S]
    BY DEF SumFunctionOnSet, FoldFunctionOnSet, MapThenFoldSet
<1> DEFINE k == CHOOSE g : Written(g)
<1>3. Written(k)
    <2> HIDE DEF Written
    <2> QED BY <1>1 DEF k
<1>4. IsSums(F, S, k)
    <2> HIDE DEF k
    <2> QED BY <1>3 DEF IsSums, NextTerm, RestTerms
<1> HIDE DEF Written
<1> QED BY <1>2, <1>4

(* Whatever gives the sums over the subsets of S gives the sum over each. *)
LEMMA SumGiven ==
    ASSUME NEW S, IsFiniteSet(S), NEW F, Integral(F, S), NEW g, IsSums(F, S, g),
           NEW T \in SUBSET S
    PROVE  SumFunctionOnSet(F, T) = g[T]
<1>1. IsFiniteSet(T) /\ Integral(F, T)
    BY FS_Subset DEF Integral
<1>2. \E h : IsSums(F, T, h)
    BY <1>1, SumsExist
<1>3. \E k : SumFunctionOnSet(F, T) = k[T] /\ IsSums(F, T, k)
    BY <1>2, SumChooses
<1> PICK k : SumFunctionOnSet(F, T) = k[T] /\ IsSums(F, T, k)
    BY <1>3
<1>4. k[T] = g[T]
    BY SumsAgree
<1> QED BY <1>4

(* A sum of integers is one, nothing adds up to 0, and a sum takes the     *)
(* next element first.                                                     *)
LEMMA SumUnfolds ==
    ASSUME NEW S, IsFiniteSet(S), NEW F, Integral(F, S)
    PROVE  /\ SumFunctionOnSet(F, S) \in Int
           /\ S = {} => SumFunctionOnSet(F, S) = 0
           /\ S # {} => SumFunctionOnSet(F, S) = F[NextTerm(S)] + SumFunctionOnSet(F, RestTerms(S))
<1>0. PICK g \in [SUBSET S -> Int] : IsSums(F, S, g)
    BY SumsExist
<1>1. \A T \in SUBSET S : SumFunctionOnSet(F, T) = g[T]
    BY <1>0, SumGiven
<1>2. SumFunctionOnSet(F, S) = g[S] /\ g[S] \in Int
    BY <1>1
<1>3. CASE S = {}
    BY <1>0, <1>2, <1>3 DEF IsSums
<1>4. CASE S # {}
    <2>1. RestTerms(S) \in SUBSET S
        BY <1>4, RestSmaller
    <2>2. SumFunctionOnSet(F, RestTerms(S)) = g[RestTerms(S)]
        BY <1>1, <2>1
    <2>3. g[S] = F[NextTerm(S)] + g[RestTerms(S)]
        BY <1>0, <1>4 DEF IsSums
    <2> QED BY <1>2, <1>4, <2>2, <2>3
<1> QED BY <1>3, <1>4

(* The order of a sum does not matter: any element can be taken first. *)
LEMMA SumTakes ==
    ASSUME NEW S, IsFiniteSet(S), NEW F, Integral(F, S), NEW x \in S
    PROVE  SumFunctionOnSet(F, S) = F[x] + SumFunctionOnSet(F, S \ {x})
<1> DEFINE Sum(T) == SumFunctionOnSet(F, T)
           Bad == {T \in SUBSET S : \E y \in T : Sum(T) # F[y] + Sum(T \ {y})}
<1>0. ASSUME NEW T \in SUBSET S
      PROVE  /\ Sum(T) \in Int
             /\ T # {} => NextTerm(T) \in T /\ Sum(T) = F[NextTerm(T)] + Sum(T \ {NextTerm(T)})
    <2>1. IsFiniteSet(T) /\ Integral(F, T)
        BY FS_Subset DEF Integral
    <2> QED BY <2>1, SumUnfolds, RestSmaller DEF RestTerms
<1> HIDE DEF Sum
<1> SUFFICES ASSUME Bad # {} PROVE FALSE
    BY DEF Sum
<1>1. PICK T \in Bad : \A U \in Bad : U \subseteq T => U = T
    <2>1. Bad \in SUBSET (SUBSET S)
        OBVIOUS
    <2> HIDE DEF Bad
    <2> QED BY <2>1, SmallestSet
<1>2. PICK y \in T : Sum(T) # F[y] + Sum(T \ {y})
    BY <1>1
<1> DEFINE n == NextTerm(T)
<1>3. T \in SUBSET S /\ n \in T /\ Sum(T) = F[n] + Sum(T \ {n})
    BY <1>0, <1>1, <1>2
<1> HIDE DEF n
<1>4. y # n
    BY <1>2, <1>3
<1>5. T \ {n} \in SUBSET S /\ T \ {n} \notin Bad
    BY <1>1, <1>3
<1>6. T \ {y} \in SUBSET S /\ T \ {y} \notin Bad
    BY <1>1, <1>2, <1>3
<1>7. Sum(T \ {n}) = F[y] + Sum((T \ {n}) \ {y})
    BY <1>2, <1>4, <1>5
<1>8. Sum(T \ {y}) = F[n] + Sum((T \ {y}) \ {n})
    BY <1>3, <1>4, <1>6
<1>9. (T \ {n}) \ {y} = (T \ {y}) \ {n} /\ (T \ {n}) \ {y} \in SUBSET S
    BY <1>5
<1>10. F[y] \in Int /\ F[n] \in Int /\ Sum((T \ {n}) \ {y}) \in Int
    BY <1>0, <1>2, <1>3, <1>9 DEF Integral
<1> DEFINE both == Sum((T \ {n}) \ {y})
<1>11. /\ Sum(T) = F[n] + Sum(T \ {n}) /\ Sum(T \ {n}) = F[y] + both
       /\ Sum(T \ {y}) = F[n] + both
    BY <1>3, <1>7, <1>8, <1>9
<1>12. F[y] \in Int /\ F[n] \in Int /\ both \in Int
    BY <1>10
<1> HIDE DEF Bad, both
<1>13. F[n] + (F[y] + both) = F[y] + (F[n] + both)
    BY <1>12
<1> QED BY <1>2, <1>11, <1>13, Zenon

(* A sum with an element added. *)
LEMMA SumAdds ==
    ASSUME NEW S, IsFiniteSet(S), NEW x, x \notin S, NEW F, Integral(F, S \cup {x})
    PROVE  SumFunctionOnSet(F, S \cup {x}) = F[x] + SumFunctionOnSet(F, S)
<1>1. IsFiniteSet(S \cup {x})
    BY FS_AddElement
<1>2. (S \cup {x}) \ {x} = S /\ x \in S \cup {x}
    OBVIOUS
<1> QED BY <1>1, <1>2, SumTakes

(* What is not negative adds up to no less for more elements. *)
LEMMA SumMonotone ==
    ASSUME NEW S, IsFiniteSet(S), NEW F, Integral(F, S), \A x \in S : F[x] >= 0,
           NEW T \in SUBSET S
    PROVE  /\ SumFunctionOnSet(F, T) \in Nat
           /\ SumFunctionOnSet(F, T) <= SumFunctionOnSet(F, S)
<1> DEFINE Sum(U) == SumFunctionOnSet(F, U)
           Bad == {U \in SUBSET S : ~ (Sum(U) >= 0 /\ \A V \in SUBSET U : Sum(V) <= Sum(U))}
<1>0. ASSUME NEW U \in SUBSET S
      PROVE  /\ Sum(U) \in Int
             /\ U = {} => Sum(U) = 0
             /\ \A x \in U : Sum(U) = F[x] + Sum(U \ {x})
    <2>1. IsFiniteSet(U) /\ Integral(F, U)
        BY FS_Subset DEF Integral
    <2>2. Sum(U) \in Int /\ (U = {} => Sum(U) = 0)
        BY <2>1, SumUnfolds
    <2>3. \A x \in U : Sum(U) = F[x] + Sum(U \ {x})
        BY <2>1, SumTakes
    <2> QED BY <2>2, <2>3
<1> HIDE DEF Sum
<1>a. Bad = {}
    <2> SUFFICES ASSUME Bad # {} PROVE FALSE
        OBVIOUS
    <2>1. PICK U \in Bad : \A V \in Bad : V \subseteq U => V = U
        <3>1. Bad \in SUBSET (SUBSET S)
            OBVIOUS
        <3> HIDE DEF Bad
        <3> QED BY <3>1, SmallestSet
    <2>2. \A x \in U : /\ F[x] \in Int /\ F[x] >= 0
                       /\ Sum(U) = F[x] + Sum(U \ {x})
                       /\ Sum(U \ {x}) \in Int /\ Sum(U \ {x}) >= 0
                       /\ \A V \in SUBSET (U \ {x}) : Sum(V) <= Sum(U \ {x})
        <3> SUFFICES ASSUME NEW x \in U
                     PROVE  /\ F[x] \in Int /\ F[x] >= 0
                            /\ Sum(U) = F[x] + Sum(U \ {x})
                            /\ Sum(U \ {x}) \in Int /\ Sum(U \ {x}) >= 0
                            /\ \A V \in SUBSET (U \ {x}) : Sum(V) <= Sum(U \ {x})
            OBVIOUS
        <3>1. U \ {x} \in SUBSET S /\ U \ {x} \notin Bad
            BY <2>1
        <3>2. F[x] \in Int /\ F[x] >= 0
            BY DEF Integral
        <3> QED BY <1>0, <3>1, <3>2
    <2>3. Sum(U) >= 0
        <3>1. CASE U = {}
            BY <1>0, <3>1
        <3>2. CASE U # {}
            <4>1. PICK x \in U : TRUE
                BY <3>2
            <4>2. /\ F[x] \in Int /\ F[x] >= 0 /\ Sum(U) = F[x] + Sum(U \ {x})
                  /\ Sum(U \ {x}) \in Int /\ Sum(U \ {x}) >= 0
                BY <2>2
            <4> HIDE DEF Bad
            <4> QED BY <4>2
        <3> QED BY <3>1, <3>2
    <2>4. ASSUME NEW V \in SUBSET U PROVE Sum(V) <= Sum(U)
        <3>1. CASE V = U
            BY <1>0, <3>1
        <3>2. CASE V # U
            <4>1. PICK x \in U : x \notin V
                BY <3>2
            <4>2. V \in SUBSET (U \ {x}) /\ V \in SUBSET S
                BY <4>1
            <4>3. Sum(V) \in Int
                BY <1>0, <4>2
            <4>4. Sum(V) <= Sum(U \ {x})
                BY <2>2, <4>2
            <4>5. /\ F[x] \in Int /\ F[x] >= 0 /\ Sum(U) = F[x] + Sum(U \ {x})
                  /\ Sum(U \ {x}) \in Int
                BY <2>2
            <4> HIDE DEF Bad
            <4> QED BY <4>3, <4>4, <4>5
        <3> QED BY <3>1, <3>2
    <2> QED BY <2>1, <2>3, <2>4
<1>b. T \notin Bad /\ S \notin Bad
    BY <1>a
<1> QED BY <1>0, <1>b DEF Sum

(* Sums over sets that share no element add up to the sum over both. *)
LEMMA SumOfUnion ==
    ASSUME NEW S, IsFiniteSet(S), NEW T, IsFiniteSet(T), S \cap T = {},
           NEW F, Integral(F, S \cup T)
    PROVE  SumFunctionOnSet(F, S \cup T) = SumFunctionOnSet(F, S) + SumFunctionOnSet(F, T)
<1> DEFINE Sum(U) == SumFunctionOnSet(F, U)
           Bad == {U \in SUBSET T : Sum(S \cup U) # Sum(S) + Sum(U)}
<1>0. ASSUME NEW U \in SUBSET (S \cup T)
      PROVE  /\ IsFiniteSet(U) /\ Integral(F, U) /\ Sum(U) \in Int
             /\ U = {} => Sum(U) = 0
    <2>1. IsFiniteSet(U) /\ Integral(F, U)
        BY FS_Union, FS_Subset DEF Integral
    <2> QED BY <2>1, SumUnfolds
<1> SUFFICES ASSUME Bad # {} PROVE FALSE
    OBVIOUS
<1>1. PICK U \in Bad : \A V \in Bad : V \subseteq U => V = U
    <2>1. Bad \in SUBSET (SUBSET T)
        OBVIOUS
    <2> HIDE DEF Bad
    <2> QED BY <2>1, FS_Subset, SmallestSet
<1>2. U \in SUBSET T /\ Sum(S \cup U) # Sum(S) + Sum(U)
    BY <1>1
<1>3. CASE U = {}
    <2>1. S \cup U = S /\ S \in SUBSET (S \cup T) /\ U \in SUBSET (S \cup T)
        BY <1>3
    <2>2. Sum(S) \in Int /\ Sum(U) = 0
        BY <1>0, <1>3, <2>1
    <2>3. Sum(S \cup U) = Sum(S)
        BY <2>1, Zenon
    <2> HIDE DEF Sum
    <2> QED BY <1>2, <2>2, <2>3
<1>4. CASE U # {}
    <2>1. PICK x \in U : TRUE
        BY <1>4
    <2> DEFINE V == U \ {x}
    <2>2. V \in SUBSET T /\ V \notin Bad
        BY <1>1, <1>2, <2>1
    <2>3. /\ S \cup V \in SUBSET (S \cup T) /\ V \in SUBSET (S \cup T) /\ U \in SUBSET (S \cup T)
          /\ S \in SUBSET (S \cup T)
          /\ S \cup U = (S \cup V) \cup {x} /\ x \notin S \cup V
          /\ U = V \cup {x} /\ x \notin V
        BY <1>2, <2>1
    <2>4. /\ IsFiniteSet(S \cup V) /\ IsFiniteSet(V) /\ F[x] \in Int
          /\ Integral(F, (S \cup V) \cup {x}) /\ Integral(F, V \cup {x})
          /\ Sum(S) \in Int /\ Sum(V) \in Int
        BY <1>0, <1>2, <2>1, <2>3 DEF Integral
    <2>5. /\ Sum(S \cup U) = F[x] + Sum(S \cup V)
          /\ Sum(U) = F[x] + Sum(V)
        BY <2>3, <2>4, SumAdds
    <2>6. Sum(S \cup V) = Sum(S) + Sum(V)
        BY <2>2
    <2> HIDE DEF Sum, V
    <2> QED BY <1>2, <2>4, <2>5, <2>6
<1> QED BY <1>3, <1>4

(* A sum depends on the terms only. *)
LEMMA SumOfEqual ==
    ASSUME NEW S, IsFiniteSet(S), NEW F, NEW G, Integral(F, S),
           \A x \in S : F[x] = G[x]
    PROVE  SumFunctionOnSet(F, S) = SumFunctionOnSet(G, S)
<1> DEFINE Bad == {T \in SUBSET S : SumFunctionOnSet(F, T) # SumFunctionOnSet(G, T)}
<1> SUFFICES ASSUME Bad # {} PROVE FALSE
    OBVIOUS
<1>1. PICK T \in Bad : \A U \in Bad : U \subseteq T => U = T
    <2>1. Bad \in SUBSET (SUBSET S)
        OBVIOUS
    <2> HIDE DEF Bad
    <2> QED BY <2>1, SmallestSet
<1>2. IsFiniteSet(T) /\ Integral(F, T) /\ Integral(G, T)
    BY FS_Subset DEF Integral
<1>3. T # {}
    BY <1>1, <1>2, SumUnfolds
<1>4. NextTerm(T) \in T /\ RestTerms(T) \subseteq T /\ RestTerms(T) # T
    BY <1>3, RestSmaller
<1>5. SumFunctionOnSet(F, RestTerms(T)) = SumFunctionOnSet(G, RestTerms(T))
    BY <1>1, <1>4
<1>6. /\ SumFunctionOnSet(F, T) = F[NextTerm(T)] + SumFunctionOnSet(F, RestTerms(T))
      /\ SumFunctionOnSet(G, T) = G[NextTerm(T)] + SumFunctionOnSet(G, RestTerms(T))
    BY <1>2, <1>3, SumUnfolds
<1>7. F[NextTerm(T)] = G[NextTerm(T)]
    BY <1>4
<1> QED BY <1>1, <1>5, <1>6, <1>7

(* Where all but the elements of T count nothing, T gives the sum. *)
LEMMA SumOfSome ==
    ASSUME NEW S, IsFiniteSet(S), NEW F, Integral(F, S), NEW T \in SUBSET S,
           \A x \in S \ T : F[x] = 0
    PROVE  SumFunctionOnSet(F, S) = SumFunctionOnSet(F, T)
<1> DEFINE Sum(U) == SumFunctionOnSet(F, U)
           Bad == {U \in SUBSET S : T \subseteq U /\ Sum(U) # Sum(T)}
<1> SUFFICES ASSUME Bad # {} PROVE FALSE
    OBVIOUS
<1>1. PICK U \in Bad : \A V \in Bad : V \subseteq U => V = U
    <2>1. Bad \in SUBSET (SUBSET S)
        OBVIOUS
    <2> HIDE DEF Bad
    <2> QED BY <2>1, SmallestSet
<1>2. PICK x \in U : x \notin T
    <2>1. U # T /\ T \subseteq U
        BY <1>1
    <2> HIDE DEF Bad
    <2> QED BY <2>1
<1>3. IsFiniteSet(U) /\ Integral(F, U)
    BY FS_Subset DEF Integral
<1>4. Sum(U) = F[x] + Sum(U \ {x})
    BY <1>3, SumTakes
<1>5. F[x] = 0
    BY <1>2
<1>6. U \ {x} \in SUBSET S /\ IsFiniteSet(U \ {x}) /\ Integral(F, U \ {x})
    BY <1>3, FS_Subset DEF Integral
<1>7. Sum(U \ {x}) \in Int
    BY <1>6, SumUnfolds
<1>8. Sum(U \ {x}) = Sum(T)
    BY <1>1, <1>2, <1>6
<1> QED BY <1>1, <1>4, <1>5, <1>7, <1>8

(* Sums add up term by term. *)
LEMMA SumOfSums ==
    ASSUME NEW S, IsFiniteSet(S), NEW F, NEW G, NEW H, Integral(F, S), Integral(G, S),
           \A x \in S : H[x] = F[x] + G[x]
    PROVE  SumFunctionOnSet(H, S) = SumFunctionOnSet(F, S) + SumFunctionOnSet(G, S)
<1> DEFINE Bad == {T \in SUBSET S : SumFunctionOnSet(H, T) #
                                       SumFunctionOnSet(F, T) + SumFunctionOnSet(G, T)}
<1> SUFFICES ASSUME Bad # {} PROVE FALSE
    OBVIOUS
<1>1. PICK T \in Bad : \A U \in Bad : U \subseteq T => U = T
    <2>1. Bad \in SUBSET (SUBSET S)
        OBVIOUS
    <2> HIDE DEF Bad
    <2> QED BY <2>1, SmallestSet
<1>2. IsFiniteSet(T) /\ Integral(F, T) /\ Integral(G, T) /\ Integral(H, T)
    BY FS_Subset DEF Integral
<1>3. T # {}
    BY <1>1, <1>2, SumUnfolds
<1> DEFINE n == NextTerm(T)
           R == RestTerms(T)
<1>4. n \in T /\ R \subseteq T /\ R # T
    BY <1>3, RestSmaller
<1>5. IsFiniteSet(R) /\ Integral(F, R) /\ Integral(G, R)
    BY <1>2, <1>4, FS_Subset DEF Integral
<1>6. SumFunctionOnSet(H, R) = SumFunctionOnSet(F, R) + SumFunctionOnSet(G, R)
    BY <1>1, <1>4
<1>7. /\ SumFunctionOnSet(F, T) = F[n] + SumFunctionOnSet(F, R)
      /\ SumFunctionOnSet(G, T) = G[n] + SumFunctionOnSet(G, R)
      /\ SumFunctionOnSet(H, T) = H[n] + SumFunctionOnSet(H, R)
    BY <1>2, <1>3, SumUnfolds
<1>8. SumFunctionOnSet(F, R) \in Int /\ SumFunctionOnSet(G, R) \in Int
    BY <1>5, SumUnfolds
<1>9. F[n] \in Int /\ G[n] \in Int /\ H[n] = F[n] + G[n]
    BY <1>2, <1>4 DEF Integral
<1>10. SumFunctionOnSet(H, T) # SumFunctionOnSet(F, T) + SumFunctionOnSet(G, T)
    BY <1>1
<1> HIDE DEF Bad, n, R
<1> QED BY <1>6, <1>7, <1>8, <1>9, <1>10

-----------------------------------------------------------------------------

(* Of finitely many things one is the greatest. *)
LEMMA GreatestExists ==
    ASSUME NEW S, IsFiniteSet(S), S # {}, NEW F, Integral(F, S)
    PROVE  \E x \in S : \A y \in S : F[y] <= F[x]
<1> DEFINE Bad == {T \in SUBSET S : T # {} /\ ~ \E x \in T : \A y \in T : F[y] <= F[x]}
<1> SUFFICES ASSUME Bad # {} PROVE FALSE
    OBVIOUS
<1>1. PICK T \in Bad : \A U \in Bad : U \subseteq T => U = T
    <2>1. Bad \in SUBSET (SUBSET S)
        OBVIOUS
    <2> HIDE DEF Bad
    <2> QED BY <2>1, SmallestSet
<1>2. PICK z \in T : TRUE
    BY <1>1
<1>3. \A x \in T : F[x] \in Int
    BY DEF Integral
<1>4. CASE T \ {z} = {}
    <2>1. \A y \in T : F[y] <= F[z]
        BY <1>2, <1>3, <1>4
    <2> QED BY <1>1, <2>1
<1>5. CASE T \ {z} # {}
    <2>1. T \ {z} \notin Bad
        BY <1>1, <1>2
    <2>2. PICK x \in T \ {z} : \A y \in T \ {z} : F[y] <= F[x]
        BY <1>5, <2>1
    <2>3. CASE F[z] <= F[x]
        <3>1. \A y \in T : F[y] <= F[x]
            BY <2>2, <2>3
        <3> QED BY <1>1, <3>1
    <2>4. CASE ~ (F[z] <= F[x])
        <3>1. \A y \in T : F[y] <= F[z]
            BY <1>2, <1>3, <2>2, <2>4
        <3> QED BY <1>1, <1>2, <3>1
    <2> QED BY <2>3, <2>4
<1> QED BY <1>4, <1>5
===============================================================================

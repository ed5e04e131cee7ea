----------------------------- MODULE SumLemmas -------------------------------
(***************************************************************************)
(* Facts about SumFunctionOnSet, the sum of a function over a finite set   *)
(* of indices, and about the maximum of a finite set of integers.          *)
(*                                                                         *)
(* The library states induction over finite sets with an operator as its   *)
(* parameter.  Here the same argument is made with sets: of all subsets    *)
(* for which a claim fails there is a smallest one (SmallestSubset).       *)
(***************************************************************************)
EXTENDS FiniteSetsExt, FiniteSetTheorems, WellFoundedInduction, TLAPS

\* Of the members of a nonempty family of subsets of a finite set, one has no
\* other member below it.
LEMMA SmallestSubset ==
    ASSUME NEW S, IsFiniteSet(S), NEW F \in SUBSET SUBSET S, F # {}
    PROVE  \E x \in F : \A y \in F : y \subseteq x => y = x
<1>1. F \subseteq FiniteSubsetsOf(S)
    BY FS_Subset DEF FiniteSubsetsOf
<1>2. IsWellFoundedOn(StrictSubsetOrdering(S), FiniteSubsetsOf(S))
    BY FS_StrictSubsetOrderingWellFounded
<1>3. PICK x \in F : \A y \in F : ~(<<y, x>> \in StrictSubsetOrdering(S))
    BY <1>1, <1>2, WFMin
<1>4. ASSUME NEW y \in F, y \subseteq x PROVE y = x
    BY <1>3, <1>4 DEF StrictSubsetOrdering
<1> QED BY <1>4

-----------------------------------------------------------------------------
(* The recursion behind SumFunctionOnSet has exactly one solution.         *)

PickIndex(s) == CHOOSE x \in s : TRUE

SolvesSum(g, f, S) ==
    g = [s \in SUBSET S |-> IF s = {} THEN 0 ELSE f[PickIndex(s)] + g[s \ {PickIndex(s)}]]

\* The index taken out first is one of the indices.
LEMMA PickMember == ASSUME NEW s, s # {} PROVE PickIndex(s) \in s
BY DEF PickIndex

\* The community operator is the chosen solution of the recursion.
LEMMA SumIsSolution ==
    ASSUME NEW f, NEW S
    PROVE  SumFunctionOnSet(f, S) = (CHOOSE g : SolvesSum(g, f, S))[S]
BY DEF SumFunctionOnSet, FoldFunctionOnSet, MapThenFoldSet, SolvesSum, PickIndex

\* A solution, at one set of indices.
LEMMA SolvesAt ==
    ASSUME NEW f, NEW S, NEW g, SolvesSum(g, f, S), NEW s \in SUBSET S
    PROVE  g[s] = IF s = {} THEN 0 ELSE f[PickIndex(s)] + g[s \ {PickIndex(s)}]
BY DEF SolvesSum

\* Two solutions agree wherever both are defined.
LEMMA SolutionsAgree ==
    ASSUME NEW f, NEW S, IsFiniteSet(S), NEW R,
           NEW g, SolvesSum(g, f, S), NEW h, SolvesSum(h, f, R)
    PROVE  \A s \in SUBSET (S \cap R) : g[s] = h[s]
<1> DEFINE F == {s \in SUBSET S : s \in SUBSET R /\ g[s] # h[s]}
<1>1. SUFFICES ASSUME F # {} PROVE FALSE
    OBVIOUS
<1>2. PICK s \in F : \A r \in F : r \subseteq s => r = s
    <2>1. F \in SUBSET SUBSET S
        OBVIOUS
    <2> HIDE DEF F
    <2> QED BY <1>1, <2>1, SmallestSubset
<1>3. s # {}
    <2>1. g[{}] = 0 /\ h[{}] = 0
        BY SolvesAt
    <2> QED BY <2>1
<1>4. PickIndex(s) \in s
    BY <1>3, PickMember
<1>5. s \ {PickIndex(s)} \notin F
    BY <1>2, <1>4
<1>6. g[s \ {PickIndex(s)}] = h[s \ {PickIndex(s)}]
    BY <1>5
<1>7. g[s] = h[s]
    BY <1>3, <1>6, SolvesAt
<1> QED BY <1>7

\* Over a finite set the recursion has a solution.
LEMMA SolutionExists ==
    ASSUME NEW f, NEW S, IsFiniteSet(S)
    PROVE  \E g : SolvesSum(g, f, S)
<1> DEFINE F == {s \in SUBSET S : ~ \E g : SolvesSum(g, f, s)}
<1>1. SUFFICES ASSUME F # {} PROVE FALSE
    BY DEF F
<1>2. PICK s \in F : \A r \in F : r \subseteq s => r = s
    <2>1. F \in SUBSET SUBSET S
        OBVIOUS
    <2> HIDE DEF F
    <2> QED BY <1>1, <2>1, SmallestSubset
<1> DEFINE G(r) == (CHOOSE g : SolvesSum(g, f, r))[r]
<1>3. ASSUME NEW r \in SUBSET s, r # s
      PROVE  SolvesSum(CHOOSE g : SolvesSum(g, f, r), f, r)
    <2>1. r \notin F
        BY <1>2, <1>3
    <2> QED BY <2>1
<1>4. ASSUME NEW r \in SUBSET s, r # s
      PROVE  G(r) = IF r = {} THEN 0 ELSE f[PickIndex(r)] + G(r \ {PickIndex(r)})
    <2> DEFINE q == r \ {PickIndex(r)}
               g == CHOOSE g : SolvesSum(g, f, r)
               h == CHOOSE h : SolvesSum(h, f, q)
    <2>1. SolvesSum(g, f, r)
        BY <1>3, <1>4
    <2>2. SolvesSum(h, f, q)
        BY <1>3, <1>4
    <2>3. IsFiniteSet(r)
        BY FS_Subset
    <2>4. g[q] = h[q]
        <3>1. q \in SUBSET (r \cap q)
            OBVIOUS
        <3> HIDE DEF g, h, q
        <3> QED BY <2>1, <2>2, <2>3, <3>1, SolutionsAgree
    <2>5. g[r] = IF r = {} THEN 0 ELSE f[PickIndex(r)] + g[q]
        <3> HIDE DEF g, h
        <3> QED BY <2>1, SolvesAt
    <2> QED BY <2>4, <2>5
<1> DEFINE H == [r \in SUBSET s |->
                    IF r = s THEN IF s = {} THEN 0 ELSE f[PickIndex(s)] + G(s \ {PickIndex(s)})
                    ELSE G(r)]
<1>5. ASSUME NEW r \in SUBSET s
      PROVE  H[r] = IF r = {} THEN 0 ELSE f[PickIndex(r)] + H[r \ {PickIndex(r)}]
    <2>1. r # {} => r \ {PickIndex(r)} # s /\ r \ {PickIndex(r)} \in SUBSET s
        BY PickMember
    <2> HIDE DEF G
    <2>2. r # {} => H[r \ {PickIndex(r)}] = G(r \ {PickIndex(r)})
        BY <2>1
    <2> QED BY <2>2, <1>4
<1>6. SolvesSum(H, f, s)
    <2>1. H = [r \in SUBSET s |-> H[r]]
        OBVIOUS
    <2> HIDE DEF H
    <2> QED BY <2>1, <1>5 DEF SolvesSum
<1> QED BY <1>2, <1>6

\* The recursive equation of the sum.
LEMMA SumUnfold ==
    ASSUME NEW f, NEW S, IsFiniteSet(S), S # {}
    PROVE  SumFunctionOnSet(f, S) = f[PickIndex(S)] + SumFunctionOnSet(f, S \ {PickIndex(S)})
<1> DEFINE R == S \ {PickIndex(S)}
           g == CHOOSE g : SolvesSum(g, f, S)
           h == CHOOSE h : SolvesSum(h, f, R)
<1>1. IsFiniteSet(R)
    BY FS_RemoveElement
<1>2. SolvesSum(g, f, S) /\ SolvesSum(h, f, R)
    BY <1>1, SolutionExists
<1>3. g[S] = f[PickIndex(S)] + g[R]
    <2> HIDE DEF g, h
    <2> QED BY <1>2, SolvesAt
<1>4. g[R] = h[R]
    <2>1. R \in SUBSET (S \cap R)
        OBVIOUS
    <2> HIDE DEF g, h, R
    <2> QED BY <1>2, <2>1, SolutionsAgree
<1>5. SumFunctionOnSet(f, S) = g[S] /\ SumFunctionOnSet(f, R) = h[R]
    BY SumIsSolution
<1> QED BY <1>3, <1>4, <1>5

\* The sum over no index is zero.
LEMMA SumEmpty ==
    ASSUME NEW f PROVE SumFunctionOnSet(f, {}) = 0
<1> DEFINE g == CHOOSE g : SolvesSum(g, f, {})
<1>1. SolvesSum(g, f, {})
    BY SolutionExists, FS_EmptySet
<1>2. g[{}] = 0
    <2> HIDE DEF g
    <2> QED BY <1>1, SolvesAt
<1> QED BY <1>2, SumIsSolution

-----------------------------------------------------------------------------
(* What sums of integers are like.                                         *)

\* A sum of integers is an integer.
LEMMA SumType ==
    ASSUME NEW S, IsFiniteSet(S), NEW f, \A x \in S : f[x] \in Int
    PROVE  SumFunctionOnSet(f, S) \in Int
<1> DEFINE F == {s \in SUBSET S : SumFunctionOnSet(f, s) \notin Int}
<1>1. SUFFICES ASSUME F # {} PROVE FALSE
    OBVIOUS
<1>2. PICK s \in F : \A r \in F : r \subseteq s => r = s
    <2>1. F \in SUBSET SUBSET S
        OBVIOUS
    <2> HIDE DEF F
    <2> QED BY <1>1, <2>1, SmallestSubset
<1>3. s # {}
    <2>1. SumFunctionOnSet(f, {}) \in Int
        BY SumEmpty
    <2>2. SumFunctionOnSet(f, s) \notin Int
        BY <1>2
    <2> HIDE DEF F
    <2> QED BY <2>1, <2>2
<1>4. PickIndex(s) \in s
    BY <1>3, PickMember
<1>5. SumFunctionOnSet(f, s \ {PickIndex(s)}) \in Int
    BY <1>2, <1>4
<1>6. SumFunctionOnSet(f, s) = f[PickIndex(s)] + SumFunctionOnSet(f, s \ {PickIndex(s)})
    BY <1>3, FS_Subset, SumUnfold
<1>7. f[PickIndex(s)] \in Int
    BY <1>4
<1> QED BY <1>2, <1>5, <1>6, <1>7

\* A sum of zeros is zero.
LEMMA SumZero ==
    ASSUME NEW S, IsFiniteSet(S), NEW f, \A x \in S : f[x] = 0
    PROVE  SumFunctionOnSet(f, S) = 0
<1> DEFINE F == {s \in SUBSET S : SumFunctionOnSet(f, s) # 0}
<1>1. SUFFICES ASSUME F # {} PROVE FALSE
    OBVIOUS
<1>2. PICK s \in F : \A r \in F : r \subseteq s => r = s
    <2>1. F \in SUBSET SUBSET S
        OBVIOUS
    <2> HIDE DEF F
    <2> QED BY <1>1, <2>1, SmallestSubset
<1>3. s # {}
    BY <1>2, SumEmpty
<1>4. PickIndex(s) \in s
    BY <1>3, PickMember
<1>5. SumFunctionOnSet(f, s \ {PickIndex(s)}) = 0
    BY <1>2, <1>4
<1>6. SumFunctionOnSet(f, s) = f[PickIndex(s)] + SumFunctionOnSet(f, s \ {PickIndex(s)})
    BY <1>3, FS_Subset, SumUnfold
<1>7. f[PickIndex(s)] = 0
    BY <1>4
<1> QED BY <1>2, <1>5, <1>6, <1>7

\* Only the values at the indices matter.
LEMMA SumEqual ==
    ASSUME NEW S, IsFiniteSet(S), NEW f, NEW g, \A x \in S : f[x] = g[x]
    PROVE  SumFunctionOnSet(f, S) = SumFunctionOnSet(g, S)
<1> DEFINE F == {s \in SUBSET S : SumFunctionOnSet(f, s) # SumFunctionOnSet(g, s)}
<1>1. SUFFICES ASSUME F # {} PROVE FALSE
    OBVIOUS
<1>2. PICK s \in F : \A r \in F : r \subseteq s => r = s
    <2>1. F \in SUBSET SUBSET S
        OBVIOUS
    <2> HIDE DEF F
    <2> QED BY <1>1, <2>1, SmallestSubset
<1>3. s # {}
    BY <1>2, SumEmpty
<1>4. PickIndex(s) \in s
    BY <1>3, PickMember
<1>5. SumFunctionOnSet(f, s \ {PickIndex(s)}) = SumFunctionOnSet(g, s \ {PickIndex(s)})
    BY <1>2, <1>4
<1>6. /\ SumFunctionOnSet(f, s) = f[PickIndex(s)] + SumFunctionOnSet(f, s \ {PickIndex(s)})
      /\ SumFunctionOnSet(g, s) = g[PickIndex(s)] + SumFunctionOnSet(g, s \ {PickIndex(s)})
    BY <1>3, FS_Subset, SumUnfold
<1> QED BY <1>2, <1>4, <1>5, <1>6

\* Any index may be taken out first.
LEMMA SumRemove ==
    ASSUME NEW S, IsFiniteSet(S), NEW f, \A x \in S : f[x] \in Int, NEW k \in S
    PROVE  SumFunctionOnSet(f, S) = f[k] + SumFunctionOnSet(f, S \ {k})
<1> DEFINE F == {s \in SUBSET S :
                    \E j \in s : SumFunctionOnSet(f, s) # f[j] + SumFunctionOnSet(f, s \ {j})}
<1>1. SUFFICES ASSUME F # {} PROVE FALSE
    OBVIOUS
<1>2. PICK s \in F : \A r \in F : r \subseteq s => r = s
    <2>1. F \in SUBSET SUBSET S
        OBVIOUS
    <2> HIDE DEF F
    <2> QED BY <1>1, <2>1, SmallestSubset
<1>3. PICK j \in s : SumFunctionOnSet(f, s) # f[j] + SumFunctionOnSet(f, s \ {j})
    BY <1>2
<1> DEFINE c == PickIndex(s)
<1>4. c \in s
    BY <1>3, PickMember
<1>5. SumFunctionOnSet(f, s) = f[c] + SumFunctionOnSet(f, s \ {c})
    BY <1>3, FS_Subset, SumUnfold
<1>6. c # j
    BY <1>3, <1>5
<1> HIDE DEF c
<1>7. SumFunctionOnSet(f, s \ {c}) = f[j] + SumFunctionOnSet(f, (s \ {c}) \ {j})
    <2>1. s \ {c} \notin F
        BY <1>2, <1>4
    <2> QED BY <1>6, <2>1
<1>8. SumFunctionOnSet(f, s \ {j}) = f[c] + SumFunctionOnSet(f, (s \ {j}) \ {c})
    <2>1. s \ {j} \notin F
        BY <1>2, <1>3
    <2> QED BY <1>4, <1>6, <2>1
<1>9. (s \ {j}) \ {c} = (s \ {c}) \ {j}
    OBVIOUS
<1>10. SumFunctionOnSet(f, (s \ {c}) \ {j}) \in Int
    BY FS_Subset, SumType
<1> DEFINE rest == SumFunctionOnSet(f, (s \ {c}) \ {j})
<1>11. SumFunctionOnSet(f, s) = f[c] + (f[j] + rest)
    BY <1>5, <1>7
<1>12. SumFunctionOnSet(f, s \ {j}) = f[c] + rest
    BY <1>8, <1>9
<1>13. f[c] \in Int /\ f[j] \in Int /\ rest \in Int
    BY <1>4, <1>10
<1> HIDE DEF F, rest
<1> QED BY <1>3, <1>11, <1>12, <1>13

\* Two functions that differ at one index.
LEMMA SumExcept ==
    ASSUME NEW S, IsFiniteSet(S), NEW f, NEW g,
           \A x \in S : f[x] \in Int, \A x \in S : g[x] \in Int,
           NEW k \in S, NEW e \in Int, g[k] = f[k] + e,
           \A x \in S \ {k} : g[x] = f[x]
    PROVE  SumFunctionOnSet(g, S) = SumFunctionOnSet(f, S) + e
<1>1. IsFiniteSet(S \ {k})
    BY FS_RemoveElement
<1>2. SumFunctionOnSet(g, S \ {k}) = SumFunctionOnSet(f, S \ {k})
    BY <1>1, SumEqual
<1>3. SumFunctionOnSet(f, S \ {k}) \in Int
    BY <1>1, SumType
<1>4. /\ SumFunctionOnSet(f, S) = f[k] + SumFunctionOnSet(f, S \ {k})
      /\ SumFunctionOnSet(g, S) = g[k] + SumFunctionOnSet(g, S \ {k})
    BY SumRemove
<1> QED BY <1>2, <1>3, <1>4

\* A sum over one index.
LEMMA SumSingle ==
    ASSUME NEW f, NEW k, f[k] \in Int
    PROVE  SumFunctionOnSet(f, {k}) = f[k]
<1>1. IsFiniteSet({k}) /\ {k} \ {k} = {}
    BY FS_Singleton
<1>2. SumFunctionOnSet(f, {k}) = f[k] + SumFunctionOnSet(f, {k} \ {k})
    <2>1. \A x \in {k} : f[x] \in Int
        OBVIOUS
    <2> QED BY <1>1, <2>1, SumRemove
<1> QED BY <1>1, <1>2, SumEmpty

\* Opposite values have opposite sums.
LEMMA SumOpposite ==
    ASSUME NEW S, IsFiniteSet(S), NEW f, NEW g,
           \A x \in S : f[x] \in Int /\ g[x] = -f[x]
    PROVE  SumFunctionOnSet(g, S) = -SumFunctionOnSet(f, S)
<1> DEFINE F == {s \in SUBSET S : SumFunctionOnSet(g, s) # -SumFunctionOnSet(f, s)}
<1>1. SUFFICES ASSUME F # {} PROVE FALSE
    OBVIOUS
<1>2. PICK s \in F : \A r \in F : r \subseteq s => r = s
    <2>1. F \in SUBSET SUBSET S
        OBVIOUS
    <2> HIDE DEF F
    <2> QED BY <1>1, <2>1, SmallestSubset
<1>3. s # {}
    <2>1. SumFunctionOnSet(g, {}) = -SumFunctionOnSet(f, {})
        BY SumEmpty
    <2>2. SumFunctionOnSet(g, s) # -SumFunctionOnSet(f, s)
        BY <1>2
    <2> HIDE DEF F
    <2> QED BY <2>1, <2>2
<1> DEFINE c == PickIndex(s)
           r == s \ {c}
<1>4. c \in s
    BY <1>3, PickMember
<1>5. SumFunctionOnSet(g, r) = -SumFunctionOnSet(f, r)
    BY <1>2, <1>4
<1>6. /\ SumFunctionOnSet(f, s) = f[c] + SumFunctionOnSet(f, r)
      /\ SumFunctionOnSet(g, s) = g[c] + SumFunctionOnSet(g, r)
    BY <1>3, FS_Subset, SumUnfold
<1>7. f[c] \in Int /\ g[c] = -f[c] /\ SumFunctionOnSet(f, r) \in Int
    <2>1. IsFiniteSet(r) /\ \A x \in r : f[x] \in Int
        BY FS_Subset
    <2> HIDE DEF r
    <2> QED BY <1>2, <1>4, <2>1, SumType
<1>8. SumFunctionOnSet(g, s) # -SumFunctionOnSet(f, s)
    BY <1>2
<1> HIDE DEF F, c, r
<1> QED BY <1>5, <1>6, <1>7, <1>8

\* A function that is changed at the places h[i], each by d[i], all of them
\* different, changes its sum by the sum of d.
LEMMA SumScatter ==
    ASSUME NEW Z, IsFiniteSet(Z), NEW f, NEW g,
           \A z \in Z : f[z] \in Int /\ g[z] \in Int,
           NEW I, IsFiniteSet(I), NEW d, \A i \in I : d[i] \in Int,
           NEW h, \A i \in I : h[i] \in Z,
           \A i, j \in I : h[i] = h[j] => i = j,
           \A i \in I : g[h[i]] = f[h[i]] + d[i],
           \A z \in Z : (\A i \in I : h[i] # z) => g[z] = f[z]
    PROVE  SumFunctionOnSet(g, Z) = SumFunctionOnSet(f, Z) + SumFunctionOnSet(d, I)
<1> DEFINE Part(J) == [z \in Z |-> IF \E i \in J : h[i] = z THEN g[z] ELSE f[z]]
           F == {J \in SUBSET I : SumFunctionOnSet(Part(J), Z)
                                    # SumFunctionOnSet(f, Z) + SumFunctionOnSet(d, J)}
<1>1. F = {}
    <2>1. SUFFICES ASSUME F # {} PROVE FALSE
        OBVIOUS
    <2>2. PICK J \in F : \A K \in F : K \subseteq J => K = J
        <3>1. F \in SUBSET SUBSET I
            OBVIOUS
        <3> HIDE DEF F
        <3> QED BY <2>1, <3>1, SmallestSubset
    <2>3. J # {}
        <3>1. SumFunctionOnSet(Part({}), Z) = SumFunctionOnSet(f, Z)
            <4>1. \A z \in Z : Part({})[z] = f[z]
                OBVIOUS
            <4> HIDE DEF Part
            <4> QED BY <4>1, SumEqual
        <3>2. SumFunctionOnSet(f, Z) \in Int
            BY SumType
        <3> HIDE DEF Part
        <3> QED BY <2>2, <3>1, <3>2, SumEmpty
    <2>4. PICK k \in J : TRUE
        BY <2>3
    <2> DEFINE K == J \ {k}
    <2>5. SumFunctionOnSet(Part(K), Z) = SumFunctionOnSet(f, Z) + SumFunctionOnSet(d, K)
        BY <2>2, <2>4
    <2>6. SumFunctionOnSet(d, J) = d[k] + SumFunctionOnSet(d, K)
        BY FS_Subset, SumRemove
    <2>7. SumFunctionOnSet(Part(J), Z) = SumFunctionOnSet(Part(K), Z) + d[k]
        <3> DEFINE a == Part(J)
                   b == Part(K)
                   u == h[k]
                   e == d[k]
        <3>1. u \in Z /\ e \in Int
            OBVIOUS
        <3>2. \A z \in Z : b[z] \in Int
            OBVIOUS
        <3>3. \A z \in Z : a[z] \in Int
            OBVIOUS
        <3>4. \A z \in Z \ {u} : a[z] = b[z]
            OBVIOUS
        <3>5. a[u] = b[u] + e
            OBVIOUS
        <3> HIDE DEF a, b, u, e
        <3>6. SumFunctionOnSet(a, Z) = SumFunctionOnSet(b, Z) + e
            BY <3>1, <3>2, <3>3, <3>4, <3>5, SumExcept
        <3> QED BY <3>6 DEF a, b, e
    <2>8. SumFunctionOnSet(d, K) \in Int /\ d[k] \in Int /\ SumFunctionOnSet(f, Z) \in Int
        BY FS_Subset, SumType
    <2> HIDE DEF Part, K
    <2> QED BY <2>2, <2>5, <2>6, <2>7, <2>8
<1>2. SumFunctionOnSet(Part(I), Z) = SumFunctionOnSet(f, Z) + SumFunctionOnSet(d, I)
    <2> HIDE DEF Part
    <2> QED BY <1>1
<1>3. SumFunctionOnSet(Part(I), Z) = SumFunctionOnSet(g, Z)
    <2>1. \A z \in Z : Part(I)[z] = g[z]
        OBVIOUS
    <2> HIDE DEF Part
    <2> QED BY <2>1, SumEqual
<1> QED BY <1>2, <1>3

-----------------------------------------------------------------------------
(* Maxima.                                                                 *)

\* The maximum over a finite nonempty set of indices is the value at one of them.
LEMMA MaxOfValues ==
    ASSUME NEW I, IsFiniteSet(I), I # {}, NEW f, \A i \in I : f[i] \in Int
    PROVE  \E j \in I : Max({f[i] : i \in I}) = f[j] /\ \A i \in I : f[j] >= f[i]
<1> DEFINE F == {J \in SUBSET I : J # {} /\ ~ \E j \in J : \A i \in J : f[j] >= f[i]}
<1>1. F = {}
    <2>1. SUFFICES ASSUME F # {} PROVE FALSE
        OBVIOUS
    <2>2. PICK J \in F : \A K \in F : K \subseteq J => K = J
        <3>1. F \in SUBSET SUBSET I
            OBVIOUS
        <3> HIDE DEF F
        <3> QED BY <2>1, <3>1, SmallestSubset
    <2>3. PICK k \in J : TRUE
        BY <2>2
    <2>4. J \ {k} \notin F
        BY <2>2, <2>3
    <2>5. CASE J \ {k} = {}
        BY <2>2, <2>3, <2>5
    <2>6. CASE J \ {k} # {}
        <3>1. PICK m \in J \ {k} : \A i \in J \ {k} : f[m] >= f[i]
            BY <2>4, <2>6
        <3>2. \A i \in J : f[i] \in Int
            OBVIOUS
        <3>3. \E j \in J : \A i \in J : f[j] >= f[i]
            <4>1. CASE f[m] >= f[k]
                BY <3>1, <4>1
            <4>2. CASE f[k] >= f[m]
                BY <3>1, <3>2, <4>2
            <4> QED BY <3>2, <4>1, <4>2
        <3> QED BY <2>2, <3>3
    <2> QED BY <2>5, <2>6
<1>2. PICK j \in I : \A i \in I : f[j] >= f[i]
    BY <1>1
<1> DEFINE V == {f[i] : i \in I}
<1>3. f[j] \in V /\ \A y \in V : f[j] >= y
    BY <1>2
<1>4. Max(V) \in V /\ \A y \in V : Max(V) >= y
    BY <1>3 DEF Max
<1>5. Max(V) >= f[j] /\ f[j] >= Max(V) /\ Max(V) \in Int /\ f[j] \in Int
    BY <1>3, <1>4
<1>6. Max(V) = f[j]
    <2> HIDE DEF V
    <2> QED BY <1>5
<1> QED BY <1>2, <1>6
=============================================================================

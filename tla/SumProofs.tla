------------------------------ MODULE SumProofs ------------------------------
(***************************************************************************)
(* TLAPS proofs about sums over finite sets, which the readers' counts and *)
(* the chainability scores are stated with: a sum may be taken in any      *)
(* order, and the sizes of the classes of a set add up to its size.        *)
(***************************************************************************)
EXTENDS Functions, FiniteSetTheorems, WellFoundedInduction, TLAPS

\* A set of naturals with 0 and every successor has all of them: the least
\* one it had not would be the successor of one it has.
LEMMA Induction ==
  ASSUME NEW T \in SUBSET Nat, 0 \in T, \A n \in T : n + 1 \in T
  PROVE  T = Nat
  <1> DEFINE R == OpToRel(<, Nat)
             S == Nat \ T
  <1> SUFFICES ASSUME S # {} PROVE FALSE
    OBVIOUS
  <1>1. PICK n \in S : \A m \in S : <<m, n>> \notin R
    <2>1. IsWellFoundedOn(R, Nat)
      BY NatLessThanWellFounded
    <2>2. S \subseteq Nat
      OBVIOUS
    <2> HIDE DEF R, S
    <2>3. QED
      BY <2>1, <2>2, WFMin
  <1>2. n # 0 /\ n - 1 \in Nat /\ n - 1 < n
    OBVIOUS
  <1>3. n - 1 \in S
    OBVIOUS
  <1>4. <<n - 1, n>> \in R
    BY <1>2 DEF OpToRel
  <1>5. QED
    BY <1>1, <1>3, <1>4

-----------------------------------------------------------------------------
(* The sum over a set, element by element *)

\* The element a sum takes next.
Taken(s) == CHOOSE x \in s : TRUE

\* g has the sums of f over the sets in SS, which has with a set all smaller.
SumsOver(g, f, SS) ==
  g = [s \in SS |-> IF s = {} THEN 0 ELSE f[Taken(s)] + g[s \ {Taken(s)}]]

\* What the community module computes.
LEMMA SumIs ==
  ASSUME NEW f, NEW S
  PROVE  SumFunctionOnSet(f, S) = (CHOOSE g : SumsOver(g, f, SUBSET S))[S]
  BY DEF SumFunctionOnSet, FoldFunctionOnSet, MapThenFoldSet, SumsOver, Taken

\* The next element is one of the set, which is smaller without it.
LEMMA Smaller ==
  ASSUME NEW S, IsFiniteSet(S), NEW s \in SUBSET S, s # {}
  PROVE  /\ Taken(s) \in s /\ s \ {Taken(s)} \in SUBSET S
         /\ \A x \in s : /\ IsFiniteSet(s) /\ Cardinality(s) \in Nat
                         /\ Cardinality(s \ {x}) = Cardinality(s) - 1
                         /\ Cardinality(s \ {x}) \in Nat
  <1>1. IsFiniteSet(s)
    BY FS_Subset
  <1>2. \A x \in s : IsFiniteSet(s \ {x}) /\ Cardinality(s \ {x}) = Cardinality(s) - 1
    BY <1>1, FS_RemoveElement
  <1>3. QED
    BY <1>1, <1>2, FS_CardinalityType DEF Taken

\* There are such sums.
LEMMA SumsExist ==
  ASSUME NEW f, NEW S, IsFiniteSet(S)
  PROVE  \E g : SumsOver(g, f, SUBSET S)
  <1> DEFINE Small(n) == {s \in SUBSET S : Cardinality(s) <= n}
             T == {n \in Nat : \E g : SumsOver(g, f, Small(n))}
  <1>1. \A s \in SUBSET S : IsFiniteSet(s) /\ Cardinality(s) \in Nat
    BY FS_Subset, FS_CardinalityType
  <1>2. 0 \in T
    <2>1. \A s \in Small(0) : s = {}
      BY <1>1, FS_EmptySet
    <2>2. SumsOver([s \in Small(0) |-> 0], f, Small(0))
      BY <2>1 DEF SumsOver
    <2>3. QED
      BY <2>2
  <1>3. ASSUME NEW n \in T PROVE n + 1 \in T
    <2>1. PICK g : SumsOver(g, f, Small(n))
      OBVIOUS
    <2> DEFINE Value(s) == IF s = {} THEN 0 ELSE f[Taken(s)] + g[s \ {Taken(s)}]
               h == [s \in Small(n + 1) |-> Value(s)]
    <2>2. ASSUME NEW s \in Small(n) PROVE s \in Small(n + 1) /\ g[s] = h[s]
      <3>1. s \in Small(n + 1)
        BY <1>1
      <3>2. g[s] = Value(s)
        BY <2>1 DEF SumsOver
      <3>3. QED
        BY <3>1, <3>2
    <2>3. ASSUME NEW s \in Small(n + 1), s # {} PROVE s \ {Taken(s)} \in Small(n)
      BY <1>1, <2>3, Smaller
    <2>4. ASSUME NEW s \in Small(n + 1)
          PROVE  h[s] = IF s = {} THEN 0 ELSE f[Taken(s)] + h[s \ {Taken(s)}]
      <3>1. CASE s = {}
        BY <3>1
      <3>2. CASE s # {}
        <4>1. h[s \ {Taken(s)}] = g[s \ {Taken(s)}]
          BY <2>2, <2>3, <3>2
        <4>2. h[s] = f[Taken(s)] + g[s \ {Taken(s)}]
          BY <3>2
        <4> HIDE DEF h
        <4>3. QED
          BY <3>2, <4>1, <4>2
      <3>3. QED
        BY <3>1, <3>2
    <2>5. h = [s \in Small(n + 1) |-> h[s]]
      OBVIOUS
    <2> HIDE DEF h, Small
    <2>6. SumsOver(h, f, Small(n + 1))
      BY <2>4, <2>5 DEF SumsOver
    <2>7. QED
      BY <2>6
  <1>4. Cardinality(S) \in T
    <2>1. T \subseteq Nat /\ Cardinality(S) \in Nat
      BY <1>1
    <2> HIDE DEF T
    <2>2. QED
      BY <1>2, <1>3, <2>1, Induction
  <1>5. Small(Cardinality(S)) = SUBSET S
    BY <1>1, FS_Subset
  <1>6. QED
    BY <1>4, <1>5

\* They do not depend on the set they are taken in.
LEMMA SumsAgree ==
  ASSUME NEW f, NEW S, IsFiniteSet(S), NEW R \in SUBSET S, NEW g, NEW k,
         SumsOver(g, f, SUBSET S), SumsOver(k, f, SUBSET R)
  PROVE  k[R] = g[R]
  <1> DEFINE T == {n \in Nat : \A s \in SUBSET R : Cardinality(s) <= n => k[s] = g[s]}
  <1>1. \A s \in SUBSET R : /\ s \in SUBSET S /\ IsFiniteSet(s) /\ Cardinality(s) \in Nat
                            /\ (Cardinality(s) = 0 => s = {})
    BY FS_Subset, FS_CardinalityType, FS_EmptySet
  <1>2. ASSUME NEW s \in SUBSET R
        PROVE  /\ s = {} => k[s] = 0 /\ g[s] = 0
               /\ s # {} => /\ k[s] = f[Taken(s)] + k[s \ {Taken(s)}]
                            /\ g[s] = f[Taken(s)] + g[s \ {Taken(s)}]
    BY <1>1 DEF SumsOver
  <1>3. 0 \in T
    <2>1. ASSUME NEW s \in SUBSET R, Cardinality(s) <= 0 PROVE k[s] = g[s]
      <3>1. s = {}
        BY <1>1, <2>1
      <3>2. QED
        BY <1>2, <3>1
    <2>2. QED
      BY <2>1
  <1>4. ASSUME NEW n \in T PROVE n + 1 \in T
    <2> SUFFICES ASSUME NEW s \in SUBSET R, Cardinality(s) <= n + 1 PROVE k[s] = g[s]
      OBVIOUS
    <2>1. CASE s = {}
      BY <1>2, <2>1
    <2>2. CASE s # {}
      <3>1. s \ {Taken(s)} \in SUBSET R /\ Cardinality(s \ {Taken(s)}) <= n
        BY <1>1, <2>2, Smaller
      <3>2. k[s \ {Taken(s)}] = g[s \ {Taken(s)}]
        BY <3>1
      <3>3. QED
        BY <1>2, <2>2, <3>2
    <2>3. QED
      BY <2>1, <2>2
  <1>5. Cardinality(R) \in T
    <2>1. T \subseteq Nat /\ Cardinality(R) \in Nat
      BY <1>1
    <2> HIDE DEF T
    <2>2. QED
      BY <1>3, <1>4, <2>1, Induction
  <1>6. QED
    BY <1>1, <1>5

\* One function has the sums over all subsets of a set.
LEMMA SumsTell ==
  ASSUME NEW f, NEW S, IsFiniteSet(S)
  PROVE  \E g : SumsOver(g, f, SUBSET S) /\ \A R \in SUBSET S : SumFunctionOnSet(f, R) = g[R]
  <1>1. PICK g : SumsOver(g, f, SUBSET S)
    BY SumsExist
  <1>2. ASSUME NEW R \in SUBSET S PROVE SumFunctionOnSet(f, R) = g[R]
    <2> DEFINE k == CHOOSE k : SumsOver(k, f, SUBSET R)
    <2>1. SumsOver(k, f, SUBSET R)
      <3>1. \E h : SumsOver(h, f, SUBSET R)
        BY FS_Subset, SumsExist
      <3>2. QED
        BY <3>1
    <2>2. SumFunctionOnSet(f, R) = k[R]
      BY SumIs
    <2> HIDE DEF k
    <2>3. QED
      BY <1>1, <2>1, <2>2, SumsAgree
  <1>3. QED
    BY <1>1, <1>2

\* A sum over a finite set does not depend on the order: any element may be
\* added last.
LEMMA SumInsert ==
  ASSUME NEW f, NEW S, IsFiniteSet(S), \A x \in S : f[x] \in Nat
  PROVE  /\ SumFunctionOnSet(f, {}) = 0
         /\ \A R \in SUBSET S :
              /\ SumFunctionOnSet(f, R) \in Nat
              /\ \A x \in R : SumFunctionOnSet(f, R) = f[x] + SumFunctionOnSet(f, R \ {x})
  <1>1. PICK g : SumsOver(g, f, SUBSET S) /\ \A R \in SUBSET S : SumFunctionOnSet(f, R) = g[R]
    BY SumsTell
  <1> DEFINE Good(s) == g[s] \in Nat /\ \A x \in s : g[s] = f[x] + g[s \ {x}]
             T == {n \in Nat : \A s \in SUBSET S : Cardinality(s) <= n => Good(s)}
  <1>2. \A s \in SUBSET S : /\ IsFiniteSet(s) /\ Cardinality(s) \in Nat
                            /\ (Cardinality(s) = 0 => s = {})
    BY FS_Subset, FS_CardinalityType, FS_EmptySet
  <1>3. ASSUME NEW s \in SUBSET S
        PROVE  /\ s = {} => g[s] = 0
               /\ s # {} => g[s] = f[Taken(s)] + g[s \ {Taken(s)}]
    BY <1>1 DEF SumsOver
  <1>4. 0 \in T
    BY <1>2, <1>3
  <1>5. ASSUME NEW n \in T PROVE n + 1 \in T
    <2> SUFFICES ASSUME NEW s \in SUBSET S, Cardinality(s) <= n + 1 PROVE Good(s)
      OBVIOUS
    <2>1. CASE s = {}
      <3>1. g[s] = 0
        BY <1>3, <2>1
      <3>2. QED
        BY <2>1, <3>1
    <2>2. CASE s # {}
      <3> DEFINE c == Taken(s)
      <3>1. c \in s /\ \A x \in s : /\ s \ {x} \in SUBSET S /\ Cardinality(s \ {x}) <= n
                                    /\ f[x] \in Nat
        BY <1>2, <2>2, Smaller
      <3>2. \A x \in s : Good(s \ {x})
        BY <3>1
      <3>3. g[s] = f[c] + g[s \ {c}]
        BY <1>3, <2>2
      <3> HIDE DEF c
      <3>4. ASSUME NEW x \in s, x # c PROVE g[s] = f[x] + g[s \ {x}]
        <4>1. /\ g[s \ {c}] = f[x] + g[(s \ {c}) \ {x}]
              /\ g[s \ {x}] = f[c] + g[(s \ {x}) \ {c}]
          BY <3>1, <3>2, <3>4
        <4>2. (s \ {c}) \ {x} = (s \ {x}) \ {c} /\ (s \ {c}) \ {x} \in SUBSET S
          OBVIOUS
        <4>3. g[(s \ {c}) \ {x}] \in Nat
          <5>1. IsFiniteSet(s \ {c}) /\ x \in s \ {c}
            BY <1>2, <3>1, <3>4
          <5>2. Cardinality((s \ {c}) \ {x}) <= n
            BY <1>2, <3>1, <5>1, <4>2, FS_RemoveElement
          <5>3. QED
            BY <4>2, <5>2
        <4>4. f[c] \in Nat /\ f[x] \in Nat
          BY <3>1
        <4> DEFINE u == (s \ {c}) \ {x}
        <4>5. g[s] = f[c] + (f[x] + g[u]) /\ g[s \ {x}] = f[c] + g[u] /\ g[u] \in Nat
          BY <3>3, <4>1, <4>2, <4>3
        <4> HIDE DEF u
        <4>6. QED
          BY <4>4, <4>5
      <3>5. g[s] \in Nat
        BY <3>1, <3>2, <3>3
      <3>6. QED
        BY <3>3, <3>4, <3>5
    <2>3. QED
      BY <2>1, <2>2
  <1>6. T = Nat
    <2>1. T \subseteq Nat
      OBVIOUS
    <2> HIDE DEF T
    <2>2. QED
      BY <1>4, <1>5, <2>1, Induction
  <1>7. ASSUME NEW R \in SUBSET S PROVE Good(R)
    BY <1>2, <1>6
  <1>8. QED
    <2>1. \A R \in SUBSET S : \A x \in R : R \ {x} \in SUBSET S
      OBVIOUS
    <2>2. {} \in SUBSET S /\ g[{}] = 0
      BY <1>3
    <2>3. QED
      BY <1>1, <1>7, <2>1, <2>2

\* The sizes of the classes of a finite set add up to its size.
LEMMA SumOfClasses ==
  ASSUME NEW F, IsFiniteSet(F), NEW D, IsFiniteSet(D), NEW class \in [F -> D]
  PROVE  SumFunction([d \in D |-> Cardinality({x \in F : class[x] = d})]) = Cardinality(F)
  <1> DEFINE Of(E) == {x \in F : class[x] \in E}
             count == [d \in D |-> Cardinality({x \in F : class[x] = d})]
             T == {n \in Nat : \A E \in SUBSET D : Cardinality(E) <= n =>
                                 SumFunctionOnSet(count, E) = Cardinality(Of(E))}
  <1>1. \A E \in SUBSET D : /\ IsFiniteSet(E) /\ Cardinality(E) \in Nat
                            /\ (Cardinality(E) = 0 => E = {})
    BY FS_Subset, FS_CardinalityType, FS_EmptySet
  <1>2. \A G \in SUBSET F : IsFiniteSet(G) /\ Cardinality(G) \in Nat
    BY FS_Subset, FS_CardinalityType
  <1>3. \A d \in D : count[d] \in Nat
    BY <1>2
  <1>4. /\ SumFunctionOnSet(count, {}) = 0
        /\ \A E \in SUBSET D : \A d \in E :
             SumFunctionOnSet(count, E) = count[d] + SumFunctionOnSet(count, E \ {d})
    <2> HIDE DEF count
    <2>1. QED
      BY <1>3, SumInsert
  <1>5. 0 \in T
    <2>1. Cardinality(Of({})) = 0
      BY FS_EmptySet
    <2> HIDE DEF count, Of
    <2>2. QED
      BY <1>1, <1>4, <2>1
  <1>6. ASSUME NEW n \in T PROVE n + 1 \in T
    <2> SUFFICES ASSUME NEW E \in SUBSET D, Cardinality(E) <= n + 1
                 PROVE  SumFunctionOnSet(count, E) = Cardinality(Of(E))
      OBVIOUS
    <2>1. CASE E = {}
      BY <1>5, <1>1, <2>1, FS_EmptySet
    <2>2. CASE E # {}
      <3>1. PICK d \in E : TRUE
        BY <2>2
      <3> DEFINE here == {x \in F : class[x] = d}
                 rest == Of(E \ {d})
      <3>2. Of(E) = here \cup rest /\ here \cap rest = {}
        OBVIOUS
      <3>3. here \in SUBSET F /\ rest \in SUBSET F
        OBVIOUS
      <3>4. Cardinality(Of(E)) = Cardinality(here) + Cardinality(rest)
        <4> HIDE DEF here, rest, Of
        <4>1. /\ IsFiniteSet(here) /\ IsFiniteSet(rest)
              /\ Cardinality(here) \in Nat /\ Cardinality(rest) \in Nat
          BY <1>2, <3>3
        <4>2. Cardinality(here \cap rest) = 0
          BY <3>2, FS_EmptySet
        <4>3. Cardinality(here \cup rest)
                = Cardinality(here) + Cardinality(rest) - Cardinality(here \cap rest)
          BY <4>1, FS_Union
        <4>4. QED
          BY <3>2, <4>1, <4>2, <4>3
      <3>5. E \ {d} \in SUBSET D /\ Cardinality(E \ {d}) <= n
        BY <1>1, <2>2, Smaller
      <3>6. SumFunctionOnSet(count, E \ {d}) = Cardinality(rest)
        BY <3>5
      <3>7. count[d] = Cardinality(here)
        OBVIOUS
      <3> HIDE DEF count, here, rest, Of
      <3>8. QED
        BY <1>4, <3>4, <3>6, <3>7
    <2>3. QED
      BY <2>1, <2>2
  <1>7. T = Nat
    <2>1. T \subseteq Nat
      OBVIOUS
    <2> HIDE DEF T
    <2>2. QED
      BY <1>5, <1>6, <2>1, Induction
  <1>8. SumFunctionOnSet(count, D) = Cardinality(Of(D))
    BY <1>1, <1>7
  <1>9. DOMAIN count = D /\ Of(D) = F
    OBVIOUS
  <1> HIDE DEF count, Of
  <1>10. SumFunction(count) = Cardinality(F)
    BY <1>8, <1>9 DEF SumFunction
  <1>11. QED
    BY <1>10 DEF count
=============================================================================

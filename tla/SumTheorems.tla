---------------------------- MODULE SumTheorems ----------------------------
(***************************************************************************)
(* Sums over a finite set, as MapThenSumSet of the community modules       *)
(* computes them: by a recursive function on the subsets, which removes a  *)
(* chosen element at a time.  That such a function exists, that it is the  *)
(* only one, and how the sum follows a change of one term.                 *)
(***************************************************************************)
EXTENDS Integers, Sequences, FiniteSets, Functions, Ordering, FiniteSetTheorems,
        WellFoundedInduction, TLAPS

Pick(s) == CHOOSE x \in s : TRUE

(* g is the recursive function that sums F over the subsets of S. *)
SumOver(F, S, g) ==
  g = [s \in SUBSET S |-> IF s = {} THEN 0 ELSE F[Pick(s)] + g[s \ {Pick(s)}]]

Total(F, S) == (CHOOSE g : SumOver(F, S, g))[S]

LEMMA PickIsMember == ASSUME NEW s, s # {} PROVE Pick(s) \in s
  BY DEF Pick

(* Induction on the subsets of a finite set, for a set T of them.          *)
LEMMA SubsetInduction ==
  ASSUME NEW S, IsFiniteSet(S), NEW T,
         \A s \in SUBSET S : (\A u \in SUBSET s : u # s => u \in T) => s \in T
  PROVE  SUBSET S \subseteq T
<1> DEFINE Bad == (SUBSET S) \ T
<1>1. SUFFICES ASSUME Bad # {} PROVE FALSE
  OBVIOUS
<1>2. IsWellFoundedOn(StrictSubsetOrdering(S), SUBSET S)
  BY FS_StrictSubsetOrderingWellFounded, FS_FiniteSubsetsOfFinite
<1>3. PICK s \in Bad : \A u \in Bad : <<u, s>> \notin StrictSubsetOrdering(S)
  <2> HIDE DEF Bad
  <2>1. Bad \subseteq SUBSET S
    BY DEF Bad
  <2>2. QED
    BY <1>1, <1>2, <2>1, WFMin
<1>4. \A u \in SUBSET s : u # s => u \in T
  BY <1>3 DEF StrictSubsetOrdering
<1>5. s \in SUBSET S /\ s \notin T
  BY <1>3
<1>6. s \in T
  BY <1>4, <1>5
<1>7. QED
  BY <1>5, <1>6

(* Two such functions, over a set and a subset of it, agree on the subset. *)
LEMMA SumsAgree ==
  ASSUME NEW S, NEW U \in SUBSET S, IsFiniteSet(S), NEW F, NEW g, NEW h,
         SumOver(F, S, g), SumOver(F, U, h)
  PROVE  \A s \in SUBSET U : g[s] = h[s]
<1> DEFINE T == {s \in SUBSET U : g[s] = h[s]}
<1>1. IsFiniteSet(U)
  BY FS_Subset
<1>2. ASSUME NEW s \in SUBSET U, \A u \in SUBSET s : u # s => u \in T PROVE s \in T
  <2>1. CASE s = {}
    BY <2>1 DEF SumOver
  <2>2. CASE s # {}
    <3>1. Pick(s) \in s
      BY <2>2, PickIsMember
    <3>2. g[s \ {Pick(s)}] = h[s \ {Pick(s)}]
      BY <1>2, <3>1
    <3>3. g[s] = F[Pick(s)] + g[s \ {Pick(s)}] /\ h[s] = F[Pick(s)] + h[s \ {Pick(s)}]
      BY <2>2 DEF SumOver
    <3>4. QED
      BY <3>2, <3>3
  <2>3. QED
    BY <2>1, <2>2
<1> HIDE DEF T
<1>3. SUBSET U \subseteq T
  BY <1>1, <1>2, SubsetInduction
<1>4. QED
  BY <1>3 DEF T

LEMMA SumsUnique ==
  ASSUME NEW S, IsFiniteSet(S), NEW F, NEW g, NEW h, SumOver(F, S, g), SumOver(F, S, h)
  PROVE  g = h
<1>1. \A s \in SUBSET S : g[s] = h[s]
  BY SumsAgree
<1>2. g = [s \in SUBSET S |-> g[s]] /\ h = [s \in SUBSET S |-> h[s]]
  BY DEF SumOver
<1>3. QED
  BY <1>1, <1>2

(* The function of a set is glued from those of its subsets. *)
LEMMA SumsExist ==
  ASSUME NEW S, IsFiniteSet(S), NEW F
  PROVE  \E g : SumOver(F, S, g)
<1> DEFINE T == {s \in SUBSET S : \E g : SumOver(F, s, g)}
<1>1. ASSUME NEW s \in SUBSET S, \A u \in SUBSET s : u # s => u \in T PROVE s \in T
  <2> DEFINE V(u) == (CHOOSE g : SumOver(F, u, g))[u]
             h == [u \in SUBSET s |->
                     IF u = {} THEN 0 ELSE F[Pick(u)] + V(u \ {Pick(u)})]
  <2>1. ASSUME NEW u \in SUBSET s, u # s PROVE V(u) = h[u]
    <3>1. PICK g : SumOver(F, u, g) /\ g = CHOOSE k : SumOver(F, u, k)
      BY <1>1, <2>1
    <3>2. CASE u = {}
      BY <3>1, <3>2 DEF SumOver
    <3>3. CASE u # {}
      <4> DEFINE v == u \ {Pick(u)}
      <4>1. Pick(u) \in u
        BY <3>3, PickIsMember
      <4>2. v \in SUBSET u /\ v \in SUBSET s /\ v # s
        BY <2>1, <4>1
      <4>3. PICK k : SumOver(F, v, k) /\ k = CHOOSE l : SumOver(F, v, l)
        BY <1>1, <4>2
      <4>4. g[v] = k[v]
        <5>1. IsFiniteSet(u)
          BY FS_Subset
        <5>2. QED
          BY <3>1, <4>2, <4>3, <5>1, SumsAgree
      <4>5. V(u) = F[Pick(u)] + g[v]
        BY <3>1, <3>3 DEF SumOver
      <4>6. V(v) = k[v]
        BY <4>3
      <4>7. h[u] = F[Pick(u)] + V(v)
        BY <3>3
      <4>8. QED
        BY <4>4, <4>5, <4>6, <4>7
    <3>4. QED
      BY <3>2, <3>3
  <2>2. ASSUME NEW u \in SUBSET s, u # {} PROVE V(u \ {Pick(u)}) = h[u \ {Pick(u)}]
    <3>1. Pick(u) \in u
      BY <2>2, PickIsMember
    <3>2. u \ {Pick(u)} \in SUBSET s /\ u \ {Pick(u)} # s
      BY <3>1
    <3>3. QED
      BY <2>1, <3>2
  <2>3. h = [u \in SUBSET s |-> IF u = {} THEN 0 ELSE F[Pick(u)] + h[u \ {Pick(u)}]]
    <3>1. ASSUME NEW u \in SUBSET s
          PROVE  h[u] = IF u = {} THEN 0 ELSE F[Pick(u)] + h[u \ {Pick(u)}]
      <4>1. h[u] = IF u = {} THEN 0 ELSE F[Pick(u)] + V(u \ {Pick(u)})
        OBVIOUS
      <4>2. u # {} => V(u \ {Pick(u)}) = h[u \ {Pick(u)}]
        BY <2>2
      <4> HIDE DEF h, V
      <4>3. QED
        BY <4>1, <4>2
    <3>2. h = [u \in SUBSET s |-> h[u]]
      OBVIOUS
    <3> HIDE DEF h
    <3>3. QED
      BY <3>1, <3>2
  <2> HIDE DEF h
  <2>4. SumOver(F, s, h)
    BY <2>3 DEF SumOver
  <2>5. QED
    BY <2>4
<1> HIDE DEF T
<1>2. SUBSET S \subseteq T
  BY <1>1, SubsetInduction
<1>3. QED
  BY <1>2 DEF T

(* Any function that sums F gives its total. *)
LEMMA SumsGiveTotal ==
  ASSUME NEW S, IsFiniteSet(S), NEW F, NEW g, SumOver(F, S, g)
  PROVE  Total(F, S) = g[S]
<1>1. SumOver(F, S, CHOOSE k : SumOver(F, S, k))
  OBVIOUS
<1>2. QED
  BY <1>1, SumsUnique DEF Total

(* Changing one term changes the sum by the difference. *)
LEMMA SumsFollow ==
  ASSUME NEW S, IsFiniteSet(S), NEW F \in [S -> Int], NEW G \in [S -> Int], NEW t \in S,
         \A x \in S : x # t => G[x] = F[x], NEW g, NEW h, SumOver(F, S, g), SumOver(G, S, h)
  PROVE  g[S] \in Int /\ h[S] \in Int /\ h[S] = g[S] + G[t] - F[t]
<1> DEFINE Change(s) == IF t \in s THEN G[t] - F[t] ELSE 0
           T == {s \in SUBSET S : g[s] \in Int /\ h[s] \in Int /\ h[s] = g[s] + Change(s)}
<1>1. ASSUME NEW s \in SUBSET S, \A u \in SUBSET s : u # s => u \in T PROVE s \in T
  <2>1. CASE s = {}
    BY <2>1 DEF SumOver
  <2>2. CASE s # {}
    <3> DEFINE p == Pick(s)
               r == s \ {Pick(s)}
    <3>1. p \in s
      BY <2>2, PickIsMember
    <3>2. g[s] = F[p] + g[r] /\ h[s] = G[p] + h[r]
      BY <2>2 DEF SumOver
    <3>3. g[r] \in Int /\ h[r] \in Int /\ h[r] = g[r] + Change(r)
      BY <1>1, <3>1
    <3>4. F[p] \in Int /\ G[p] \in Int /\ F[t] \in Int /\ G[t] \in Int
      BY <3>1
    <3>5. CASE p = t
      <4>1. Change(r) = 0 /\ Change(s) = G[p] - F[p]
        BY <3>1, <3>5
      <4> HIDE DEF p, r, Change
      <4>2. g[s] \in Int /\ h[s] \in Int /\ h[s] = g[s] + Change(s)
        BY <3>2, <3>3, <3>4, <4>1
      <4>3. QED
        BY <4>2 DEF Change
    <3>6. CASE p # t
      <4>1. Change(r) = Change(s) /\ Change(s) \in Int /\ G[p] = F[p]
        BY <3>1, <3>4, <3>6
      <4> HIDE DEF p, r, Change
      <4>2. g[s] \in Int /\ h[s] \in Int /\ h[s] = g[s] + Change(s)
        BY <3>2, <3>3, <3>4, <4>1
      <4>3. QED
        BY <4>2 DEF Change
    <3>7. QED
      BY <3>5, <3>6
  <2>3. QED
    BY <2>1, <2>2
<1> HIDE DEF T
<1>2. SUBSET S \subseteq T
  BY <1>1, SubsetInduction
<1>3. QED
  BY <1>2 DEF T

LEMMA TotalFollows ==
  ASSUME NEW S, IsFiniteSet(S), NEW F \in [S -> Int], NEW G \in [S -> Int], NEW t \in S,
         \A x \in S : x # t => G[x] = F[x]
  PROVE  Total(F, S) \in Int /\ Total(G, S) \in Int /\ Total(G, S) = Total(F, S) + G[t] - F[t]
<1>1. PICK g, h : SumOver(F, S, g) /\ SumOver(G, S, h)
  BY SumsExist
<1>2. Total(F, S) = g[S] /\ Total(G, S) = h[S]
  BY <1>1, SumsGiveTotal
<1>3. QED
  BY <1>1, <1>2, SumsFollow

LEMMA TotalOfNothing ==
  ASSUME NEW S, IsFiniteSet(S), NEW F, \A x \in S : F[x] = 0
  PROVE  Total(F, S) = 0
<1>1. PICK g : SumOver(F, S, g)
  BY SumsExist
<1> DEFINE T == {s \in SUBSET S : g[s] = 0}
<1>2. ASSUME NEW s \in SUBSET S, \A u \in SUBSET s : u # s => u \in T PROVE s \in T
  <2>1. CASE s = {}
    BY <1>1, <2>1 DEF SumOver
  <2>2. CASE s # {}
    <3>1. Pick(s) \in s
      BY <2>2, PickIsMember
    <3>2. g[s] = F[Pick(s)] + g[s \ {Pick(s)}] /\ F[Pick(s)] = 0 /\ g[s \ {Pick(s)}] = 0
      BY <1>1, <1>2, <2>2, <3>1 DEF SumOver
    <3>3. QED
      BY <3>2
  <2>3. QED
    BY <2>1, <2>2
<1> HIDE DEF T
<1>3. SUBSET S \subseteq T
  BY <1>2, SubsetInduction
<1>4. QED
  BY <1>1, <1>3, SumsGiveTotal DEF T

(* Which member is added first makes no difference. *)
LEMMA SumsRemove ==
  ASSUME NEW S, IsFiniteSet(S), NEW D, S \subseteq D, NEW F \in [D -> Int], NEW g, SumOver(F, S, g)
  PROVE  \A u \in SUBSET S : g[u] \in Int /\ \A p \in u : g[u] = F[p] + g[u \ {p}]
<1> DEFINE T == {s \in SUBSET S : g[s] \in Int /\ \A p \in s : g[s] = F[p] + g[s \ {p}]}
<1>1. ASSUME NEW s \in SUBSET S, \A u \in SUBSET s : u # s => u \in T PROVE s \in T
  <2>1. CASE s = {}
    BY <2>1 DEF SumOver
  <2>2. CASE s # {}
    <3>1. PICK q \in s : g[s] = F[q] + g[s \ {q}]
      BY <2>2, PickIsMember DEF SumOver
    <3>2. \A p \in s : F[p] \in Int /\ g[s \ {p}] \in Int
      BY <1>1
    <3>3. ASSUME NEW p \in s, p # q PROVE g[s] = F[p] + g[s \ {p}]
      <4>1. /\ p \in s \ {q} /\ s \ {q} \in SUBSET s /\ s \ {q} # s
            /\ q \in s \ {p} /\ s \ {p} \in SUBSET s /\ s \ {p} # s
        BY <3>1, <3>3
      <4>2. g[s \ {q}] = F[p] + g[(s \ {q}) \ {p}]
        BY <1>1, <4>1
      <4>3. g[s \ {p}] = F[q] + g[(s \ {p}) \ {q}]
        BY <1>1, <4>1
      <4>4. (s \ {q}) \ {p} = (s \ {p}) \ {q}
        OBVIOUS
      <4>5. PICK x \in Int : x = g[(s \ {p}) \ {q}]
        <5>1. (s \ {p}) \ {q} \in SUBSET s /\ (s \ {p}) \ {q} # s
          BY <3>1
        <5>2. QED
          BY <1>1, <5>1
      <4>6. PICK a \in Int, b \in Int : a = F[p] /\ b = F[q]
        BY <3>2
      <4>7. g[s] = b + (a + x) /\ g[s \ {p}] = b + x
        BY <3>1, <4>2, <4>3, <4>4, <4>5, <4>6
      <4>8. b + (a + x) = a + (b + x)
        OBVIOUS
      <4>9. QED
        BY <4>6, <4>7, <4>8
    <3>4. g[s] \in Int
      BY <3>1, <3>2
    <3>5. QED
      BY <3>1, <3>3, <3>4
  <2>3. QED
    BY <2>1, <2>2
<1> HIDE DEF T
<1>2. SUBSET S \subseteq T
  BY <1>1, SubsetInduction
<1>3. QED
  BY <1>2 DEF T

(* A sum of integers is one. *)
LEMMA TotalIsInt ==
  ASSUME NEW S, IsFiniteSet(S), NEW D, S \subseteq D, NEW F \in [D -> Int]
  PROVE  Total(F, S) \in Int
<1>1. PICK g : SumOver(F, S, g)
  BY SumsExist
<1>2. g[S] \in Int
  BY <1>1, SumsRemove
<1>3. QED
  BY <1>1, <1>2, SumsGiveTotal

(* A new member adds its term. *)
LEMMA TotalGrows ==
  ASSUME NEW S, IsFiniteSet(S), NEW D, S \subseteq D, NEW F \in [D -> Int], NEW t \in D, t \notin S
  PROVE  Total(F, S) \in Int /\ Total(F, S \cup {t}) = Total(F, S) + F[t]
<1> DEFINE U == S \cup {t}
<1>1. IsFiniteSet(U) /\ U \subseteq D /\ S \in SUBSET U
  BY FS_AddElement
<1>2. PICK g, h : SumOver(F, U, g) /\ SumOver(F, S, h)
  BY <1>1, SumsExist
<1>3. Total(F, U) = g[U] /\ Total(F, S) = h[S]
  BY <1>1, <1>2, SumsGiveTotal
<1>4. h[S] = g[S]
  <2> HIDE DEF U
  <2>1. \A s \in SUBSET S : g[s] = h[s]
    BY <1>1, <1>2, SumsAgree
  <2>2. QED
    BY <2>1
<1>5. t \in U /\ U \ {t} = S /\ U \in SUBSET U
  OBVIOUS
<1>6. g[S] \in Int /\ g[U] = F[t] + g[S] /\ F[t] \in Int
  <2> HIDE DEF U
  <2>1. \A u \in SUBSET U : g[u] \in Int /\ \A p \in u : g[u] = F[p] + g[u \ {p}]
    <3>1. IsFiniteSet(U) /\ U \subseteq D /\ SumOver(F, U, g)
      BY <1>1, <1>2
    <3>2. QED
      BY <3>1, SumsRemove
  <2>2. g[U] = F[t] + g[U \ {t}]
    BY <1>5, <2>1
  <2>3. F[t] \in Int
    OBVIOUS
  <2>4. QED
    BY <1>1, <1>5, <2>1, <2>2, <2>3
<1>7. QED
  BY <1>3, <1>4, <1>6

(* The sum over the first numbers grows by a term at a time. *)
LEMMA TotalClimbs ==
  ASSUME NEW n \in Nat, NEW F \in [1..n -> Int], NEW m \in 1..n
  PROVE  Total(F, 1..m) = Total(F, 1..(m - 1)) + F[m]
<1>1. PICK before, all : before = 1..(m - 1) /\ all = 1..n
  OBVIOUS
<1>2. IsFiniteSet(before)
  BY <1>1, FS_Interval
<1>3. before \subseteq all /\ m \in all /\ m \notin before /\ before \cup {m} = 1..m
  BY <1>1
<1>4. F \in [all -> Int]
  BY <1>1
<1>5. Total(F, before \cup {m}) = Total(F, before) + F[m]
  BY <1>2, <1>3, <1>4, TotalGrows
<1>6. QED
  BY <1>1, <1>3, <1>5

(* SumFunction of the community modules is such a sum.                     *)
LEMMA SumFunctionIsTotal ==
  ASSUME NEW F, IsFiniteSet(DOMAIN F)
  PROVE  SumFunction(F) = Total(F, DOMAIN F)
<1> DEFINE Body(g) == g = [s \in SUBSET DOMAIN F |->
                        IF s = {} THEN 0
                        ELSE F[CHOOSE x \in s : TRUE] + g[s \ {CHOOSE x \in s : TRUE}]]
<1>1. SumFunction(F) = (CHOOSE g : Body(g))[DOMAIN F]
  BY DEF SumFunction, SumFunctionOnSet, FoldFunctionOnSet, MapThenFoldSet
<1>2. ASSUME NEW g PROVE Body(g) <=> SumOver(F, DOMAIN F, g)
  BY DEF SumOver, Pick
<1> HIDE DEF Body
<1>3. PICK g : SumOver(F, DOMAIN F, g)
  BY SumsExist
<1>4. SumOver(F, DOMAIN F, CHOOSE k : Body(k))
  BY <1>2, <1>3
<1>5. QED
  BY <1>1, <1>4, SumsGiveTotal

(* The sum depends on the terms of the set alone. *)
LEMMA TotalSame ==
  ASSUME NEW S, IsFiniteSet(S), NEW F, NEW G, \A x \in S : F[x] = G[x]
  PROVE  Total(F, S) = Total(G, S)
<1>1. PICK g : SumOver(F, S, g)
  BY SumsExist
<1>2. SumOver(G, S, g)
  <2>1. ASSUME NEW s \in SUBSET S, s # {} PROVE F[Pick(s)] = G[Pick(s)]
    BY <2>1, PickIsMember
  <2>2. [s \in SUBSET S |-> IF s = {} THEN 0 ELSE F[Pick(s)] + g[s \ {Pick(s)}]]
        = [s \in SUBSET S |-> IF s = {} THEN 0 ELSE G[Pick(s)] + g[s \ {Pick(s)}]]
    BY <2>1
  <2>3. QED
    BY <1>1, <2>2 DEF SumOver
<1>3. QED
  BY <1>1, <1>2, SumsGiveTotal

(* One of two disjoint sets more adds its sum. *)
LEMMA TotalOfUnion ==
  ASSUME NEW D, NEW F \in [D -> Int], NEW A, NEW B, A \subseteq D, B \subseteq D,
         IsFiniteSet(A), IsFiniteSet(B), A \cap B = {}
  PROVE  Total(F, A \cup B) = Total(F, A) + Total(F, B)
<1> DEFINE T == {s \in SUBSET B : Total(F, A \cup s) = Total(F, A) + Total(F, s)}
<1>1. ASSUME NEW s \in SUBSET B, \A u \in SUBSET s : u # s => u \in T
      PROVE  s \in T
  <2>1. IsFiniteSet(s) /\ Total(F, A) \in Int
    BY FS_Subset, TotalIsInt
  <2>2. CASE s = {}
    <3>1. Total(F, {}) = 0
      BY FS_EmptySet, TotalOfNothing
    <3>2. A \cup s = A
      BY <2>2
    <3>3. QED
      BY <2>1, <2>2, <3>1, <3>2
  <2>3. CASE s # {}
    <3>1. PICK p \in s : TRUE
      BY <2>3
    <3>2. PICK r : r = s \ {p}
      OBVIOUS
    <3>3. /\ r \in SUBSET s /\ r # s /\ s = r \cup {p} /\ p \notin r /\ p \notin A \cup r /\ p \in D
          /\ A \cup s = (A \cup r) \cup {p} /\ r \subseteq D /\ A \cup r \subseteq D
      BY <3>1, <3>2
    <3>4. Total(F, A \cup r) = Total(F, A) + Total(F, r)
      BY <1>1, <3>3
    <3>5. IsFiniteSet(r) /\ IsFiniteSet(A \cup r)
      BY <2>1, <3>3, FS_Subset, FS_Union
    <3>6. Total(F, r) \in Int /\ Total(F, s) = Total(F, r) + F[p]
      BY <3>3, <3>5, TotalGrows
    <3>7. Total(F, A \cup s) = Total(F, A \cup r) + F[p]
      BY <3>3, <3>5, TotalGrows
    <3>8. F[p] \in Int
      BY <3>3
    <3>9. QED
      BY <2>1, <3>4, <3>6, <3>7, <3>8
  <2>4. QED
    BY <2>2, <2>3
<1> HIDE DEF T
<1>2. SUBSET B \subseteq T
  BY <1>1, SubsetInduction
<1>3. QED
  BY <1>2 DEF T

(* A set cut into classes: the sums of the classes add up to its sum. *)
Class(c, S, i) == {x \in S : c[x] = i}

LEMMA TotalOfParts ==
  ASSUME NEW S, IsFiniteSet(S), NEW I, IsFiniteSet(I), NEW F \in [S -> Int], NEW c \in [S -> I]
  PROVE  Total([i \in I |-> Total(F, Class(c, S, i))], I) = Total(F, S)
<1> DEFINE Parts(s) == [i \in I |-> Total(F, Class(c, s, i))]
           T == {s \in SUBSET S : Total(Parts(s), I) = Total(F, s)}
<1>1. \A s \in SUBSET S, i \in I : /\ IsFiniteSet(Class(c, s, i)) /\ Class(c, s, i) \subseteq S
                                   /\ Total(F, Class(c, s, i)) \in Int
  <2> SUFFICES ASSUME NEW s \in SUBSET S, NEW i \in I
               PROVE  /\ IsFiniteSet(Class(c, s, i)) /\ Class(c, s, i) \subseteq S
                      /\ Total(F, Class(c, s, i)) \in Int
    OBVIOUS
  <2>1. Class(c, s, i) \in SUBSET S
    BY DEF Class
  <2>2. IsFiniteSet(Class(c, s, i))
    BY <2>1, FS_Subset
  <2>3. QED
    BY <2>1, <2>2, TotalIsInt
<1>2. ASSUME NEW s \in SUBSET S, \A u \in SUBSET s : u # s => u \in T
      PROVE  s \in T
  <2>1. CASE s = {}
    <3>1. Total(F, {}) = 0
      BY FS_EmptySet, TotalOfNothing
    <3>2. \A i \in I : Parts(s)[i] = 0
      <4>1. \A i \in I : Class(c, s, i) = {}
        BY <2>1 DEF Class
      <4>2. QED
        BY <3>1, <4>1
    <3> HIDE DEF Parts
    <3>3. Total(Parts(s), I) = 0
      BY <3>2, TotalOfNothing
    <3>4. QED
      BY <2>1, <3>1, <3>3
  <2>2. CASE s # {}
    <3>1. PICK p \in s : TRUE
      BY <2>2
    <3>2. PICK r : r = s \ {p}
      OBVIOUS
    <3>3. r \in SUBSET s /\ r # s /\ s = r \cup {p} /\ p \notin r /\ p \in S /\ r \in SUBSET S
      BY <3>1, <3>2
    <3>4. PICK k \in I : k = c[p]
      BY <3>3
    <3>5. \A i \in I : i # k => Class(c, s, i) = Class(c, r, i)
      BY <3>3, <3>4 DEF Class
    <3>6. Class(c, s, k) = Class(c, r, k) \cup {p} /\ p \notin Class(c, r, k)
      BY <3>3, <3>4 DEF Class
    <3>7. /\ Total(F, Class(c, r, k)) \in Int
          /\ Total(F, Class(c, s, k)) = Total(F, Class(c, r, k)) + F[p]
      <4>1. PICK part : part = Class(c, r, k)
        OBVIOUS
      <4>2. IsFiniteSet(part) /\ part \subseteq S /\ p \in S /\ p \notin part
        BY <1>1, <3>3, <3>6, <4>1
      <4>3. Total(F, part) \in Int /\ Total(F, part \cup {p}) = Total(F, part) + F[p]
        BY <4>2, TotalGrows
      <4>4. QED
        BY <3>6, <4>1, <4>3
    <3>8. Parts(r) \in [I -> Int] /\ Parts(s) \in [I -> Int]
      BY <1>1, <3>3
    <3>9. \A i \in I : i # k => Parts(s)[i] = Parts(r)[i]
      BY <3>5
    <3>10. Parts(s)[k] = Parts(r)[k] + F[p]
      BY <3>7
    <3>11. F[p] \in Int /\ Parts(r)[k] \in Int
      BY <3>3, <3>8
    <3>12. Total(Parts(r), I) = Total(F, r)
      BY <1>2, <3>3
    <3>13. IsFiniteSet(r)
      BY <3>3, FS_Subset
    <3>14. Total(F, r) \in Int /\ Total(F, s) = Total(F, r) + F[p]
      BY <3>3, <3>13, TotalGrows
    <3> HIDE DEF Parts
    <3>15. /\ Total(Parts(r), I) \in Int
           /\ Total(Parts(s), I) = Total(Parts(r), I) + Parts(s)[k] - Parts(r)[k]
      BY <3>8, <3>9, TotalFollows
    <3>16. QED
      BY <3>10, <3>11, <3>12, <3>14, <3>15
  <2>3. QED
    BY <2>1, <2>2
<1> HIDE DEF T
<1>3. SUBSET S \subseteq T
  BY <1>2, SubsetInduction
<1>4. QED
  BY <1>3 DEF T

(* The number of members is a sum of ones. *)
LEMMA CardinalityIsTotal ==
  ASSUME NEW S, IsFiniteSet(S)
  PROVE  Cardinality(S) = Total([x \in S |-> 1], S)
<1> DEFINE One == [x \in S |-> 1]
           T == {s \in SUBSET S : Cardinality(s) = Total(One, s)}
<1>1. One \in [S -> Int]
  OBVIOUS
<1> HIDE DEF One
<1>2. ASSUME NEW s \in SUBSET S, \A u \in SUBSET s : u # s => u \in T
      PROVE  s \in T
  <2>1. CASE s = {}
    BY <2>1, FS_EmptySet, TotalOfNothing
  <2>2. CASE s # {}
    <3>1. PICK p \in s : TRUE
      BY <2>2
    <3>2. PICK r : r = s \ {p}
      OBVIOUS
    <3>3. r \in SUBSET s /\ r # s /\ s = r \cup {p} /\ p \notin r /\ p \in S /\ r \subseteq S
      BY <3>1, <3>2
    <3>4. IsFiniteSet(r)
      BY <3>3, FS_Subset
    <3>5. Cardinality(s) = Cardinality(r) + 1
      BY <3>3, <3>4, FS_AddElement
    <3>6. Total(One, s) = Total(One, r) + One[p]
      BY <1>1, <3>3, <3>4, TotalGrows
    <3>7. One[p] = 1
      BY <3>3 DEF One
    <3>8. QED
      BY <1>2, <3>3, <3>5, <3>6, <3>7
  <2>3. QED
    BY <2>1, <2>2
<1> HIDE DEF T
<1>3. SUBSET S \subseteq T
  BY <1>2, SubsetInduction
<1>4. QED
  BY <1>3 DEF T, One

-----------------------------------------------------------------------------
(* What holds of 0 and passes from each number to the next holds up to n.  *)
LEMMA Climbing ==
  ASSUME NEW n \in Nat, NEW P, 0 \in P, \A k \in 1..n : k - 1 \in P => k \in P
  PROVE  0..n \subseteq P
<1> DEFINE S == 1..n
           T == {s \in SUBSET S : \A k \in 0..n : s = 1..k => k \in P}
<1>1. ASSUME NEW s \in SUBSET S, \A u \in SUBSET s : u # s => u \in T
      PROVE  s \in T
  <2>1. ASSUME NEW k \in 0..n, s = 1..k PROVE k \in P
    <3>1. CASE k = 0
      BY <3>1
    <3>2. CASE k # 0
      <4>1. k \in 1..n /\ k - 1 \in 0..n /\ k \in 1..k /\ k \notin 1..(k - 1)
        BY <3>2
      <4>2. 1..(k - 1) \in SUBSET s /\ 1..(k - 1) # s
        BY <2>1, <4>1
      <4>3. 1..(k - 1) \in T
        BY <1>1, <4>2
      <4>4. k - 1 \in P
        BY <4>1, <4>3
      <4>5. QED
        BY <4>1, <4>4
    <3>3. QED
      BY <3>1, <3>2
  <2>2. QED
    BY <2>1
<1>2. IsFiniteSet(S)
  BY FS_Interval
<1> HIDE DEF S, T
<1>3. SUBSET S \subseteq T
  BY <1>1, <1>2, SubsetInduction
<1>4. ASSUME NEW k \in 0..n PROVE k \in P
  <2>1. 1..k \in SUBSET S
    BY DEF S
  <2>2. 1..k \in T
    BY <1>3, <2>1
  <2>3. QED
    BY <2>2 DEF T
<1>5. QED
  BY <1>4

-----------------------------------------------------------------------------
(* Sorting: a strict total order lists the members of a finite set. *)

(* R orders S. *)
Orders(R, S) ==
  /\ \A x \in S : <<x, x>> \notin R
  /\ \A x, y \in S : x # y => (<<x, y>> \in R \/ <<y, x>> \in R)
  /\ \A x, y, z \in S : <<x, y>> \in R /\ <<y, z>> \in R => <<x, z>> \in R

(* o lists the members of S by R, each once. *)
Lists(o, S, R) ==
  /\ o \in Seq(S) /\ Len(o) = Cardinality(S) /\ Cardinality(S) \in Nat
  /\ \A x \in S : \E i \in 1..Len(o) : o[i] = x
  /\ \A i, j \in 1..Len(o) : i < j => <<o[i], o[j]>> \in R /\ o[i] # o[j]
  /\ \A i, j \in 1..Len(o) : <<o[i], o[j]>> \in R => i < j

(* A member's place is the number of those before it. *)
LEMMA OrderIsListed ==
  ASSUME NEW S, IsFiniteSet(S), NEW R, Orders(R, S)
  PROVE  Lists(InOrder(S, R), S, R)
<1> DEFINE N == Cardinality(S)
           Pre(x) == {y \in S : <<y, x>> \in R}
           place == [x \in S |-> Cardinality(Pre(x))]
           o == InOrder(S, R)
<1>1. \A x \in S : IsFiniteSet(Pre(x)) /\ Cardinality(Pre(x)) \in Nat
  <2>1. \A x \in S : Pre(x) \in SUBSET S
    OBVIOUS
  <2> HIDE DEF Pre
  <2>2. QED
    BY <2>1, FS_Subset, FS_CardinalityType
<1>2. N \in Nat
  BY FS_CardinalityType
<1>3. \A x \in S : place[x] \in 0..(N - 1)
  <2>1. ASSUME NEW x \in S PROVE Cardinality(Pre(x)) < N
    <3>1. Pre(x) \in SUBSET S /\ x \notin Pre(x)
      BY DEF Orders
    <3> HIDE DEF Pre
    <3>2. Cardinality(Pre(x)) <= N /\ (N = Cardinality(Pre(x)) => S = Pre(x))
      BY <3>1, FS_Subset
    <3>3. QED
      BY <1>1, <1>2, <3>1, <3>2
  <2> HIDE DEF Pre, N
  <2>2. QED
    BY <1>1, <1>2, <2>1
<1>4. \A x, y \in S : <<x, y>> \in R => place[x] < place[y]
  <2> SUFFICES ASSUME NEW x \in S, NEW y \in S, <<x, y>> \in R
               PROVE  Cardinality(Pre(x)) < Cardinality(Pre(y))
    OBVIOUS
  <2>1. Pre(x) \in SUBSET Pre(y) /\ x \in Pre(y) /\ x \notin Pre(x)
    BY DEF Orders
  <2> HIDE DEF Pre
  <2>2. /\ Cardinality(Pre(x)) <= Cardinality(Pre(y))
        /\ (Cardinality(Pre(y)) = Cardinality(Pre(x)) => Pre(y) = Pre(x))
    BY <1>1, <2>1, FS_Subset
  <2>3. QED
    BY <1>1, <2>1, <2>2
<1>5. \A x, y \in S : place[x] = place[y] => x = y
  <2> HIDE DEF place, N
  <2>1. ASSUME NEW x \in S, NEW y \in S, place[x] = place[y], x # y PROVE FALSE
    <3>1. place[x] \in Int /\ place[y] \in Int
      BY <1>2, <1>3
    <3>2. <<x, y>> \in R \/ <<y, x>> \in R
      BY <2>1 DEF Orders
    <3>3. place[x] < place[y] \/ place[y] < place[x]
      BY <1>4, <3>2
    <3>4. QED
      BY <2>1, <3>1, <3>3
  <2>2. QED
    BY <2>1
<1>6. \A k \in 0..(N - 1) : \E x \in S : place[x] = k
  <2> DEFINE T == 0..(N - 1)
  <2>1. IsFiniteSet(T) /\ Cardinality(T) = N
    <3> HIDE DEF N
    <3>1. QED
      BY <1>2, FS_Interval
  <2>2. place \in [S -> T]
    BY <1>3
  <2> HIDE DEF T, place
  <2>3. place \in Injection(S, T)
    BY <1>5, <2>2 DEF Injection, IsInjective
  <2>4. place \in Surjection(S, T)
    BY <2>1, <2>3, FS_Injection
  <2>5. QED
    BY <2>4 DEF Surjection, T
<1>7. \A n \in 1..N : o[n] \in S /\ place[o[n]] = n - 1
  <2> SUFFICES ASSUME NEW n \in 1..N PROVE o[n] \in S /\ place[o[n]] = n - 1
    OBVIOUS
  <2>1. o[n] = CHOOSE x \in S : Cardinality(Pre(x)) = n - 1
    BY DEF InOrder
  <2>2. \E x \in S : Cardinality(Pre(x)) = n - 1
    <3>1. n - 1 \in 0..(N - 1)
      BY <1>2
    <3>2. PICK x \in S : place[x] = n - 1
      BY <1>6, <3>1
    <3>3. QED
      BY <3>2
  <2> HIDE DEF o, Pre, N
  <2>3. o[n] \in S /\ Cardinality(Pre(o[n])) = n - 1
    BY <2>1, <2>2
  <2>4. QED
    BY <2>3
<1>8. o \in [1..N -> S]
  <2>1. o = [n \in 1..N |-> o[n]]
    <3> DEFINE nth(n) == CHOOSE x \in S : Cardinality(Pre(x)) = n - 1
    <3>1. o = [n \in 1..N |-> nth(n)]
      BY DEF InOrder
    <3> HIDE DEF o, N, nth
    <3>2. QED
      BY <3>1
  <2> HIDE DEF o, N
  <2>2. QED
    BY <1>7, <2>1
<1> HIDE DEF place, o, N, Pre
<1>9. o \in Seq(S) /\ Len(o) = N
  BY <1>2, <1>8
<1>10. ASSUME NEW x \in S PROVE \E i \in 1..N : o[i] = x
  <2> DEFINE i == place[x] + 1
  <2>1. i \in 1..N
    BY <1>2, <1>3
  <2>2. o[i] \in S /\ place[o[i]] = place[x]
    BY <1>2, <1>3, <1>7, <2>1
  <2> HIDE DEF i
  <2>3. o[i] = x
    BY <1>5, <2>2
  <2>4. QED
    BY <2>1, <2>3
<1>11. ASSUME NEW i \in 1..N, NEW j \in 1..N
       PROVE  /\ i < j => <<o[i], o[j]>> \in R /\ o[i] # o[j]
              /\ <<o[i], o[j]>> \in R => i < j
  <2>1. o[i] \in S /\ o[j] \in S /\ place[o[i]] = i - 1 /\ place[o[j]] = j - 1
    BY <1>7
  <2>2. ASSUME <<o[i], o[j]>> \in R PROVE i < j
    <3>1. place[o[i]] < place[o[j]]
      BY <1>4, <2>1, <2>2
    <3>2. QED
      BY <1>2, <2>1, <3>1
  <2>3. ASSUME i < j PROVE <<o[i], o[j]>> \in R /\ o[i] # o[j]
    <3>1. i - 1 # j - 1 /\ ~(j - 1 < i - 1)
      BY <1>2, <2>3
    <3>2. o[i] # o[j]
      BY <2>1, <3>1
    <3>3. <<o[j], o[i]>> \notin R
      BY <1>4, <2>1, <3>1
    <3>4. QED
      BY <2>1, <3>2, <3>3 DEF Orders
  <2>4. QED
    BY <2>2, <2>3
<1>12. QED
  BY <1>2, <1>9, <1>10, <1>11 DEF Lists, o, N

LEMMA ListsAre ==
  ASSUME NEW o, NEW S, NEW R, Lists(o, S, R)
  PROVE  /\ Len(o) \in Nat /\ DOMAIN o = 1..Len(o)
         /\ \A i \in 1..Len(o) : o[i] \in S
         /\ o = <<>> <=> S = {}
<1>1. o \in Seq(S) /\ Len(o) \in Nat
  BY DEF Lists
<1>2. DOMAIN o = 1..Len(o) /\ \A i \in 1..Len(o) : o[i] \in S
  BY <1>1
<1>3. ASSUME o = <<>> PROVE S = {}
  <2>1. Len(o) = 0
    BY <1>3
  <2>2. QED
    BY <2>1 DEF Lists
<1>4. ASSUME S = {} PROVE o = <<>>
  <2>1. ~(1 <= Len(o))
    BY <1>1, <1>2, <1>4
  <2>2. QED
    BY <1>1, <2>1
<1>5. QED
  BY <1>1, <1>2, <1>3, <1>4
=============================================================================

----------------------------- MODULE Sums_proofs -----------------------------
(* Facts about SumOver for every finite set and every function.  An          *)
(* induction is a least counterexample: the finite subsets of a set are well *)
(* founded.                                                                  *)
EXTENDS Sums, FiniteSetTheorems, TLAPS

\* A minimal member of a nonempty family of subsets of a finite set.
LEMMA MinimalSet ==
    ASSUME NEW S, IsFiniteSet(S), NEW F, F \subseteq SUBSET S, F # {}
    PROVE  \E s \in F : \A t \in F : t \subseteq s => t = s
<1> DEFINE R == StrictSubsetOrdering(S)
<1>1. IsWellFoundedOn(R, SUBSET S)
    BY FS_StrictSubsetOrderingWellFounded, FS_FiniteSubsetsOfFinite
<1> HIDE DEF R
<1>2. \E s \in F : \A t \in F : ~ (<<t, s>> \in R)
    BY <1>1, WFMin
<1>3. PICK s \in F : \A t \in F : ~ (<<t, s>> \in R)
    BY <1>2
<1>4. ASSUME NEW t \in F, t \subseteq s PROVE t = s
  <2> SUFFICES ASSUME t # s PROVE FALSE
    OBVIOUS
  <2>1. t \in SUBSET S /\ s \in SUBSET S
    OBVIOUS
  <2>2. <<t, s>> \in R
    BY <1>4, <2>1 DEF R, StrictSubsetOrdering
  <2> QED BY <1>3, <2>2
<1> QED BY <1>4

\* The element that the fold takes first.
First(s) == CHOOSE x \in s : TRUE

\* What the fold asks of a table of sums over the subsets of S.
SumTable(g, S, f) ==
    g = [s \in SUBSET S |->
            IF s = {} THEN 0 ELSE f[First(s)] + g[s \ {First(s)}]]

\* The sum as the fold computes it.
LEMMA SumUnfolded ==
    ASSUME NEW S, NEW f
    PROVE  SumOver(S, f) = (CHOOSE g : SumTable(g, S, f))[S]
BY DEF SumOver, MapThenSumSet, MapThenFoldSet, SumTable, First

\* The first element of a set is one.
LEMMA FirstIn ==
    ASSUME NEW s, s # {}
    PROVE  First(s) \in s
BY DEF First

\* Tables agree where both are defined.
LEMMA TablesAgree ==
    ASSUME NEW f, NEW S, IsFiniteSet(S), NEW T, NEW g, SumTable(g, S, f),
           NEW h, SumTable(h, T, f), NEW u, u \subseteq S, u \subseteq T
    PROVE  g[u] = h[u]
<1> DEFINE F == {s \in SUBSET S : s \subseteq T /\ g[s] # h[s]}
<1> SUFFICES ASSUME F # {} PROVE FALSE
    OBVIOUS
<1>0. F \subseteq SUBSET S
    OBVIOUS
<1>1. PICK s \in F : \A t \in F : t \subseteq s => t = s
  <2> HIDE DEF F
  <2> QED BY <1>0, MinimalSet
<1>2. /\ g[s] = IF s = {} THEN 0 ELSE f[First(s)] + g[s \ {First(s)}]
      /\ h[s] = IF s = {} THEN 0 ELSE f[First(s)] + h[s \ {First(s)}]
    BY DEF SumTable
<1>3. s # {}
    BY <1>2
<1>4. First(s) \in s
    BY <1>3, FirstIn
<1>5. s \ {First(s)} \notin F /\ s \ {First(s)} \subseteq S /\ s \ {First(s)} \subseteq T
    BY <1>1, <1>4
<1> QED BY <1>2, <1>3, <1>5

\* Every finite set has a table.
LEMMA TableExists ==
    ASSUME NEW S, IsFiniteSet(S), NEW f
    PROVE  \E g : SumTable(g, S, f)
<1> DEFINE F == {s \in SUBSET S : ~ \E g : SumTable(g, s, f)}
<1> SUFFICES ASSUME F # {} PROVE FALSE
    OBVIOUS
<1>0. F \subseteq SUBSET S
    OBVIOUS
<1>1. PICK s \in F : \A t \in F : t \subseteq s => t = s
  <2> HIDE DEF F
  <2> QED BY <1>0, MinimalSet
<1> DEFINE G(t) == CHOOSE g : SumTable(g, t, f)
           h == [t \in SUBSET s |->
                    IF t = {} THEN 0
                    ELSE IF t = s THEN f[First(s)] + G(s \ {First(s)})[s \ {First(s)}]
                    ELSE G(t)[t]]
<1>2. ASSUME NEW t \in SUBSET s, t # s PROVE SumTable(G(t), t, f) /\ IsFiniteSet(t)
  <2>1. t \notin F /\ t \in SUBSET S
    BY <1>1, <1>2
  <2>2. \E g : SumTable(g, t, f)
    BY <2>1
  <2> QED BY <2>1, <2>2, FS_Subset
<1>3. ASSUME NEW t \in SUBSET s, t # {}
      PROVE  h[t] = f[First(t)] + h[t \ {First(t)}]
  <2> DEFINE u == t \ {First(t)}
  <2>1. First(t) \in t
    BY <1>3, FirstIn
  <2>2. u \in SUBSET s /\ u # s /\ u \subseteq t
    BY <2>1
  <2>3. h[u] = G(u)[u]
    <3>1. CASE u = {}
      <4>1. h[u] = 0
        BY <2>2, <3>1
      <4>2. SumTable(G(u), u, f)
        BY <1>2, <2>2
      <4>3. G(u)[u] = 0
        BY <3>1, <4>2 DEF SumTable
      <4> QED BY <4>1, <4>3
    <3>2. CASE u # {}
      BY <2>2, <3>2
    <3> QED BY <3>1, <3>2
  <2>4. CASE t = s
    BY <1>3, <2>3, <2>4
  <2>5. CASE t # s
    <3>1. SumTable(G(t), t, f) /\ IsFiniteSet(t) /\ SumTable(G(u), u, f)
      BY <1>2, <2>2, <2>5
    <3>2. h[t] = G(t)[t]
      BY <1>3, <2>5
    <3> HIDE DEF G, h
    <3>3. G(t)[t] = f[First(t)] + G(t)[u]
      BY <1>3, <3>1 DEF SumTable
    <3>4. G(t)[u] = G(u)[u]
      BY <2>2, <3>1, TablesAgree
    <3> QED BY <2>3, <3>2, <3>3, <3>4
  <2> QED BY <2>4, <2>5
<1>4. h[{}] = 0 /\ h = [t \in SUBSET s |-> h[t]]
    OBVIOUS
<1> HIDE DEF h
<1>5. SumTable(h, s, f)
    BY <1>3, <1>4 DEF SumTable
<1> QED BY <1>5

\* The two equations of a sum.
LEMMA SumOfNone ==
    ASSUME NEW f
    PROVE  SumOver({}, f) = 0
<1>1. SumTable(CHOOSE g : SumTable(g, {}, f), {}, f)
    BY TableExists, FS_EmptySet
<1> QED BY <1>1, SumUnfolded DEF SumTable

LEMMA SumByFirst ==
    ASSUME NEW S, IsFiniteSet(S), S # {}, NEW f
    PROVE  SumOver(S, f) = f[First(S)] + SumOver(S \ {First(S)}, f)
<1> DEFINE T == S \ {First(S)}
           g == CHOOSE g : SumTable(g, S, f)
           h == CHOOSE h : SumTable(h, T, f)
<1>1. IsFiniteSet(T)
    BY FS_RemoveElement
<1>2. SumTable(g, S, f) /\ SumTable(h, T, f)
    BY <1>1, TableExists
<1>3. SumOver(S, f) = g[S] /\ SumOver(T, f) = h[T]
    BY SumUnfolded
<1> HIDE DEF g, h
<1>4. g[S] = f[First(S)] + g[T]
    BY <1>2 DEF SumTable
<1>5. g[T] = h[T]
    BY <1>1, <1>2, TablesAgree
<1> QED BY <1>3, <1>4, <1>5

-----------------------------------------------------------------------------
(* Sums of integers. *)

\* A sum of integers is an integer.
LEMMA SumType ==
    ASSUME NEW S, IsFiniteSet(S), NEW f, \A x \in S : f[x] \in Int
    PROVE  SumOver(S, f) \in Int
<1> DEFINE F == {s \in SUBSET S : SumOver(s, f) \notin Int}
<1> SUFFICES ASSUME F # {} PROVE FALSE
    OBVIOUS
<1>0. F \subseteq SUBSET S
    OBVIOUS
<1>1. PICK s \in F : \A t \in F : t \subseteq s => t = s
  <2> HIDE DEF F
  <2> QED BY <1>0, MinimalSet
<1>2. s # {} /\ IsFiniteSet(s)
  <2>1. s # {}
    BY SumOfNone
  <2>2. IsFiniteSet(s)
    BY FS_Subset
  <2> QED BY <2>1, <2>2
<1>3. First(s) \in s
    BY <1>2, FirstIn
<1>4. SumOver(s \ {First(s)}, f) \in Int
    BY <1>1, <1>3
<1>5. SumOver(s, f) = f[First(s)] + SumOver(s \ {First(s)}, f)
    BY <1>2, SumByFirst
<1> QED BY <1>3, <1>4, <1>5

\* Any element may be taken first.
LEMMA SumByAny ==
    ASSUME NEW S, IsFiniteSet(S), NEW f, \A x \in S : f[x] \in Int, NEW x \in S
    PROVE  SumOver(S, f) = f[x] + SumOver(S \ {x}, f)
<1> DEFINE F == {s \in SUBSET S :
                    \E y \in s : SumOver(s, f) # f[y] + SumOver(s \ {y}, f)}
<1> SUFFICES ASSUME F # {} PROVE FALSE
    OBVIOUS
<1>0. F \subseteq SUBSET S
    OBVIOUS
<1>1. PICK s \in F : \A t \in F : t \subseteq s => t = s
  <2> HIDE DEF F
  <2> QED BY <1>0, MinimalSet
<1>2. PICK y \in s : SumOver(s, f) # f[y] + SumOver(s \ {y}, f)
    OBVIOUS
<1> DEFINE z == First(s)
<1>3. IsFiniteSet(s) /\ z \in s
    BY FS_Subset, FirstIn
<1>4. SumOver(s, f) = f[z] + SumOver(s \ {z}, f)
    BY <1>3, SumByFirst
<1>5. z # y
    BY <1>2, <1>4
<1> HIDE DEF z
<1>6. s \ {z} \notin F /\ s \ {y} \notin F
    BY <1>1, <1>3
<1>7. /\ SumOver(s \ {z}, f) = f[y] + SumOver((s \ {z}) \ {y}, f)
      /\ SumOver(s \ {y}, f) = f[z] + SumOver((s \ {y}) \ {z}, f)
    BY <1>3, <1>5, <1>6
<1>8. (s \ {z}) \ {y} = (s \ {y}) \ {z}
    OBVIOUS
<1>9. SumOver((s \ {z}) \ {y}, f) \in Int
  <2>1. IsFiniteSet((s \ {z}) \ {y})
    BY <1>3, FS_RemoveElement
  <2> QED BY <2>1, SumType
<1>10. f[y] \in Int /\ f[z] \in Int
    BY <1>3
<1> DEFINE r == SumOver((s \ {z}) \ {y}, f)
<1>11. /\ SumOver(s, f) = f[z] + (f[y] + r)
       /\ SumOver(s \ {y}, f) = f[z] + r
    BY <1>4, <1>7, <1>8
<1> HIDE DEF r
<1>12. r \in Int
    BY <1>9 DEF r
<1>13. SumOver(s, f) = f[y] + SumOver(s \ {y}, f)
    BY <1>10, <1>11, <1>12
<1> QED BY <1>2, <1>13

\* A new element adds its term.
LEMMA SumAdded ==
    ASSUME NEW S, IsFiniteSet(S), NEW f, NEW x, x \notin S,
           \A y \in S \cup {x} : f[y] \in Int
    PROVE  SumOver(S \cup {x}, f) = SumOver(S, f) + f[x]
<1>1. IsFiniteSet(S \cup {x})
    BY FS_AddElement
<1>2. (S \cup {x}) \ {x} = S
    OBVIOUS
<1>3. SumOver(S \cup {x}, f) = f[x] + SumOver(S, f)
    BY <1>1, <1>2, SumByAny
<1>4. SumOver(S, f) \in Int
    BY SumType
<1> QED BY <1>3, <1>4

\* Where c times each term of f is at most d times that of h, so are the sums.
LEMMA SumBounded ==
    ASSUME NEW S, IsFiniteSet(S), NEW f, NEW h, NEW c \in Int, NEW d \in Int,
           \A x \in S : f[x] \in Int /\ h[x] \in Int,
           \A x \in S : c * f[x] <= d * h[x]
    PROVE  c * SumOver(S, f) <= d * SumOver(S, h)
<1> DEFINE F == {s \in SUBSET S : ~(c * SumOver(s, f) <= d * SumOver(s, h))}
<1> SUFFICES ASSUME F # {} PROVE FALSE
    OBVIOUS
<1>0. F \subseteq SUBSET S
    OBVIOUS
<1>1. PICK s \in F : \A t \in F : t \subseteq s => t = s
  <2> HIDE DEF F
  <2> QED BY <1>0, MinimalSet
<1>2. s # {} /\ IsFiniteSet(s)
  <2>1. s # {}
    BY SumOfNone
  <2>2. IsFiniteSet(s)
    BY FS_Subset
  <2> QED BY <2>1, <2>2
<1> DEFINE x == First(s)
           a == SumOver(s \ {x}, f)
           b == SumOver(s \ {x}, h)
<1>3. x \in s
    BY <1>2, FirstIn
<1>4. SumOver(s, f) = f[x] + a /\ SumOver(s, h) = h[x] + b
    BY <1>2, SumByFirst
<1>5. IsFiniteSet(s \ {x})
    BY <1>2, FS_RemoveElement
<1>6. a \in Int /\ b \in Int
    BY <1>5, SumType
<1>7. c * a <= d * b
    BY <1>1, <1>3
<1>8. f[x] \in Int /\ h[x] \in Int /\ c * f[x] <= d * h[x]
    BY <1>3
<1> HIDE DEF a, b, x
<1>9. /\ c * (f[x] + a) = c * f[x] + c * a
      /\ d * (h[x] + b) = d * h[x] + d * b
    BY <1>6, <1>8
<1>10. /\ c * a \in Int /\ c * f[x] \in Int
       /\ d * b \in Int /\ d * h[x] \in Int
    BY <1>6, <1>8
<1>11. c * f[x] + c * a <= d * h[x] + d * b
    BY <1>7, <1>8, <1>10
<1> QED BY <1>1, <1>4, <1>9, <1>11

\* Sums of equal terms are equal.
LEMMA SumSame ==
    ASSUME NEW S, IsFiniteSet(S), NEW f, NEW h, \A x \in S : h[x] = f[x]
    PROVE  SumOver(S, h) = SumOver(S, f)
<1> DEFINE F == {s \in SUBSET S : SumOver(s, h) # SumOver(s, f)}
<1> SUFFICES ASSUME F # {} PROVE FALSE
    OBVIOUS
<1>0. F \subseteq SUBSET S
    OBVIOUS
<1>1. PICK s \in F : \A t \in F : t \subseteq s => t = s
  <2> HIDE DEF F
  <2> QED BY <1>0, MinimalSet
<1>2. s # {} /\ IsFiniteSet(s)
  <2>1. s # {}
    BY SumOfNone
  <2>2. IsFiniteSet(s)
    BY FS_Subset
  <2> QED BY <2>1, <2>2
<1>3. First(s) \in s
    BY <1>2, FirstIn
<1>4. s \ {First(s)} \notin F
    BY <1>1, <1>3
<1>5. /\ SumOver(s, f) = f[First(s)] + SumOver(s \ {First(s)}, f)
      /\ SumOver(s, h) = h[First(s)] + SumOver(s \ {First(s)}, h)
    BY <1>2, SumByFirst
<1> QED BY <1>1, <1>3, <1>4, <1>5

\* A change of one term changes the sum by as much.
LEMMA SumChanged ==
    ASSUME NEW S, IsFiniteSet(S), NEW f, NEW h, NEW x \in S,
           \A y \in S : f[y] \in Int /\ h[y] \in Int,
           \A y \in S \ {x} : h[y] = f[y]
    PROVE  SumOver(S, h) = SumOver(S, f) + (h[x] - f[x])
<1>1. IsFiniteSet(S \ {x})
    BY FS_RemoveElement
<1>2. SumOver(S \ {x}, h) = SumOver(S \ {x}, f)
    BY <1>1, SumSame
<1>3. /\ SumOver(S, f) = f[x] + SumOver(S \ {x}, f)
      /\ SumOver(S, h) = h[x] + SumOver(S \ {x}, h)
    BY SumByAny
<1>4. SumOver(S \ {x}, f) \in Int
    BY <1>1, SumType
<1> QED BY <1>2, <1>3, <1>4

\* A sum of naturals is a natural and at least each of its terms.
LEMMA SumOfNaturals ==
    ASSUME NEW S, IsFiniteSet(S), NEW f, \A x \in S : f[x] \in Nat
    PROVE  /\ SumOver(S, f) \in Nat
           /\ \A x \in S : f[x] <= SumOver(S, f)
<1>1. ASSUME NEW T, T \subseteq S PROVE SumOver(T, f) \in Nat
  <2>1. IsFiniteSet(T)
    BY <1>1, FS_Subset
  <2>2. \A x \in T : f[x] \in Int /\ 0 * f[x] <= 1 * f[x]
    BY <1>1
  <2>3. 0 * SumOver(T, f) <= 1 * SumOver(T, f)
    BY <2>1, <2>2, SumBounded
  <2>4. SumOver(T, f) \in Int
    BY <2>1, <2>2, SumType
  <2> QED BY <2>3, <2>4
<1>2. ASSUME NEW x \in S PROVE f[x] <= SumOver(S, f)
  <2>1. SumOver(S, f) = f[x] + SumOver(S \ {x}, f)
    BY SumByAny
  <2>2. SumOver(S \ {x}, f) \in Nat
    BY <1>1
  <2> QED BY <2>1, <2>2
<1> QED BY <1>1, <1>2

\* A sum of zeros.
LEMMA SumOfZeros ==
    ASSUME NEW S, IsFiniteSet(S), NEW f, \A x \in S : f[x] = 0
    PROVE  SumOver(S, f) = 0
<1>1. \A x \in S : f[x] \in Nat
    OBVIOUS
<1>2. SumOver(S, f) \in Nat
    BY <1>1, SumOfNaturals
<1>3. 1 * SumOver(S, f) <= 0 * SumOver(S, f)
    BY SumBounded
<1> QED BY <1>2, <1>3
=============================================================================

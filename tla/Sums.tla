-------------------------------- MODULE Sums --------------------------------
(***************************************************************************)
(* Sums over finite sets, as MapThenSumSet of the community modules        *)
(* computes them: in whatever order CHOOSE takes the elements.  The sum    *)
(* exists, it is what any element adds to the sum of the others, and it    *)
(* depends on what is summed only.                                         *)
(***************************************************************************)
EXTENDS Integers, FiniteSetsExt, FiniteSetTheorems, TLAPS

SumOver(f, S) == MapThenSumSet(LAMBDA x : f[x], S)

Chosen(s) == CHOOSE x \in s : TRUE

\* g is the function by which the sum of f over S is computed.
IsSum(g, f, S) ==
  g = [s \in SUBSET S |-> IF s = {} THEN 0 ELSE f[Chosen(s)] + g[s \ {Chosen(s)}]]

-----------------------------------------------------------------------------
(* Of some subsets of a finite set, one has no other below it *)

LEMMA LeastSubset ==
  ASSUME NEW S, IsFiniteSet(S), NEW T, T \subseteq SUBSET S, T # {}
  PROVE  \E x \in T : \A y \in T : y \subseteq x => y = x
<1>1. IsWellFoundedOn(StrictSubsetOrdering(S), FiniteSubsetsOf(S))
  BY FS_StrictSubsetOrderingWellFounded
<1>2. \A x \in SUBSET S : IsFiniteSet(x)
  BY FS_Subset
<1>3. T \subseteq FiniteSubsetsOf(S)
  BY <1>2 DEF FiniteSubsetsOf
<1>4. PICK x \in T : \A y \in T : ~ (<<y, x>> \in StrictSubsetOrdering(S))
  BY <1>1, <1>3, WFMin
<1>5. QED
  BY <1>4 DEF StrictSubsetOrdering

-----------------------------------------------------------------------------
(* The function exists, and is the only one *)

LEMMA SumUnique ==
  ASSUME NEW f, NEW S, NEW T, NEW g, NEW h, IsSum(g, f, S), IsSum(h, f, T),
         NEW s, s \subseteq S, s \subseteq T, IsFiniteSet(s)
  PROVE  g[s] = h[s]
<1> DEFINE Bad == {b \in SUBSET s : g[b] # h[b]}
<1>1. ASSUME Bad # {}
      PROVE  FALSE
  <2>0. Bad \subseteq SUBSET s
    OBVIOUS
  <2>1. PICK b \in Bad : \A c \in Bad : c \subseteq b => c = b
    <3> HIDE DEF Bad
    <3>1. QED
      BY <1>1, <2>0, LeastSubset
  <2>2. b \in SUBSET S /\ b \in SUBSET T
    OBVIOUS
  <2>3. /\ g[b] = IF b = {} THEN 0 ELSE f[Chosen(b)] + g[b \ {Chosen(b)}]
        /\ h[b] = IF b = {} THEN 0 ELSE f[Chosen(b)] + h[b \ {Chosen(b)}]
    BY <2>2 DEF IsSum
  <2>4. b # {}
    BY <2>3
  <2>5. Chosen(b) \in b
    BY <2>4 DEF Chosen
  <2>6. g[b \ {Chosen(b)}] = h[b \ {Chosen(b)}]
    BY <2>1, <2>5
  <2>7. QED
    BY <2>3, <2>6
<1>2. QED
  BY <1>1

LEMMA SumExists ==
  ASSUME NEW f, NEW S, IsFiniteSet(S)
  PROVE  \E g : IsSum(g, f, S)
<1> DEFINE Bad == {b \in SUBSET S : ~ \E g : IsSum(g, f, b)}
           H(b) == CHOOSE g : IsSum(g, f, b)
<1>1. ASSUME Bad # {}
      PROVE  FALSE
  <2>0. Bad \subseteq SUBSET S
    OBVIOUS
  <2>1. PICK b \in Bad : \A c \in Bad : c \subseteq b => c = b
    <3> HIDE DEF Bad
    <3>1. QED
      BY <1>1, <2>0, LeastSubset
  <2>2. ASSUME NEW c, c \subseteq b, c # b
        PROVE  IsSum(H(c), f, c)
    <3>1. \E g : IsSum(g, f, c)
      BY <2>1, <2>2
    <3>2. QED
      BY <3>1
  <2> DEFINE g == [s \in SUBSET b |->
                     IF s = {} THEN 0 ELSE f[Chosen(s)] + H(s \ {Chosen(s)})[s \ {Chosen(s)}]]
  <2>3. ASSUME NEW u, u \subseteq b, u # b
        PROVE  g[u] = H(u)[u]
    <3>1. IsSum(H(u), f, u)
      BY <2>2, <2>3
    <3> HIDE DEF H
    <3>2. H(u)[u] = IF u = {} THEN 0 ELSE f[Chosen(u)] + H(u)[u \ {Chosen(u)}]
      BY <3>1 DEF IsSum
    <3>3. CASE u = {}
      BY <2>3, <3>2, <3>3
    <3>4. CASE u # {}
      <4> DEFINE v == u \ {Chosen(u)}
      <4>1. Chosen(u) \in u
        BY <3>4 DEF Chosen
      <4>2. v \subseteq b /\ v # b /\ v \subseteq u
        BY <2>3, <4>1
      <4>3. IsSum(H(v), f, v)
        BY <2>2, <4>2
      <4>4. IsFiniteSet(v)
        BY <4>2, FS_Subset
      <4> HIDE DEF v
      <4>5. H(u)[v] = H(v)[v]
        BY <3>1, <4>2, <4>3, <4>4, SumUnique
      <4>6. g[u] = f[Chosen(u)] + H(v)[v]
        BY <2>3, <3>4 DEF v
      <4>7. QED
        BY <3>2, <3>4, <4>5, <4>6 DEF v
    <3>5. QED
      BY <3>3, <3>4
  <2>4. ASSUME NEW s \in SUBSET b
        PROVE  g[s] = IF s = {} THEN 0 ELSE f[Chosen(s)] + g[s \ {Chosen(s)}]
    <3>1. CASE s = {}
      BY <3>1
    <3>2. CASE s # {}
      <4>1. Chosen(s) \in s
        BY <3>2 DEF Chosen
      <4>2. s \ {Chosen(s)} \subseteq b /\ s \ {Chosen(s)} # b
        BY <4>1
      <4>3. g[s \ {Chosen(s)}] = H(s \ {Chosen(s)})[s \ {Chosen(s)}]
        BY <2>3, <4>2
      <4>4. QED
        BY <3>2, <4>3
    <3>3. QED
      BY <3>1, <3>2
  <2>5. g = [s \in SUBSET b |-> g[s]]
    OBVIOUS
  <2> HIDE DEF g
  <2>6. IsSum(g, f, b)
    BY <2>4, <2>5 DEF IsSum
  <2>7. QED
    BY <2>6
<1>2. QED
  BY <1>1

-----------------------------------------------------------------------------
(* What the sum is *)

LEMMA SumIs ==
  ASSUME NEW f, NEW S, IsFiniteSet(S)
  PROVE  \E g : IsSum(g, f, S) /\ SumOver(f, S) = g[S]
<1> DEFINE g == CHOOSE g : IsSum(g, f, S)
<1>1. IsSum(g, f, S)
  BY SumExists
<1>2. SumOver(f, S) = g[S]
  BY DEF SumOver, MapThenSumSet, MapThenFoldSet, IsSum, Chosen
<1>3. QED
  BY <1>1, <1>2

\* Whoever computes a sum by such a function computes this one.
LEMMA SumOf ==
  ASSUME NEW f, NEW S, IsFiniteSet(S), NEW g, IsSum(g, f, S)
  PROVE  SumOver(f, S) = g[S]
BY SumIs, SumUnique

LEMMA SumNothing ==
  ASSUME NEW f
  PROVE  SumOver(f, {}) = 0
<1>1. IsFiniteSet({})
  BY FS_EmptySet
<1>2. PICK g : IsSum(g, f, {}) /\ SumOver(f, {}) = g[{}]
  BY <1>1, SumIs
<1>3. QED
  BY <1>2 DEF IsSum

LEMMA SumChosen ==
  ASSUME NEW f, NEW S, IsFiniteSet(S), S # {}
  PROVE  Chosen(S) \in S /\ SumOver(f, S) = f[Chosen(S)] + SumOver(f, S \ {Chosen(S)})
<1> DEFINE T == S \ {Chosen(S)}
<1>1. Chosen(S) \in S
  BY DEF Chosen
<1>2. IsFiniteSet(T)
  BY FS_RemoveElement
<1>3. PICK g : IsSum(g, f, S) /\ SumOver(f, S) = g[S]
  BY SumIs
<1>4. PICK h : IsSum(h, f, T) /\ SumOver(f, T) = h[T]
  BY <1>2, SumIs
<1>5. g[S] = f[Chosen(S)] + g[T]
  BY <1>3 DEF IsSum
<1>6. T \subseteq S /\ T \subseteq T
  OBVIOUS
<1> HIDE DEF T
<1>7. g[T] = h[T]
  BY <1>2, <1>3, <1>4, <1>6, SumUnique
<1>8. QED
  BY <1>1, <1>3, <1>4, <1>5, <1>7 DEF T

LEMMA SumType ==
  ASSUME NEW f, NEW S, IsFiniteSet(S), \A x \in S : f[x] \in Int
  PROVE  SumOver(f, S) \in Int
<1> DEFINE Bad == {b \in SUBSET S : SumOver(f, b) \notin Int}
<1>1. ASSUME Bad # {}
      PROVE  FALSE
  <2>0. Bad \subseteq SUBSET S
    OBVIOUS
  <2>1. PICK b \in Bad : \A c \in Bad : c \subseteq b => c = b
    <3> HIDE DEF Bad
    <3>1. QED
      BY <1>1, <2>0, LeastSubset
  <2>2. b \subseteq S /\ IsFiniteSet(b) /\ SumOver(f, b) \notin Int
    BY FS_Subset
  <2>3. b # {}
    BY <2>2, SumNothing
  <2>4. Chosen(b) \in b /\ SumOver(f, b) = f[Chosen(b)] + SumOver(f, b \ {Chosen(b)})
    BY <2>2, <2>3, SumChosen
  <2>5. SumOver(f, b \ {Chosen(b)}) \in Int
    BY <2>1, <2>2, <2>4
  <2>6. f[Chosen(b)] \in Int
    BY <2>2, <2>4
  <2>7. QED
    BY <2>2, <2>4, <2>5, <2>6
<1>2. QED
  BY <1>1

\* Any element adds its value to the sum of the others.
LEMMA SumWithout ==
  ASSUME NEW f, NEW S, IsFiniteSet(S), \A x \in S : f[x] \in Int, NEW y \in S
  PROVE  SumOver(f, S) = f[y] + SumOver(f, S \ {y})
<1> DEFINE Bad == {b \in SUBSET S : \E x \in b : SumOver(f, b) # f[x] + SumOver(f, b \ {x})}
<1>1. ASSUME Bad # {}
      PROVE  FALSE
  <2>0. Bad \subseteq SUBSET S
    OBVIOUS
  <2>1. PICK b \in Bad : \A c \in Bad : c \subseteq b => c = b
    <3> HIDE DEF Bad
    <3>1. QED
      BY <1>1, <2>0, LeastSubset
  <2>2. PICK x \in b : SumOver(f, b) # f[x] + SumOver(f, b \ {x})
    OBVIOUS
  <2> DEFINE z == Chosen(b)
  <2>3. b \subseteq S /\ IsFiniteSet(b)
    BY FS_Subset
  <2>4. z \in b /\ SumOver(f, b) = f[z] + SumOver(f, b \ {z})
    BY <2>2, <2>3, SumChosen
  <2> HIDE DEF z
  <2>5. x # z
    BY <2>2, <2>4
  <2>6. SumOver(f, b \ {z}) = f[x] + SumOver(f, (b \ {z}) \ {x})
    <3>1. b \ {z} \notin Bad /\ b \ {z} \in SUBSET S /\ x \in b \ {z}
      BY <2>1, <2>2, <2>3, <2>4, <2>5
    <3>2. QED
      BY <3>1
  <2>7. SumOver(f, b \ {x}) = f[z] + SumOver(f, (b \ {x}) \ {z})
    <3>1. b \ {x} \notin Bad /\ b \ {x} \in SUBSET S /\ z \in b \ {x}
      BY <2>1, <2>2, <2>3, <2>4, <2>5
    <3>2. QED
      BY <3>1
  <2> DEFINE rest == (b \ {z}) \ {x}
  <2>8. rest = (b \ {x}) \ {z}
    OBVIOUS
  <2>9. rest \subseteq S /\ IsFiniteSet(rest)
    BY <2>3, FS_Subset
  <2> HIDE DEF rest
  <2>10. SumOver(f, rest) \in Int
    BY <2>9, SumType
  <2>11. f[x] \in Int /\ f[z] \in Int
    BY <2>2, <2>3, <2>4
  <2>12. SumOver(f, b) = f[z] + (f[x] + SumOver(f, rest))
    BY <2>4, <2>6 DEF rest
  <2>13. SumOver(f, b \ {x}) = f[z] + SumOver(f, rest)
    BY <2>7, <2>8
  <2>14. QED
    BY <2>2, <2>10, <2>11, <2>12, <2>13
<1>2. S \notin Bad
  BY <1>1
<1>3. QED
  BY <1>2

LEMMA SumWith ==
  ASSUME NEW f, NEW S, IsFiniteSet(S), NEW y, y \notin S,
         \A x \in S \cup {y} : f[x] \in Int
  PROVE  SumOver(f, S \cup {y}) = f[y] + SumOver(f, S)
<1> DEFINE T == S \cup {y}
<1>1. IsFiniteSet(T) /\ y \in T /\ T \ {y} = S
  BY FS_AddElement
<1> HIDE DEF T
<1>2. SumOver(f, T) = f[y] + SumOver(f, T \ {y})
  BY <1>1, SumWithout DEF T
<1>3. QED
  BY <1>1, <1>2 DEF T

\* The sum depends on what is summed only.
LEMMA SumSame ==
  ASSUME NEW f, NEW g, NEW S, IsFiniteSet(S), \A x \in S : f[x] = g[x]
  PROVE  SumOver(f, S) = SumOver(g, S)
<1> DEFINE Bad == {b \in SUBSET S : SumOver(f, b) # SumOver(g, b)}
<1>1. ASSUME Bad # {}
      PROVE  FALSE
  <2>0. Bad \subseteq SUBSET S
    OBVIOUS
  <2>1. PICK b \in Bad : \A c \in Bad : c \subseteq b => c = b
    <3> HIDE DEF Bad
    <3>1. QED
      BY <1>1, <2>0, LeastSubset
  <2>2. b \subseteq S /\ IsFiniteSet(b) /\ SumOver(f, b) # SumOver(g, b)
    BY FS_Subset
  <2>3. b # {}
    BY <2>2, SumNothing
  <2>4. /\ Chosen(b) \in b
        /\ SumOver(f, b) = f[Chosen(b)] + SumOver(f, b \ {Chosen(b)})
        /\ SumOver(g, b) = g[Chosen(b)] + SumOver(g, b \ {Chosen(b)})
    BY <2>2, <2>3, SumChosen
  <2>5. SumOver(f, b \ {Chosen(b)}) = SumOver(g, b \ {Chosen(b)})
    BY <2>1, <2>2, <2>4
  <2>6. QED
    BY <2>2, <2>4, <2>5
<1>2. S \notin Bad
  BY <1>1
<1>3. QED
  BY <1>2

\* A sum to which one element of S contributes d more is d more.
LEMMA SumChanged ==
  ASSUME NEW f, NEW g, NEW S, IsFiniteSet(S), NEW y \in S, NEW d \in Int,
         \A x \in S : f[x] \in Int,
         \A x \in S \ {y} : g[x] = f[x], g[y] = f[y] + d
  PROVE  SumOver(g, S) = SumOver(f, S) + d
<1> DEFINE T == S \ {y}
<1>1. IsFiniteSet(T) /\ \A x \in T : g[x] = f[x] /\ f[x] \in Int
  BY FS_RemoveElement
<1>2. \A x \in S : g[x] \in Int
  OBVIOUS
<1>3. SumOver(f, S) = f[y] + SumOver(f, T)
  BY SumWithout
<1>4. SumOver(g, S) = g[y] + SumOver(g, T)
  BY <1>2, SumWithout
<1> HIDE DEF T
<1>5. SumOver(g, T) = SumOver(f, T) /\ SumOver(f, T) \in Int
  BY <1>1, SumSame, SumType
<1>6. QED
  BY <1>3, <1>4, <1>5

\* A sum of naturals is a natural.
LEMMA SumIsNatural ==
  ASSUME NEW f, NEW S, IsFiniteSet(S), \A x \in S : f[x] \in Nat
  PROVE  SumOver(f, S) \in Nat
<1> DEFINE Bad == {b \in SUBSET S : SumOver(f, b) \notin Nat}
<1>1. ASSUME Bad # {}
      PROVE  FALSE
  <2>0. Bad \subseteq SUBSET S
    OBVIOUS
  <2>1. PICK b \in Bad : \A c \in Bad : c \subseteq b => c = b
    <3> HIDE DEF Bad
    <3>1. QED
      BY <1>1, <2>0, LeastSubset
  <2>2. b \subseteq S /\ IsFiniteSet(b) /\ SumOver(f, b) \notin Nat
    BY FS_Subset
  <2>3. b # {}
    BY <2>2, SumNothing
  <2>4. Chosen(b) \in b /\ SumOver(f, b) = f[Chosen(b)] + SumOver(f, b \ {Chosen(b)})
    BY <2>2, <2>3, SumChosen
  <2>5. SumOver(f, b \ {Chosen(b)}) \in Nat
    BY <2>1, <2>2, <2>4
  <2>6. f[Chosen(b)] \in Nat
    BY <2>2, <2>4
  <2>7. QED
    BY <2>2, <2>4, <2>5, <2>6
<1>2. QED
  BY <1>1

\* What is summed may be split into two parts.
LEMMA SumPlus ==
  ASSUME NEW f, NEW g, NEW h, NEW S, IsFiniteSet(S),
         \A x \in S : f[x] \in Int /\ g[x] \in Int /\ h[x] = f[x] + g[x]
  PROVE  SumOver(h, S) = SumOver(f, S) + SumOver(g, S)
<1> DEFINE Bad == {b \in SUBSET S : SumOver(h, b) # SumOver(f, b) + SumOver(g, b)}
<1>1. ASSUME Bad # {}
      PROVE  FALSE
  <2>0. Bad \subseteq SUBSET S
    OBVIOUS
  <2>1. PICK b \in Bad : \A c \in Bad : c \subseteq b => c = b
    <3> HIDE DEF Bad
    <3>1. QED
      BY <1>1, <2>0, LeastSubset
  <2>2. /\ b \subseteq S /\ IsFiniteSet(b)
        /\ SumOver(h, b) # SumOver(f, b) + SumOver(g, b)
    BY FS_Subset
  <2>3. b # {}
    BY <2>2, SumNothing
  <2> DEFINE c == b \ {Chosen(b)}
             y == Chosen(b)
  <2>4. /\ y \in b
        /\ SumOver(f, b) = f[y] + SumOver(f, c)
        /\ SumOver(g, b) = g[y] + SumOver(g, c)
        /\ SumOver(h, b) = h[y] + SumOver(h, c)
    BY <2>2, <2>3, SumChosen
  <2>5. SumOver(h, c) = SumOver(f, c) + SumOver(g, c)
    BY <2>1, <2>2, <2>4
  <2>6. c \subseteq S /\ IsFiniteSet(c)
    BY <2>2, FS_Subset
  <2> HIDE DEF c, y
  <2>7. /\ SumOver(f, c) \in Int /\ SumOver(g, c) \in Int
        /\ f[y] \in Int /\ g[y] \in Int /\ h[y] = f[y] + g[y]
    BY <2>2, <2>4, <2>6, SumType
  <2>8. QED
    BY <2>2, <2>4, <2>5, <2>7
<1>2. QED
  BY <1>1

LEMMA SumZero ==
  ASSUME NEW f, NEW S, IsFiniteSet(S), \A x \in S : f[x] = 0
  PROVE  SumOver(f, S) = 0
<1>1. \A x \in S : f[x] \in Int /\ f[x] = f[x] + f[x]
  OBVIOUS
<1>2. SumOver(f, S) = SumOver(f, S) + SumOver(f, S)
  BY <1>1, SumPlus
<1>3. SumOver(f, S) \in Int
  BY <1>1, SumType
<1>4. QED
  BY <1>2, <1>3
=============================================================================

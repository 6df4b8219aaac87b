---------------------------- MODULE SumTheorems ----------------------------
(***************************************************************************)
(* Facts about SumFunctionOnSet, the sum of a function over a finite set   *)
(* of its arguments, in which the models state storage and money.  They    *)
(* are proved by taking a smallest set without the fact (WFMin).           *)
(***************************************************************************)
EXTENDS Integers, FiniteSets, Functions, FiniteSetTheorems,
        WellFoundedInduction, TLAPS

\* The element at which the sum over s starts.
First(s) == CHOOSE x \in s : TRUE

\* g has the sum of f over every subset of S.
Sums(f, S, g) ==
    g = [s \in SUBSET S |-> IF s = {} THEN 0
                            ELSE f[First(s)] + g[s \ {First(s)}]]

SumsOf(f, S) == CHOOSE g : Sums(f, S, g)

LEMMA SmallestSet ==
    ASSUME NEW S, IsFiniteSet(S), NEW B, B \subseteq SUBSET S, B # {}
    PROVE  \E b \in B : \A c \in B : c \subseteq b => c = b
<1>1. IsWellFoundedOn(StrictSubsetOrdering(S), SUBSET S)
  BY FS_StrictSubsetOrderingWellFounded, FS_FiniteSubsetsOfFinite
<1>2. PICK b \in B : \A c \in B : ~(<<c, b>> \in StrictSubsetOrdering(S))
  BY <1>1, WFMin
<1>3. QED
  BY <1>2 DEF StrictSubsetOrdering

LEMMA SumIsSumsOf ==
    ASSUME NEW f, NEW S
    PROVE  SumFunctionOnSet(f, S) = SumsOf(f, S)[S]
BY DEF SumFunctionOnSet, FoldFunctionOnSet, MapThenFoldSet, SumsOf, Sums, First

LEMMA FirstElement ==
    ASSUME NEW s, s # {}
    PROVE  First(s) \in s
BY DEF First

LEMMA SumsUnique ==
    ASSUME NEW S, IsFiniteSet(S), NEW f, NEW g, NEW h, Sums(f, S, g), Sums(f, S, h)
    PROVE  g = h
<1> DEFINE B == {s \in SUBSET S : g[s] # h[s]}
<1>1. SUFFICES ASSUME B # {} PROVE FALSE
  BY DEF Sums
<1>2. PICK b \in B : \A c \in B : c \subseteq b => c = b
  <2>1. B \subseteq SUBSET S
    OBVIOUS
  <2> HIDE DEF B
  <2>2. QED
    BY <1>1, <2>1, SmallestSet
<1>3. b # {}
  BY <1>2 DEF Sums
<1>4. b \ {First(b)} \notin B /\ b \ {First(b)} \in SUBSET S
  BY <1>2, <1>3, FirstElement
<1>5. g[b \ {First(b)}] = h[b \ {First(b)}]
  BY <1>4
<1>6. g[b] = h[b]
  BY <1>2, <1>3, <1>5 DEF Sums
<1>7. QED
  BY <1>2, <1>6

LEMMA SumsRestricted ==
    ASSUME NEW S, NEW T, T \subseteq S, NEW f, NEW g, Sums(f, S, g)
    PROVE  Sums(f, T, [s \in SUBSET T |-> g[s]])
<1> DEFINE h == [s \in SUBSET T |-> g[s]]
<1>1. ASSUME NEW s \in SUBSET T
      PROVE  h[s] = IF s = {} THEN 0 ELSE f[First(s)] + h[s \ {First(s)}]
  <2>1. s \in SUBSET S /\ s \ {First(s)} \in SUBSET T
    OBVIOUS
  <2>2. g[s] = IF s = {} THEN 0 ELSE f[First(s)] + g[s \ {First(s)}]
    BY <2>1 DEF Sums
  <2>3. QED
    BY <2>1, <2>2
<1>2. h = [s \in SUBSET T |-> IF s = {} THEN 0 ELSE f[First(s)] + h[s \ {First(s)}]]
  BY <1>1
<1>3. QED
  BY <1>2 DEF Sums

LEMMA SumsExist ==
    ASSUME NEW S, IsFiniteSet(S), NEW f
    PROVE  Sums(f, S, SumsOf(f, S))
<1> DEFINE B == {s \in SUBSET S : ~Sums(f, s, SumsOf(f, s))}
<1>1. SUFFICES ASSUME B # {} PROVE FALSE
  BY DEF Sums
<1>2. PICK b \in B : \A c \in B : c \subseteq b => c = b
  <2>1. B \subseteq SUBSET S
    OBVIOUS
  <2> HIDE DEF B
  <2>2. QED
    BY <1>1, <2>1, SmallestSet
<1>3. ASSUME NEW c, c \subseteq b, c # b
      PROVE  IsFiniteSet(c) /\ Sums(f, c, SumsOf(f, c))
  BY <1>2, <1>3, FS_Subset
<1> DEFINE Next(s) == s \ {First(s)}
           g == [s \in SUBSET b |-> IF s = {} THEN 0
                                     ELSE f[First(s)] + SumsOf(f, Next(s))[Next(s)]]
<1>4. ASSUME NEW c, NEW d, c \subseteq b, c # b, d \subseteq c
      PROVE  SumsOf(f, c)[d] = SumsOf(f, d)[d]
  <2> DEFINE r == [s \in SUBSET d |-> SumsOf(f, c)[s]]
  <2>1. Sums(f, d, r)
    <3>1. Sums(f, c, SumsOf(f, c))
      BY <1>3, <1>4
    <3> HIDE DEF g
    <3> QED
      BY <1>4, <3>1, SumsRestricted
  <2>2. d # b /\ d \subseteq b
    BY <1>4
  <2>3. r = SumsOf(f, d)
    BY <1>3, <2>1, <2>2, SumsUnique
  <2>4. r[d] = SumsOf(f, c)[d]
    OBVIOUS
  <2>5. QED
    BY <2>3, <2>4
<1>5. ASSUME NEW c, c \subseteq b, c # b
      PROVE  g[c] = SumsOf(f, c)[c]
  <2>1. CASE c = {}
    BY <1>3, <1>5, <2>1 DEF Sums
  <2>2. CASE c # {}
    <3>1. Next(c) \subseteq c /\ Next(c) # b
      BY <1>5, <2>2, FirstElement
    <3>2. SumsOf(f, c)[c] = f[First(c)] + SumsOf(f, c)[Next(c)]
      BY <1>3, <1>5, <2>2, ZenonT(40) DEF Sums
    <3>3. SumsOf(f, c)[Next(c)] = SumsOf(f, Next(c))[Next(c)]
      BY <1>4, <1>5, <3>1
    <3>4. QED
      BY <1>5, <2>2, <3>2, <3>3
  <2>3. QED
    BY <2>1, <2>2
<1>6. ASSUME NEW s \in SUBSET b
      PROVE  g[s] = IF s = {} THEN 0 ELSE f[First(s)] + g[Next(s)]
  <2>1. CASE s = {}
    BY <2>1
  <2>2. CASE s # {}
    <3>1. Next(s) \subseteq b /\ Next(s) # b
      BY <2>2, FirstElement
    <3>2. g[Next(s)] = SumsOf(f, Next(s))[Next(s)]
      BY <1>5, <3>1
    <3>3. QED
      BY <2>2, <3>2
  <2>3. QED
    BY <2>1, <2>2
<1>7. Sums(f, b, g)
  BY <1>6 DEF Sums
<1>8. QED
  BY <1>2, <1>7 DEF SumsOf

-----------------------------------------------------------------------------
(* What the models use *)

LEMMA SumEmpty ==
    ASSUME NEW f
    PROVE  SumFunctionOnSet(f, {}) = 0
<1>1. Sums(f, {}, SumsOf(f, {}))
  BY SumsExist, FS_EmptySet
<1>2. QED
  BY <1>1, SumIsSumsOf DEF Sums

LEMMA SumFromFirst ==
    ASSUME NEW S, IsFiniteSet(S), S # {}, NEW f
    PROVE  SumFunctionOnSet(f, S)
             = f[First(S)] + SumFunctionOnSet(f, S \ {First(S)})
<1> DEFINE T == S \ {First(S)}
           r == [s \in SUBSET T |-> SumsOf(f, S)[s]]
<1>1. Sums(f, S, SumsOf(f, S))
  BY SumsExist
<1>2. T \subseteq S /\ IsFiniteSet(T)
  BY FS_Subset
<1>3. SumsOf(f, S)[S] = f[First(S)] + SumsOf(f, S)[T]
  BY <1>1, <1>2 DEF Sums
<1>4. Sums(f, T, r)
  <2> HIDE DEF T
  <2> QED
    BY <1>1, <1>2, SumsRestricted
<1>5. Sums(f, T, SumsOf(f, T))
  BY <1>2, SumsExist
<1>6. r = SumsOf(f, T)
  <2> HIDE DEF T, r
  <2> QED
    BY <1>2, <1>4, <1>5, SumsUnique
<1>7. r[T] = SumsOf(f, S)[T]
  OBVIOUS
<1>8. QED
  BY <1>3, <1>6, <1>7, SumIsSumsOf

LEMMA SumNatural ==
    ASSUME NEW S, IsFiniteSet(S), NEW f, \A x \in S : f[x] \in Nat
    PROVE  SumFunctionOnSet(f, S) \in Nat
<1> DEFINE B == {s \in SUBSET S : SumFunctionOnSet(f, s) \notin Nat}
<1>1. SUFFICES ASSUME B # {} PROVE FALSE
  OBVIOUS
<1>2. PICK b \in B : \A c \in B : c \subseteq b => c = b
  <2>1. B \subseteq SUBSET S
    OBVIOUS
  <2> HIDE DEF B
  <2>2. QED
    BY <1>1, <2>1, SmallestSet
<1>3. b # {}
  <2>1. SumFunctionOnSet(f, {}) \in Nat
    BY SumEmpty
  <2>2. QED
    BY <1>2, <2>1
<1>4. First(b) \in b
  BY <1>3, FirstElement
<1>5. SumFunctionOnSet(f, b \ {First(b)}) \in Nat
  BY <1>2, <1>4
<1>6. IsFiniteSet(b)
  BY <1>2, FS_Subset
<1>7. SumFunctionOnSet(f, b) = f[First(b)] + SumFunctionOnSet(f, b \ {First(b)})
  BY <1>3, <1>6, SumFromFirst
<1>8. QED
  BY <1>2, <1>4, <1>5, <1>7

\* Any element may be the one taken out.
LEMMA SumWithout ==
    ASSUME NEW S, IsFiniteSet(S), NEW f, \A y \in S : f[y] \in Nat, NEW x \in S
    PROVE  SumFunctionOnSet(f, S) = f[x] + SumFunctionOnSet(f, S \ {x})
<1> DEFINE Splits(s) == \A z \in s :
             SumFunctionOnSet(f, s) = f[z] + SumFunctionOnSet(f, s \ {z})
           B == {s \in SUBSET S : ~Splits(s)}
<1>1. SUFFICES ASSUME B # {} PROVE FALSE
  BY DEF Splits
<1>2. PICK b \in B : \A c \in B : c \subseteq b => c = b
  <2>1. B \subseteq SUBSET S
    OBVIOUS
  <2> HIDE DEF B
  <2>2. QED
    BY <1>1, <2>1, SmallestSet
<1>3. PICK z \in b : SumFunctionOnSet(f, b) # f[z] + SumFunctionOnSet(f, b \ {z})
  BY <1>2
<1>4. PICK y : y = First(b)
  OBVIOUS
<1>5. y \in b /\ IsFiniteSet(b) /\ b \subseteq S
  BY <1>2, <1>3, <1>4, FirstElement, FS_Subset
<1>6. SumFunctionOnSet(f, b) = f[y] + SumFunctionOnSet(f, b \ {y})
  BY <1>3, <1>4, <1>5, SumFromFirst
<1>7. y # z
  BY <1>3, <1>6
<1>8. Splits(b \ {y}) /\ Splits(b \ {z})
  BY <1>2, <1>3, <1>5
<1>9. (b \ {y}) \ {z} = (b \ {z}) \ {y}
  OBVIOUS
<1>10. SumFunctionOnSet(f, b \ {y}) = f[z] + SumFunctionOnSet(f, (b \ {y}) \ {z})
  BY <1>3, <1>7, <1>8
<1>11. SumFunctionOnSet(f, b \ {z}) = f[y] + SumFunctionOnSet(f, (b \ {z}) \ {y})
  BY <1>5, <1>7, <1>8
<1>12. SumFunctionOnSet(f, (b \ {y}) \ {z}) \in Nat
  <2>1. (b \ {y}) \ {z} \in SUBSET S
    BY <1>5
  <2>2. IsFiniteSet((b \ {y}) \ {z})
    BY <2>1, FS_Subset
  <2>3. \A w \in (b \ {y}) \ {z} : f[w] \in Nat
    BY <2>1
  <2>4. QED
    BY <2>2, <2>3, SumNatural
<1>13. f[y] \in Nat /\ f[z] \in Nat
  BY <1>3, <1>5
<1>14. f[y] + (f[z] + SumFunctionOnSet(f, (b \ {y}) \ {z}))
         = f[z] + (f[y] + SumFunctionOnSet(f, (b \ {y}) \ {z}))
  BY <1>12, <1>13
<1>15. QED
  BY <1>3, <1>6, <1>9, <1>10, <1>11, <1>14

\* The sum of a larger function over a larger set is no smaller.
LEMMA SumMonotone ==
    ASSUME NEW S, IsFiniteSet(S), NEW f, NEW g, NEW T, T \subseteq S,
           \A x \in T : f[x] \in Nat /\ f[x] <= g[x],
           \A x \in S : g[x] \in Nat
    PROVE  SumFunctionOnSet(f, T) <= SumFunctionOnSet(g, S)
<1> DEFINE B == {s \in SUBSET S : ~(SumFunctionOnSet(f, s \cap T)
                                        <= SumFunctionOnSet(g, s))}
<1>1. SUFFICES ASSUME B # {} PROVE FALSE
  <2>1. S \notin B
    OBVIOUS
  <2>2. S \cap T = T
    OBVIOUS
  <2>3. QED
    BY <2>1, <2>2
<1>2. PICK b \in B : \A c \in B : c \subseteq b => c = b
  <2>1. B \subseteq SUBSET S
    OBVIOUS
  <2> HIDE DEF B
  <2>2. QED
    BY <1>1, <2>1, SmallestSet
<1>3. b # {}
  <2>1. SUFFICES ASSUME b = {} PROVE FALSE
    OBVIOUS
  <2>2. b \cap T = {} /\ SumFunctionOnSet(f, {}) = 0 /\ SumFunctionOnSet(g, {}) = 0
    BY <2>1, SumEmpty
  <2>3. QED
    BY <1>2, <2>1, <2>2
<1>4. PICK y \in b : TRUE
  BY <1>3
<1> DEFINE c == b \ {y}
<1>5. IsFiniteSet(b) /\ b \subseteq S /\ IsFiniteSet(b \cap T)
      /\ IsFiniteSet(c) /\ IsFiniteSet(c \cap T)
  <2>1. b \in SUBSET S /\ b \cap T \in SUBSET S /\ c \in SUBSET S /\ c \cap T \in SUBSET S
    BY <1>2
  <2> HIDE DEF c
  <2>2. QED
    BY <2>1, FS_Subset
<1>6. SumFunctionOnSet(f, c \cap T) <= SumFunctionOnSet(g, c)
  BY <1>2, <1>4
<1>7. SumFunctionOnSet(g, b) = g[y] + SumFunctionOnSet(g, c)
  BY <1>4, <1>5, SumWithout
<1>8. SumFunctionOnSet(g, c) \in Nat /\ g[y] \in Nat
  BY <1>4, <1>5, SumNatural
<1>9. SumFunctionOnSet(f, c \cap T) \in Nat
  BY <1>5, SumNatural
<1>10. CASE y \in T
  <2>1. y \in b \cap T /\ (b \cap T) \ {y} = c \cap T
    BY <1>4, <1>10
  <2>2. \A x \in b \cap T : f[x] \in Nat
    OBVIOUS
  <2>3. SumFunctionOnSet(f, b \cap T) = f[y] + SumFunctionOnSet(f, (b \cap T) \ {y})
    BY <1>5, <2>1, <2>2, SumWithout
  <2>4. SumFunctionOnSet(f, b \cap T) = f[y] + SumFunctionOnSet(f, c \cap T)
    BY <2>1, <2>3
  <2>5. f[y] \in Nat /\ f[y] <= g[y]
    BY <1>10
  <2>6. SumFunctionOnSet(f, b \cap T) <= SumFunctionOnSet(g, b)
    <3> HIDE DEF c
    <3> QED
      BY <1>6, <1>7, <1>8, <1>9, <2>4, <2>5
  <2>7. QED
    BY <1>2, <2>6
<1>11. CASE y \notin T
  <2>1. b \cap T = c \cap T
    BY <1>11
  <2>2. SumFunctionOnSet(f, b \cap T) <= SumFunctionOnSet(g, b)
    <3>1. SumFunctionOnSet(f, b \cap T) = SumFunctionOnSet(f, c \cap T)
      BY <2>1
    <3> HIDE DEF c
    <3>2. QED
      BY <1>6, <1>7, <1>8, <1>9, <3>1
  <2>3. QED
    BY <1>2, <2>2
<1>12. QED
  BY <1>10, <1>11

\* Only the values at the elements count.
LEMMA SumSame ==
    ASSUME NEW S, IsFiniteSet(S), NEW f, NEW g,
           \A x \in S : f[x] \in Nat /\ f[x] = g[x]
    PROVE  SumFunctionOnSet(f, S) = SumFunctionOnSet(g, S)
<1>1. SumFunctionOnSet(f, S) \in Nat /\ SumFunctionOnSet(g, S) \in Nat
  BY SumNatural
<1>2. SumFunctionOnSet(f, S) <= SumFunctionOnSet(g, S)
  <2>1. \A x \in S : f[x] \in Nat /\ f[x] <= g[x] /\ g[x] \in Nat
    OBVIOUS
  <2>2. QED
    BY <2>1, SumMonotone
<1>3. SumFunctionOnSet(g, S) <= SumFunctionOnSet(f, S)
  <2>1. \A x \in S : g[x] \in Nat /\ g[x] <= f[x] /\ f[x] \in Nat
    OBVIOUS
  <2>2. QED
    BY <2>1, SumMonotone
<1>4. QED
  BY <1>1, <1>2, <1>3

LEMMA SumWith ==
    ASSUME NEW S, IsFiniteSet(S), NEW f, NEW g, NEW x, x \notin S,
           \A y \in S : f[y] \in Nat /\ g[y] = f[y], g[x] \in Nat
    PROVE  SumFunctionOnSet(g, S \cup {x}) = SumFunctionOnSet(f, S) + g[x]
<1>1. IsFiniteSet(S \cup {x}) /\ \A y \in S \cup {x} : g[y] \in Nat
  BY FS_AddElement
<1>2. SumFunctionOnSet(g, S \cup {x})
        = g[x] + SumFunctionOnSet(g, (S \cup {x}) \ {x})
  BY <1>1, SumWithout
<1>3. SumFunctionOnSet(g, (S \cup {x}) \ {x}) = SumFunctionOnSet(g, S)
  <2>1. (S \cup {x}) \ {x} = S
    OBVIOUS
  <2>2. QED
    BY <2>1
<1>4. SumFunctionOnSet(f, S) = SumFunctionOnSet(g, S)
  BY SumSame
<1>5. SumFunctionOnSet(f, S) \in Nat
  BY SumNatural
<1>6. QED
  BY <1>2, <1>3, <1>4, <1>5

=============================================================================

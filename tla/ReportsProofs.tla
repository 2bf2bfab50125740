---------------------------- MODULE ReportsProofs ----------------------------
(***************************************************************************)
(* Proofs about the stand-ups and the reports, for all rows that a sync    *)
(* and the administrators can write and for runs of any number: a text     *)
(* taken over is today's, everyone in the project is told of once, the     *)
(* project's figures are the sums of the teammates', and a risk of one     *)
(* project is not lost beside another one, a focus board shows what it     *)
(* counts, the reviews of two periods add up to the review of both, and    *)
(* the stand-up, the board, the review, the newsletter and the pages tell  *)
(* the same. The rows and their shape (RowsHold) are the inductive         *)
(* invariant of all of them; what a run stores is then computed from rows  *)
(* that have the shape.                                                    *)
(***************************************************************************)
EXTENDS Reports, FiniteSetTheorems, SequenceTheorems, WellFoundedInduction, TLAPS

-----------------------------------------------------------------------------
(***************************************************************************)
(* Sums over a set and over a sequence. A sum is a fold; what it adds up   *)
(* to is shown by the smallest subset for which it would not.              *)
(***************************************************************************)

(* A set of subsets of a finite set has a smallest member: this takes the  *)
(* place of induction over a set, whose library theorem has an operator    *)
(* for a parameter.                                                        *)
LEMMA SmallestSubset ==
  ASSUME NEW S, IsFiniteSet(S), NEW B \in SUBSET SUBSET S, B # {}
  PROVE  \E T \in B : \A U \in SUBSET T : U # T => U \notin B
<1>1. IsWellFoundedOn(StrictSubsetOrdering(S), FiniteSubsetsOf(S))
  BY FS_StrictSubsetOrderingWellFounded
<1>2. B \subseteq FiniteSubsetsOf(S)
  BY FS_FiniteSubsetsOfFinite
<1>3. PICK T \in B : \A U \in B : ~(<<U, T>> \in StrictSubsetOrdering(S))
  BY <1>1, <1>2, WFMin
<1>4. \A U \in SUBSET T : U # T => U \notin B
  BY <1>3 DEF StrictSubsetOrdering
<1> QED BY <1>3, <1>4

(* The sum of a function over a set, as MapThenSumSet computes it.         *)
SumOver(f, S) == MapThenSumSet(LAMBDA x : f[x], S)

(* What the fold behind the sum adds first.                                *)
PartialSum(f, g, s) ==
  IF s = {} THEN 0 ELSE f[CHOOSE x \in s : TRUE] + g[s \ {CHOOSE x \in s : TRUE}]

(* A function that is a sum on every subset of T, as the fold is defined.  *)
SumsUp(f, T, g) == g = [s \in SUBSET T |-> PartialSum(f, g, s)]

(* Two functions that are sums on the subsets of T are the same.           *)
LEMMA SumsAgree ==
  ASSUME NEW f, NEW T, NEW U, IsFiniteSet(T), U \subseteq T,
         NEW g, NEW h, SumsUp(f, T, g), SumsUp(f, U, h)
  PROVE  \A s \in SUBSET U : g[s] = h[s]
<1> DEFINE B == {s \in SUBSET U : g[s] # h[s]}
<1>1. SUFFICES ASSUME B # {} PROVE FALSE
  OBVIOUS
<1>2. B \in SUBSET SUBSET T
  OBVIOUS
<1> HIDE DEF B
<1>3. PICK s \in B : \A r \in SUBSET s : r # s => r \notin B
  BY <1>1, <1>2, SmallestSubset
<1>4. s \in SUBSET U /\ g[s] # h[s]
  BY <1>3 DEF B
<1>5. g[s] = PartialSum(f, g, s) /\ h[s] = PartialSum(f, h, s)
  BY <1>4 DEF SumsUp
<1>6. s # {}
  BY <1>4, <1>5 DEF PartialSum
<1> DEFINE x == CHOOSE x \in s : TRUE
<1>7. x \in s
  BY <1>6
<1> HIDE DEF x
<1>8. s \ {x} \in SUBSET s /\ s \ {x} # s
  BY <1>7
<1>9. s \ {x} \notin B /\ s \ {x} \in SUBSET U
  BY <1>3, <1>4, <1>8
<1>10. g[s \ {x}] = h[s \ {x}]
  BY <1>9 DEF B
<1>11. PartialSum(f, g, s) = PartialSum(f, h, s)
  BY <1>10 DEF PartialSum, x
<1> QED BY <1>4, <1>5, <1>11

(* There is a function that is a sum on the subsets of a finite set.       *)
LEMMA SumExists ==
  ASSUME NEW f, NEW S, IsFiniteSet(S) PROVE \E g : SumsUp(f, S, g)
<1> DEFINE B == {T \in SUBSET S : ~\E g : SumsUp(f, T, g)}
<1>1. SUFFICES ASSUME B # {} PROVE FALSE
  OBVIOUS
<1>2. B \in SUBSET SUBSET S
  OBVIOUS
<1> HIDE DEF B
<1>3. PICK T \in B : \A r \in SUBSET T : r # T => r \notin B
  BY <1>1, <1>2, SmallestSubset
<1>4. T \in SUBSET S /\ ~\E g : SumsUp(f, T, g)
  BY <1>3 DEF B
<1>5. \A r \in SUBSET T : r # T => \E g : SumsUp(f, r, g)
  BY <1>3, <1>4 DEF B
<1> DEFINE G(r) == CHOOSE g : SumsUp(f, r, g)
           rest(s) == s \ {CHOOSE x \in s : TRUE}
           h == [s \in SUBSET T |->
                   IF s = {} THEN 0 ELSE f[CHOOSE x \in s : TRUE] + G(rest(s))[rest(s)]]
<1>6. ASSUME NEW s \in SUBSET T PROVE h[s] = PartialSum(f, h, s)
  <2>1. CASE s = {}
    BY <2>1 DEF PartialSum
  <2>2. CASE s # {}
    <3> DEFINE u == rest(s)
    <3>1. u \in SUBSET T /\ u # T /\ u \in SUBSET s
      BY <2>2
    <3>2. SumsUp(f, u, G(u))
      BY <3>1, <1>5
    <3>3. h[u] = G(u)[u]
      <4>1. G(u)[u] = PartialSum(f, G(u), u)
        BY <3>2 DEF SumsUp
      <4>2. CASE u = {}
        BY <4>1, <4>2 DEF PartialSum
      <4>3. CASE u # {}
        <5> DEFINE v == rest(u)
        <5>1. v \in SUBSET u /\ v # u
          BY <4>3
        <5>2. v \in SUBSET T /\ v # T
          BY <5>1, <3>1
        <5>3. SumsUp(f, v, G(v))
          BY <5>2, <1>5
        <5>4. IsFiniteSet(u)
          BY <3>1, <1>4, FS_Subset
        <5> DEFINE gu == G(u)
                   gv == G(v)
        <5>0. v \subseteq u /\ SumsUp(f, u, gu) /\ SumsUp(f, v, gv)
          BY <5>1, <5>3, <3>2
        <5> HIDE DEF u, v, gu, gv, G, rest
        <5>5. \A r \in SUBSET v : gu[r] = gv[r]
          BY <5>0, <5>4, SumsAgree
        <5>6. G(u)[v] = G(v)[v]
          BY <5>5 DEF gu, gv
        <5>7. G(u)[u] = f[CHOOSE x \in u : TRUE] + G(u)[v]
          BY <4>1, <4>3 DEF PartialSum, v, rest
        <5>8. h[u] = f[CHOOSE x \in u : TRUE] + G(v)[v]
          BY <3>1, <4>3 DEF v
        <5> QED BY <5>6, <5>7, <5>8
      <4> QED BY <4>2, <4>3
    <3>4. h[s] = f[CHOOSE x \in s : TRUE] + G(u)[u]
      BY <2>2
    <3> QED BY <2>2, <3>3, <3>4 DEF PartialSum
  <2> QED BY <2>1, <2>2
<1>7. h = [s \in SUBSET T |-> h[s]]
  OBVIOUS
<1> HIDE DEF h
<1>8. SumsUp(f, T, h)
  BY <1>6, <1>7 DEF SumsUp
<1> QED BY <1>4, <1>8

(* The sum is the value of any such function.                              *)
LEMMA SumIs ==
  ASSUME NEW f, NEW S, IsFiniteSet(S)
  PROVE  SumOver(f, S) = (CHOOSE g : SumsUp(f, S, g))[S]
BY DEF SumOver, MapThenSumSet, MapThenFoldSet, SumsUp, PartialSum

(* The sum over nothing is 0.                                              *)
LEMMA SumEmpty == ASSUME NEW f PROVE SumOver(f, {}) = 0
<1>1. IsFiniteSet({})
  BY FS_EmptySet
<1> DEFINE g == CHOOSE g : SumsUp(f, {}, g)
<1>2. SumsUp(f, {}, g)
  BY <1>1, SumExists
<1> HIDE DEF g
<1>3. g[{}] = 0
  BY <1>2 DEF SumsUp, PartialSum
<1> QED BY <1>1, <1>3, SumIs DEF g

(* The element that the sum begins with.                                   *)
LEMMA SumBegins ==
  ASSUME NEW f, NEW S, IsFiniteSet(S), S # {}
  PROVE  \E x \in S : SumOver(f, S) = f[x] + SumOver(f, S \ {x}) /\ x = CHOOSE y \in S : TRUE
<1> DEFINE x == CHOOSE y \in S : TRUE
           r == S \ {x}
           sums(T) == CHOOSE g : SumsUp(f, T, g)
<1>1. x \in S
  OBVIOUS
<1>2. IsFiniteSet(r) /\ r \subseteq S
  BY FS_Subset
<1>3. SumsUp(f, S, sums(S)) /\ SumsUp(f, r, sums(r))
  BY <1>2, SumExists
<1>4. SumOver(f, S) = sums(S)[S] /\ SumOver(f, r) = sums(r)[r]
  BY <1>2, SumIs
<1> HIDE DEF x, r, sums
<1>5. \A g, h : SumsUp(f, S, g) /\ SumsUp(f, r, h) => g[r] = h[r]
  BY <1>2, SumsAgree
<1>6. sums(S)[S] = PartialSum(f, sums(S), S)
  BY <1>3 DEF SumsUp
<1>7. PartialSum(f, sums(S), S) = f[x] + sums(S)[r]
  BY DEF PartialSum, x, r
<1>8. SumOver(f, S) = f[x] + SumOver(f, S \ {x})
  BY <1>3, <1>4, <1>5, <1>6, <1>7 DEF r
<1> QED BY <1>1, <1>8 DEF x

(* Sums of integers.                                                       *)
LEMMA SumType ==
  ASSUME NEW f, NEW S, IsFiniteSet(S), \A x \in S : f[x] \in Int
  PROVE  SumOver(f, S) \in Int
<1> DEFINE B == {T \in SUBSET S : SumOver(f, T) \notin Int}
<1>1. SUFFICES ASSUME B # {} PROVE FALSE
  OBVIOUS
<1>2. B \in SUBSET SUBSET S
  OBVIOUS
<1> HIDE DEF B
<1>3. PICK T \in B : \A U \in SUBSET T : U # T => U \notin B
  BY <1>1, <1>2, SmallestSubset
<1>4. T \in SUBSET S /\ SumOver(f, T) \notin Int /\ IsFiniteSet(T)
  BY <1>3, FS_Subset DEF B
<1>5. T # {}
  BY <1>4, SumEmpty
<1>6. PICK x \in T : SumOver(f, T) = f[x] + SumOver(f, T \ {x})
  BY <1>4, <1>5, SumBegins
<1>7. T \ {x} \notin B
  BY <1>3
<1>8. SumOver(f, T \ {x}) \in Int
  BY <1>4, <1>7 DEF B
<1> QED BY <1>4, <1>6, <1>8

(* A sum of natural numbers is a natural number.                           *)
LEMMA SumNat ==
  ASSUME NEW f, NEW S, IsFiniteSet(S), \A x \in S : f[x] \in Nat
  PROVE  SumOver(f, S) \in Nat
<1> DEFINE B == {T \in SUBSET S : SumOver(f, T) \notin Nat}
<1>1. SUFFICES ASSUME B # {} PROVE FALSE
  OBVIOUS
<1>2. B \in SUBSET SUBSET S
  OBVIOUS
<1> HIDE DEF B
<1>3. PICK T \in B : \A U \in SUBSET T : U # T => U \notin B
  BY <1>1, <1>2, SmallestSubset
<1>4. T \in SUBSET S /\ SumOver(f, T) \notin Nat /\ IsFiniteSet(T)
  BY <1>3, FS_Subset DEF B
<1>5. T # {}
  BY <1>4, SumEmpty
<1>6. PICK x \in T : SumOver(f, T) = f[x] + SumOver(f, T \ {x})
  BY <1>4, <1>5, SumBegins
<1>7. T \ {x} \notin B
  BY <1>3
<1>8. SumOver(f, T \ {x}) \in Nat
  BY <1>4, <1>7 DEF B
<1> QED BY <1>4, <1>6, <1>8

(* Any element may be taken out of a sum.                                  *)
LEMMA SumTakes ==
  ASSUME NEW f, NEW S, IsFiniteSet(S), \A x \in S : f[x] \in Int
  PROVE  \A x \in S : SumOver(f, S) = f[x] + SumOver(f, S \ {x})
<1> DEFINE B == {T \in SUBSET S : \E x \in T : SumOver(f, T) # f[x] + SumOver(f, T \ {x})}
<1>1. SUFFICES ASSUME B # {} PROVE FALSE
  OBVIOUS
<1>2. B \in SUBSET SUBSET S
  OBVIOUS
<1> HIDE DEF B
<1>3. PICK T \in B : \A U \in SUBSET T : U # T => U \notin B
  BY <1>1, <1>2, SmallestSubset
<1>4. T \in SUBSET S /\ IsFiniteSet(T)
  BY <1>3, FS_Subset DEF B
<1>5. PICK x \in T : SumOver(f, T) # f[x] + SumOver(f, T \ {x})
  BY <1>3 DEF B
<1>6. PICK c \in T : SumOver(f, T) = f[c] + SumOver(f, T \ {c}) /\ c = CHOOSE y \in T : TRUE
  BY <1>4, <1>5, SumBegins
<1>7. c # x
  BY <1>5, <1>6
<1>8. T \ {c} \notin B /\ T \ {x} \notin B
  BY <1>3
<1>9. /\ SumOver(f, T \ {c}) = f[x] + SumOver(f, (T \ {c}) \ {x})
      /\ SumOver(f, T \ {x}) = f[c] + SumOver(f, (T \ {x}) \ {c})
  BY <1>4, <1>7, <1>8 DEF B
<1>10. (T \ {c}) \ {x} = (T \ {x}) \ {c}
  OBVIOUS
<1>11. f[x] \in Int /\ f[c] \in Int /\ SumOver(f, (T \ {c}) \ {x}) \in Int
  <2>1. IsFiniteSet((T \ {c}) \ {x}) /\ (T \ {c}) \ {x} \subseteq S
    BY <1>4, FS_Subset
  <2> QED BY <1>4, <2>1, SumType
<1>12. /\ SumOver(f, T) = f[c] + SumOver(f, T \ {c})
       /\ SumOver(f, T \ {c}) = f[x] + SumOver(f, (T \ {c}) \ {x})
       /\ SumOver(f, T \ {x}) = f[c] + SumOver(f, (T \ {c}) \ {x})
  BY <1>6, <1>9, <1>10
<1>13. SumOver(f, T) = f[x] + SumOver(f, T \ {x})
  BY <1>11, <1>12
<1> QED BY <1>5, <1>13

(* An element that is added to a set adds its value to the sum.            *)
LEMMA SumAdds ==
  ASSUME NEW f, NEW S, IsFiniteSet(S), NEW x, x \notin S, f[x] \in Int, \A y \in S : f[y] \in Int
  PROVE  SumOver(f, S \cup {x}) = f[x] + SumOver(f, S)
<1>1. IsFiniteSet(S \cup {x})
  BY FS_AddElement
<1>2. (S \cup {x}) \ {x} = S
  OBVIOUS
<1> QED BY <1>1, <1>2, SumTakes

(* Sums of two functions that agree on the set.                            *)
LEMMA SumSame ==
  ASSUME NEW f, NEW g, NEW S, IsFiniteSet(S), \A x \in S : f[x] = g[x]
  PROVE  SumOver(f, S) = SumOver(g, S)
<1> DEFINE B == {T \in SUBSET S : SumOver(f, T) # SumOver(g, T)}
<1>1. SUFFICES ASSUME B # {} PROVE FALSE
  OBVIOUS
<1>2. B \in SUBSET SUBSET S
  OBVIOUS
<1> HIDE DEF B
<1>3. PICK T \in B : \A U \in SUBSET T : U # T => U \notin B
  BY <1>1, <1>2, SmallestSubset
<1>4. T \in SUBSET S /\ IsFiniteSet(T) /\ SumOver(f, T) # SumOver(g, T)
  BY <1>3, FS_Subset DEF B
<1>5. T # {}
  BY <1>4, SumEmpty
<1>6. PICK x \in T : SumOver(f, T) = f[x] + SumOver(f, T \ {x}) /\ x = CHOOSE y \in T : TRUE
  BY <1>4, <1>5, SumBegins
<1>7. PICK z \in T : SumOver(g, T) = g[z] + SumOver(g, T \ {z}) /\ z = CHOOSE y \in T : TRUE
  BY <1>4, <1>5, SumBegins
<1>8. x = z
  BY <1>6, <1>7
<1>9. T \ {x} \notin B
  BY <1>3
<1>10. SumOver(f, T \ {x}) = SumOver(g, T \ {x})
  BY <1>4, <1>9 DEF B
<1> QED BY <1>4, <1>6, <1>7, <1>8, <1>10

(* The sum over one element is its value.                                  *)
LEMMA SumSingle ==
  ASSUME NEW f, NEW x, f[x] \in Int PROVE SumOver(f, {x}) = f[x]
<1>1. IsFiniteSet({x}) /\ {x} \ {x} = {}
  BY FS_Singleton
<1> QED BY <1>1, SumTakes, SumEmpty

(* A sum of zeroes is 0.                                                   *)
LEMMA SumOfNothing ==
  ASSUME NEW f, NEW S, IsFiniteSet(S), \A x \in S : f[x] = 0
  PROVE  SumOver(f, S) = 0
<1> DEFINE B == {T \in SUBSET S : SumOver(f, T) # 0}
<1>1. SUFFICES ASSUME B # {} PROVE FALSE
  OBVIOUS
<1>2. B \in SUBSET SUBSET S
  OBVIOUS
<1> HIDE DEF B
<1>3. PICK T \in B : \A U \in SUBSET T : U # T => U \notin B
  BY <1>1, <1>2, SmallestSubset
<1>4. T \in SUBSET S /\ IsFiniteSet(T) /\ SumOver(f, T) # 0
  BY <1>3, FS_Subset DEF B
<1>5. T # {}
  BY <1>4, SumEmpty
<1>6. PICK x \in T : SumOver(f, T) = f[x] + SumOver(f, T \ {x})
  BY <1>4, <1>5, SumBegins
<1>7. T \ {x} \notin B
  BY <1>3
<1>8. SumOver(f, T \ {x}) = 0
  BY <1>4, <1>7 DEF B
<1> QED BY <1>4, <1>6, <1>8

(* The sum over two disjoint sets is the sum of the sums.                  *)
LEMMA SumUnion ==
  ASSUME NEW f, NEW S, NEW U, IsFiniteSet(S), IsFiniteSet(U), S \cap U = {},
         \A x \in S \cup U : f[x] \in Int
  PROVE  SumOver(f, S \cup U) = SumOver(f, S) + SumOver(f, U)
<1> DEFINE B == {T \in SUBSET S : SumOver(f, T \cup U) # SumOver(f, T) + SumOver(f, U)}
<1>1. SUFFICES ASSUME B # {} PROVE FALSE
  OBVIOUS
<1>2. B \in SUBSET SUBSET S
  OBVIOUS
<1> HIDE DEF B
<1>3. PICK T \in B : \A V \in SUBSET T : V # T => V \notin B
  BY <1>1, <1>2, SmallestSubset
<1>4. T \in SUBSET S /\ IsFiniteSet(T) /\ SumOver(f, T \cup U) # SumOver(f, T) + SumOver(f, U)
  BY <1>3, FS_Subset DEF B
<1>5. SumOver(f, U) \in Int
  BY SumType
<1>6. T # {}
  <2>1. {} \cup U = U
    OBVIOUS
  <2> QED BY <1>4, <1>5, <2>1, SumEmpty
<1>7. PICK x : x \in T
  BY <1>6
<1>8. T \ {x} \notin B /\ T \ {x} \subseteq S
  BY <1>3, <1>4, <1>7
<1>9. SumOver(f, (T \ {x}) \cup U) = SumOver(f, T \ {x}) + SumOver(f, U)
  BY <1>8 DEF B
<1>10. SumOver(f, T) = f[x] + SumOver(f, T \ {x})
  BY <1>4, <1>7, SumTakes
<1>11. SumOver(f, T \cup U) = f[x] + SumOver(f, (T \cup U) \ {x})
  <2>1. IsFiniteSet(T \cup U)
    BY <1>4, FS_Union
  <2> QED BY <1>4, <1>7, <2>1, SumTakes
<1>12. (T \cup U) \ {x} = (T \ {x}) \cup U
  BY <1>4, <1>7
<1>13. f[x] \in Int /\ SumOver(f, T \ {x}) \in Int
  <2>1. IsFiniteSet(T \ {x})
    BY <1>4, FS_Subset
  <2> QED BY <1>4, <1>7, <2>1, SumType
<1>14. SumOver(f, T \cup U) = f[x] + (SumOver(f, T \ {x}) + SumOver(f, U))
  BY <1>9, <1>11, <1>12
<1>15. SumOver(f, T \cup U) = SumOver(f, T) + SumOver(f, U)
  BY <1>5, <1>10, <1>13, <1>14
<1> QED BY <1>4, <1>15

(* A sum is the sum of the sums over the fibres of a function.             *)
LEMMA SumOfFibres ==
  ASSUME NEW f, NEW S, NEW R, IsFiniteSet(S), IsFiniteSet(R), \A x \in S : f[x] \in Int,
         NEW h, \A x \in S : h[x] \in R
  PROVE  SumOver(f, S) = SumOver([r \in R |-> SumOver(f, {x \in S : h[x] = r})], R)
<1> DEFINE Part(T) == [r \in R |-> SumOver(f, {x \in T : h[x] = r})]
           B == {T \in SUBSET S : SumOver(f, T) # SumOver(Part(T), R)}
<1>1. SUFFICES ASSUME B # {} PROVE FALSE
  OBVIOUS
<1>2. B \in SUBSET SUBSET S
  OBVIOUS
<1> HIDE DEF B
<1>3. PICK T \in B : \A V \in SUBSET T : V # T => V \notin B
  BY <1>1, <1>2, SmallestSubset
<1>4. T \in SUBSET S /\ IsFiniteSet(T) /\ SumOver(f, T) # SumOver(Part(T), R)
  BY <1>3, FS_Subset DEF B
<1>5. \A V \in SUBSET S : \A r \in R :
        /\ IsFiniteSet({x \in V : h[x] = r})
        /\ Part(V)[r] = SumOver(f, {x \in V : h[x] = r})
        /\ Part(V)[r] \in Int
  <2> TAKE V \in SUBSET S
  <2> TAKE r \in R
  <2>1. IsFiniteSet({x \in V : h[x] = r})
    <3>1. {x \in V : h[x] = r} \in SUBSET S
      OBVIOUS
    <3> QED BY <3>1, FS_Subset
  <2>2. SumOver(f, {x \in V : h[x] = r}) \in Int
    BY <2>1, SumType
  <2> QED BY <2>1, <2>2
<1>6. T # {}
  <2>1. SUFFICES ASSUME T = {} PROVE FALSE
    OBVIOUS
  <2>2. \A r \in R : Part(T)[r] = 0
    <3> TAKE r \in R
    <3>1. {x \in T : h[x] = r} = {}
      BY <2>1
    <3> QED BY <3>1, SumEmpty
  <2> HIDE DEF Part
  <2>3. SumOver(Part(T), R) = 0
    BY <2>2, SumOfNothing
  <2> QED BY <1>4, <2>1, <2>3, SumEmpty
<1>7. PICK x : x \in T
  BY <1>6
<1> DEFINE V == T \ {x}
           q == h[x]
<1>8. V \notin B /\ V \in SUBSET S /\ q \in R /\ IsFiniteSet(V)
  BY <1>3, <1>4, <1>7, FS_Subset
<1>9. SumOver(f, V) = SumOver(Part(V), R)
  BY <1>8 DEF B
<1>10. SumOver(f, T) = f[x] + SumOver(f, V)
  BY <1>4, <1>7, SumTakes
<1>11. Part(T)[q] = f[x] + Part(V)[q]
  <2>1. {y \in T : h[y] = q} \ {x} = {y \in V : h[y] = q}
    OBVIOUS
  <2>2. x \in {y \in T : h[y] = q} /\ \A y \in {z \in T : h[z] = q} : f[y] \in Int
    BY <1>4, <1>7
  <2>3. IsFiniteSet({y \in T : h[y] = q})
    BY <1>4, <1>5, <1>8
  <2> HIDE DEF q, V
  <2>4. SumOver(f, {y \in T : h[y] = q}) = f[x] + SumOver(f, {y \in V : h[y] = q})
    BY <2>1, <2>2, <2>3, SumTakes
  <2> QED BY <1>8, <2>4
<1>12. \A r \in R \ {q} : Part(T)[r] = Part(V)[r]
  <2> TAKE r \in R \ {q}
  <2>1. {y \in T : h[y] = r} = {y \in V : h[y] = r}
    OBVIOUS
  <2> QED BY <2>1
<1>13. /\ \A r \in R : Part(T)[r] \in Int /\ Part(V)[r] \in Int
  BY <1>4, <1>5, <1>8
<1> HIDE DEF Part, V, q
<1>14. /\ SumOver(Part(T), R) = Part(T)[q] + SumOver(Part(T), R \ {q})
       /\ SumOver(Part(V), R) = Part(V)[q] + SumOver(Part(V), R \ {q})
  BY <1>8, <1>13, SumTakes
<1>15. SumOver(Part(T), R \ {q}) = SumOver(Part(V), R \ {q}) /\ SumOver(Part(V), R \ {q}) \in Int
  <2>1. IsFiniteSet(R \ {q})
    BY FS_Subset
  <2> QED BY <1>12, <1>13, <2>1, SumSame, SumType
<1>16. f[x] \in Int /\ Part(V)[q] \in Int
  BY <1>4, <1>7, <1>8, <1>13
<1>17. SumOver(f, T) = SumOver(Part(T), R)
  BY <1>9, <1>10, <1>11, <1>14, <1>15, <1>16
<1> QED BY <1>4, <1>17

(* A sum over a set is the sum over what enumerates the set.               *)
LEMMA SumReindexed ==
  ASSUME NEW f, NEW D, NEW S, IsFiniteSet(D), IsFiniteSet(S), \A x \in S : f[x] \in Int,
         NEW b, \A d \in D : b[d] \in S, \A d, e \in D : b[d] = b[e] => d = e,
         \A x \in S : \E d \in D : b[d] = x,
         NEW g, \A d \in D : g[d] = f[b[d]]
  PROVE  SumOver(g, D) = SumOver(f, S)
<1>1. \A d \in D : g[d] \in Int
  OBVIOUS
<1> DEFINE p == [x \in S |-> SumOver(g, {d \in D : b[d] = x})]
<1>2. SumOver(g, D) = SumOver(p, S)
  BY <1>1, SumOfFibres
<1>3. \A x \in S : p[x] = f[x]
  <2> TAKE x \in S
  <2>1. PICK d \in D : b[d] = x
    OBVIOUS
  <2>2. {e \in D : b[e] = x} = {d}
    BY <2>1
  <2>3. SumOver(g, {d}) = g[d]
    BY <1>1, SumSingle
  <2> QED BY <2>1, <2>2, <2>3
<1> HIDE DEF p
<1>4. SumOver(p, S) = SumOver(f, S)
  BY <1>3, SumSame
<1> QED BY <1>2, <1>4

(* How many there are is a sum of ones.                                    *)
LEMMA SumOfOnes ==
  ASSUME NEW f, NEW S, IsFiniteSet(S), \A x \in S : f[x] \in {0, 1}
  PROVE  SumOver(f, S) = Cardinality({x \in S : f[x] = 1})
<1> DEFINE C(T) == {x \in T : f[x] = 1}
           B == {T \in SUBSET S : SumOver(f, T) # Cardinality(C(T))}
<1>1. SUFFICES ASSUME B # {} PROVE FALSE
  OBVIOUS
<1>2. B \in SUBSET SUBSET S
  OBVIOUS
<1> HIDE DEF B
<1>3. PICK T \in B : \A V \in SUBSET T : V # T => V \notin B
  BY <1>1, <1>2, SmallestSubset
<1>4. T \in SUBSET S /\ IsFiniteSet(T) /\ SumOver(f, T) # Cardinality(C(T))
  BY <1>3, FS_Subset DEF B
<1>5. T # {}
  <2>1. T = {} => C(T) = {}
    OBVIOUS
  <2> QED BY <1>4, <2>1, SumEmpty, FS_EmptySet
<1>6. PICK x : x \in T
  BY <1>5
<1> DEFINE V == T \ {x}
<1>7. V \notin B /\ V \in SUBSET S /\ IsFiniteSet(V) /\ IsFiniteSet(C(V))
  BY <1>3, <1>4, <1>6, FS_Subset
<1>8. SumOver(f, V) = Cardinality(C(V))
  BY <1>7 DEF B
<1>9. \A y \in T : f[y] \in Int
  BY <1>4
<1>10. SumOver(f, T) = f[x] + SumOver(f, V)
  BY <1>4, <1>6, <1>9, SumTakes
<1>11. Cardinality(C(V)) \in Nat
  BY <1>7, FS_CardinalityType
<1>12. Cardinality(C(T)) = IF f[x] = 1 THEN Cardinality(C(V)) + 1 ELSE Cardinality(C(V))
  <2>1. CASE f[x] = 1
    <3>1. C(T) = C(V) \cup {x} /\ x \notin C(V)
      BY <1>6, <2>1
    <3> QED BY <1>7, <2>1, <3>1, FS_AddElement
  <2>2. CASE f[x] # 1
    <3>1. C(T) = C(V)
      BY <2>2
    <3> QED BY <2>2, <3>1
  <2> QED BY <2>1, <2>2
<1>13. f[x] \in {0, 1}
  BY <1>4, <1>6
<1> HIDE DEF C, V
<1> QED BY <1>4, <1>8, <1>10, <1>11, <1>12, <1>13

-----------------------------------------------------------------------------
(***************************************************************************)
(* Lists: how a set is laid out in a sequence, and in which order.         *)
(***************************************************************************)

(* Sequences as the model arranges them.  Enumerates(s, S): each element   *)
(* of S is in s once, and nothing else is.                                 *)
Enumerates(s, S) ==
  /\ IsFiniteSet(S) /\ s \in [1..Cardinality(S) -> S] /\ Cardinality(S) \in Nat
  /\ \A j, k \in 1..Cardinality(S) : s[j] = s[k] => j = k
  /\ \A x \in S : \E k \in 1..Cardinality(S) : s[k] = x

(* SetToSeq lists each element once.                                       *)
LEMMA ListedOnce == ASSUME NEW S, IsFiniteSet(S) PROVE Enumerates(SetToSeq(S), S)
<1> DEFINE n == Cardinality(S)
<1>1. n \in Nat /\ ExistsBijection(1..n, S)
  BY FS_CardinalityType
<1>2. PICK f : f \in Bijection(1..n, S)
  BY <1>1 DEF ExistsBijection
<1>3. f \in [1..n -> S] /\ IsInjective(f)
  BY <1>2 DEF Bijection, Injection, IsInjective
<1> DEFINE s == SetToSeq(S)
<1>4. s \in [1..n -> S] /\ IsInjective(s)
  BY <1>3 DEF SetToSeq
<1> HIDE DEF s, n
<1>5. IsFiniteSet(1..n) /\ Cardinality(1..n) = n
  BY <1>1, FS_Interval
<1>6. s \in Injection(1..n, S)
  BY <1>4 DEF Injection, IsInjective
<1>7. s \in Surjection(1..n, S)
  BY <1>5, <1>6, FS_Injection DEF n
<1> QED BY <1>1, <1>4, <1>7 DEF Enumerates, IsInjective, Surjection, s, n

(* Every element of S has two integers as its key.                         *)
Keys(S, key) == \A x \in S : \E a, b \in Int : key[x] = <<a, b>>

(* The places are an order: total, antisymmetric, transitive.              *)
LEMMA OrderOfPlaces ==
  ASSUME NEW list, NEW S, NEW n \in Nat, list \in [1..n -> S], NEW key, Keys(S, key),
         NEW j \in 1..n, NEW k \in 1..n, NEW l \in 1..n
  PROVE  /\ NotAfter(list, key, j, j)
         /\ NotAfter(list, key, j, k) \/ NotAfter(list, key, k, j)
         /\ NotAfter(list, key, j, k) /\ NotAfter(list, key, k, j) => j = k
         /\ NotAfter(list, key, j, k) /\ NotAfter(list, key, k, l) => NotAfter(list, key, j, l)
         /\ Before(key[list[j]], key[list[k]]) => ~NotAfter(list, key, k, j)
<1>1. list[j] \in S /\ list[k] \in S /\ list[l] \in S
  OBVIOUS
<1>2. PICK a1 \in Int, a2 \in Int : key[list[j]] = <<a1, a2>>
  BY <1>1 DEF Keys
<1>3. PICK b1 \in Int, b2 \in Int : key[list[k]] = <<b1, b2>>
  BY <1>1 DEF Keys
<1>4. PICK c1 \in Int, c2 \in Int : key[list[l]] = <<c1, c2>>
  BY <1>1 DEF Keys
<1>5. /\ key[list[j]] = key[list[k]] <=> a1 = b1 /\ a2 = b2
      /\ key[list[k]] = key[list[l]] <=> b1 = c1 /\ b2 = c2
      /\ key[list[j]] = key[list[l]] <=> a1 = c1 /\ a2 = c2
  BY <1>2, <1>3, <1>4
<1>6. /\ Before(key[list[j]], key[list[j]]) = FALSE
      /\ Before(key[list[j]], key[list[k]]) <=> a1 < b1 \/ (a1 = b1 /\ a2 < b2)
      /\ Before(key[list[k]], key[list[j]]) <=> b1 < a1 \/ (a1 = b1 /\ b2 < a2)
      /\ Before(key[list[k]], key[list[l]]) <=> b1 < c1 \/ (b1 = c1 /\ b2 < c2)
      /\ Before(key[list[j]], key[list[l]]) <=> a1 < c1 \/ (a1 = c1 /\ a2 < c2)
  BY <1>2, <1>3, <1>4 DEF Before
<1> QED BY <1>5, <1>6 DEF NotAfter

(* No two elements of a set have the same place.                           *)
LEMMA PlacesRise ==
  ASSUME NEW list, NEW S, NEW n \in Nat, list \in [1..n -> S], NEW key, Keys(S, key),
         NEW j \in 1..n, NEW k \in 1..n
  PROVE  /\ PlaceIn(list, key, k) \in 1..n
         /\ NotAfter(list, key, j, k) /\ j # k => PlaceIn(list, key, j) < PlaceIn(list, key, k)
<1> DEFINE Upto(m) == {i \in 1..n : NotAfter(list, key, i, m)}
<1>1. DOMAIN list = 1..n
  OBVIOUS
<1>2. PlaceIn(list, key, j) = Cardinality(Upto(j)) /\ PlaceIn(list, key, k) = Cardinality(Upto(k))
  BY <1>1 DEF PlaceIn
<1>3. IsFiniteSet(1..n) /\ Cardinality(1..n) = n
  BY FS_Interval
<1>4. \A m \in 1..n : IsFiniteSet(Upto(m)) /\ Cardinality(Upto(m)) \in Nat /\ Cardinality(Upto(m)) <= n
  BY <1>3, FS_Subset, FS_CardinalityType
<1>5. k \in Upto(k)
  BY OrderOfPlaces
<1>6. Cardinality(Upto(k)) # 0
  BY <1>4, <1>5, FS_EmptySet
<1>7. ASSUME NotAfter(list, key, j, k), j # k
      PROVE  Cardinality(Upto(j)) < Cardinality(Upto(k))
  <2>1. Upto(j) \subseteq Upto(k)
    BY <1>7, OrderOfPlaces
  <2>2. k \notin Upto(j)
    BY <1>7, OrderOfPlaces
  <2> HIDE DEF Upto
  <2>3. Cardinality(Upto(j)) <= Cardinality(Upto(k)) /\ Cardinality(Upto(j)) # Cardinality(Upto(k))
    BY <1>4, <1>5, <2>1, <2>2, FS_Subset
  <2> QED BY <1>4, <2>3
<1> HIDE DEF Upto
<1> QED BY <1>2, <1>4, <1>6, <1>7

(* Who comes first, in the sequence: each element once, in the order of    *)
(* its key.                                                                *)
LEMMA ArrangedOnce ==
  ASSUME NEW S, IsFiniteSet(S), NEW key, Keys(S, key)
  PROVE  /\ Enumerates(Arranged(S, key), S)
         /\ \A i, j \in 1..Cardinality(S) :
              i < j => ~Before(key[Arranged(S, key)[j]], key[Arranged(S, key)[i]])
<1> DEFINE n == Cardinality(S)
           list == SetToSeq(S)
           P == [k \in 1..n |-> PlaceIn(list, key, k)]
           At(m) == CHOOSE k \in DOMAIN list : PlaceIn(list, key, k) = m
           A == Arranged(S, key)
<1>1. Enumerates(list, S)
  BY ListedOnce
<1>2. n \in Nat /\ list \in [1..n -> S] /\ DOMAIN list = 1..n
  BY <1>1 DEF Enumerates
<1>3. A = [m \in DOMAIN list |-> list[At(m)]]
  BY DEF Arranged
<1>4. \A k \in 1..n : P[k] = PlaceIn(list, key, k)
  OBVIOUS
<1> HIDE DEF n, list, P, A
<1>5. P \in [1..n -> 1..n]
  BY <1>2, PlacesRise DEF P
<1>6. \A j, k \in 1..n : NotAfter(list, key, j, k) /\ j # k => P[j] < P[k]
  <2> TAKE j \in 1..n
  <2> TAKE k \in 1..n
  <2>1. NotAfter(list, key, j, k) /\ j # k => PlaceIn(list, key, j) < PlaceIn(list, key, k)
    BY <1>2, PlacesRise
  <2> QED BY <1>4, <2>1
<1>7. \A j, k \in 1..n : P[j] = P[k] => j = k
  <2> TAKE j \in 1..n
  <2> TAKE k \in 1..n
  <2>1. NotAfter(list, key, j, k) \/ NotAfter(list, key, k, j)
    BY <1>2, OrderOfPlaces
  <2>2. P[j] \in 1..n /\ P[k] \in 1..n
    BY <1>5
  <2>3. (NotAfter(list, key, j, k) /\ j # k => P[j] < P[k]) /\ (NotAfter(list, key, k, j) /\ k # j => P[k] < P[j])
    BY <1>6
  <2> QED BY <1>2, <2>1, <2>2, <2>3
<1>8. P \in Surjection(1..n, 1..n)
  <2>1. P \in Injection(1..n, 1..n)
    BY <1>5, <1>7 DEF Injection, IsInjective
  <2>2. IsFiniteSet(1..n)
    BY <1>2, FS_Interval
  <2> QED BY <2>1, <2>2, FS_Injection
<1>9. \A m \in 1..n : At(m) \in 1..n /\ P[At(m)] = m
  <2> TAKE m \in 1..n
  <2>1. PICK k \in 1..n : P[k] = m
    BY <1>8 DEF Surjection
  <2>2. k \in DOMAIN list /\ PlaceIn(list, key, k) = m
    BY <1>2, <1>4, <2>1
  <2>3. At(m) \in DOMAIN list /\ PlaceIn(list, key, At(m)) = m
    BY <2>2
  <2> HIDE DEF At
  <2> QED BY <1>2, <1>4, <2>3
<1> HIDE DEF At
<1>10. \A k \in 1..n : P[k] \in 1..n /\ At(P[k]) = k
  BY <1>5, <1>7, <1>9
<1>11. A \in [1..n -> S]
  BY <1>2, <1>3, <1>9
<1>12. \A i, j \in 1..n : A[i] = A[j] => i = j
  <2> TAKE i \in 1..n
  <2> TAKE j \in 1..n
  <2>1. A[i] = list[At(i)] /\ A[j] = list[At(j)]
    BY <1>2, <1>3
  <2>2. list[At(i)] = list[At(j)] => At(i) = At(j)
    BY <1>1, <1>9 DEF Enumerates, n
  <2> QED BY <1>9, <2>1, <2>2
<1>13. \A x \in S : \E m \in 1..n : A[m] = x
  <2> TAKE x \in S
  <2>1. PICK k \in 1..n : list[k] = x
    BY <1>1 DEF Enumerates, n
  <2>2. P[k] \in 1..n /\ A[P[k]] = list[At(P[k])] /\ At(P[k]) = k
    BY <1>2, <1>3, <1>10
  <2> QED BY <2>1, <2>2
<1>14. \A i, j \in 1..n : i < j => ~Before(key[A[j]], key[A[i]])
  <2> SUFFICES ASSUME NEW i \in 1..n, NEW j \in 1..n, i < j, Before(key[A[j]], key[A[i]]) PROVE FALSE
    OBVIOUS
  <2>1. A[i] = list[At(i)] /\ A[j] = list[At(j)] /\ At(i) \in 1..n /\ At(j) \in 1..n
    BY <1>2, <1>3, <1>9
  <2>2. ~NotAfter(list, key, At(i), At(j))
    BY <1>2, <2>1, OrderOfPlaces
  <2>3. NotAfter(list, key, At(j), At(i)) /\ At(i) # At(j)
    BY <1>2, <2>1, <2>2, OrderOfPlaces
  <2>4. P[At(j)] < P[At(i)]
    BY <1>6, <2>1, <2>3
  <2>5. j < i
    BY <1>9, <2>4
  <2> QED BY <1>2, <2>5
<1>15. Enumerates(A, S)
  BY <1>2, <1>11, <1>12, <1>13 DEF Enumerates, n
<1> QED BY <1>14, <1>15 DEF A, n

-----------------------------------------------------------------------------
(***************************************************************************)
(* The rows, and what every step keeps of them.                            *)
(***************************************************************************)

(* The rows keep their shape, the lists of worklogs and comments stay      *)
(* finite, the time is an integer.                                         *)
RowsHold ==
  /\ rows \in Rows /\ IsFiniteSet(rows.worklogs) /\ IsFiniteSet(rows.comments)
  /\ now \in Int /\ changes \in Int

(* A field that an action changes leaves the shape of the rows.            *)
LEMMA FieldChanged ==
  ASSUME NEW w \in Rows
  PROVE  /\ \A x \in SUBSET WorklogRows : \A v : v = [w EXCEPT !.worklogs = x]
              => v \in Rows /\ v.worklogs = x /\ v.comments = w.comments
         /\ \A x \in SUBSET CommentRows : \A v : v = [w EXCEPT !.comments = x]
              => v \in Rows /\ v.worklogs = w.worklogs /\ v.comments = x
         /\ \A x \in SUBSET AbsenceRows : \A v : v = [w EXCEPT !.absences = x]
              => v \in Rows /\ v.worklogs = w.worklogs /\ v.comments = w.comments
         /\ \A x \in SUBSET Profiles : \A v : v = [w EXCEPT !.tracked = x]
              => v \in Rows /\ v.worklogs = w.worklogs /\ v.comments = w.comments
         /\ \A x \in [UserIds -> Profiles \cup {NoOne}] : \A v : v = [w EXCEPT !.link = x]
              => v \in Rows /\ v.worklogs = w.worklogs /\ v.comments = w.comments
BY DEF Rows

(* What the fields of the rows are.                                        *)
LEMMA RowsKinds ==
  ASSUME NEW w \in Rows
  PROVE  /\ w.issue \in [IssueIds -> IssueRows] /\ w.worklogs \in SUBSET WorklogRows
         /\ w.comments \in SUBSET CommentRows /\ w.absences \in SUBSET AbsenceRows
         /\ w.profiles = Profiles /\ w.handles = InitialRows.handles /\ w.anonymous = InitialRows.anonymous
         /\ w.tracked \in SUBSET Profiles /\ w.link \in [UserIds -> Profiles \cup {NoOne}]
         /\ w.name = InitialRows.name /\ Issues(w) = IssueIds
BY DEF Rows, Issues

(* The shape holds at the start.                                           *)
LEMMA RowsHoldInit == Init => RowsHold
<1>1. Start \in Int
  BY DEF Start, Day
<1>2. QED
  BY <1>1, RowsAssumption DEF Init, RowsHold

(* Every step keeps the shape: syncs, administrators and time.             *)
LEMMA RowsHoldNext == RowsHold /\ [Next]_vars => RowsHold'
<1> SUFFICES ASSUME RowsHold, [Next]_vars PROVE RowsHold'
  OBVIOUS
<1>k. /\ rows.issue \in [IssueIds -> IssueRows] /\ rows.worklogs \in SUBSET WorklogRows
      /\ rows.comments \in SUBSET CommentRows /\ rows.absences \in SUBSET AbsenceRows
      /\ rows.profiles = Profiles /\ rows.handles = InitialRows.handles /\ rows.anonymous = InitialRows.anonymous
      /\ rows.tracked \in SUBSET Profiles /\ rows.link \in [UserIds -> Profiles \cup {NoOne}]
      /\ Issues(rows) = IssueIds /\ rows \in Rows /\ now \in Int /\ changes \in Int
      /\ Accounts = Profiles /\ Users = UserIds /\ Today \in Int
  <2>1. Users = UserIds
    BY RowsKinds DEF RowsHold, Users
  <2>2. Accounts = Profiles
    BY RowsKinds DEF RowsHold, Accounts
  <2>3. Today \in Int
    BY DEF RowsHold, Today, Day
  <2>4. QED
    BY <2>1, <2>2, <2>3, RowsKinds DEF RowsHold
<1>a. \A a \in Profiles : rows.handles[a] \in SUBSET Handles /\ a \in Holders
  BY <1>k, RowsAssumption DEF Holders
<1>b. ASSUME NEW v \in Rows, v.worklogs = rows.worklogs, v.comments = rows.comments, Changes(v) PROVE RowsHold'
  BY <1>b, <1>k DEF RowsHold, Changes
<1>1. ASSUME NEW i \in Issues(rows), NEW s \in Statuses, NEW a \in Accounts \cup Holders \cup {NoOne}, IssueUpserted(i, s, a)
      PROVE RowsHold'
  <2> DEFINE b == Assignee(i, a)
  <2>v. PICK v : v = [rows EXCEPT !.issue[i].status = s, !.issue[i].updated = now, !.issue[i].assignee = b]
    OBVIOUS
  <2>1. i \in IssueIds /\ Changes(v)
    BY <2>v, <1>1, <1>k DEF IssueUpserted
  <2>2. b \in Holders
    <3>1. CASE a = NoOne
      BY <3>1, <2>1, <1>k, RowsAssumption DEF Assignee, Holders
    <3>2. CASE a # NoOne
      BY <3>2, <1>a, <1>k DEF Assignee
    <3>3. QED
      BY <3>1, <3>2
  <2> HIDE DEF b
  <2>3. v \in Rows /\ v.worklogs = rows.worklogs /\ v.comments = rows.comments
    <3>1. PICK w, y : w = rows /\ y = b
      OBVIOUS
    <3>2. PICK t : t = now
      OBVIOUS
    <3>3. w \in Rows /\ i \in IssueIds /\ t \in Int /\ s \in Statuses /\ y \in Holders
      BY <3>1, <3>2, <2>1, <2>2, <1>k
    <3>4. v = [w EXCEPT !.issue[i].status = s, !.issue[i].updated = t, !.issue[i].assignee = y]
      BY <3>1, <3>2, <2>v, Zenon
    <3>5. v \in Rows /\ v.worklogs = w.worklogs /\ v.comments = w.comments
      <4> DEFINE before == w.issue[i]
                 after == [[[before EXCEPT !.status = s] EXCEPT !.updated = t] EXCEPT !.assignee = y]
      <4>1. w.issue \in [IssueIds -> IssueRows] /\ before \in IssueRows
        BY <3>3 DEF Rows
      <4>2. after \in IssueRows
        BY <3>3, <4>1 DEF IssueRows
      <4>3. [[[w.issue EXCEPT ![i].status = s] EXCEPT ![i].updated = t] EXCEPT ![i].assignee = y] = [w.issue EXCEPT ![i] = after]
        BY <3>3, <4>1
      <4>4. v = [w EXCEPT !.issue = [[[w.issue EXCEPT ![i].status = s] EXCEPT ![i].updated = t] EXCEPT ![i].assignee = y]]
        BY <3>3, <3>4, <4>1 DEF Rows
      <4>5. v = [w EXCEPT !.issue = [w.issue EXCEPT ![i] = after]]
        BY <4>3, <4>4
      <4>6. [w.issue EXCEPT ![i] = after] \in [IssueIds -> IssueRows]
        BY <3>3, <4>1, <4>2
      <4> HIDE DEF before, after
      <4>7. QED
        BY <3>3, <4>5, <4>6 DEF Rows
    <3>6. QED
      BY <3>5, <3>1
  <2>4. QED
    BY <2>1, <2>3, <1>b
<1>2. ASSUME NEW a \in Accounts, NEW i \in Issues(rows), WorkLogged(a, i) PROVE RowsHold'
  <2> DEFINE l == [author |-> a, issue |-> i, at |-> now, minutes |-> 20]
             x == rows.worklogs \cup {l}
  <2>v. PICK v : v = [rows EXCEPT !.worklogs = x]
    OBVIOUS
  <2>1. l \in WorklogRows
    BY <1>k, <1>a DEF WorklogRows
  <2>2. x \in SUBSET WorklogRows /\ IsFiniteSet(x)
    BY <2>1, <1>k, FS_AddElement DEF RowsHold
  <2>3. Changes(v)
    BY <2>v, <1>2 DEF WorkLogged
  <2> HIDE DEF l, x
  <2>4. v \in Rows /\ v.worklogs = x /\ v.comments = rows.comments
    BY <2>v, <2>2, <1>k, FieldChanged
  <2>5. QED
    BY <2>2, <2>3, <2>4, <1>k DEF RowsHold, Changes
<1>3. ASSUME NEW a \in Accounts, NEW i \in Issues(rows), NEW words \in {{}, {"stuck"}}, NEW b \in Accounts,
             Commented(a, i, words, rows.handles[b])
      PROVE RowsHold'
  <2> DEFINE c == [id |-> changes, author |-> a, issue |-> i, at |-> now, words |-> words, handles |-> rows.handles[b]]
             x == rows.comments \cup {c}
  <2>v. PICK v : v = [rows EXCEPT !.comments = x]
    OBVIOUS
  <2>1. c \in CommentRows
    <3>1. words \in SUBSET BlockerKeywords /\ rows.handles[b] \in SUBSET Handles /\ a \in Holders
      BY <1>k, <1>a DEF BlockerKeywords
    <3>2. QED
      BY <1>k, <3>1 DEF CommentRows
  <2>2. x \in SUBSET CommentRows /\ IsFiniteSet(x)
    <3>1. IsFiniteSet(rows.comments)
      BY DEF RowsHold
    <3>2. IsFiniteSet(x)
      BY <3>1, FS_AddElement
    <3>3. rows.comments \in SUBSET CommentRows
      BY <1>k
    <3>4. QED
      BY <2>1, <3>2, <3>3
  <2>3. Changes(v)
    BY <2>v, <1>3 DEF Commented
  <2> HIDE DEF c, x
  <2>4. v \in Rows /\ v.worklogs = rows.worklogs /\ v.comments = x
    BY <2>v, <2>2, <1>k, FieldChanged
  <2>5. QED
    BY <2>2, <2>3, <2>4, <1>k DEF RowsHold, Changes
<1>4. ASSUME NEW a \in Accounts, AbsenceEntered(a) PROVE RowsHold'
  <2> DEFINE x == rows.absences \cup {[account |-> a, from |-> Today, to |-> Today + Day]}
  <2>v. PICK v : v = [rows EXCEPT !.absences = x]
    OBVIOUS
  <2>1. x \in SUBSET AbsenceRows
    BY <1>k DEF AbsenceRows, Day
  <2>2. Changes(v)
    BY <2>v, <1>4 DEF AbsenceEntered
  <2> HIDE DEF x
  <2>3. v \in Rows /\ v.worklogs = rows.worklogs /\ v.comments = rows.comments
    BY <2>v, <2>1, <1>k, FieldChanged
  <2>4. QED
    BY <2>2, <2>3, <1>b
<1>5. ASSUME NEW u \in Users, NEW a \in Accounts \cup {NoOne}, Changes([rows EXCEPT !.link[u] = a]) PROVE RowsHold'
  <2> DEFINE x == [rows.link EXCEPT ![u] = a]
  <2>v. PICK v : v = [rows EXCEPT !.link = x]
    OBVIOUS
  <2>1. x \in [UserIds -> Profiles \cup {NoOne}]
    BY <1>k
  <2>2. Changes(v)
    BY <2>v, <1>5
  <2> HIDE DEF x
  <2>3. v \in Rows /\ v.worklogs = rows.worklogs /\ v.comments = rows.comments
    BY <2>v, <2>1, <1>k, FieldChanged
  <2>4. QED
    BY <2>2, <2>3, <1>b
<1>6. ASSUME NEW x \in SUBSET Accounts, SetProjectTrackedUsers(x) PROVE RowsHold'
  <2>v. PICK v : v = [rows EXCEPT !.tracked = x]
    OBVIOUS
  <2>1. Changes(v)
    BY <2>v, <1>6 DEF SetProjectTrackedUsers
  <2>2. v \in Rows /\ v.worklogs = rows.worklogs /\ v.comments = rows.comments
    BY <2>v, <1>k, FieldChanged
  <2>3. QED
    BY <2>1, <2>2, <1>b
<1>7. CASE SyncStep
  <2>1. \A i \in Issues(rows) : rows.issue[i].status \in Statuses /\ rows.issue[i].assignee \in Holders
    BY <1>k DEF IssueRows
  <2>2. CASE \E i \in Issues(rows), s \in MovesTo : IssueUpserted(i, s, rows.issue[i].assignee)
    BY <2>2, <2>1, <1>1, RowsAssumption
  <2>3. CASE \E i \in Issues(rows), a \in Accounts \cup {NoOne} : IssueUpserted(i, rows.issue[i].status, a)
    BY <2>3, <2>1, <1>1
  <2>4. CASE \E a \in Accounts, i \in Issues(rows) : WorkLogged(a, i)
    BY <2>4, <1>2
  <2>5. CASE \E a \in Accounts, i \in Issues(rows), words \in {{}, {"stuck"}} : \E b \in Accounts \ {a} :
               Commented(a, i, words, rows.handles[b])
    BY <2>5, <1>3
  <2>6. CASE \E a \in Accounts : AbsenceEntered(a)
    BY <2>6, <1>4
  <2>7. QED
    BY <1>7, <2>2, <2>3, <2>4, <2>5, <2>6 DEF SyncStep
<1>8. CASE AdminStep
  <2>1. CASE \E u \in Users, a \in Accounts : MapUserToProject(u, a)
    BY <2>1, <1>5 DEF MapUserToProject
  <2>2. CASE \E u \in Users : UnlinkUserFromProject(u)
    BY <2>2, <1>5 DEF UnlinkUserFromProject
  <2>3. CASE \E tracked \in SUBSET Accounts : SetProjectTrackedUsers(tracked)
    BY <2>3, <1>6
  <2>4. QED
    BY <1>8, <2>1, <2>2, <2>3 DEF AdminStep
<1>9. CASE SummaryStep
  BY <1>9 DEF SummaryStep, GenerateHierarchicalSummariesForDate, BackfillProjectSummaries, RowsHold
<1>10. CASE Tick
  BY <1>10 DEF Tick, RowsHold
<1>11. CASE UNCHANGED vars
  BY <1>11 DEF vars, RowsHold
<1>12. QED
  BY <1>7, <1>8, <1>9, <1>10, <1>11 DEF Next

(* The least and the greatest of finitely many integers.                   *)
LEMMA Greatest ==
  ASSUME NEW S \in SUBSET Int, IsFiniteSet(S), S # {}
  PROVE  Max(S) \in S /\ \A x \in S : Max(S) >= x
<1> DEFINE B == {T \in SUBSET S : \E x \in S \ T : \A y \in T : x >= y}
           C == {S \ T : T \in B}
<1>1. {} \in B
  OBVIOUS
<1>2. C \in SUBSET SUBSET S /\ C # {}
  <2>1. S \ {} \in C
    BY <1>1
  <2>2. QED
    BY <2>1
<1> HIDE DEF C
<1>3. PICK T \in C : \A U \in SUBSET T : U # T => U \notin C
  BY <1>2, SmallestSubset
<1> USE DEF C
<1>4. PICK R \in B : T = S \ R
  OBVIOUS
<1>5. PICK x \in S \ R : \A y \in R : x >= y
  OBVIOUS
<1>6. \A z \in S : z <= x
  <2> SUFFICES ASSUME NEW z \in S, ~(z <= x) PROVE FALSE
    OBVIOUS
  <2>1. z \notin R /\ z >= x /\ z # x /\ x \in Int /\ z \in Int
    BY <1>5
  <2> DEFINE R2 == R \cup {x}
  <2>2. R2 \in B
    <3>1. R2 \in SUBSET S /\ z \in S \ R2
      BY <2>1, <1>5
    <3>2. \A y \in R2 : z >= y
      <4> SUFFICES ASSUME NEW y \in R2 PROVE z >= y
        OBVIOUS
      <4>1. y \in Int
        BY <3>1
      <4>2. x >= y
        BY <1>5, <4>1
      <4>3. QED
        BY <2>1, <4>1, <4>2
    <3>3. QED
      BY <3>1, <3>2
  <2>3. S \ R2 \in C
    BY <2>2
  <2>4. S \ R2 \in SUBSET T /\ S \ R2 # T
    BY <1>4, <1>5
  <2> HIDE DEF C, B
  <2>5. QED
    BY <2>3, <2>4, <1>3
<1>7. \E m \in S : \A y \in S : m >= y
  <2>1. \A y \in S : x >= y
    <3> SUFFICES ASSUME NEW y \in S PROVE x >= y
      OBVIOUS
    <3>1. y <= x /\ x \in Int /\ y \in Int
      BY <1>6
    <3>2. QED
      BY <3>1
  <2>2. QED
    BY <2>1
<1>8. QED
  BY <1>7 DEF Max

(* The least of finitely many integers is one of them and at most each.    *)
LEMMA Least ==
  ASSUME NEW S \in SUBSET Nat, S # {}
  PROVE  Min(S) \in S /\ \A x \in S : Min(S) <= x
<1>1. PICK m \in S : \A y \in S : <<y, m>> \notin OpToRel(<, Nat)
  BY NatLessThanWellFounded, WFMin
<1>2. \A y \in S : m <= y
  <2> SUFFICES ASSUME NEW y \in S PROVE m <= y
    OBVIOUS
  <2>1. ~(y < m)
    BY <1>1 DEF OpToRel
  <2>2. QED
    BY <2>1
<1>3. QED
  BY <1>2 DEF Min

(* A sequence as the list of what is in it.                                *)
IsList(s) == s \in Seq(ToSet(s))

(* A list with one element more is a list of the old ones and it.          *)
LEMMA ListAppended ==
  ASSUME NEW s, IsList(s), NEW x
  PROVE  /\ IsList(Append(s, x)) /\ ToSet(Append(s, x)) = ToSet(s) \cup {x}
         /\ Len(Append(s, x)) = Len(s) + 1 /\ Append(s, x)[Len(s) + 1] = x
         /\ \A k \in 1..Len(s) : Append(s, x)[k] = s[k]
<1> DEFINE S == ToSet(s) \cup {x}
           t == Append(s, x)
<1>1. s \in Seq(S) /\ x \in S
  BY DEF IsList
<1>2. /\ t \in Seq(S) /\ Len(t) = Len(s) + 1 /\ t[Len(s) + 1] = x /\ \A k \in 1..Len(s) : t[k] = s[k]
      /\ Len(s) \in Nat /\ DOMAIN s = 1..Len(s) /\ DOMAIN t = 1..(Len(s) + 1)
  <2> HIDE DEF S
  <2>1. QED
    BY <1>1, AppendProperties, LenProperties
<1> HIDE DEF t
<1>3. ToSet(t) = S
  <2>1. ASSUME NEW y \in ToSet(t) PROVE y \in S
    <3>1. PICK k \in 1..(Len(s) + 1) : y = t[k]
      BY <1>2 DEF ToSet
    <3>2. CASE k \in 1..Len(s)
      BY <3>1, <3>2, <1>2 DEF ToSet
    <3>3. CASE k = Len(s) + 1
      BY <3>1, <3>3, <1>2
    <3>4. QED
      BY <3>1, <3>2, <3>3, <1>2
  <2>2. ASSUME NEW y \in S PROVE y \in ToSet(t)
    <3>1. CASE y = x
      <4>1. Len(s) + 1 \in DOMAIN t /\ t[Len(s) + 1] = y
        BY <3>1, <1>2
      <4>2. QED
        BY <4>1 DEF ToSet
    <3>2. CASE y \in ToSet(s)
      <4>1. PICK k \in DOMAIN s : y = s[k]
        BY <3>2 DEF ToSet
      <4>2. k \in DOMAIN t /\ t[k] = y
        BY <4>1, <1>2
      <4>3. QED
        BY <4>2 DEF ToSet
    <3>3. QED
      BY <3>1, <3>2
  <2>3. QED
    BY <2>1, <2>2
<1>4. QED
  BY <1>2, <1>3 DEF IsList, t

-----------------------------------------------------------------------------
(***************************************************************************)
(* A text that is taken over tells what would be written today.            *)
(***************************************************************************)

(* What a step does to the runs.                                           *)
LEMMA RunsAdded ==
  ASSUME [Next]_vars, now \in Int
  PROVE  \/ snapshots' = snapshots
         \/ \E userOf \in FoundUsers(rows) : snapshots' = Append(snapshots, NewRun(snapshots, userOf, Today))
         \/ \E userOf \in FoundUsers(rows) : \E runs :
              /\ runs = Append(snapshots, NewRun(snapshots, userOf, Today))
              /\ snapshots' = Append(runs, NewRun(runs, userOf, Today - Day))
<1>1. CASE GenerateHierarchicalSummariesForDate(Today)
  BY <1>1, Zenon DEF GenerateHierarchicalSummariesForDate
<1>2. CASE BackfillProjectSummaries(2)
  <2>1. PICK userOf \in FoundUsers(rows) :
          LET AddRun(runs, day) == Append(runs, NewRun(runs, userOf, day))
              filled[k \in 0..2] ==
                IF k = 0 THEN snapshots ELSE AddRun(filled[k - 1], Today - (k - 1) * Day)
          IN snapshots' = filled[2]
    BY <1>2, Zenon DEF BackfillProjectSummaries
  <2> DEFINE Added(runs, day) == Append(runs, NewRun(runs, userOf, day))
             Is(f) == f = [k \in 0..2 |-> IF k = 0 THEN snapshots ELSE Added(f[k - 1], Today - (k - 1) * Day)]
             one == Added(snapshots, Today - (1 - 1) * Day)
             two == Added(one, Today - (2 - 1) * Day)
             g == [k \in 0..2 |-> IF k = 0 THEN snapshots ELSE IF k = 1 THEN one ELSE two]
  <2>2. \A f : Is(f) => f[2] = two
    <3> SUFFICES ASSUME NEW f, Is(f) PROVE f[2] = two
      OBVIOUS
    <3> HIDE DEF Added
    <3>1. f[0] = snapshots
      OBVIOUS
    <3>2. f[1] = one
      BY <3>1
    <3>3. QED
      BY <3>2
  <2>3. Is(g)
    <3> HIDE DEF Added
    <3>1. g[0] = snapshots /\ g[1] = one /\ g[2] = two
      OBVIOUS
    <3>2. \A k \in 0..2 : g[k] = IF k = 0 THEN snapshots ELSE Added(g[k - 1], Today - (k - 1) * Day)
      <4> SUFFICES ASSUME NEW k \in 0..2 PROVE g[k] = IF k = 0 THEN snapshots ELSE Added(g[k - 1], Today - (k - 1) * Day)
        OBVIOUS
      <4> HIDE DEF g
      <4>1. k \in {0, 1, 2}
        OBVIOUS
      <4>2. CASE k = 0
        BY <4>2, <3>1
      <4>3. CASE k = 1
        BY <4>3, <3>1
      <4>4. CASE k = 2
        BY <4>4, <3>1
      <4>5. QED
        BY <4>1, <4>2, <4>3, <4>4
    <3>3. g = [k \in 0..2 |-> g[k]]
      OBVIOUS
    <3> HIDE DEF g
    <3>4. [k \in 0..2 |-> g[k]] = [k \in 0..2 |-> IF k = 0 THEN snapshots ELSE Added(g[k - 1], Today - (k - 1) * Day)]
      BY <3>2
    <3>5. QED
      BY <3>3, <3>4
  <2>4. Is(CHOOSE f : Is(f))
    <3> HIDE DEF Is
    <3>1. QED
      BY <2>3
  <2>5. snapshots' = (CHOOSE f : Is(f))[2]
    BY <2>1
  <2>6. snapshots' = two
    <3> HIDE DEF Is, two
    <3>1. QED
      BY <2>2, <2>4, <2>5
  <2>7. Today - (1 - 1) * Day = Today /\ Today - (2 - 1) * Day = Today - Day
    BY DEF Today, Day
  <2> HIDE DEF Is, g
  <2>8. one = Append(snapshots, NewRun(snapshots, userOf, Today)) /\ two = Append(one, NewRun(one, userOf, Today - Day))
    BY <2>7
  <2> HIDE DEF one, two
  <2>9. QED
    BY <2>6, <2>8
<1>3. CASE SyncStep \/ AdminStep \/ Tick \/ UNCHANGED vars
  BY <1>3 DEF SyncStep, AdminStep, Tick, vars, IssueUpserted, WorkLogged, Commented, AbsenceEntered,
              MapUserToProject, UnlinkUserFromProject, SetProjectTrackedUsers, Changes
<1>4. QED
  BY <1>1, <1>2, <1>3 DEF Next, SummaryStep

(* What a text tells and what it is hashed over, in one run.               *)
Payloads(r) == Mapped(r.users, LAMBDA u : u.payload)

(* The texts of a run are those that would be written from its rows and    *)
(* tasks.                                                                  *)
TextTold(r) ==
  /\ r.hash = BuildProjectNarrativeInput(r.payload, Payloads(r), r.tasks)
  /\ r.narrative = ComposeProjectNarrative(r.rows, r.payload, Payloads(r), r.tasks)
  /\ \A k \in DOMAIN r.users : r.users[k].payload.headline.name = Name(r.rows, r.users[k].payload.target)

(* The texts of every run are.                                             *)
TextsTold == IsList(snapshots) /\ \A r \in ToSet(snapshots) : TextTold(r)

(* The headline names whose stand-up it is.                                *)
LEMMA HeadlineNames ==
  ASSUME NEW w, NEW daily, NEW tasks, NEW p, p = BuildUserPayload(w, daily, tasks)
  PROVE  p.headline.name = Name(w, p.target)
<1>1. \A ts : BuildUserHeadline(w, daily, ts).name = Name(w, daily.target)
  BY DEF BuildUserHeadline
<1>2. CASE daily.unavailable
  BY <1>1, <1>2 DEF BuildUserPayload, AwayPayload
<1>3. CASE ~daily.unavailable
  BY <1>1, <1>3 DEF BuildUserPayload, PresentPayload
<1>4. QED
  BY <1>2, <1>3

(* The text is a function of what is hashed, for runs of any rows.         *)
LEMMA SameHashSameText ==
  ASSUME NEW r, NEW v, TextTold(r), NEW payload, NEW users, NEW tasks,
         \A k \in DOMAIN users : users[k].payload.headline.name = Name(v, users[k].payload.target),
         r.hash = BuildProjectNarrativeInput(payload, Mapped(users, LAMBDA u : u.payload), tasks)
  PROVE  r.narrative = ComposeProjectNarrative(v, payload, Mapped(users, LAMBDA u : u.payload), tasks)
<1> DEFINE mine == Mapped(users, LAMBDA u : u.payload)
           theirs == Payloads(r)
           headsMine == Mapped(mine, LAMBDA u : u.headline)
           headsTheirs == Mapped(theirs, LAMBDA u : u.headline)
           namesMine == Mapped(mine, LAMBDA u : Name(v, u.target))
           namesTheirs == Mapped(theirs, LAMBDA u : Name(r.rows, u.target))
<1>1. r.payload = payload /\ headsTheirs = headsMine /\ Len(r.tasks) = Len(tasks)
  BY DEF TextTold, BuildProjectNarrativeInput
<1>2. DOMAIN r.users = DOMAIN users
  <2>1. DOMAIN headsTheirs = DOMAIN r.users /\ DOMAIN headsMine = DOMAIN users
    BY DEF Mapped, Payloads
  <2> HIDE DEF headsTheirs, headsMine
  <2>2. QED
    BY <1>1, <2>1
<1>3. \A k \in DOMAIN users : r.users[k].payload.headline = users[k].payload.headline
  <2>1. \A k \in DOMAIN users : headsTheirs[k] = r.users[k].payload.headline /\ headsMine[k] = users[k].payload.headline
    BY <1>2 DEF Mapped, Payloads
  <2> HIDE DEF headsTheirs, headsMine
  <2>2. QED
    BY <1>1, <2>1
<1>4. namesTheirs = namesMine
  <2>1. \A k \in DOMAIN users : Name(r.rows, r.users[k].payload.target) = Name(v, users[k].payload.target)
    BY <1>2, <1>3 DEF TextTold
  <2>2. namesTheirs = [k \in DOMAIN users |-> Name(r.rows, r.users[k].payload.target)]
    BY <1>2 DEF Mapped, Payloads
  <2>3. namesMine = [k \in DOMAIN users |-> Name(v, users[k].payload.target)]
    BY DEF Mapped
  <2> HIDE DEF namesTheirs, namesMine
  <2>4. QED
    BY <2>1, <2>2, <2>3
<1>5. r.narrative = ComposeProjectNarrative(r.rows, r.payload, theirs, r.tasks)
  BY DEF TextTold
<1>6. r.narrative =
        [brief |-> r.payload.brief, highlights |-> r.payload.highlights, actions |-> UpTo(MaxTold, r.payload.calls),
         blockers |-> r.payload.criticalBlockers, risks |-> r.payload.atRiskWork, health |-> r.payload.health,
         issues |-> Len(r.tasks), standouts |-> UpTo(3, namesTheirs)]
  BY <1>5 DEF ComposeProjectNarrative
<1>7. ComposeProjectNarrative(v, payload, mine, tasks) =
        [brief |-> payload.brief, highlights |-> payload.highlights, actions |-> UpTo(MaxTold, payload.calls),
         blockers |-> payload.criticalBlockers, risks |-> payload.atRiskWork, health |-> payload.health,
         issues |-> Len(tasks), standouts |-> UpTo(3, namesMine)]
  BY DEF ComposeProjectNarrative
<1> HIDE DEF theirs, headsMine, headsTheirs, namesMine, namesTheirs
<1>8. r.narrative = ComposeProjectNarrative(v, payload, mine, tasks)
  BY <1>1, <1>4, <1>6, <1>7
<1>9. QED
  BY <1>8

(* A new run has the texts that would be written, if the earlier runs      *)
(* have.                                                                   *)
LEMMA RunTellsText ==
  ASSUME NEW runs, \A r \in ToSet(runs) : TextTold(r), NEW userOf, NEW day
  PROVE  TextTold(NewRun(runs, userOf, day))
<1> DEFINE summaries == GenerateSummariesForDate(rows, userOf, day)
           tasks == PersistTaskSummaries(rows, summaries, day, now)
           users == PersistUserSummaries(rows, runs, summaries, tasks, day)
           payloads == Mapped(users, LAMBDA u : u.payload)
           payload == BuildProjectPayload(rows, payloads, tasks)
           hash == BuildProjectNarrativeInput(payload, payloads, tasks)
           told == ComposeProjectNarrative(rows, payload, payloads, tasks)
           text == Narrated(Latest(runs, day), hash, told, Len(runs) + 1)
           run == NewRun(runs, userOf, day)
<1>1. /\ run.rows = rows /\ run.users = users /\ run.tasks = tasks /\ run.payload = payload
      /\ run.hash = text.hash /\ run.narrative = text.narrative
  <2>1. run = PersistProjectSummary(rows, runs, users, tasks, day)
    BY DEF NewRun
  <2> HIDE DEF summaries, tasks, users, run
  <2>2. QED
    BY <2>1 DEF PersistProjectSummary
<1>2. \A k \in DOMAIN users : users[k].payload.headline.name = Name(rows, users[k].payload.target)
  <2> SUFFICES ASSUME NEW k \in DOMAIN users PROVE users[k].payload.headline.name = Name(rows, users[k].payload.target)
    OBVIOUS
  <2>1. users[k] = PersistUserSummary(rows, runs, summaries[k], tasks, day)
    BY DEF PersistUserSummaries, Mapped
  <2> HIDE DEF summaries, tasks, users
  <2>2. users[k].payload = BuildUserPayload(rows, summaries[k], OwnTasks(tasks, summaries[k].id))
    BY <2>1 DEF PersistUserSummary
  <2>3. QED
    BY <2>2, HeadlineNames
<1>3. text.hash = hash /\ text.narrative = told
  <2> DEFINE previous == Latest(runs, day)
  <2>1. \A r \in previous : TextTold(r)
    BY DEF Latest, ToSet
  <2> HIDE DEF previous, summaries, tasks, users
  <2>2. \A r \in previous : r.hash = hash => r.narrative = told
    <3> HIDE DEF payload
    <3> SUFFICES ASSUME NEW r \in previous, r.hash = hash PROVE r.narrative = told
      OBVIOUS
    <3>1. TextTold(r)
      BY <2>1
    <3>2. QED
      BY <3>1, <1>2, SameHashSameText
  <2>t. text = Narrated(previous, hash, told, Len(runs) + 1)
    BY DEF previous
  <2> HIDE DEF hash, told, text
  <2>3. CASE \E p \in previous : p.hash = hash
    <3> DEFINE p == CHOOSE q \in previous : q.hash = hash
    <3>1. p \in previous /\ p.hash = hash
      BY <2>3
    <3>2. text = [hash |-> hash, narrative |-> p.narrative, generatedAt |-> p.generatedAt]
      BY <2>t, <2>3 DEF Narrated
    <3> HIDE DEF p
    <3>3. QED
      BY <3>1, <3>2, <2>2
  <2>4. CASE ~\E p \in previous : p.hash = hash
    BY <2>t, <2>4 DEF Narrated
  <2>5. QED
    BY <2>3, <2>4
<1> HIDE DEF run, summaries, tasks, users, text
<1>4. Payloads(run) = payloads
  BY <1>1 DEF Payloads
<1>5. hash = BuildProjectNarrativeInput(payload, payloads, tasks)
      /\ told = ComposeProjectNarrative(rows, payload, payloads, tasks)
  OBVIOUS
<1> HIDE DEF payloads, payload, hash, told
<1>6. run.hash = BuildProjectNarrativeInput(run.payload, Payloads(run), run.tasks)
  BY <1>1, <1>3, <1>4, <1>5
<1>7. run.narrative = ComposeProjectNarrative(run.rows, run.payload, Payloads(run), run.tasks)
  BY <1>1, <1>3, <1>4, <1>5
<1>8. \A k \in DOMAIN run.users : run.users[k].payload.headline.name = Name(run.rows, run.users[k].payload.target)
  BY <1>1, <1>2
<1>9. TextTold(run)
  BY <1>6, <1>7, <1>8 DEF TextTold
<1>10. QED
  BY <1>9 DEF run

(* So a run that is added keeps it.                                        *)
LEMMA RunAppended ==
  ASSUME NEW runs, IsList(runs), \A r \in ToSet(runs) : TextTold(r), NEW userOf, NEW day
  PROVE  LET more == Append(runs, NewRun(runs, userOf, day))
         IN IsList(more) /\ \A r \in ToSet(more) : TextTold(r)
BY RunTellsText, ListAppended

(* No run, no text.                                                        *)
LEMMA TextsToldInit == Init => TextsTold
<1> SUFFICES ASSUME Init PROVE TextsTold
  OBVIOUS
<1>1. snapshots = <<>>
  BY DEF Init
<1>2. QED
  BY <1>1 DEF TextsTold, IsList, ToSet

(* Every step keeps the texts told.                                        *)
LEMMA TextsToldNext == RowsHold /\ TextsTold /\ [Next]_vars => TextsTold'
<1> SUFFICES ASSUME RowsHold, TextsTold, [Next]_vars PROVE TextsTold'
  OBVIOUS
<1>1. CASE snapshots' = snapshots
  BY <1>1 DEF TextsTold, IsList
<1>2. CASE \E userOf \in FoundUsers(rows) : snapshots' = Append(snapshots, NewRun(snapshots, userOf, Today))
  BY <1>2, RunAppended DEF TextsTold
<1>3. CASE \E userOf \in FoundUsers(rows) : \E runs :
             /\ runs = Append(snapshots, NewRun(snapshots, userOf, Today))
             /\ snapshots' = Append(runs, NewRun(runs, userOf, Today - Day))
  <2>u. PICK userOf \in FoundUsers(rows) : \E runs :
             /\ runs = Append(snapshots, NewRun(snapshots, userOf, Today))
             /\ snapshots' = Append(runs, NewRun(runs, userOf, Today - Day))
    BY <1>3
  <2>1. PICK runs :
             /\ runs = Append(snapshots, NewRun(snapshots, userOf, Today))
             /\ snapshots' = Append(runs, NewRun(runs, userOf, Today - Day))
    BY <2>u
  <2>2. IsList(runs) /\ \A r \in ToSet(runs) : TextTold(r)
    BY <2>1, RunAppended DEF TextsTold
  <2>3. IsList(snapshots') /\ \A r \in ToSet(snapshots') : TextTold(r)
    BY <2>1, <2>2, RunAppended
  <2>4. QED
    BY <2>3 DEF TextsTold, IsList
<1>4. QED
  BY <1>1, <1>2, <1>3, RunsAdded DEF RowsHold

(* A text that is taken over from an earlier day because the hash is the   *)
(* same is, in every reachable state, the text that would be written       *)
(* today: everything the text tells is in what is hashed                   *)
(* (buildUserNarrative, buildProjectNarrativeInput,                        *)
(* composeProjectNarrative).                                               *)
THEOREM ReusedTextAlwaysTodays == Spec => []ReusedTextIsTodays
<1>1. TextsTold => ReusedTextIsTodays
  BY DEF TextsTold, TextTold, ReusedTextIsTodays, Payloads
<1>2. QED
  BY <1>1, RowsHoldInit, RowsHoldNext, TextsToldInit, TextsToldNext, PTL DEF Spec

-----------------------------------------------------------------------------
(***************************************************************************)
(* Everyone is in a run once.                                              *)
(***************************************************************************)

(* A place is a natural number.                                            *)
LEMMA PlaceType == ASSUME NEW x PROVE Place(Names, x) \in Nat
<1> DEFINE I == {i \in 1..Len(Names) : Names[i] = x}
<1>1. Len(Names) \in Nat
  BY RowsAssumption, LenProperties
<1>2. I \in SUBSET Nat
  BY <1>1
<1>3. Place(Names, x) = IF I # {} THEN Min(I) ELSE 0
  BY DEF Place, SelectInSeq
<1> HIDE DEF I
<1>4. CASE I = {}
  BY <1>3, <1>4
<1>5. CASE I # {}
  <2>1. Min(I) \in I
    BY <1>2, <1>5, Least
  <2>2. QED
    BY <1>2, <1>3, <1>5, <2>1
<1>6. QED
  BY <1>4, <1>5

(* The users linked to an account, and the one found first.                *)
LEMMA LinkedFound ==
  ASSUME RowsHold, NEW a \in LinkedAccounts(rows)
  PROVE  /\ a \in Profiles /\ a # NoOne /\ LinkedTo(rows, a) \subseteq UserIds
         /\ FirstLinked(rows, a) \in LinkedTo(rows, a)
<1>1. rows.link \in [UserIds -> Profiles \cup {NoOne}]
  BY RowsKinds DEF RowsHold
<1>2. a \in Profiles /\ a # NoOne /\ LinkedTo(rows, a) \subseteq UserIds /\ LinkedTo(rows, a) # {}
  BY <1>1 DEF LinkedAccounts, LinkedTo
<1> DEFINE P(u) == Place(Names, rows.name[u])
           L == LinkedTo(rows, a)
           N == {P(u) : u \in L}
<1>3. \A u \in L : P(u) \in Nat
  BY PlaceType
<1> HIDE DEF P
<1>4. N \in SUBSET Nat /\ N # {}
  BY <1>2, <1>3
<1>5. Min(N) \in N /\ \A x \in N : Min(N) <= x
  <2> HIDE DEF N
  <2>1. QED
    BY <1>4, Least
<1>6. PICK u \in L : P(u) = Min(N)
  BY <1>5
<1>7. \A v \in L : P(u) <= P(v)
  BY <1>5, <1>6
<1> USE DEF P
<1>8. QED
  BY <1>2, <1>7 DEF FirstLinked

(* Every teammate of a stand-up: whose account it is and who its user is.  *)
LEMMA TargetKinds ==
  ASSUME RowsHold, NEW userOf \in FoundUsers(rows), NEW t \in Targets(rows, userOf)
  PROVE  /\ t.account \in rows.tracked \cup LinkedAccounts(rows) /\ t.account \in Profiles
         /\ t.user = NoOne \/ (t.user \in UserIds /\ rows.link[t.user] = t.account)
         /\ t = IF t.account \in rows.tracked THEN TrackedTarget(rows, t.account, userOf)
                ELSE LinkedTarget(rows, t.account)
<1>1. rows.link \in [UserIds -> Profiles \cup {NoOne}] /\ rows.tracked \subseteq Profiles /\ Users = UserIds
  BY RowsKinds DEF RowsHold, Users
<1>2. CASE \E a \in rows.tracked : t = TrackedTarget(rows, a, userOf)
  <2>1. PICK a \in rows.tracked : t = TrackedTarget(rows, a, userOf)
    BY <1>2
  <2>2. t.account = a /\ t.user = IF LinkedTo(rows, a) = {} THEN NoOne ELSE userOf[a]
    BY <2>1 DEF TrackedTarget
  <2>3. a \in Profiles /\ a # NoOne
    BY <1>1, RowsAssumption DEF Holders
  <2>4. CASE LinkedTo(rows, a) # {}
    <3>1. a \in LinkedAccounts(rows)
      BY <2>3, <2>4 DEF LinkedTo, LinkedAccounts
    <3>2. userOf[a] \in UserIds /\ rows.link[userOf[a]] = a
      BY <1>1, <3>1 DEF FoundUsers
    <3>3. QED
      BY <2>1, <2>2, <2>3, <2>4, <3>2
  <2>5. QED
    BY <2>1, <2>2, <2>3, <2>4
<1>3. CASE \E a \in LinkedAccounts(rows) \ rows.tracked : t = LinkedTarget(rows, a)
  <2>1. PICK a \in LinkedAccounts(rows) \ rows.tracked : t = LinkedTarget(rows, a)
    BY <1>3
  <2>2. t.account = a /\ t.user = FirstLinked(rows, a)
    BY <2>1 DEF LinkedTarget
  <2>3. FirstLinked(rows, a) \in UserIds /\ rows.link[FirstLinked(rows, a)] = a /\ a \in Profiles
    BY <2>1, LinkedFound DEF LinkedTo
  <2>4. QED
    BY <2>1, <2>2, <2>3
<1>4. QED
  BY <1>2, <1>3 DEF Targets

(* Every tracked or linked account has a target.                           *)
LEMMA TargetOfAccount ==
  ASSUME RowsHold, NEW userOf \in FoundUsers(rows), NEW a \in rows.tracked \cup LinkedAccounts(rows)
  PROVE  \E t \in Targets(rows, userOf) : t.account = a
<1>1. CASE a \in rows.tracked
  <2>1. TrackedTarget(rows, a, userOf) \in Targets(rows, userOf) /\ TrackedTarget(rows, a, userOf).account = a
    BY <1>1 DEF Targets, TrackedTarget
  <2>2. QED
    BY <2>1
<1>2. CASE a \notin rows.tracked
  <2>1. LinkedTarget(rows, a) \in Targets(rows, userOf) /\ LinkedTarget(rows, a).account = a
    BY <1>2 DEF Targets, LinkedTarget
  <2>2. QED
    BY <2>1
<1>3. QED
  BY <1>1, <1>2

(* There are finitely many targets.                                        *)
LEMMA TargetsFinite ==
  ASSUME RowsHold, NEW userOf
  PROVE  IsFiniteSet(Targets(rows, userOf))
<1> DEFINE A == rows.tracked
           B == LinkedAccounts(rows) \ rows.tracked
           tracked == [a \in A |-> TrackedTarget(rows, a, userOf)]
           linked == [a \in B |-> LinkedTarget(rows, a)]
<1>1. A \subseteq Profiles /\ B \subseteq Profiles
  <2>1. rows.tracked \subseteq Profiles
    BY RowsKinds DEF RowsHold
  <2>2. QED
    BY <2>1, LinkedFound
<1>2. IsFiniteSet(A) /\ IsFiniteSet(B)
  <2> HIDE DEF A, B
  <2>1. QED
    BY <1>1, RowsAssumption, FS_Subset
<1>3. IsFiniteSet({TrackedTarget(rows, a, userOf) : a \in A})
  <2> HIDE DEF A
  <2>1. {tracked[a] : a \in A} = {TrackedTarget(rows, a, userOf) : a \in A}
    OBVIOUS
  <2>2. tracked \in Surjection(A, {tracked[a] : a \in A})
    BY DEF Surjection
  <2>3. QED
    BY <1>2, <2>1, <2>2, FS_Surjection
<1>4. IsFiniteSet({LinkedTarget(rows, a) : a \in B})
  <2> HIDE DEF B
  <2>1. {linked[a] : a \in B} = {LinkedTarget(rows, a) : a \in B}
    OBVIOUS
  <2>2. linked \in Surjection(B, {linked[a] : a \in B})
    BY DEF Surjection
  <2>3. QED
    BY <1>2, <2>1, <2>2, FS_Surjection
<1>5. Targets(rows, userOf) = {TrackedTarget(rows, a, userOf) : a \in A} \cup {LinkedTarget(rows, a) : a \in B}
  BY DEF Targets
<1>6. QED
  BY <1>3, <1>4, <1>5, FS_Union

(* Who has no row of his own in common with anybody else.                  *)
LEMMA TargetsDiffer ==
  ASSUME RowsHold, NEW userOf \in FoundUsers(rows), NEW s \in Targets(rows, userOf), NEW t \in Targets(rows, userOf),
         s # t
  PROVE  s.account # t.account /\ SummaryId(s) # SummaryId(t)
<1>1. s.account # t.account
  BY TargetKinds
<1>2. NoOne \notin UserIds
  BY RowsAssumption
<1>3. s.user # NoOne /\ t.user # NoOne => s.user # t.user
  BY TargetKinds, <1>1
<1>4. SummaryId(s) # SummaryId(t)
  <2>1. "row" # "virtual"
    OBVIOUS
  <2>2. QED
    BY <2>1, <1>1, <1>3 DEF SummaryId
<1>5. QED
  BY <1>1, <1>4

(* The summary of a target is of that target.                              *)
LEMMA SummaryTarget ==
  ASSUME NEW w, NEW t, NEW day
  PROVE  /\ GenerateSummaryForTarget(w, t, day).target = t
         /\ GenerateSummaryForTarget(w, t, day).id = SummaryId(t)
BY DEF GenerateSummaryForTarget, EmptySummary, ComputedSummary

(* The stand-ups of a day: one for each target.                            *)
LEMMA TeamListed ==
  ASSUME RowsHold, NEW userOf \in FoundUsers(rows), NEW day, NEW S, S = GenerateSummariesForDate(rows, userOf, day)
  PROVE  /\ Enumerates([k \in DOMAIN S |-> S[k].target], Targets(rows, userOf))
         /\ \A k \in DOMAIN S : S[k] = GenerateSummaryForTarget(rows, S[k].target, day)
         /\ DOMAIN S = 1..Cardinality(Targets(rows, userOf)) /\ Cardinality(Targets(rows, userOf)) \in Nat
<1> DEFINE T == Targets(rows, userOf)
           key == [t \in T |-> <<Place(Names, StandupName(rows, t)), 0>>]
           A == Arranged(T, key)
<1>1. IsFiniteSet(T) /\ Keys(T, key)
  <2>1. \A t \in T : Place(Names, StandupName(rows, t)) \in Int
    BY PlaceType
  <2>2. QED
    BY <2>1, TargetsFinite DEF Keys
<1>2. S = [k \in DOMAIN A |-> GenerateSummaryForTarget(rows, A[k], day)]
  BY DEF GenerateSummariesForDate, SortedBy
<1> HIDE DEF T, key
<1>3. Enumerates(A, T) /\ Cardinality(T) \in Nat
  BY <1>1, ArrangedOnce, FS_CardinalityType
<1> HIDE DEF A
<1>4. DOMAIN S = DOMAIN A /\ \A k \in DOMAIN S : S[k] = GenerateSummaryForTarget(rows, A[k], day)
  BY <1>2
<1>5. \A k \in DOMAIN S : S[k].target = A[k]
  BY <1>4, SummaryTarget
<1>6. A \in [1..Cardinality(T) -> T]
  BY <1>3 DEF Enumerates
<1>7. [k \in DOMAIN S |-> S[k].target] = A
  <2>1. A = [k \in DOMAIN A |-> A[k]]
    BY <1>6
  <2>2. QED
    BY <1>4, <1>5, <2>1
<1>8. QED
  BY <1>3, <1>4, <1>5, <1>6, <1>7 DEF T

(* The parts of a run.                                                     *)
LEMMA PayloadTarget ==
  ASSUME NEW w, NEW daily, NEW tasks, NEW p, p = BuildUserPayload(w, daily, tasks)
  PROVE  p.target = daily.target
<1>1. CASE daily.unavailable
  BY <1>1 DEF BuildUserPayload, AwayPayload
<1>2. CASE ~daily.unavailable
  BY <1>2 DEF BuildUserPayload, PresentPayload
<1>3. QED
  BY <1>1, <1>2

(* A run is made of the stand-ups, their tasks and their chapters.         *)
LEMMA RunParts ==
  ASSUME NEW runs, NEW userOf, NEW day, NEW run, run = NewRun(runs, userOf, day),
         NEW S, S = GenerateSummariesForDate(rows, userOf, day),
         NEW T, T = PersistTaskSummaries(rows, S, day, now),
         NEW U, U = PersistUserSummaries(rows, runs, S, T, day)
  PROVE  /\ DOMAIN U = DOMAIN S
         /\ \A k \in DOMAIN S :
              /\ U[k].tasks = OwnTasks(T, S[k].id)
              /\ U[k].payload = BuildUserPayload(rows, S[k], U[k].tasks)
              /\ U[k].payload.target = S[k].target
         /\ run.rows = rows /\ run.users = U /\ run.tasks = T /\ run.day = day
         /\ run.payload = BuildProjectPayload(rows, Payloads(run), T)
<1>4. run = PersistProjectSummary(rows, runs, U, T, day)
  BY DEF NewRun
<1>5. /\ run.rows = rows /\ run.users = U /\ run.tasks = T /\ run.day = day
      /\ run.payload = BuildProjectPayload(rows, Mapped(U, LAMBDA u : u.payload), T)
  BY <1>4 DEF PersistProjectSummary
<1>6. DOMAIN U = DOMAIN S /\ \A k \in DOMAIN S : U[k] = PersistUserSummary(rows, runs, S[k], T, day)
  BY DEF PersistUserSummaries, Mapped
<1>7. ASSUME NEW k \in DOMAIN S
      PROVE  /\ U[k].tasks = OwnTasks(T, S[k].id)
             /\ U[k].payload = BuildUserPayload(rows, S[k], U[k].tasks)
             /\ U[k].payload.target = S[k].target
  <2>1. U[k] = PersistUserSummary(rows, runs, S[k], T, day)
    BY <1>6
  <2>4. U[k].tasks = OwnTasks(T, S[k].id) /\ U[k].payload = BuildUserPayload(rows, S[k], OwnTasks(T, S[k].id))
    BY <2>1 DEF PersistUserSummary
  <2>5. U[k].payload.target = S[k].target
    BY <2>4, PayloadTarget
  <2>6. QED
    BY <2>4, <2>5
<1>8. run.payload = BuildProjectPayload(rows, Payloads(run), T)
  BY <1>5 DEF Payloads
<1>9. QED
  BY <1>5, <1>6, <1>7, <1>8

(* Everyone who is tracked or linked is in the run once.                   *)
EveryoneOnceIn(r) ==
  LET targets == Mapped(r.users, LAMBDA u : u.payload.target)
  IN /\ {t.account : t \in ToSet(targets)}
          = r.rows.tracked \cup LinkedAccounts(r.rows)
     /\ \A j, k \in DOMAIN targets :
          j # k => targets[j].account # targets[k].account /\ SummaryId(targets[j]) # SummaryId(targets[k])

(* It is so in a new run.                                                  *)
LEMMA RunHasEveryoneOnce ==
  ASSUME RowsHold, NEW runs, NEW userOf \in FoundUsers(rows), NEW day
  PROVE  EveryoneOnceIn(NewRun(runs, userOf, day))
<1>1. PICK run : run = NewRun(runs, userOf, day)
  OBVIOUS
<1>s. PICK S : S = GenerateSummariesForDate(rows, userOf, day)
  OBVIOUS
<1>t. PICK tasks : tasks = PersistTaskSummaries(rows, S, day, now)
  OBVIOUS
<1>u. PICK U : U = PersistUserSummaries(rows, runs, S, tasks, day)
  OBVIOUS
<1>2. /\ S = GenerateSummariesForDate(rows, userOf, day) /\ DOMAIN U = DOMAIN S
      /\ \A k \in DOMAIN S : U[k].payload.target = S[k].target
      /\ run.rows = rows /\ run.users = U
  BY <1>1, <1>s, <1>t, <1>u, RunParts
<1> DEFINE targets == Mapped(U, LAMBDA u : u.payload.target)
           T == Targets(rows, userOf)
<1>3. targets = [k \in DOMAIN S |-> S[k].target]
  BY <1>2 DEF Mapped
<1>4. Enumerates(targets, T) /\ DOMAIN targets = 1..Cardinality(T)
  BY <1>2, <1>3, TeamListed
<1> HIDE DEF targets, T
<1>5. ToSet(targets) = T
  BY <1>4 DEF Enumerates, ToSet
<1>6. {t.account : t \in T} = rows.tracked \cup LinkedAccounts(rows)
  BY TargetKinds, TargetOfAccount DEF T
<1>7. ASSUME NEW j \in DOMAIN targets, NEW k \in DOMAIN targets, j # k
      PROVE  targets[j].account # targets[k].account /\ SummaryId(targets[j]) # SummaryId(targets[k])
  <2>1. targets[j] \in T /\ targets[k] \in T /\ targets[j] # targets[k]
    BY <1>4, <1>7 DEF Enumerates
  <2>2. QED
    BY <2>1, TargetsDiffer DEF T
<1>8. targets = Mapped(run.users, LAMBDA u : u.payload.target)
  BY <1>2 DEF targets
<1>9. EveryoneOnceIn(run)
  BY <1>2, <1>5, <1>6, <1>7, <1>8 DEF EveryoneOnceIn
<1>10. QED
  BY <1>1, <1>9

(* It is so in every run.                                                  *)
EveryoneCounted == IsList(snapshots) /\ \A r \in ToSet(snapshots) : EveryoneOnceIn(r)

(* Every step keeps it.                                                    *)
LEMMA EveryoneCountedNext == RowsHold /\ EveryoneCounted /\ [Next]_vars => EveryoneCounted'
<1> SUFFICES ASSUME RowsHold, EveryoneCounted, [Next]_vars PROVE EveryoneCounted'
  OBVIOUS
<1>a. ASSUME NEW runs, IsList(runs), \A r \in ToSet(runs) : EveryoneOnceIn(r), NEW userOf \in FoundUsers(rows), NEW day
      PROVE  LET more == Append(runs, NewRun(runs, userOf, day))
             IN IsList(more) /\ \A r \in ToSet(more) : EveryoneOnceIn(r)
  BY <1>a, RunHasEveryoneOnce, ListAppended
<1>1. CASE snapshots' = snapshots
  BY <1>1 DEF EveryoneCounted, IsList
<1>2. CASE \E userOf \in FoundUsers(rows) : snapshots' = Append(snapshots, NewRun(snapshots, userOf, Today))
  BY <1>2, <1>a DEF EveryoneCounted
<1>3. CASE \E userOf \in FoundUsers(rows) : \E runs :
             /\ runs = Append(snapshots, NewRun(snapshots, userOf, Today))
             /\ snapshots' = Append(runs, NewRun(runs, userOf, Today - Day))
  <2>u. PICK userOf \in FoundUsers(rows) : \E runs :
             /\ runs = Append(snapshots, NewRun(snapshots, userOf, Today))
             /\ snapshots' = Append(runs, NewRun(runs, userOf, Today - Day))
    BY <1>3
  <2>1. PICK runs :
             /\ runs = Append(snapshots, NewRun(snapshots, userOf, Today))
             /\ snapshots' = Append(runs, NewRun(runs, userOf, Today - Day))
    BY <2>u
  <2>2. IsList(runs) /\ \A r \in ToSet(runs) : EveryoneOnceIn(r)
    BY <2>1, <1>a DEF EveryoneCounted
  <2>3. IsList(snapshots') /\ \A r \in ToSet(snapshots') : EveryoneOnceIn(r)
    BY <2>1, <2>2, <1>a
  <2>4. QED
    BY <2>3 DEF EveryoneCounted, IsList
<1>4. QED
  BY <1>1, <1>2, <1>3, RunsAdded DEF RowsHold

(* In every run of every reachable state, everyone who was tracked or      *)
(* linked when it ran has one stand-up, whoever else is linked to the same *)
(* account, and no two stand-ups share the id by which their tasks are     *)
(* found (resolveTargets, tasksByDailyId).                                 *)
THEOREM EveryoneAlwaysOnce == Spec => []EveryoneOnce
<1>1. Init => EveryoneCounted
  <2> SUFFICES ASSUME Init PROVE EveryoneCounted
    OBVIOUS
  <2>1. snapshots = <<>>
    BY DEF Init
  <2>2. QED
    BY <2>1 DEF EveryoneCounted, IsList, ToSet
<1>2. EveryoneCounted => EveryoneOnce
  BY DEF EveryoneCounted, EveryoneOnceIn, EveryoneOnce
<1>3. QED
  BY <1>1, <1>2, RowsHoldInit, RowsHoldNext, EveryoneCountedNext, PTL DEF Spec

-----------------------------------------------------------------------------
(***************************************************************************)
(* The tasks of a run: one for each issue that somebody worked on.         *)
(***************************************************************************)

(* The image of a finite set is finite.                                    *)
LEMMA ImageFinite ==
  ASSUME NEW S, IsFiniteSet(S), NEW f
  PROVE  IsFiniteSet({f[x] : x \in S})
<1> DEFINE g == [x \in S |-> f[x]]
<1>1. {g[x] : x \in S} = {f[x] : x \in S}
  OBVIOUS
<1>2. g \in Surjection(S, {g[x] : x \in S})
  BY DEF Surjection
<1> HIDE DEF g
<1>3. QED
  BY <1>1, <1>2, FS_Surjection

(* The place in a list is a natural number.                                *)
LEMMA PlaceIsNumber == ASSUME NEW list, Len(list) \in Nat, NEW x PROVE Place(list, x) \in Nat
<1> DEFINE I == {i \in 1..Len(list) : list[i] = x}
<1>2. I \in SUBSET Nat
  OBVIOUS
<1>3. Place(list, x) = IF I # {} THEN Min(I) ELSE 0
  BY DEF Place, SelectInSeq
<1> HIDE DEF I
<1>4. CASE I = {}
  BY <1>3, <1>4
<1>5. CASE I # {}
  <2>1. Min(I) \in I
    BY <1>2, <1>5, Least
  <2>2. QED
    BY <1>2, <1>3, <1>5, <2>1
<1>6. QED
  BY <1>4, <1>5

(* The rank and the place of a status are natural numbers.                 *)
LEMMA StatusKey == ASSUME NEW s PROVE StatusRank(s) \in Nat /\ Place(Alphabetical, s) \in Nat
<1> DEFINE K == {k \in DOMAIN StatusPriority : Says(s, {StatusPriority[k]})} \cup {Len(StatusPriority) + 1}
<1>1. DOMAIN StatusPriority = 1..7 /\ Len(StatusPriority) = 7 /\ Len(Alphabetical) = 9
  BY DEF StatusPriority, Alphabetical
<1>2. K \in SUBSET Nat /\ K # {}
  BY <1>1
<1>3. StatusRank(s) = Min(K)
  BY DEF StatusRank
<1> HIDE DEF K
<1>4. StatusRank(s) \in Nat
  <2>1. Min(K) \in K
    BY <1>2, Least
  <2>2. QED
    BY <1>2, <1>3, <2>1
<1>5. QED
  BY <1>1, <1>4, PlaceIsNumber

(* The places in a sequence of sequences.                                  *)
Pairs(ss) == UNION {{j} \X DOMAIN ss[j] : j \in DOMAIN ss}

(* Which pairs these are.                                                  *)
LEMMA PairsAre ==
  ASSUME NEW ss
  PROVE  /\ \A p \in Pairs(ss) : p[1] \in DOMAIN ss /\ p[2] \in DOMAIN ss[p[1]] /\ p = <<p[1], p[2]>>
         /\ \A j \in DOMAIN ss : \A k \in DOMAIN ss[j] : <<j, k>> \in Pairs(ss)
BY DEF Pairs

(* The joined sequence has each place of each sequence once.               *)
LEMMA JoinedOnce ==
  ASSUME NEW ss, IsFiniteSet(DOMAIN ss), DOMAIN ss \subseteq Int,
         \A j \in DOMAIN ss : IsFiniteSet(DOMAIN ss[j]) /\ DOMAIN ss[j] \subseteq Int
  PROVE  \E order : /\ Enumerates(order, Pairs(ss))
                    /\ Joined(ss) = [n \in 1..Cardinality(Pairs(ss)) |-> ss[order[n][1]][order[n][2]]]
<1> DEFINE P == Pairs(ss)
           key == [p \in P |-> p]
           order == Arranged(P, key)
<1>1. \A p \in P : p[1] \in DOMAIN ss /\ p[2] \in DOMAIN ss[p[1]] /\ p = <<p[1], p[2]>>
  BY PairsAre
<1>2. IsFiniteSet(P)
  <2> DEFINE part == [j \in DOMAIN ss |-> {j} \X DOMAIN ss[j]]
             parts == {part[j] : j \in DOMAIN ss}
  <2>1. IsFiniteSet(parts)
    <3> HIDE DEF part
    <3>1. QED
      BY ImageFinite
  <2>2. \A Q \in parts : IsFiniteSet(Q)
    <3> SUFFICES ASSUME NEW j \in DOMAIN ss PROVE IsFiniteSet({j} \X DOMAIN ss[j])
      OBVIOUS
    <3>1. IsFiniteSet({j})
      BY FS_Singleton
    <3>2. QED
      BY <3>1, FS_Product
  <2>3. P = UNION parts
    BY DEF Pairs
  <2> HIDE DEF parts, P
  <2>4. QED
    BY <2>1, <2>2, <2>3, FS_UNION
<1>3. Keys(P, key)
  <2> SUFFICES ASSUME NEW p \in P PROVE \E a, b \in Int : key[p] = <<a, b>>
    BY DEF Keys
  <2>1. p[1] \in Int /\ p[2] \in Int /\ p = <<p[1], p[2]>>
    BY <1>1
  <2>2. QED
    BY <2>1
<1>4. Joined(ss) = [n \in DOMAIN order |-> ss[order[n][1]][order[n][2]]]
  BY DEF Joined, SortedBy, Pairs
<1> HIDE DEF P, key
<1>5. Enumerates(order, P)
  BY <1>2, <1>3, ArrangedOnce
<1> HIDE DEF order
<1>6. DOMAIN order = 1..Cardinality(P)
  BY <1>5 DEF Enumerates
<1>7. Enumerates(order, P) /\ Joined(ss) = [n \in 1..Cardinality(P) |-> ss[order[n][1]][order[n][2]]]
  BY <1>4, <1>5, <1>6
<1>8. QED
  BY <1>7 DEF P

(* The tasks of one stand-up among all.                                    *)
TasksWith(T, id) == {n \in DOMAIN T : T[n].daily = id}

(* The tasks of a teammate are listed once each.                           *)
LEMMA OwnTasksOnce ==
  ASSUME NEW T, IsFiniteSet(DOMAIN T), DOMAIN T \subseteq Int, NEW id
  PROVE  \E order : /\ Enumerates(order, TasksWith(T, id))
                    /\ OwnTasks(T, id) = [m \in 1..Cardinality(TasksWith(T, id)) |-> T[order[m]]]
<1> DEFINE D == {n \in DOMAIN T : T[n].daily = id}
           key == [n \in D |-> <<n, 0>>]
           order == Arranged(D, key)
<1>1. IsFiniteSet(D) /\ Keys(D, key)
  <2>1. IsFiniteSet(D)
    BY FS_Subset
  <2>2. \A n \in D : n \in Int /\ 0 \in Int /\ key[n] = <<n, 0>>
    OBVIOUS
  <2> HIDE DEF D, key
  <2>3. QED
    BY <2>1, <2>2 DEF Keys
<1>2. OwnTasks(T, id) = [m \in DOMAIN order |-> T[order[m]]]
  BY DEF OwnTasks, Selected, SortedBy
<1> HIDE DEF D, key
<1>3. Enumerates(order, D)
  BY <1>1, ArrangedOnce
<1> HIDE DEF order
<1>4. DOMAIN order = 1..Cardinality(D)
  BY <1>3 DEF Enumerates
<1>5. Enumerates(order, D) /\ OwnTasks(T, id) = [m \in 1..Cardinality(D) |-> T[order[m]]]
  BY <1>2, <1>3, <1>4
<1>6. QED
  BY <1>5 DEF D, TasksWith

(* A sum over a list of a set is the sum over the set.                     *)
LEMMA EnumeratedSum ==
  ASSUME NEW order, NEW D, Enumerates(order, D), NEW f, \A x \in D : f[x] \in Int,
         NEW g, \A m \in 1..Cardinality(D) : g[m] = f[order[m]]
  PROVE  SumOver(g, 1..Cardinality(D)) = SumOver(f, D)
<1> DEFINE N == 1..Cardinality(D)
<1>1. IsFiniteSet(N) /\ IsFiniteSet(D)
  BY FS_Interval DEF Enumerates
<1>2. /\ \A d \in N : order[d] \in D
      /\ \A d, e \in N : order[d] = order[e] => d = e
      /\ \A x \in D : \E d \in N : order[d] = x
  BY DEF Enumerates
<1>3. \A d \in N : g[d] = f[order[d]]
  OBVIOUS
<1> HIDE DEF N
<1>4. SumOver(g, N) = SumOver(f, D)
  BY <1>1, <1>2, <1>3, SumReindexed
<1>5. QED
  BY <1>4 DEF N

(* UpTo takes the first of a list, all when the limit allows.              *)
LEMMA UpToTakes ==
  ASSUME NEW n \in Nat, NEW S, NEW s \in [1..n -> S], NEW k \in Nat
  PROVE  /\ UpTo(k, s) = [i \in 1..(IF n < k THEN n ELSE k) |-> s[i]]
         /\ ToSet(UpTo(k, s)) \subseteq S
         /\ n <= k => UpTo(k, s) = s
<1> DEFINE m == IF n < k THEN n ELSE k
<1>1. s \in Seq(S) /\ Len(s) = n
  OBVIOUS
<1>2. m \in 0..n /\ UpTo(k, s) = SubSeq(s, 1, m)
  <2>1. UpTo(k, s) = SubSeq(s, 1, IF Len(s) < k THEN Len(s) ELSE k)
    BY DEF UpTo
  <2>2. QED
    BY <1>1, <2>1
<1> HIDE DEF m
<1>3. SubSeq(s, 1, m) = [i \in 1..m |-> s[i]]
  BY <1>1, <1>2
<1>4. UpTo(k, s) = [i \in 1..m |-> s[i]]
  BY <1>2, <1>3
<1>5. ToSet(UpTo(k, s)) \subseteq S
  BY <1>2, <1>4 DEF ToSet
<1>6. ASSUME n <= k PROVE UpTo(k, s) = s
  <2>1. m = n
    BY <1>6 DEF m
  <2>2. s = [i \in 1..n |-> s[i]]
    OBVIOUS
  <2>3. QED
    BY <1>4, <2>1, <2>2
<1>7. QED
  BY <1>4, <1>5, <1>6 DEF m

(* What is assigned are issues.                                            *)
LEMMA AssignedAreIssues ==
  ASSUME RowsHold, NEW a, NEW day
  PROVE  AssignedIssues(rows, a, day) \subseteq IssueIds
<1> DEFINE S == Assignable(rows, a, day)
           key == [i \in S |-> <<-rows.issue[i].updated, i>>]
           s == Arranged(S, key)
<1>1. S \subseteq IssueIds /\ rows.issue \in [IssueIds -> IssueRows] /\ IssueIds \subseteq Int /\ IsFiniteSet(IssueIds)
  BY RowsKinds, RowsAssumption DEF Assignable, RowsHold
<1>2. IsFiniteSet(S) /\ Keys(S, key)
  <2>1. \A i \in S : -rows.issue[i].updated \in Int /\ i \in Int /\ key[i] = <<-rows.issue[i].updated, i>>
    <3> SUFFICES ASSUME NEW i \in S PROVE -rows.issue[i].updated \in Int /\ i \in Int /\ key[i] = <<-rows.issue[i].updated, i>>
      OBVIOUS
    <3>1. rows.issue[i] \in IssueRows /\ i \in Int
      BY <1>1
    <3>2. rows.issue[i].updated \in Int
      BY <3>1 DEF IssueRows
    <3>3. QED
      BY <3>1, <3>2
  <2> HIDE DEF key, S
  <2>2. IsFiniteSet(S)
    BY <1>1, FS_Subset
  <2>3. QED
    BY <2>1, <2>2 DEF Keys
<1>3. AssignedIssues(rows, a, day) = ToSet(UpTo(MaxAssigned, s))
  BY DEF AssignedIssues, SortedBy
<1> HIDE DEF S, key
<1>4. Enumerates(s, S)
  BY <1>2, ArrangedOnce
<1> HIDE DEF s
<1>5. ToSet(UpTo(MaxAssigned, s)) \subseteq S
  BY <1>4, LimitAssumption, UpToTakes DEF Enumerates
<1>6. QED
  BY <1>1, <1>3, <1>5

(* What was worked on are issues, finitely many, and each worklog of the   *)
(* window is on one of them.                                               *)
LEMMA WorkedOnIssues ==
  ASSUME RowsHold, NEW a, NEW day
  PROVE  /\ WorkedOn(rows, a, day) \subseteq IssueIds /\ IsFiniteSet(WorkedOn(rows, a, day))
         /\ \A l \in WorklogsOf(rows, a, day) : l.issue \in WorkedOn(rows, a, day)
         /\ IsFiniteSet(WorklogsOf(rows, a, day)) /\ WorklogsOf(rows, a, day) \subseteq rows.worklogs
         /\ IsFiniteSet(CommentsOf(rows, a, day)) /\ CommentsOf(rows, a, day) \subseteq rows.comments
<1>1. rows.worklogs \subseteq WorklogRows /\ rows.comments \subseteq CommentRows /\ Issues(rows) = IssueIds
      /\ IsFiniteSet(rows.worklogs) /\ IsFiniteSet(rows.comments)
  BY RowsKinds DEF RowsHold
<1>2. WorklogsOf(rows, a, day) \subseteq rows.worklogs /\ CommentsOf(rows, a, day) \subseteq rows.comments
      /\ UpdatedBy(rows, a, day) \subseteq IssueIds
  BY <1>1 DEF WorklogsOf, CommentsOf, UpdatedBy
<1>3. TouchedIssues(rows, a, day) \subseteq IssueIds
  BY <1>1, <1>2 DEF TouchedIssues, WorklogRows, CommentRows
<1>4. WorkedOn(rows, a, day) \subseteq IssueIds
  BY <1>3, AssignedAreIssues DEF WorkedOn
<1>5. \A l \in WorklogsOf(rows, a, day) : l.issue \in WorkedOn(rows, a, day)
  BY DEF WorkedOn, TouchedIssues
<1>6. QED
  BY <1>1, <1>2, <1>4, <1>5, RowsAssumption, FS_Subset

(* The issues with a status that somebody worked on.                       *)
ItemsOf(a, day, s) ==
  {WorkItem(rows, a, day, i) : i \in {j \in WorkedOn(rows, a, day) : rows.issue[j].status = s}}

(* The statuses there are such issues of.                                  *)
Used(a, day) == {s \in Statuses : ItemsOf(a, day, s) # {}}

(* When an issue was last worked on is an integer.                         *)
LEMMA ItemTimeType ==
  ASSUME RowsHold, NEW a, NEW day, NEW i \in WorkedOn(rows, a, day), NEW t, t = WorkItem(rows, a, day, i)
  PROVE  ItemTime(rows, t) \in Int /\ t.issue \in Int
<1>1. /\ rows.worklogs \subseteq WorklogRows /\ rows.comments \subseteq CommentRows
      /\ rows.issue \in [IssueIds -> IssueRows] /\ i \in IssueIds /\ i \in Int
  BY RowsKinds, WorkedOnIssues, RowsAssumption DEF RowsHold
<1>2. t.worklogs \subseteq rows.worklogs /\ t.comments \subseteq rows.comments /\ t.issue = i
  BY WorkedOnIssues DEF WorkItem
<1>3. IsFiniteSet(t.worklogs) /\ IsFiniteSet(t.comments)
  BY <1>2, FS_Subset DEF RowsHold
<1> DEFINE L == {l.at : l \in t.worklogs}
           C == {c.at : c \in t.comments}
<1>4. L \in SUBSET Int /\ IsFiniteSet(L)
  <2>1. \A l \in t.worklogs : l.at \in Int
    BY <1>1, <1>2 DEF WorklogRows
  <2> DEFINE at == [l \in t.worklogs |-> l.at]
  <2>2. {at[l] : l \in t.worklogs} = L
    OBVIOUS
  <2> HIDE DEF at
  <2>3. IsFiniteSet({at[l] : l \in t.worklogs})
    BY <1>3, ImageFinite
  <2>4. QED
    BY <2>1, <2>2, <2>3
<1>5. C \in SUBSET Int /\ IsFiniteSet(C)
  <2>1. \A l \in t.comments : l.at \in Int
    BY <1>1, <1>2 DEF CommentRows
  <2> DEFINE at == [l \in t.comments |-> l.at]
  <2>2. {at[l] : l \in t.comments} = C
    OBVIOUS
  <2> HIDE DEF at
  <2>3. IsFiniteSet({at[l] : l \in t.comments})
    BY <1>3, ImageFinite
  <2>4. QED
    BY <2>1, <2>2, <2>3
<1>6. CASE t.worklogs # {}
  <2>1. L # {} /\ ItemTime(rows, t) = Max(L)
    BY <1>6 DEF ItemTime
  <2> HIDE DEF L
  <2>2. Max(L) \in L
    BY <1>4, <2>1, Greatest
  <2>3. QED
    BY <1>1, <1>2, <1>4, <2>1, <2>2
<1>7. CASE t.worklogs = {} /\ t.comments # {}
  <2>1. C # {} /\ ItemTime(rows, t) = Max(C)
    BY <1>7 DEF ItemTime
  <2> HIDE DEF C
  <2>2. Max(C) \in C
    BY <1>5, <2>1, Greatest
  <2>3. QED
    BY <1>1, <1>2, <1>5, <2>1, <2>2
<1>8. CASE t.worklogs = {} /\ t.comments = {}
  <2>1. ItemTime(rows, t) = rows.issue[i].updated
    BY <1>8, <1>2 DEF ItemTime
  <2>2. QED
    BY <2>1, <1>1, <1>2 DEF IssueRows
<1>9. QED
  BY <1>6, <1>7, <1>8

(* The groups of work items have every issue worked on once.               *)
LEMMA GroupsOnce ==
  ASSUME RowsHold, NEW a, NEW day, NEW G, G = GroupWorkItems(rows, a, day)
  PROVE  \E groups :
           /\ Enumerates(groups, Used(a, day)) /\ DOMAIN G = 1..Cardinality(Used(a, day))
           /\ \A g \in DOMAIN G : G[g].status = groups[g] /\ Enumerates(G[g].items, ItemsOf(a, day, groups[g]))
<1> DEFINE W == WorkedOn(rows, a, day)
           U == Used(a, day)
           key == [s \in U |-> <<StatusRank(s), Place(Alphabetical, s)>>]
           groups == Arranged(U, key)
           ikey(s) == [t \in ItemsOf(a, day, s) |-> <<-ItemTime(rows, t), t.issue>>]
<1>1. G = [g \in DOMAIN groups |-> [status |-> groups[g], items |-> Arranged(ItemsOf(a, day, groups[g]), ikey(groups[g]))]]
  BY DEF GroupWorkItems, SortedBy, ItemsOf, Used
<1>2. IsFiniteSet(U)
  <2> DEFINE st == [i \in W |-> rows.issue[i].status]
  <2>1. U \subseteq {st[i] : i \in W}
    BY DEF Used, ItemsOf
  <2> HIDE DEF st, U
  <2>2. IsFiniteSet({st[i] : i \in W})
    BY WorkedOnIssues, ImageFinite
  <2>3. QED
    BY <2>1, <2>2, FS_Subset
<1>3. Keys(U, key)
  <2>1. \A s \in U : StatusRank(s) \in Int /\ Place(Alphabetical, s) \in Int /\ key[s] = <<StatusRank(s), Place(Alphabetical, s)>>
    BY StatusKey
  <2> HIDE DEF key, U
  <2>2. QED
    BY <2>1 DEF Keys
<1> HIDE DEF key, ikey
<1>4. Enumerates(groups, U)
  <2> HIDE DEF U
  <2>1. QED
    BY <1>2, <1>3, ArrangedOnce
<1> HIDE DEF groups
<1>5. \A s : Enumerates(Arranged(ItemsOf(a, day, s), ikey(s)), ItemsOf(a, day, s))
  <2> SUFFICES ASSUME NEW s PROVE Enumerates(Arranged(ItemsOf(a, day, s), ikey(s)), ItemsOf(a, day, s))
    OBVIOUS
  <2> DEFINE V == {j \in W : rows.issue[j].status = s}
             item == [i \in V |-> WorkItem(rows, a, day, i)]
             I == ItemsOf(a, day, s)
  <2>1. V \subseteq W /\ I = {item[i] : i \in V}
    BY DEF ItemsOf
  <2>2. IsFiniteSet(V)
    BY <2>1, WorkedOnIssues, FS_Subset
  <2>3. \A t \in I : -ItemTime(rows, t) \in Int /\ t.issue \in Int
    <3> SUFFICES ASSUME NEW t \in I PROVE -ItemTime(rows, t) \in Int /\ t.issue \in Int
      OBVIOUS
    <3>1. PICK i \in W : t = WorkItem(rows, a, day, i)
      BY DEF ItemsOf
    <3>2. ItemTime(rows, t) \in Int /\ t.issue \in Int
      BY <3>1, ItemTimeType
    <3>3. QED
      BY <3>2
  <2>4. \A t \in I : ikey(s)[t] = <<-ItemTime(rows, t), t.issue>>
    BY DEF ikey
  <2> HIDE DEF V, item, I
  <2>5. IsFiniteSet(I)
    BY <2>1, <2>2, ImageFinite
  <2>6. Keys(I, ikey(s))
    BY <2>3, <2>4 DEF Keys
  <2>7. QED
    BY <2>5, <2>6, ArrangedOnce DEF I
<1>6. DOMAIN G = 1..Cardinality(U) /\ DOMAIN groups = 1..Cardinality(U)
  BY <1>1, <1>4 DEF Enumerates
<1>7. \A g \in DOMAIN G : G[g].status = groups[g] /\ Enumerates(G[g].items, ItemsOf(a, day, groups[g]))
  BY <1>1, <1>5, <1>6
<1>8. QED
  BY <1>4, <1>6, <1>7

(* What is said of an issue's worklogs in a window is said of those of the *)
(* teammate.                                                               *)
LoggedOn(a, day, i) == {l \in WorklogsOf(rows, a, day) : l.issue = i}

(* What a task says of its issue.                                          *)
LEMMA TaskFields ==
  ASSUME RowsHold, NEW daily, NEW group, NEW a, NEW day \in Int, NEW i, NEW item, item = WorkItem(rows, a, day, i),
         NEW t, t = BuildTaskPayload(rows, daily, group, item, day, now)
  PROVE  /\ t.issue = i /\ t.daily = daily.id
         /\ t.totalMinutes = Minutes(LoggedOn(a, day, i)) /\ t.recentMinutes = Minutes(LoggedOn(a, day, i))
<1>1. item.issue = i /\ item.worklogs = LoggedOn(a, day, i)
  BY DEF WorkItem, LoggedOn
<1>2. /\ t.issue = item.issue /\ t.daily = daily.id /\ t.totalMinutes = Minutes(item.worklogs)
      /\ t.recentMinutes = Minutes({l \in item.worklogs : l.at >= day - Day})
  BY DEF BuildTaskPayload
<1>3. {l \in item.worklogs : l.at >= day - Day} = item.worklogs
  <2>1. \A l \in item.worklogs : l \in rows.worklogs /\ InWindow(l.at, day)
    BY <1>1 DEF LoggedOn, WorklogsOf
  <2>2. \A l \in item.worklogs : l.at \in Int
    BY <2>1, RowsKinds DEF RowsHold, WorklogRows
  <2>3. \A l \in item.worklogs : l.at >= day - Day
    BY <2>1, <2>2 DEF InWindow, Day
  <2>4. QED
    BY <2>3
<1>4. QED
  BY <1>1, <1>2, <1>3

(* The tasks of a stand-up: one for each issue worked on, with the minutes *)
(* its teammate logged on it.                                              *)
LEMMA TasksOnce ==
  ASSUME RowsHold, NEW a, NEW day \in Int, NEW daily, daily.workItems = GroupWorkItems(rows, a, day),
         NEW TT, TT = TasksOf(rows, daily, day, now)
  PROVE  \E N \in Nat :
           /\ DOMAIN TT = 1..N
           /\ \A m \in 1..N : /\ TT[m].issue \in WorkedOn(rows, a, day) /\ TT[m].daily = daily.id
                              /\ TT[m].totalMinutes = Minutes(LoggedOn(a, day, TT[m].issue))
                              /\ TT[m].recentMinutes = Minutes(LoggedOn(a, day, TT[m].issue))
           /\ \A m, n \in 1..N : TT[m].issue = TT[n].issue => m = n
           /\ \A i \in WorkedOn(rows, a, day) : \E m \in 1..N : TT[m].issue = i
<1> DEFINE W == WorkedOn(rows, a, day)
           U == Used(a, day)
<1>1. PICK G : G = GroupWorkItems(rows, a, day)
  OBVIOUS
<1>2. PICK groups :
           /\ Enumerates(groups, U) /\ DOMAIN G = 1..Cardinality(U)
           /\ \A g \in DOMAIN G : G[g].status = groups[g] /\ Enumerates(G[g].items, ItemsOf(a, day, groups[g]))
  BY <1>1, GroupsOnce
<1> DEFINE task(g, t) == BuildTaskPayload(rows, daily, G[g], G[g].items[t], day, now)
           ss == [g \in DOMAIN G |-> [t \in DOMAIN G[g].items |-> task(g, t)]]
           size(g) == Cardinality(ItemsOf(a, day, groups[g]))
<1>3. TT = Joined(ss)
  BY <1>1 DEF TasksOf
<1>4. /\ Cardinality(U) \in Nat /\ groups \in [1..Cardinality(U) -> U]
      /\ \A j, k \in 1..Cardinality(U) : groups[j] = groups[k] => j = k
      /\ \A s \in U : \E k \in 1..Cardinality(U) : groups[k] = s
  BY <1>2 DEF Enumerates
<1>5. \A g \in 1..Cardinality(U) :
        /\ size(g) \in Nat /\ G[g].items \in [1..size(g) -> ItemsOf(a, day, groups[g])]
        /\ \A j, k \in 1..size(g) : G[g].items[j] = G[g].items[k] => j = k
        /\ \A x \in ItemsOf(a, day, groups[g]) : \E k \in 1..size(g) : G[g].items[k] = x
  BY <1>2 DEF Enumerates
<1> HIDE DEF task, size, U
<1>6. DOMAIN ss = 1..Cardinality(U) /\ \A g \in 1..Cardinality(U) : DOMAIN ss[g] = 1..size(g)
  BY <1>2, <1>5
<1>7. \A g \in 1..Cardinality(U) : \A t \in 1..size(g) : ss[g][t] = task(g, t)
  BY <1>2, <1>5
<1> HIDE DEF ss
<1>8. PICK order : /\ Enumerates(order, Pairs(ss))
                   /\ TT = [n \in 1..Cardinality(Pairs(ss)) |-> ss[order[n][1]][order[n][2]]]
  <2>1. IsFiniteSet(DOMAIN ss) /\ DOMAIN ss \subseteq Int
    BY <1>4, <1>6, FS_Interval
  <2>2. \A g \in DOMAIN ss : IsFiniteSet(DOMAIN ss[g]) /\ DOMAIN ss[g] \subseteq Int
    BY <1>5, <1>6, FS_Interval
  <2>3. QED
    BY <1>3, <2>1, <2>2, JoinedOnce
<1>9. \A g \in 1..Cardinality(U) : \A t \in 1..size(g) : \E i \in W :
        G[g].items[t] = WorkItem(rows, a, day, i) /\ rows.issue[i].status = groups[g]
  BY <1>5 DEF ItemsOf
<1>10. \A g \in 1..Cardinality(U) : \A t \in 1..size(g) :
         /\ task(g, t).issue \in W /\ rows.issue[task(g, t).issue].status = groups[g]
         /\ G[g].items[t] = WorkItem(rows, a, day, task(g, t).issue) /\ task(g, t).daily = daily.id
         /\ task(g, t).totalMinutes = Minutes(LoggedOn(a, day, task(g, t).issue))
         /\ task(g, t).recentMinutes = Minutes(LoggedOn(a, day, task(g, t).issue))
  <2> SUFFICES ASSUME NEW g \in 1..Cardinality(U), NEW t \in 1..size(g)
               PROVE  /\ task(g, t).issue \in W /\ rows.issue[task(g, t).issue].status = groups[g]
                      /\ G[g].items[t] = WorkItem(rows, a, day, task(g, t).issue) /\ task(g, t).daily = daily.id
                      /\ task(g, t).totalMinutes = Minutes(LoggedOn(a, day, task(g, t).issue))
                      /\ task(g, t).recentMinutes = Minutes(LoggedOn(a, day, task(g, t).issue))
    OBVIOUS
  <2>1. PICK i \in W : G[g].items[t] = WorkItem(rows, a, day, i) /\ rows.issue[i].status = groups[g]
    BY <1>9
  <2>2. /\ task(g, t).issue = i /\ task(g, t).daily = daily.id
        /\ task(g, t).totalMinutes = Minutes(LoggedOn(a, day, i))
        /\ task(g, t).recentMinutes = Minutes(LoggedOn(a, day, i))
    BY <2>1, TaskFields DEF task
  <2>3. QED
    BY <2>1, <2>2
<1> DEFINE N == Cardinality(Pairs(ss))
<1>11. /\ N \in Nat /\ \A n \in 1..N : order[n] \in Pairs(ss)
       /\ \A j, k \in 1..N : order[j] = order[k] => j = k
       /\ \A p \in Pairs(ss) : \E k \in 1..N : order[k] = p
  BY <1>8 DEF Enumerates
<1>12. \A p \in Pairs(ss) : p[1] \in 1..Cardinality(U) /\ p[2] \in 1..size(p[1]) /\ p = <<p[1], p[2]>>
  BY <1>6, PairsAre
<1>13. DOMAIN TT = 1..N /\ \A n \in 1..N : TT[n] = task(order[n][1], order[n][2])
  <2>1. DOMAIN TT = 1..N /\ \A n \in 1..N : TT[n] = ss[order[n][1]][order[n][2]]
    BY <1>8
  <2>2. QED
    BY <2>1, <1>7, <1>11, <1>12
<1> HIDE DEF N
<1>14. \A m \in 1..N : /\ TT[m].issue \in WorkedOn(rows, a, day) /\ TT[m].daily = daily.id
                       /\ TT[m].totalMinutes = Minutes(LoggedOn(a, day, TT[m].issue))
                       /\ TT[m].recentMinutes = Minutes(LoggedOn(a, day, TT[m].issue))
  BY <1>10, <1>11, <1>12, <1>13
<1>15. \A m, n \in 1..N : TT[m].issue = TT[n].issue => m = n
  <2> SUFFICES ASSUME NEW m \in 1..N, NEW n \in 1..N, TT[m].issue = TT[n].issue PROVE m = n
    OBVIOUS
  <2>1. PICK g, t, h, u : /\ order[m] = <<g, t>> /\ order[n] = <<h, u>>
                          /\ g \in 1..Cardinality(U) /\ t \in 1..size(g) /\ h \in 1..Cardinality(U) /\ u \in 1..size(h)
    BY <1>11, <1>12
  <2>2. TT[m] = task(g, t) /\ TT[n] = task(h, u)
    BY <1>13, <2>1
  <2>3. task(g, t).issue = task(h, u).issue
    BY <2>2
  <2>4. groups[g] = groups[h] /\ G[g].items[t] = G[h].items[u]
    BY <1>10, <2>1, <2>3
  <2>5. g = h
    BY <1>4, <2>1, <2>4
  <2>6. t = u
    BY <1>5, <2>1, <2>4, <2>5
  <2>7. QED
    BY <1>11, <2>1, <2>5, <2>6
<1>16. \A i \in W : \E m \in 1..N : TT[m].issue = i
  <2> SUFFICES ASSUME NEW i \in W PROVE \E m \in 1..N : TT[m].issue = i
    OBVIOUS
  <2> DEFINE s == rows.issue[i].status
             item == WorkItem(rows, a, day, i)
  <2>1. item \in ItemsOf(a, day, s)
    BY DEF ItemsOf
  <2>2. s \in Statuses
    <3>1. rows.issue \in [IssueIds -> IssueRows] /\ i \in IssueIds
      BY RowsKinds, WorkedOnIssues DEF RowsHold
    <3>2. QED
      BY <3>1 DEF IssueRows
  <2>3. s \in U
    BY <2>1, <2>2 DEF U, Used
  <2>4. PICK g \in 1..Cardinality(U) : groups[g] = s
    BY <1>4, <2>3
  <2>5. PICK t \in 1..size(g) : G[g].items[t] = item
    BY <1>5, <2>1, <2>4
  <2>6. task(g, t).issue = i
    <3>1. task(g, t) = BuildTaskPayload(rows, daily, G[g], item, day, now)
      BY <2>5 DEF task
    <3>2. QED
      BY <3>1, TaskFields
  <2>7. <<g, t>> \in Pairs(ss)
    <3>1. g \in DOMAIN ss /\ t \in DOMAIN ss[g]
      BY <1>6
    <3>2. QED
      BY <3>1, PairsAre
  <2>8. PICK m \in 1..N : order[m] = <<g, t>>
    BY <1>11, <2>7 DEF N
  <2>9. TT[m] = task(g, t)
    BY <1>13, <2>8
  <2>10. QED
    BY <2>6, <2>9
<1>17. N \in Nat
  BY <1>11 DEF N
<1>18. QED
  BY <1>13, <1>14, <1>15, <1>16, <1>17

(* A stand-up is that of somebody away, or the computed one.               *)
LEMMA SummaryKinds ==
  ASSUME NEW t, t.account \in Profiles, NEW day, NEW s, s = GenerateSummaryForTarget(rows, t, day), RowsHold
  PROVE  /\ s.target = t /\ s.id = SummaryId(t) /\ s.unavailable = IsAway(rows, t.account, day)
         /\ IsAway(rows, t.account, day) => s.workItems = <<>>
         /\ ~IsAway(rows, t.account, day) => s = ComputedSummary(rows, t, day)
<1>1. t.account # NoOne /\ t.account \in rows.profiles
  BY RowsKinds, RowsAssumption DEF RowsHold, Holders
<1>2. CASE IsAway(rows, t.account, day)
  <2>1. s = EmptySummary(t, "OFFLINE", "away")
    BY <1>1, <1>2 DEF GenerateSummaryForTarget
  <2>2. s.target = t /\ s.id = SummaryId(t) /\ s.unavailable = TRUE /\ s.workItems = <<>>
    <3>1. EmptySummary(t, "OFFLINE", "away").unavailable = ("OFFLINE" = "OFFLINE")
      BY DEF EmptySummary
    <3>2. s.target = t /\ s.id = SummaryId(t) /\ s.workItems = <<>>
      BY <2>1 DEF EmptySummary
    <3>3. QED
      BY <2>1, <3>1, <3>2
  <2>3. IsAway(rows, t.account, day) = TRUE
    BY <1>2 DEF IsAway
  <2>4. QED
    BY <2>2, <2>3
<1>3. CASE ~IsAway(rows, t.account, day)
  <2>1. s = ComputedSummary(rows, t, day)
    BY <1>1, <1>3 DEF GenerateSummaryForTarget
  <2>2. s.target = t /\ s.id = SummaryId(t) /\ s.unavailable = FALSE
    BY <2>1 DEF ComputedSummary
  <2>3. IsAway(rows, t.account, day) = FALSE
    BY <1>3 DEF IsAway
  <2>4. QED
    BY <2>1, <2>2, <2>3
<1>4. QED
  BY <1>2, <1>3

(* A stand-up without work items has no tasks.                             *)
LEMMA NoTasks ==
  ASSUME NEW daily, daily.workItems = <<>>, NEW day
  PROVE  DOMAIN TasksOf(rows, daily, day, now) = 1..0
<1> DEFINE ss == [g \in DOMAIN daily.workItems |->
    [t \in DOMAIN daily.workItems[g].items |->
       BuildTaskPayload(rows, daily, daily.workItems[g], daily.workItems[g].items[t], day, now)]]
<1>1. TasksOf(rows, daily, day, now) = Joined(ss)
  BY DEF TasksOf
<1>2. DOMAIN ss = {}
  OBVIOUS
<1> HIDE DEF ss
<1>3. PICK order : Joined(ss) = [n \in 1..Cardinality(Pairs(ss)) |-> ss[order[n][1]][order[n][2]]]
  <2>1. /\ IsFiniteSet(DOMAIN ss) /\ DOMAIN ss \subseteq Int
        /\ \A j \in DOMAIN ss : IsFiniteSet(DOMAIN ss[j]) /\ DOMAIN ss[j] \subseteq Int
    BY <1>2, FS_EmptySet
  <2>2. QED
    BY <2>1, JoinedOnce
<1>4. Pairs(ss) = {}
  BY <1>2 DEF Pairs
<1>5. Cardinality(Pairs(ss)) = 0
  BY <1>4, FS_EmptySet
<1>6. QED
  BY <1>1, <1>3, <1>5

(* Who is away on the day.                                                 *)
Away(s, day) == IsAway(rows, s.target.account, day)

(* The tasks with the id of a stand-up: none for who is away; for who is   *)
(* there, one for each issue worked on, with the minutes logged on it.     *)
TasksTell(T, s, day) ==
  /\ Away(s, day) => TasksWith(T, s.id) = {}
  /\ ~Away(s, day) =>
       /\ \A n \in TasksWith(T, s.id) :
            /\ T[n].issue \in WorkedOn(rows, s.target.account, day)
            /\ T[n].totalMinutes = Minutes(LoggedOn(s.target.account, day, T[n].issue))
            /\ T[n].recentMinutes = T[n].totalMinutes
       /\ \A m, n \in TasksWith(T, s.id) : T[m].issue = T[n].issue => m = n
       /\ \A i \in WorkedOn(rows, s.target.account, day) : \E n \in TasksWith(T, s.id) : T[n].issue = i

(* Every task is some teammate's.                                          *)
TasksOfTeam(T, S) == \A n \in DOMAIN T : \E k \in DOMAIN S : T[n].daily = S[k].id

(* The tasks of a run are the teammates', and each stand-up has its own.   *)
LEMMA TeamTasks ==
  ASSUME RowsHold, NEW userOf \in FoundUsers(rows), NEW day \in Int,
         NEW S, S = GenerateSummariesForDate(rows, userOf, day),
         NEW T, T = PersistTaskSummaries(rows, S, day, now)
  PROVE  /\ IsFiniteSet(DOMAIN T) /\ DOMAIN T \subseteq Int /\ \E N \in Nat : DOMAIN T = 1..N
         /\ TasksOfTeam(T, S)
         /\ \A j, k \in DOMAIN S : S[j].id = S[k].id => j = k
         /\ \A k \in DOMAIN S : TasksTell(T, S[k], day)
<1> DEFINE targets == [k \in DOMAIN S |-> S[k].target]
           C == Cardinality(Targets(rows, userOf))
           ss == [d \in DOMAIN S |-> TasksOf(rows, S[d], day, now)]
<1>1. /\ Enumerates(targets, Targets(rows, userOf))
      /\ \A k \in DOMAIN S : S[k] = GenerateSummaryForTarget(rows, S[k].target, day)
      /\ DOMAIN S = 1..C /\ C \in Nat
  BY TeamListed
<1>2. \A k \in DOMAIN S : S[k].target \in Targets(rows, userOf) /\ S[k].target.account \in Profiles
  <2>1. \A k \in DOMAIN S : targets[k] = S[k].target
    OBVIOUS
  <2> HIDE DEF targets
  <2>2. \A k \in DOMAIN S : targets[k] \in Targets(rows, userOf)
    BY <1>1 DEF Enumerates
  <2>3. QED
    BY <2>1, <2>2, TargetKinds
<1>3. \A j, k \in DOMAIN S : S[j].id = S[k].id => j = k
  <2> SUFFICES ASSUME NEW j \in DOMAIN S, NEW k \in DOMAIN S, S[j].id = S[k].id PROVE j = k
    OBVIOUS
  <2>1. S[j].id = SummaryId(S[j].target) /\ S[k].id = SummaryId(S[k].target)
    BY <1>1, SummaryTarget
  <2>2. S[j].target = S[k].target
    BY <2>1, <1>2, TargetsDiffer
  <2>3. targets[j] = targets[k]
    BY <2>2
  <2> HIDE DEF targets
  <2>4. QED
    BY <2>3, <1>1 DEF Enumerates
<1>4. ASSUME NEW k \in DOMAIN S, Away(S[k], day) PROVE DOMAIN ss[k] = 1..0
  <2>1. S[k].workItems = <<>>
    BY <1>1, <1>2, <1>4, SummaryKinds DEF Away
  <2>2. ss[k] = TasksOf(rows, S[k], day, now)
    OBVIOUS
  <2> HIDE DEF ss
  <2>3. QED
    BY <2>1, <2>2, NoTasks
<1>5. ASSUME NEW k \in DOMAIN S, ~Away(S[k], day)
      PROVE  \E N \in Nat :
           /\ DOMAIN ss[k] = 1..N
           /\ \A m \in 1..N : /\ ss[k][m].issue \in WorkedOn(rows, S[k].target.account, day) /\ ss[k][m].daily = S[k].id
                              /\ ss[k][m].totalMinutes = Minutes(LoggedOn(S[k].target.account, day, ss[k][m].issue))
                              /\ ss[k][m].recentMinutes = Minutes(LoggedOn(S[k].target.account, day, ss[k][m].issue))
           /\ \A m, n \in 1..N : ss[k][m].issue = ss[k][n].issue => m = n
           /\ \A i \in WorkedOn(rows, S[k].target.account, day) : \E m \in 1..N : ss[k][m].issue = i
  <2>1. S[k] = ComputedSummary(rows, S[k].target, day)
    BY <1>1, <1>2, <1>5, SummaryKinds DEF Away
  <2>2. S[k].workItems = GroupWorkItems(rows, S[k].target.account, day)
    BY <2>1 DEF ComputedSummary
  <2>3. ss[k] = TasksOf(rows, S[k], day, now)
    OBVIOUS
  <2> HIDE DEF ss
  <2>4. QED
    BY <2>2, <2>3, TasksOnce
<1>6. T = Joined(ss)
  BY DEF PersistTaskSummaries
<1>7. DOMAIN ss = DOMAIN S
  OBVIOUS
<1> HIDE DEF ss, targets, C
<1>8. \A k \in DOMAIN S : IsFiniteSet(DOMAIN ss[k]) /\ DOMAIN ss[k] \subseteq Int
  <2> SUFFICES ASSUME NEW k \in DOMAIN S PROVE IsFiniteSet(DOMAIN ss[k]) /\ DOMAIN ss[k] \subseteq Int
    OBVIOUS
  <2>1. \E N \in Nat : DOMAIN ss[k] = 1..N
    BY <1>4, <1>5
  <2>2. QED
    BY <2>1, FS_Interval
<1>9. PICK order : /\ Enumerates(order, Pairs(ss))
                   /\ T = [n \in 1..Cardinality(Pairs(ss)) |-> ss[order[n][1]][order[n][2]]]
  <2>1. IsFiniteSet(DOMAIN ss) /\ DOMAIN ss \subseteq Int
    BY <1>1, <1>7, FS_Interval
  <2>2. QED
    BY <1>6, <1>7, <1>8, <2>1, JoinedOnce
<1> DEFINE N == Cardinality(Pairs(ss))
<1>10. /\ N \in Nat /\ \A n \in 1..N : order[n] \in Pairs(ss)
       /\ \A j, k \in 1..N : order[j] = order[k] => j = k
       /\ \A p \in Pairs(ss) : \E k \in 1..N : order[k] = p
  BY <1>9 DEF Enumerates
<1>11. DOMAIN T = 1..N /\ \A n \in 1..N : T[n] = ss[order[n][1]][order[n][2]]
  BY <1>9
<1> HIDE DEF N
<1>12. \A n \in 1..N : \E k \in DOMAIN S : \E m \in DOMAIN ss[k] :
         order[n] = <<k, m>> /\ T[n] = ss[k][m] /\ T[n].daily = S[k].id /\ ~Away(S[k], day)
  <2> SUFFICES ASSUME NEW n \in 1..N
               PROVE  \E k \in DOMAIN S : \E m \in DOMAIN ss[k] :
                        order[n] = <<k, m>> /\ T[n] = ss[k][m] /\ T[n].daily = S[k].id /\ ~Away(S[k], day)
    OBVIOUS
  <2>k. PICK k \in DOMAIN S : \E m \in DOMAIN ss[k] : order[n] = <<k, m>>
    BY <1>7, <1>10, PairsAre
  <2>1. PICK m \in DOMAIN ss[k] : order[n] = <<k, m>>
    BY <2>k
  <2>2. T[n] = ss[k][m]
    BY <1>11, <2>1
  <2>3. ~Away(S[k], day)
    BY <1>4, <2>1
  <2>4. T[n].daily = S[k].id
    BY <1>5, <2>1, <2>2, <2>3
  <2>5. QED
    BY <2>1, <2>2, <2>3, <2>4
<1>13. \A k \in DOMAIN S : \A n \in TasksWith(T, S[k].id) :
         ~Away(S[k], day) /\ \E m \in DOMAIN ss[k] : order[n] = <<k, m>> /\ T[n] = ss[k][m]
  BY <1>3, <1>11, <1>12 DEF TasksWith
<1>14. \A k \in DOMAIN S : \A m \in DOMAIN ss[k] : \E n \in TasksWith(T, S[k].id) : order[n] = <<k, m>> /\ T[n] = ss[k][m]
  <2> SUFFICES ASSUME NEW k \in DOMAIN S, NEW m \in DOMAIN ss[k]
               PROVE  \E n \in TasksWith(T, S[k].id) : order[n] = <<k, m>> /\ T[n] = ss[k][m]
    OBVIOUS
  <2>1. <<k, m>> \in Pairs(ss)
    BY <1>7, PairsAre
  <2>2. PICK n \in 1..N : order[n] = <<k, m>>
    BY <2>1, <1>10
  <2>3. T[n] = ss[k][m]
    BY <2>2, <1>11
  <2>4. ~Away(S[k], day)
    BY <1>4
  <2>5. T[n].daily = S[k].id
    BY <1>5, <2>3, <2>4
  <2>6. QED
    BY <1>11, <2>2, <2>3, <2>5 DEF TasksWith
<1>15. ASSUME NEW k \in DOMAIN S, ~Away(S[k], day)
       PROVE  LET D == TasksWith(T, S[k].id)
                  W == WorkedOn(rows, S[k].target.account, day)
              IN /\ \A n \in D : /\ T[n].issue \in W
                                 /\ T[n].totalMinutes = Minutes(LoggedOn(S[k].target.account, day, T[n].issue))
                                 /\ T[n].recentMinutes = T[n].totalMinutes
                 /\ \A m, n \in D : T[m].issue = T[n].issue => m = n
                 /\ \A i \in W : \E n \in D : T[n].issue = i
  <2> DEFINE D == TasksWith(T, S[k].id)
             W == WorkedOn(rows, S[k].target.account, day)
             acc == S[k].target.account
  <2>1. PICK M \in Nat :
           /\ DOMAIN ss[k] = 1..M
           /\ \A m \in 1..M : /\ ss[k][m].issue \in W /\ ss[k][m].daily = S[k].id
                              /\ ss[k][m].totalMinutes = Minutes(LoggedOn(acc, day, ss[k][m].issue))
                              /\ ss[k][m].recentMinutes = Minutes(LoggedOn(acc, day, ss[k][m].issue))
           /\ \A m, n \in 1..M : ss[k][m].issue = ss[k][n].issue => m = n
           /\ \A i \in W : \E m \in 1..M : ss[k][m].issue = i
    BY <1>5, <1>15
  <2>2. \A n \in D : n \in 1..N /\ \E m \in 1..M : order[n] = <<k, m>> /\ T[n] = ss[k][m]
    <3> SUFFICES ASSUME NEW n \in D PROVE n \in 1..N /\ \E m \in 1..M : order[n] = <<k, m>> /\ T[n] = ss[k][m]
      OBVIOUS
    <3>1. n \in TasksWith(T, S[k].id) /\ n \in 1..N
      BY <1>11 DEF TasksWith
    <3>2. PICK m \in DOMAIN ss[k] : order[n] = <<k, m>> /\ T[n] = ss[k][m]
      BY <3>1, <1>13
    <3>3. m \in 1..M
      BY <2>1
    <3>4. QED
      BY <3>1, <3>2, <3>3
  <2>3. \A m \in 1..M : \E n \in D : T[n] = ss[k][m]
    <3> SUFFICES ASSUME NEW m \in 1..M PROVE \E n \in D : T[n] = ss[k][m]
      OBVIOUS
    <3>1. m \in DOMAIN ss[k]
      BY <2>1
    <3>2. PICK n \in TasksWith(T, S[k].id) : order[n] = <<k, m>> /\ T[n] = ss[k][m]
      BY <3>1, <1>14
    <3>3. QED
      BY <3>2
  <2> HIDE DEF D, W, acc
  <2>4. \A n \in D : /\ T[n].issue \in W
                     /\ T[n].totalMinutes = Minutes(LoggedOn(acc, day, T[n].issue))
                     /\ T[n].recentMinutes = T[n].totalMinutes
    BY <2>1, <2>2
  <2>5. \A m, n \in D : T[m].issue = T[n].issue => m = n
    <3> SUFFICES ASSUME NEW m \in D, NEW n \in D, T[m].issue = T[n].issue PROVE m = n
      OBVIOUS
    <3>1. PICK p \in 1..M : order[m] = <<k, p>> /\ T[m] = ss[k][p]
      BY <2>2
    <3>2. PICK q \in 1..M : order[n] = <<k, q>> /\ T[n] = ss[k][q]
      BY <2>2
    <3>3. p = q
      BY <2>1, <3>1, <3>2
    <3>4. QED
      BY <1>10, <2>2, <3>1, <3>2, <3>3
  <2>6. \A i \in W : \E n \in D : T[n].issue = i
    BY <2>1, <2>3
  <2>7. QED
    BY <2>4, <2>5, <2>6 DEF D, W, acc
<1>16. IsFiniteSet(DOMAIN T) /\ DOMAIN T \subseteq Int
  BY <1>10, <1>11, FS_Interval
<1>17. \A k \in DOMAIN S : Away(S[k], day) => TasksWith(T, S[k].id) = {}
  BY <1>13
<1>18. \E M \in Nat : DOMAIN T = 1..M
  BY <1>10, <1>11
<1>19. \A n \in DOMAIN T : \E k \in DOMAIN S : T[n].daily = S[k].id
  BY <1>11, <1>12
<1>20. \A k \in DOMAIN S : TasksTell(T, S[k], day)
  BY <1>15, <1>17 DEF TasksTell
<1>21. QED
  BY <1>3, <1>16, <1>18, <1>19, <1>20 DEF TasksOfTeam

-----------------------------------------------------------------------------
(***************************************************************************)
(* The figures of a run.                                                   *)
(***************************************************************************)

(* The minutes of a worklog.                                               *)
Mins == [l \in rows.worklogs |-> l.minutes]

(* The minutes of some worklogs are a sum of natural numbers.              *)
LEMMA MinutesAre ==
  ASSUME RowsHold, NEW L \in SUBSET rows.worklogs
  PROVE  IsFiniteSet(L) /\ Minutes(L) = SumOver(Mins, L) /\ Minutes(L) \in Nat /\ \A l \in L : Mins[l] \in Nat
<1> DEFINE f == [l \in L |-> l.minutes]
<1>1. IsFiniteSet(L)
  BY FS_Subset DEF RowsHold
<1>2. \A l \in L : Mins[l] \in Nat /\ f[l] = Mins[l]
  <2>1. rows.worklogs \subseteq WorklogRows
    BY RowsKinds DEF RowsHold
  <2>2. QED
    BY <2>1 DEF Mins, WorklogRows
<1>3. Minutes(L) = SumOver(f, L)
  BY DEF Minutes, SumOf, SumOver
<1> HIDE DEF f
<1>4. SumOver(f, L) = SumOver(Mins, L)
  BY <1>1, <1>2, SumSame
<1>5. SumOver(Mins, L) \in Nat
  BY <1>1, <1>2, SumNat
<1>6. QED
  BY <1>1, <1>2, <1>3, <1>4, <1>5

(* The minutes of a window are those of the issues worked on.              *)
LEMMA WindowMinutes ==
  ASSUME RowsHold, NEW a, NEW day
  PROVE  Minutes(WorklogsOf(rows, a, day))
           = SumOver([i \in WorkedOn(rows, a, day) |-> Minutes(LoggedOn(a, day, i))], WorkedOn(rows, a, day))
<1> DEFINE L == WorklogsOf(rows, a, day)
           W == WorkedOn(rows, a, day)
           h == [l \in L |-> l.issue]
           part == [i \in W |-> SumOver(Mins, {l \in L : h[l] = i})]
           logged == [i \in W |-> Minutes(LoggedOn(a, day, i))]
<1>1. L \in SUBSET rows.worklogs /\ IsFiniteSet(L) /\ IsFiniteSet(W)
  BY WorkedOnIssues
<1>2. Minutes(L) = SumOver(Mins, L) /\ \A l \in L : Mins[l] \in Int
  <2> HIDE DEF L
  <2>1. QED
    BY <1>1, MinutesAre
<1>3. \A l \in L : h[l] \in W
  BY WorkedOnIssues
<1>4. \A i \in W : {l \in L : h[l] = i} = LoggedOn(a, day, i) /\ LoggedOn(a, day, i) \in SUBSET rows.worklogs
  BY <1>1 DEF LoggedOn
<1> HIDE DEF L, W, h
<1>5. SumOver(Mins, L) = SumOver(part, W)
  BY <1>1, <1>2, <1>3, SumOfFibres
<1>6. \A i \in W : part[i] = logged[i]
  <2> SUFFICES ASSUME NEW i \in W PROVE part[i] = logged[i]
    OBVIOUS
  <2>1. part[i] = SumOver(Mins, LoggedOn(a, day, i))
    BY <1>4
  <2>2. logged[i] = SumOver(Mins, LoggedOn(a, day, i))
    BY <1>4, MinutesAre
  <2>3. QED
    BY <2>1, <2>2
<1> HIDE DEF part, logged
<1>7. SumOver(part, W) = SumOver(logged, W)
  BY <1>1, <1>6, SumSame
<1>8. QED
  BY <1>2, <1>5, <1>7 DEF L, W, logged

(* The minutes of the tasks of somebody who is there are all the minutes   *)
(* logged in the window.                                                   *)
LEMMA TeammateMinutes ==
  ASSUME RowsHold, NEW a, NEW day, NEW T, NEW D, IsFiniteSet(D),
         \A n \in D : T[n].issue \in WorkedOn(rows, a, day) /\ T[n].totalMinutes = Minutes(LoggedOn(a, day, T[n].issue)),
         \A m, n \in D : T[m].issue = T[n].issue => m = n,
         \A i \in WorkedOn(rows, a, day) : \E n \in D : T[n].issue = i,
         NEW f, \A n \in D : f[n] = T[n].totalMinutes
  PROVE  SumOver(f, D) = Minutes(WorklogsOf(rows, a, day))
<1> DEFINE W == WorkedOn(rows, a, day)
           logged == [i \in W |-> Minutes(LoggedOn(a, day, i))]
           b == [n \in D |-> T[n].issue]
<1>1. IsFiniteSet(W)
  BY WorkedOnIssues
<1>2. \A i \in W : logged[i] \in Int
  <2>1. \A i : LoggedOn(a, day, i) \in SUBSET rows.worklogs
    BY WorkedOnIssues DEF LoggedOn
  <2>2. QED
    BY <2>1, MinutesAre
<1>3. \A n \in D : b[n] \in W /\ f[n] = logged[b[n]]
  OBVIOUS
<1>4. \A m, n \in D : b[m] = b[n] => m = n
  OBVIOUS
<1>5. \A i \in W : \E n \in D : b[n] = i
  OBVIOUS
<1> HIDE DEF W, b
<1>6. SumOver(f, D) = SumOver(logged, W)
  <2> HIDE DEF logged
  <2>1. QED
    BY <1>1, <1>2, <1>3, <1>4, <1>5, SumReindexed
<1>7. SumOver(logged, W) = Minutes(WorklogsOf(rows, a, day))
  BY WindowMinutes DEF W
<1>8. QED
  BY <1>6, <1>7

(* One for each task that is done.                                         *)
DoneOnes(T) == [n \in DOMAIN T |-> IF T[n].status = "DONE" THEN 1 ELSE 0]

(* The same of the tasks that are blocked.                                 *)
BlockedOnes(T) == [n \in DOMAIN T |-> IF T[n].status = "BLOCKED" THEN 1 ELSE 0]

(* The recent minutes of the tasks.                                        *)
RecentOf(T) == [n \in DOMAIN T |-> T[n].recentMinutes]

(* The counts of a teammate's tasks, as sums over the run's tasks.         *)
LEMMA OwnCounts ==
  ASSUME NEW T, IsFiniteSet(DOMAIN T), DOMAIN T \subseteq Int, NEW id, \A n \in TasksWith(T, id) : T[n].recentMinutes \in Int,
         NEW own, own = OwnTasks(T, id)
  PROVE  /\ Cardinality({m \in DOMAIN own : own[m].status = "DONE"}) = SumOver(DoneOnes(T), TasksWith(T, id))
         /\ Cardinality({m \in DOMAIN own : own[m].status = "BLOCKED"}) = SumOver(BlockedOnes(T), TasksWith(T, id))
         /\ SumOf([m \in DOMAIN own |-> own[m].recentMinutes]) = SumOver(RecentOf(T), TasksWith(T, id))
<1> DEFINE D == TasksWith(T, id)
           C == Cardinality(D)
<1>1. PICK order : Enumerates(order, D) /\ own = [m \in 1..C |-> T[order[m]]]
  BY OwnTasksOnce
<1>2. DOMAIN own = 1..C /\ \A m \in 1..C : order[m] \in D /\ order[m] \in DOMAIN T /\ own[m] = T[order[m]]
  BY <1>1 DEF Enumerates, TasksWith
<1>3. IsFiniteSet(1..C)
  BY <1>1, FS_Interval DEF Enumerates
<1>4. D \subseteq DOMAIN T
  BY DEF TasksWith
<1> HIDE DEF D
<1>5. Cardinality({m \in DOMAIN own : own[m].status = "DONE"}) = SumOver(DoneOnes(T), D)
  <2> DEFINE f == DoneOnes(T)
             g == [m \in 1..C |-> IF own[m].status = "DONE" THEN 1 ELSE 0]
  <2>1. /\ \A n \in D : f[n] \in Int
        /\ \A m \in 1..C : g[m] \in {0, 1} /\ g[m] = f[order[m]]
        /\ {m \in 1..C : g[m] = 1} = {m \in DOMAIN own : own[m].status = "DONE"}
    BY <1>2, <1>4 DEF DoneOnes
  <2> HIDE DEF f, g
  <2>2. SumOver(g, 1..C) = Cardinality({m \in 1..C : g[m] = 1})
    BY <1>3, <2>1, SumOfOnes
  <2>3. SumOver(g, 1..C) = SumOver(f, D)
    BY <1>1, <2>1, EnumeratedSum
  <2>4. QED
    BY <2>1, <2>2, <2>3 DEF f
<1>6. Cardinality({m \in DOMAIN own : own[m].status = "BLOCKED"}) = SumOver(BlockedOnes(T), D)
  <2> DEFINE f == BlockedOnes(T)
             g == [m \in 1..C |-> IF own[m].status = "BLOCKED" THEN 1 ELSE 0]
  <2>1. /\ \A n \in D : f[n] \in Int
        /\ \A m \in 1..C : g[m] \in {0, 1} /\ g[m] = f[order[m]]
        /\ {m \in 1..C : g[m] = 1} = {m \in DOMAIN own : own[m].status = "BLOCKED"}
    BY <1>2, <1>4 DEF BlockedOnes
  <2> HIDE DEF f, g
  <2>2. SumOver(g, 1..C) = Cardinality({m \in 1..C : g[m] = 1})
    BY <1>3, <2>1, SumOfOnes
  <2>3. SumOver(g, 1..C) = SumOver(f, D)
    BY <1>1, <2>1, EnumeratedSum
  <2>4. QED
    BY <2>1, <2>2, <2>3 DEF f
<1>7. SumOf([m \in DOMAIN own |-> own[m].recentMinutes]) = SumOver(RecentOf(T), D)
  <2> DEFINE f == RecentOf(T)
             g == [m \in DOMAIN own |-> own[m].recentMinutes]
  <2>1. \A n \in D : f[n] \in Int
    BY <1>4 DEF RecentOf, D
  <2>m. \A m \in 1..C : g[m] = f[order[m]]
    BY <1>2 DEF RecentOf
  <2>d. DOMAIN g = 1..C
    BY <1>2
  <2> HIDE DEF f, g
  <2>2. SumOver(g, 1..C) = SumOver(f, D)
    BY <1>1, <2>1, <2>m, EnumeratedSum
  <2>3. SumOf(g) = SumOver(g, 1..C)
    BY <2>d DEF SumOf, SumOver
  <2>4. QED
    BY <2>2, <2>3 DEF f, g
<1>8. QED
  BY <1>5, <1>6, <1>7 DEF D

(* The counts of the run's tasks, as sums.                                 *)
LEMMA AllCounts ==
  ASSUME NEW T, IsFiniteSet(DOMAIN T)
  PROVE  /\ Cardinality({m \in DOMAIN T : T[m].status = "DONE"}) = SumOver(DoneOnes(T), DOMAIN T)
         /\ Cardinality({m \in DOMAIN T : T[m].status = "BLOCKED"}) = SumOver(BlockedOnes(T), DOMAIN T)
<1>1. Cardinality({m \in DOMAIN T : T[m].status = "DONE"}) = SumOver(DoneOnes(T), DOMAIN T)
  <2> DEFINE f == DoneOnes(T)
  <2>1. /\ \A n \in DOMAIN T : f[n] \in {0, 1}
        /\ {m \in DOMAIN T : f[m] = 1} = {m \in DOMAIN T : T[m].status = "DONE"}
    BY DEF DoneOnes
  <2> HIDE DEF f
  <2>2. QED
    BY <2>1, SumOfOnes DEF f
<1>2. Cardinality({m \in DOMAIN T : T[m].status = "BLOCKED"}) = SumOver(BlockedOnes(T), DOMAIN T)
  <2> DEFINE f == BlockedOnes(T)
  <2>1. /\ \A n \in DOMAIN T : f[n] \in {0, 1}
        /\ {m \in DOMAIN T : f[m] = 1} = {m \in DOMAIN T : T[m].status = "BLOCKED"}
    BY DEF BlockedOnes
  <2> HIDE DEF f
  <2>2. QED
    BY <2>1, SumOfOnes DEF f
<1>3. QED
  BY <1>1, <1>2

(* Tasks by whose id they have: what is summed by teammate is summed.      *)
LEMMA SumByTeammate ==
  ASSUME NEW T, IsFiniteSet(DOMAIN T), NEW S, IsFiniteSet(DOMAIN S),
         \A n \in DOMAIN T : \E k \in DOMAIN S : T[n].daily = S[k].id,
         \A j, k \in DOMAIN S : S[j].id = S[k].id => j = k,
         NEW f, \A n \in DOMAIN T : f[n] \in Int,
         NEW g, \A k \in DOMAIN S : g[k] = SumOver(f, TasksWith(T, S[k].id))
  PROVE  SumOver(g, DOMAIN S) = SumOver(f, DOMAIN T)
<1> DEFINE h == [n \in DOMAIN T |-> CHOOSE k \in DOMAIN S : T[n].daily = S[k].id]
           part == [k \in DOMAIN S |-> SumOver(f, {n \in DOMAIN T : h[n] = k})]
<1>1. \A n \in DOMAIN T : h[n] \in DOMAIN S /\ T[n].daily = S[h[n]].id
  OBVIOUS
<1> HIDE DEF h
<1>2. \A k \in DOMAIN S : {n \in DOMAIN T : h[n] = k} = TasksWith(T, S[k].id)
  BY <1>1 DEF TasksWith
<1>3. \A k \in DOMAIN S : g[k] = part[k]
  BY <1>2
<1>4. SumOver(f, DOMAIN T) = SumOver(part, DOMAIN S)
  BY <1>1, SumOfFibres
<1> HIDE DEF part
<1>5. SumOver(g, DOMAIN S) = SumOver(part, DOMAIN S)
  BY <1>3, SumSame
<1>6. QED
  BY <1>4, <1>5

(* The figures of one teammate's chapter.                                  *)
LEMMA ChapterFigures ==
  ASSUME NEW s, NEW own, NEW p, p = BuildUserPayload(rows, s, own), s.unavailable \in BOOLEAN
  PROVE  /\ "unavailable" \in p.flags <=> s.unavailable
         /\ s.unavailable => p.metrics = [minutes |-> 0, touched |-> 0, done |-> 0, blocked |-> 0]
         /\ ~s.unavailable =>
              /\ p.metrics.minutes = SumOf([m \in DOMAIN own |-> own[m].recentMinutes])
              /\ p.metrics.done = Cardinality({m \in DOMAIN own : own[m].status = "DONE"})
              /\ p.metrics.blocked = Cardinality({m \in DOMAIN own : own[m].status = "BLOCKED"})
<1>1. CASE s.unavailable
  <2>1. p = AwayPayload(rows, s)
    BY <1>1 DEF BuildUserPayload
  <2>2. p.flags = {"unavailable"} /\ p.metrics = [minutes |-> 0, touched |-> 0, done |-> 0, blocked |-> 0]
    BY <2>1 DEF AwayPayload
  <2>3. QED
    BY <1>1, <2>2
<1>2. CASE ~s.unavailable
  <2>1. p = PresentPayload(rows, s, own)
    BY <1>2 DEF BuildUserPayload
  <2>2. p.flags \subseteq {"idle", "blockers_present"} /\ p.metrics = UserMetrics(own)
    <3>1. p.flags = UserFlags(own, UserMetrics(own)) /\ p.metrics = UserMetrics(own)
      <4>1. PresentPayload(rows, s, own).flags = UserFlags(own, UserMetrics(own))
        BY DEF PresentPayload
      <4>2. PresentPayload(rows, s, own).metrics = UserMetrics(own)
        BY DEF PresentPayload
      <4>3. QED
        BY <2>1, <4>1, <4>2
    <3>2. \A m : UserFlags(own, m) \subseteq {"idle", "blockers_present"}
      BY DEF UserFlags
    <3>3. QED
      BY <3>1, <3>2
  <2>3. "unavailable" \notin p.flags
    BY <2>2
  <2>4. p.metrics.minutes = SumOf([m \in DOMAIN own |-> own[m].recentMinutes])
    BY <2>2 DEF UserMetrics, Total
  <2>5. p.metrics.done = Cardinality({m \in DOMAIN own : own[m].status = "DONE"})
    BY <2>2 DEF UserMetrics, Count
  <2>6. p.metrics.blocked = Cardinality({m \in DOMAIN own : own[m].status = "BLOCKED"})
    BY <2>2 DEF UserMetrics, Count
  <2>7. QED
    BY <1>2, <2>3, <2>4, <2>5, <2>6
<1>3. QED
  BY <1>1, <1>2

(* The minutes that the chapters tell.                                     *)
MinutesTold(P) == [k \in DOMAIN P |-> P[k].metrics.minutes]

(* The minutes of the tasks.                                               *)
TaskMinutes(T) == [m \in DOMAIN T |-> T[m].totalMinutes]

(* The project's health, as sums and cardinalities.                        *)
LEMMA HealthFigures ==
  ASSUME NEW P, NEW T, NEW n \in Nat, DOMAIN P = 1..n, Len(P) = n
  PROVE  /\ TeamHealth(P, T).active + TeamHealth(P, T).idle + TeamHealth(P, T).offline = n
         /\ TeamHealth(P, T).done = Cardinality({m \in DOMAIN T : T[m].status = "DONE"})
         /\ TeamHealth(P, T).blocked = Cardinality({m \in DOMAIN T : T[m].status = "BLOCKED"})
         /\ TeamHealth(P, T).minutes = IF SumOf(MinutesTold(P)) # 0 THEN SumOf(MinutesTold(P)) ELSE SumOf(TaskMinutes(T))
<1> DEFINE h == TeamHealth(P, T)
           recent == SumOf(MinutesTold(P))
           Off == {k \in DOMAIN P : "unavailable" \in P[k].flags}
           Idle == {k \in DOMAIN P : "unavailable" \notin P[k].flags /\ P[k].metrics.touched = 0}
           off == Cardinality(Off)
           idle == Cardinality(Idle)
<1>1. h.done = Cardinality({m \in DOMAIN T : T[m].status = "DONE"})
  BY DEF TeamHealth, Count
<1>2. h.blocked = Cardinality({m \in DOMAIN T : T[m].status = "BLOCKED"})
  BY DEF TeamHealth, Count
<1>3. h.minutes = IF recent # 0 THEN recent ELSE SumOf(TaskMinutes(T))
  BY DEF TeamHealth, Total, MinutesTold, TaskMinutes
<1>4. h.offline = off /\ h.idle = idle /\ h.active = Max({n - off - idle, 0})
  BY DEF TeamHealth, Count
<1> HIDE DEF h
<1>5. off \in Nat /\ idle \in Nat /\ off + idle <= n
  <2>1. IsFiniteSet(1..n) /\ Cardinality(1..n) = n
    BY FS_Interval
  <2>2. Off \subseteq 1..n /\ Idle \subseteq 1..n /\ Off \cap Idle = {} /\ Off \cup Idle \subseteq 1..n
    OBVIOUS
  <2> HIDE DEF Off, Idle
  <2>3. IsFiniteSet(Off) /\ IsFiniteSet(Idle) /\ Cardinality(Off \cup Idle) <= n
    <3>1. IsFiniteSet(Off) /\ IsFiniteSet(Idle)
      BY <2>1, <2>2, FS_Subset
    <3>2. Cardinality(Off \cup Idle) <= Cardinality(1..n)
      BY <2>1, <2>2, FS_Subset
    <3>3. QED
      BY <2>1, <3>1, <3>2
  <2>4. Cardinality(Off \cup Idle) = Cardinality(Off) + Cardinality(Idle) - Cardinality({})
    BY <2>2, <2>3, FS_Union
  <2>5. Cardinality({}) = 0 /\ Cardinality(Off) \in Nat /\ Cardinality(Idle) \in Nat
    BY <2>3, FS_EmptySet, FS_CardinalityType
  <2>6. QED
    BY <2>3, <2>4, <2>5
<1> HIDE DEF off, idle
<1>6. Max({n - off - idle, 0}) = n - off - idle
  <2> DEFINE x == n - off - idle
  <2>1. x \in Int /\ x >= 0
    BY <1>5
  <2> HIDE DEF x
  <2>2. x \in {x, 0} /\ \A y \in {x, 0} : x >= y
    BY <2>1
  <2>3. \A z \in {x, 0} : (\A y \in {x, 0} : z >= y) => z = x
    BY <2>1
  <2>4. Max({x, 0}) = x
    BY <2>2, <2>3 DEF Max
  <2>5. QED
    BY <2>4 DEF x
<1>7. h.active + h.idle + h.offline = n
  BY <1>4, <1>5, <1>6
<1>8. QED
  BY <1>1, <1>2, <1>3, <1>7 DEF h

(* The figures of a run add up.                                            *)
AddsUpIn(r) ==
  LET health == r.payload.health
      Sum(Value(_)) == Total(r.users, LAMBDA u : Value(u.payload.metrics))
      present == {u.payload.target.account :
                    u \in {v \in ToSet(r.users) : "unavailable" \notin v.payload.flags}} \cap r.rows.profiles
  IN /\ health.done = Sum(LAMBDA m : m.done) /\ health.blocked = Sum(LAMBDA m : m.blocked)
     /\ health.active + health.idle + health.offline = Len(r.users)
     /\ health.minutes = Minutes({l \in r.rows.worklogs : InWindow(l.at, r.day) /\ l.author \in present})

(* A chapter tells the minutes its account logged, or that the teammate is *)
(* away.                                                                   *)
ChapterTells(u, day) ==
  /\ u.payload.metrics.minutes \in Nat /\ u.payload.target.account \in Profiles
  /\ "unavailable" \in u.payload.flags <=> IsAway(rows, u.payload.target.account, day)
  /\ "unavailable" \notin u.payload.flags =>
       u.payload.metrics.minutes = Minutes(WorklogsOf(rows, u.payload.target.account, day))

(* What a run tells of the rows it was made of: so do its chapters, and    *)
(* the hours of the project are those of the chapters.                     *)
RunTells(r, day) ==
  /\ r.rows = rows /\ r.day = day
  /\ Len(r.users) \in Nat /\ r.users = [k \in 1..Len(r.users) |-> r.users[k]]
  /\ r.payload.health.minutes = SumOf([k \in DOMAIN r.users |-> r.users[k].payload.metrics.minutes])
  /\ \A k \in DOMAIN r.users : ChapterTells(r.users[k], day)

(* The figures of a run add up, and each chapter tells what its account    *)
(* logged.                                                                 *)
LEMMA RunAddsUp ==
  ASSUME RowsHold, NEW runs, NEW userOf \in FoundUsers(rows), NEW day \in Int
  PROVE  AddsUpIn(NewRun(runs, userOf, day)) /\ RunTells(NewRun(runs, userOf, day), day)
<1>r. PICK run : run = NewRun(runs, userOf, day)
  OBVIOUS
<1>s. PICK S : S = GenerateSummariesForDate(rows, userOf, day)
  OBVIOUS
<1>t. PICK T : T = PersistTaskSummaries(rows, S, day, now)
  OBVIOUS
<1>u. PICK U : U = PersistUserSummaries(rows, runs, S, T, day)
  OBVIOUS
<1>1. /\ DOMAIN U = DOMAIN S
      /\ \A k \in DOMAIN S :
           /\ U[k].tasks = OwnTasks(T, S[k].id)
           /\ U[k].payload = BuildUserPayload(rows, S[k], U[k].tasks)
           /\ U[k].payload.target = S[k].target
      /\ run.rows = rows /\ run.users = U /\ run.tasks = T /\ run.day = day
      /\ run.payload = BuildProjectPayload(rows, Payloads(run), T)
  BY <1>r, <1>s, <1>t, <1>u, RunParts
<1> DEFINE targets == [k \in DOMAIN S |-> S[k].target]
           C == Cardinality(Targets(rows, userOf))
           acc(k) == S[k].target.account
           D(k) == TasksWith(T, S[k].id)
           M(k) == Minutes(WorklogsOf(rows, acc(k), day))
<1>2. /\ Enumerates(targets, Targets(rows, userOf))
      /\ \A k \in DOMAIN S : S[k] = GenerateSummaryForTarget(rows, S[k].target, day)
      /\ DOMAIN S = 1..C /\ C \in Nat
  BY <1>s, TeamListed
<1>3. \A k \in DOMAIN S : S[k].target \in Targets(rows, userOf) /\ acc(k) \in Profiles
  <2>1. \A k \in DOMAIN S : targets[k] = S[k].target
    OBVIOUS
  <2> HIDE DEF targets
  <2>2. \A k \in DOMAIN S : targets[k] \in Targets(rows, userOf)
    BY <1>2 DEF Enumerates
  <2>3. QED
    BY <2>1, <2>2, TargetKinds
<1>4. \A j, k \in DOMAIN S : acc(j) = acc(k) => j = k
  <2> SUFFICES ASSUME NEW j \in DOMAIN S, NEW k \in DOMAIN S, acc(j) = acc(k) PROVE j = k
    OBVIOUS
  <2>1. S[j].target = S[k].target
    BY <1>3, TargetsDiffer
  <2>2. targets[j] = targets[k]
    BY <2>1
  <2> HIDE DEF targets
  <2>3. QED
    BY <2>2, <1>2 DEF Enumerates
<1>5. IsFiniteSet(DOMAIN T) /\ DOMAIN T \subseteq Int /\ IsFiniteSet(DOMAIN S)
  <2>1. IsFiniteSet(DOMAIN T) /\ DOMAIN T \subseteq Int
    BY <1>s, <1>t, TeamTasks
  <2>2. IsFiniteSet(DOMAIN S)
    BY <1>2, FS_Interval
  <2>3. QED
    BY <2>1, <2>2
<1>6. /\ \A n \in DOMAIN T : \E k \in DOMAIN S : T[n].daily = S[k].id
      /\ \A j, k \in DOMAIN S : S[j].id = S[k].id => j = k
  <2>1. TasksOfTeam(T, S)
    BY <1>s, <1>t, TeamTasks
  <2>2. \A j, k \in DOMAIN S : S[j].id = S[k].id => j = k
    BY <1>s, <1>t, TeamTasks
  <2>3. QED
    BY <2>1, <2>2 DEF TasksOfTeam
<1>m. \A k \in DOMAIN S : TasksTell(T, S[k], day)
  BY <1>s, <1>t, TeamTasks
<1>7. \A k \in DOMAIN S :
        /\ Away(S[k], day) => D(k) = {}
        /\ ~Away(S[k], day) =>
             /\ \A n \in D(k) : /\ T[n].issue \in WorkedOn(rows, acc(k), day)
                                /\ T[n].totalMinutes = Minutes(LoggedOn(acc(k), day, T[n].issue))
                                /\ T[n].recentMinutes = T[n].totalMinutes
             /\ \A m, n \in D(k) : T[m].issue = T[n].issue => m = n
             /\ \A i \in WorkedOn(rows, acc(k), day) : \E n \in D(k) : T[n].issue = i
  BY <1>m DEF TasksTell
<1>8. \A k \in DOMAIN S : S[k].unavailable = Away(S[k], day) /\ S[k].unavailable \in BOOLEAN
  <2>1. \A k \in DOMAIN S : S[k].unavailable = Away(S[k], day)
    BY <1>2, <1>3, SummaryKinds DEF Away
  <2>2. \A k \in DOMAIN S : Away(S[k], day) \in BOOLEAN
    BY DEF Away, IsAway
  <2>3. QED
    BY <2>1, <2>2
<1> HIDE DEF targets, C, acc, D, M
<1>9. \A n \in DOMAIN T : T[n].recentMinutes \in Int /\ T[n].totalMinutes = T[n].recentMinutes
  <2> SUFFICES ASSUME NEW n \in DOMAIN T PROVE T[n].recentMinutes \in Int /\ T[n].totalMinutes = T[n].recentMinutes
    OBVIOUS
  <2>1. PICK k \in DOMAIN S : T[n].daily = S[k].id
    BY <1>6
  <2>2. n \in D(k)
    BY <2>1 DEF D, TasksWith
  <2>3. /\ T[n].totalMinutes = Minutes(LoggedOn(acc(k), day, T[n].issue))
        /\ T[n].recentMinutes = T[n].totalMinutes
    BY <1>7, <2>2
  <2>4. LoggedOn(acc(k), day, T[n].issue) \in SUBSET rows.worklogs
    BY WorkedOnIssues DEF LoggedOn
  <2>5. Minutes(LoggedOn(acc(k), day, T[n].issue)) \in Int
    BY <2>4, MinutesAre
  <2>6. QED
    BY <2>3, <2>5
<1> DEFINE p(k) == U[k].payload
<1>10. \A k \in DOMAIN S :
         /\ "unavailable" \in p(k).flags <=> Away(S[k], day)
         /\ p(k).metrics.done = SumOver(DoneOnes(T), D(k))
         /\ p(k).metrics.blocked = SumOver(BlockedOnes(T), D(k))
         /\ p(k).metrics.minutes = SumOver(RecentOf(T), D(k))
  <2> SUFFICES ASSUME NEW k \in DOMAIN S
               PROVE  /\ "unavailable" \in p(k).flags <=> Away(S[k], day)
                      /\ p(k).metrics.done = SumOver(DoneOnes(T), D(k))
                      /\ p(k).metrics.blocked = SumOver(BlockedOnes(T), D(k))
                      /\ p(k).metrics.minutes = SumOver(RecentOf(T), D(k))
    OBVIOUS
  <2>1. PICK own : own = U[k].tasks
    OBVIOUS
  <2>s. PICK s : s = S[k]
    OBVIOUS
  <2>p. PICK pk : pk = p(k)
    OBVIOUS
  <2>2. p(k) = BuildUserPayload(rows, S[k], own) /\ own = OwnTasks(T, S[k].id)
    BY <1>1, <2>1
  <2>3. /\ "unavailable" \in p(k).flags <=> S[k].unavailable
        /\ S[k].unavailable => p(k).metrics = [minutes |-> 0, touched |-> 0, done |-> 0, blocked |-> 0]
        /\ ~S[k].unavailable =>
             /\ p(k).metrics.minutes = SumOf([m \in DOMAIN own |-> own[m].recentMinutes])
             /\ p(k).metrics.done = Cardinality({m \in DOMAIN own : own[m].status = "DONE"})
             /\ p(k).metrics.blocked = Cardinality({m \in DOMAIN own : own[m].status = "BLOCKED"})
    <3>1. pk = BuildUserPayload(rows, s, own) /\ s.unavailable \in BOOLEAN
      BY <1>8, <2>2, <2>s, <2>p
    <3>2. /\ "unavailable" \in pk.flags <=> s.unavailable
          /\ s.unavailable => pk.metrics = [minutes |-> 0, touched |-> 0, done |-> 0, blocked |-> 0]
          /\ ~s.unavailable =>
               /\ pk.metrics.minutes = SumOf([m \in DOMAIN own |-> own[m].recentMinutes])
               /\ pk.metrics.done = Cardinality({m \in DOMAIN own : own[m].status = "DONE"})
               /\ pk.metrics.blocked = Cardinality({m \in DOMAIN own : own[m].status = "BLOCKED"})
      BY <3>1, ChapterFigures, ZenonT(30)
    <3>3. QED
      BY <3>2, <2>s, <2>p
  <2>4. CASE Away(S[k], day)
    <3>1. D(k) = {} /\ p(k).metrics = [minutes |-> 0, touched |-> 0, done |-> 0, blocked |-> 0]
      BY <1>7, <1>8, <2>3, <2>4
    <3> HIDE DEF p
    <3>2. QED
      BY <1>8, <2>3, <2>4, <3>1, SumEmpty
  <2>5. CASE ~Away(S[k], day)
    <3>1. /\ Cardinality({m \in DOMAIN own : own[m].status = "DONE"}) = SumOver(DoneOnes(T), D(k))
          /\ Cardinality({m \in DOMAIN own : own[m].status = "BLOCKED"}) = SumOver(BlockedOnes(T), D(k))
          /\ SumOf([m \in DOMAIN own |-> own[m].recentMinutes]) = SumOver(RecentOf(T), D(k))
      <4>1. \A n \in TasksWith(T, S[k].id) : T[n].recentMinutes \in Int
        BY <1>9 DEF TasksWith
      <4>2. QED
        BY <1>5, <2>2, <4>1, OwnCounts, SMTT(30) DEF D
    <3> HIDE DEF p
    <3>2. QED
      BY <1>8, <2>3, <2>5, <3>1
  <2>6. QED
    BY <2>4, <2>5
<1> HIDE DEF p
(* The sums over the chapters are those over the tasks.                    *)
<1>11. SumOver([k \in DOMAIN S |-> p(k).metrics.done], DOMAIN S) = SumOver(DoneOnes(T), DOMAIN T)
  <2> DEFINE g == [k \in DOMAIN S |-> p(k).metrics.done]
  <2>1. \A n \in DOMAIN T : DoneOnes(T)[n] \in Int
    BY DEF DoneOnes
  <2>2. \A k \in DOMAIN S : g[k] = SumOver(DoneOnes(T), TasksWith(T, S[k].id))
    BY <1>10 DEF D
  <2> HIDE DEF g
  <2>3. QED
    BY <1>5, <1>6, <2>1, <2>2, SumByTeammate DEF g
<1>12. SumOver([k \in DOMAIN S |-> p(k).metrics.blocked], DOMAIN S) = SumOver(BlockedOnes(T), DOMAIN T)
  <2> DEFINE g == [k \in DOMAIN S |-> p(k).metrics.blocked]
  <2>1. \A n \in DOMAIN T : BlockedOnes(T)[n] \in Int
    BY DEF BlockedOnes
  <2>2. \A k \in DOMAIN S : g[k] = SumOver(BlockedOnes(T), TasksWith(T, S[k].id))
    BY <1>10 DEF D
  <2> HIDE DEF g
  <2>3. QED
    BY <1>5, <1>6, <2>1, <2>2, SumByTeammate DEF g
<1>13. SumOver([k \in DOMAIN S |-> p(k).metrics.minutes], DOMAIN S) = SumOver(RecentOf(T), DOMAIN T)
  <2> DEFINE g == [k \in DOMAIN S |-> p(k).metrics.minutes]
  <2>1. \A n \in DOMAIN T : RecentOf(T)[n] \in Int
    BY <1>9 DEF RecentOf
  <2>2. \A k \in DOMAIN S : g[k] = SumOver(RecentOf(T), TasksWith(T, S[k].id))
    BY <1>10 DEF D
  <2> HIDE DEF g
  <2>3. QED
    BY <1>5, <1>6, <2>1, <2>2, SumByTeammate DEF g
(* The minutes by who logged them.                                         *)
<1> DEFINE Here == {k \in DOMAIN S : ~Away(S[k], day)}
           present == {acc(k) : k \in Here}
           L == {l \in rows.worklogs : InWindow(l.at, day) /\ l.author \in present}
<1>14. \A k \in DOMAIN S : p(k).metrics.minutes = SumOver(Mins, {l \in L : l.author = acc(k)})
  <2> SUFFICES ASSUME NEW k \in DOMAIN S PROVE p(k).metrics.minutes = SumOver(Mins, {l \in L : l.author = acc(k)})
    OBVIOUS
  <2>1. CASE Away(S[k], day)
    <3>1. {l \in L : l.author = acc(k)} = {}
      BY <1>4, <2>1
    <3>2. p(k).metrics.minutes = SumOver(RecentOf(T), {})
      BY <1>7, <1>10, <2>1
    <3>3. QED
      BY <3>1, <3>2, SumEmpty
  <2>2. CASE ~Away(S[k], day)
    <3>1. {l \in L : l.author = acc(k)} = WorklogsOf(rows, acc(k), day)
      BY <2>2 DEF WorklogsOf
    <3>2. IsFiniteSet(D(k))
      <4>1. D(k) \subseteq DOMAIN T
        BY DEF D, TasksWith
      <4>2. QED
        BY <4>1, <1>5, FS_Subset
    <3>3. \A n \in D(k) : RecentOf(T)[n] = T[n].totalMinutes
      BY <1>9 DEF RecentOf, D, TasksWith
    <3>4. SumOver(RecentOf(T), D(k)) = Minutes(WorklogsOf(rows, acc(k), day))
      <4>1. /\ \A n \in D(k) : T[n].issue \in WorkedOn(rows, acc(k), day) /\ T[n].totalMinutes = Minutes(LoggedOn(acc(k), day, T[n].issue))
            /\ \A m, n \in D(k) : T[m].issue = T[n].issue => m = n
            /\ \A i \in WorkedOn(rows, acc(k), day) : \E n \in D(k) : T[n].issue = i
        BY <1>7, <2>2
      <4>2. QED
        BY <3>2, <3>3, <4>1, TeammateMinutes
    <3>5. Minutes(WorklogsOf(rows, acc(k), day)) = SumOver(Mins, WorklogsOf(rows, acc(k), day))
      <4>1. WorklogsOf(rows, acc(k), day) \in SUBSET rows.worklogs
        BY WorkedOnIssues
      <4>2. QED
        BY <4>1, MinutesAre
    <3>6. QED
      BY <1>10, <3>1, <3>4, <3>5
  <2>3. QED
    BY <2>1, <2>2
<1>15. SumOver([k \in DOMAIN S |-> p(k).metrics.minutes], DOMAIN S) = Minutes(L)
  <2> DEFINE h == [l \in L |-> CHOOSE k \in DOMAIN S : acc(k) = l.author]
             g == [k \in DOMAIN S |-> p(k).metrics.minutes]
             part == [k \in DOMAIN S |-> SumOver(Mins, {l \in L : h[l] = k})]
  <2>1. \A l \in L : h[l] \in DOMAIN S /\ acc(h[l]) = l.author
    OBVIOUS
  <2>2. IsFiniteSet(L) /\ Minutes(L) = SumOver(Mins, L) /\ \A l \in L : Mins[l] \in Int
    <3>1. L \in SUBSET rows.worklogs
      OBVIOUS
    <3> HIDE DEF L
    <3>2. QED
      BY <3>1, MinutesAre
  <2> HIDE DEF L, h
  <2>3. \A k \in DOMAIN S : {l \in L : h[l] = k} = {l \in L : l.author = acc(k)}
    BY <1>4, <2>1
  <2>4. SumOver(Mins, L) = SumOver(part, DOMAIN S)
    BY <1>5, <2>1, <2>2, SumOfFibres
  <2>5. \A k \in DOMAIN S : part[k] = g[k]
    BY <1>14, <2>3
  <2> HIDE DEF part, g
  <2>6. SumOver(part, DOMAIN S) = SumOver(g, DOMAIN S)
    BY <1>5, <2>5, SumSame
  <2>7. QED
    BY <2>2, <2>4, <2>6 DEF g
(* The project.                                                            *)
<1> DEFINE P == Payloads(run)
           health == run.payload.health
<1>16. DOMAIN P = 1..C /\ Len(P) = C /\ \A k \in 1..C : P[k] = p(k)
  <2>1. P = [k \in 1..C |-> p(k)]
    BY <1>1, <1>2 DEF Payloads, Mapped, p
  <2> HIDE DEF P
  <2>2. QED
    BY <1>2, <2>1
<1>17. health = TeamHealth(P, T)
  BY <1>1 DEF BuildProjectPayload
<1> HIDE DEF P, health, L
<1>18. /\ health.active + health.idle + health.offline = C
       /\ health.done = Cardinality({m \in DOMAIN T : T[m].status = "DONE"})
       /\ health.blocked = Cardinality({m \in DOMAIN T : T[m].status = "BLOCKED"})
       /\ health.minutes = IF SumOf(MinutesTold(P)) # 0 THEN SumOf(MinutesTold(P)) ELSE SumOf(TaskMinutes(T))
  BY <1>2, <1>16, <1>17, HealthFigures
<1>19. health.done = SumOf([k \in DOMAIN U |-> U[k].payload.metrics.done])
  <2> DEFINE g == [k \in DOMAIN S |-> p(k).metrics.done]
  <2>1. g = [k \in DOMAIN U |-> U[k].payload.metrics.done] /\ DOMAIN g = DOMAIN S
    BY <1>1 DEF p
  <2>2. health.done = SumOver(g, DOMAIN S)
    BY <1>5, <1>11, <1>18, AllCounts
  <2> HIDE DEF g
  <2>3. QED
    BY <2>1, <2>2 DEF SumOf, SumOver
<1>20. health.blocked = SumOf([k \in DOMAIN U |-> U[k].payload.metrics.blocked])
  <2> DEFINE g == [k \in DOMAIN S |-> p(k).metrics.blocked]
  <2>1. g = [k \in DOMAIN U |-> U[k].payload.metrics.blocked] /\ DOMAIN g = DOMAIN S
    BY <1>1 DEF p
  <2>2. health.blocked = SumOver(g, DOMAIN S)
    BY <1>5, <1>12, <1>18, AllCounts
  <2> HIDE DEF g
  <2>3. QED
    BY <2>1, <2>2 DEF SumOf, SumOver
<1>21. health.minutes = Minutes(L)
  <2> DEFINE g == MinutesTold(P)
             f == TaskMinutes(T)
  <2>1. SumOf(g) = Minutes(L)
    <3>1. g = [k \in DOMAIN S |-> p(k).metrics.minutes] /\ DOMAIN g = DOMAIN S
      BY <1>2, <1>16 DEF MinutesTold
    <3> HIDE DEF g
    <3>2. SumOf(g) = SumOver(g, DOMAIN S)
      BY <3>1 DEF SumOf, SumOver
    <3>3. QED
      BY <1>15, <3>1, <3>2
  <2>2. SumOf(f) = Minutes(L)
    <3>1. f = RecentOf(T) /\ DOMAIN f = DOMAIN T
      BY <1>9 DEF RecentOf, TaskMinutes
    <3> HIDE DEF f
    <3>2. SumOf(f) = SumOver(f, DOMAIN T)
      BY <3>1 DEF SumOf, SumOver
    <3>3. QED
      BY <1>13, <1>15, <3>1, <3>2
  <2> HIDE DEF f, g
  <2>3. QED
    BY <1>18, <2>1, <2>2 DEF f, g
<1>22. Len(U) = C
  <2>1. U = [k \in 1..C |-> U[k]]
    BY <1>s, <1>t, <1>u, <1>1, <1>2 DEF PersistUserSummaries, Mapped
  <2>2. QED
    BY <1>2, <2>1
<1>23. {u.payload.target.account : u \in {v \in ToSet(U) : "unavailable" \notin v.payload.flags}} \cap rows.profiles = present
  <2>1. rows.profiles = Profiles /\ present \subseteq Profiles
    BY <1>3, RowsKinds DEF RowsHold, acc
  <2>2. ToSet(U) = {U[k] : k \in DOMAIN S}
    BY <1>1 DEF ToSet
  <2>3. \A k \in DOMAIN S : U[k].payload.target.account = acc(k) /\ ("unavailable" \in U[k].payload.flags <=> Away(S[k], day))
    BY <1>1, <1>10 DEF acc, p
  <2>4. {u.payload.target.account : u \in {v \in ToSet(U) : "unavailable" \notin v.payload.flags}} = present
    BY <2>2, <2>3
  <2> HIDE DEF present
  <2>5. QED
    BY <2>1, <2>4
<1>24. L = {l \in run.rows.worklogs : InWindow(l.at, run.day) /\ l.author \in
              {u.payload.target.account : u \in {v \in ToSet(run.users) : "unavailable" \notin v.payload.flags}} \cap run.rows.profiles}
  BY <1>1, <1>23 DEF L
<1>25. AddsUpIn(run)
  BY <1>1, <1>18, <1>19, <1>20, <1>21, <1>22, <1>24 DEF AddsUpIn, Total, health
<1>26. \A k \in DOMAIN U : ChapterTells(U[k], day)
  <2> SUFFICES ASSUME NEW k \in DOMAIN S PROVE ChapterTells(U[k], day)
    BY <1>1
  <2>1. U[k].payload.target.account = acc(k) /\ acc(k) \in Profiles
    BY <1>1, <1>3 DEF acc
  <2>2. p(k) = U[k].payload
    BY DEF p
  <2>3. "unavailable" \in p(k).flags <=> IsAway(rows, acc(k), day)
    BY <1>10 DEF Away, acc
  <2>4. p(k).metrics.minutes \in Nat
    <3>1. {l \in L : l.author = acc(k)} \in SUBSET rows.worklogs
      BY DEF L
    <3>2. Minutes({l \in L : l.author = acc(k)}) = SumOver(Mins, {l \in L : l.author = acc(k)})
          /\ Minutes({l \in L : l.author = acc(k)}) \in Nat
      BY <3>1, MinutesAre
    <3>3. QED
      BY <1>14, <3>2
  <2>5. "unavailable" \notin p(k).flags => p(k).metrics.minutes = Minutes(WorklogsOf(rows, acc(k), day))
    <3> SUFFICES ASSUME "unavailable" \notin p(k).flags
                 PROVE  p(k).metrics.minutes = Minutes(WorklogsOf(rows, acc(k), day))
      OBVIOUS
    <3>1. ~Away(S[k], day)
      BY <1>10
    <3>2. {l \in L : l.author = acc(k)} = WorklogsOf(rows, acc(k), day)
      BY <3>1 DEF WorklogsOf, L
    <3>3. WorklogsOf(rows, acc(k), day) \in SUBSET rows.worklogs
      BY DEF WorklogsOf
    <3>4. Minutes(WorklogsOf(rows, acc(k), day)) = SumOver(Mins, WorklogsOf(rows, acc(k), day))
      BY <3>3, MinutesAre
    <3>5. QED
      BY <1>14, <3>2, <3>4
  <2>6. QED
    BY <2>1, <2>2, <2>3, <2>4, <2>5 DEF ChapterTells
<1>27. run.payload.health.minutes = SumOf([k \in DOMAIN run.users |-> run.users[k].payload.metrics.minutes])
  <2> DEFINE g == [k \in DOMAIN S |-> p(k).metrics.minutes]
  <2>1. g = [k \in DOMAIN U |-> U[k].payload.metrics.minutes] /\ DOMAIN g = DOMAIN S
    BY <1>1 DEF p
  <2>2. health.minutes = SumOver(g, DOMAIN S)
    BY <1>15, <1>21
  <2> HIDE DEF g
  <2>3. QED
    BY <1>1, <2>1, <2>2 DEF SumOf, SumOver, health
<1>28. U = [k \in 1..Len(U) |-> U[k]]
  BY <1>s, <1>t, <1>u, <1>1, <1>2, <1>22 DEF PersistUserSummaries, Mapped
<1>29. RunTells(run, day)
  BY <1>1, <1>2, <1>22, <1>26, <1>27, <1>28 DEF RunTells
<1>30. QED
  BY <1>r, <1>25, <1>29

(* They do in every run.                                                   *)
AddedUp == IsList(snapshots) /\ \A r \in ToSet(snapshots) : AddsUpIn(r)

(* Every step keeps it.                                                    *)
LEMMA AddedUpNext == RowsHold /\ AddedUp /\ [Next]_vars => AddedUp'
<1> SUFFICES ASSUME RowsHold, AddedUp, [Next]_vars PROVE AddedUp'
  OBVIOUS
<1>a. ASSUME NEW runs, IsList(runs), \A r \in ToSet(runs) : AddsUpIn(r), NEW userOf \in FoundUsers(rows), NEW day \in Int
      PROVE  LET more == Append(runs, NewRun(runs, userOf, day))
             IN IsList(more) /\ \A r \in ToSet(more) : AddsUpIn(r)
  <2>1. AddsUpIn(NewRun(runs, userOf, day))
    BY RunAddsUp
  <2>2. QED
    BY <1>a, <2>1, ListAppended
<1>d. Today \in Int /\ Today - Day \in Int
  BY DEF RowsHold, Today, Day
<1>1. CASE snapshots' = snapshots
  BY <1>1 DEF AddedUp, IsList
<1>2. CASE \E userOf \in FoundUsers(rows) : snapshots' = Append(snapshots, NewRun(snapshots, userOf, Today))
  BY <1>2, <1>a, <1>d DEF AddedUp
<1>3. CASE \E userOf \in FoundUsers(rows) : \E runs :
             /\ runs = Append(snapshots, NewRun(snapshots, userOf, Today))
             /\ snapshots' = Append(runs, NewRun(runs, userOf, Today - Day))
  <2>u. PICK userOf \in FoundUsers(rows) : \E runs :
             /\ runs = Append(snapshots, NewRun(snapshots, userOf, Today))
             /\ snapshots' = Append(runs, NewRun(runs, userOf, Today - Day))
    BY <1>3
  <2>1. PICK runs :
             /\ runs = Append(snapshots, NewRun(snapshots, userOf, Today))
             /\ snapshots' = Append(runs, NewRun(runs, userOf, Today - Day))
    BY <2>u
  <2>2. IsList(runs) /\ \A r \in ToSet(runs) : AddsUpIn(r)
    BY <2>1, <1>a, <1>d DEF AddedUp
  <2>3. IsList(snapshots') /\ \A r \in ToSet(snapshots') : AddsUpIn(r)
    BY <2>1, <2>2, <1>a, <1>d
  <2>4. QED
    BY <2>3 DEF AddedUp, IsList
<1>4. QED
  BY <1>1, <1>2, <1>3, RunsAdded DEF RowsHold

(* In every run of every reachable state the project's figures are the     *)
(* sums of the teammates', every teammate is active, idle or offline, and  *)
(* every minute that somebody present logged in the window is told, on     *)
(* whosever issue it was logged (buildProjectPayload, buildTeamHealth).    *)
THEOREM ProjectAlwaysAddsUp == Spec => []ProjectAddsUp
<1>1. Init => AddedUp
  <2> SUFFICES ASSUME Init PROVE AddedUp
    OBVIOUS
  <2>1. snapshots = <<>>
    BY DEF Init
  <2>2. QED
    BY <2>1 DEF AddedUp, IsList, ToSet
<1>2. AddedUp => ProjectAddsUp
  BY DEF AddedUp, AddsUpIn, ProjectAddsUp
<1>3. QED
  BY <1>1, <1>2, RowsHoldInit, RowsHoldNext, AddedUpNext, PTL DEF Spec

-----------------------------------------------------------------------------
(***************************************************************************)
(* The focus board: what its panels, its timelines and its warnings say of *)
(* one another.                                                            *)
(***************************************************************************)

(* A figure in hundredths of an hour is the minutes of it, to within half  *)
(* a hundredth.                                                            *)
LEMMA HoursRound ==
  ASSUME NEW m \in Int
  PROVE  Hours(m) \in Int /\ -30 <= 60 * Hours(m) - 100 * m /\ 60 * Hours(m) - 100 * m <= 30
<1> DEFINE q == (2 * (100 * m) + 60) \div (2 * 60)
<1>1. Hours(m) = q
  BY DEF Hours, Rounded
<1>2. q \in Int /\ 120 * q <= 200 * m + 60 /\ 200 * m + 60 < 120 * q + 120
  OBVIOUS
<1> HIDE DEF q
<1>3. QED
  BY <1>1, <1>2

(* A sum of rounded figures is off by half a hundredth a figure at most.   *)
LEMMA RoundedSum ==
  ASSUME NEW f, NEW g, NEW S, IsFiniteSet(S),
         \A x \in S : f[x] \in Int /\ g[x] \in Int /\ -30 <= 60 * f[x] - 100 * g[x] /\ 60 * f[x] - 100 * g[x] <= 30
  PROVE  /\ -30 * Cardinality(S) <= 60 * SumOver(f, S) - 100 * SumOver(g, S)
         /\ 60 * SumOver(f, S) - 100 * SumOver(g, S) <= 30 * Cardinality(S)
<1> DEFINE Off(T) == 60 * SumOver(f, T) - 100 * SumOver(g, T)
           B == {T \in SUBSET S : ~(-30 * Cardinality(T) <= Off(T) /\ Off(T) <= 30 * Cardinality(T))}
<1>1. SUFFICES ASSUME B # {} PROVE FALSE
  OBVIOUS
<1>2. B \in SUBSET SUBSET S
  OBVIOUS
<1> HIDE DEF B
<1>3. PICK T \in B : \A U \in SUBSET T : U # T => U \notin B
  BY <1>1, <1>2, SmallestSubset
<1>4. T \in SUBSET S /\ IsFiniteSet(T) /\ ~(-30 * Cardinality(T) <= Off(T) /\ Off(T) <= 30 * Cardinality(T))
  BY <1>3, FS_Subset DEF B
<1>5. T # {}
  <2>1. ASSUME T = {} PROVE FALSE
    <3>1. SumOver(f, T) = 0 /\ SumOver(g, T) = 0 /\ Cardinality(T) = 0
      BY <2>1, SumEmpty, FS_EmptySet
    <3>2. QED
      BY <3>1, <1>4
  <2>2. QED
    BY <2>1
<1>6. PICK x : x \in T
  BY <1>5
<1>7. T \ {x} \notin B /\ T \ {x} \subseteq S /\ IsFiniteSet(T \ {x})
  BY <1>3, <1>4, <1>6, FS_Subset
<1>8. -30 * Cardinality(T \ {x}) <= Off(T \ {x}) /\ Off(T \ {x}) <= 30 * Cardinality(T \ {x})
  BY <1>7 DEF B
<1>9. SumOver(f, T) = f[x] + SumOver(f, T \ {x}) /\ SumOver(g, T) = g[x] + SumOver(g, T \ {x})
  BY <1>4, <1>6, SumTakes
<1>10. SumOver(f, T \ {x}) \in Int /\ SumOver(g, T \ {x}) \in Int /\ f[x] \in Int /\ g[x] \in Int
  BY <1>4, <1>6, <1>7, SumType
<1>11. Cardinality(T \ {x}) = Cardinality(T) - 1 /\ Cardinality(T) \in Nat
  BY <1>4, <1>6, FS_RemoveElement, FS_CardinalityType
<1>12. -30 <= 60 * f[x] - 100 * g[x] /\ 60 * f[x] - 100 * g[x] <= 30
  BY <1>4, <1>6
<1>13. QED
  BY <1>4, <1>8, <1>9, <1>10, <1>11, <1>12

(* Worklogs, summed and rounded day by day - whatever day h says they are  *)
(* of - come to the rounded sum of all of them, to within half a hundredth *)
(* for each day and for the total.                                         *)
LEMMA DaysNear ==
  ASSUME RowsHold, NEW logs \in SUBSET rows.worklogs, NEW D, IsFiniteSet(D),
         NEW h, \A l \in logs : h[l] \in D,
         NEW f, f = [d \in D |-> Hours(Minutes({l \in logs : h[l] = d}))]
  PROVE  Near(SumOf(f), Hours(Minutes(logs)), Cardinality(DOMAIN f))
<1> DEFINE g == [d \in D |-> SumOver(Mins, {l \in logs : h[l] = d})]
           total == Minutes(logs)
<1>1. IsFiniteSet(logs) /\ total = SumOver(Mins, logs) /\ total \in Nat /\ \A l \in logs : Mins[l] \in Nat
  BY MinutesAre
<1>3. \A d \in D : g[d] = Minutes({l \in logs : h[l] = d}) /\ g[d] \in Nat
  <2> SUFFICES ASSUME NEW d \in D PROVE g[d] = Minutes({l \in logs : h[l] = d}) /\ g[d] \in Nat
    OBVIOUS
  <2> DEFINE L == {l \in logs : h[l] = d}
  <2>1. L \in SUBSET rows.worklogs /\ g[d] = SumOver(Mins, L)
    OBVIOUS
  <2> HIDE DEF L, g
  <2>2. Minutes(L) = SumOver(Mins, L) /\ Minutes(L) \in Nat
    BY <2>1, MinutesAre
  <2>3. QED
    BY <2>1, <2>2 DEF L
<1>4. \A l \in logs : h[l] \in D
  OBVIOUS
<1>5. \A d \in D : f[d] = Hours(g[d])
  BY <1>3
<1>6. DOMAIN f = D
  OBVIOUS
<1>7. SumOver(Mins, logs) = SumOver(g, D)
  BY <1>1, <1>4, SumOfFibres
<1> HIDE DEF g, total
<1>8. \A d \in D : /\ f[d] \in Int /\ g[d] \in Int
                   /\ -30 <= 60 * f[d] - 100 * g[d] /\ 60 * f[d] - 100 * g[d] <= 30
  <2> SUFFICES ASSUME NEW d \in D
               PROVE  /\ f[d] \in Int /\ g[d] \in Int
                      /\ -30 <= 60 * f[d] - 100 * g[d] /\ 60 * f[d] - 100 * g[d] <= 30
    OBVIOUS
  <2>1. PICK m \in Nat : m = g[d]
    BY <1>3
  <2>2. Hours(m) \in Int /\ -30 <= 60 * Hours(m) - 100 * m /\ 60 * Hours(m) - 100 * m <= 30
    BY HoursRound
  <2>3. f[d] = Hours(m)
    BY <1>5, <2>1
  <2>4. QED
    BY <2>1, <2>2, <2>3
<1>x. /\ -30 * Cardinality(D) <= 60 * SumOver(f, D) - 100 * SumOver(g, D)
      /\ 60 * SumOver(f, D) - 100 * SumOver(g, D) <= 30 * Cardinality(D)
  BY <1>8, RoundedSum, ZenonT(30)
<1> DEFINE a == SumOver(f, D)
           b == Hours(total)
           n == Cardinality(D)
<1>9. -30 * n <= 60 * a - 100 * total /\ 60 * a - 100 * total <= 30 * n
  BY <1>1, <1>7, <1>x
<1>10. a \in Int /\ n \in Nat
  BY <1>8, SumType, FS_CardinalityType
<1>11. b \in Int /\ -30 <= 60 * b - 100 * total /\ 60 * b - 100 * total <= 30
  BY <1>1, HoursRound
<1>12. SumOf(f) = a
  BY <1>6 DEF SumOf, SumOver
<1> HIDE DEF a, b, n
<1>13. Near(a, b, n)
  <2>1. total \in Int
    BY <1>1
  <2>2. CASE a > b
    <3>1. 2 * (a - b) <= n + 1
      BY <1>9, <1>10, <1>11, <2>1
    <3>2. QED
      BY <2>2, <3>1 DEF Near
  <2>3. CASE ~(a > b)
    <3>1. 2 * (b - a) <= n + 1
      BY <1>9, <1>10, <1>11, <2>1
    <3>2. QED
      BY <2>3, <3>1 DEF Near
  <2>4. QED
    BY <2>2, <2>3
<1>14. QED
  BY <1>6, <1>12, <1>13 DEF a, b, n, total

(* The worklogs of the panel: none when its query failed.                  *)
PanelLogs(u, failed) ==
  IF "WORKLOGS_PANEL" \in failed THEN {}
  ELSE LoggedBy(rows, {rows.link[u]} \ {NoOne}, BoardRange(NoOne, NoOne, now))

(* The comments of the panel: none when its query failed.                  *)
PanelComments(u, failed) ==
  IF "COMMENTS_PANEL" \in failed THEN {}
  ELSE WrittenBy(rows, {rows.link[u]} \ {NoOne}, BoardRange(NoOne, NoOne, now))

(* The comments on the timeline of an issue.                               *)
CommentEvents(i, failed) ==
  {[type |-> "COMMENT", of |-> c] :
     c \in IF "COMMENTS_TIMELINE" \in failed THEN {}
           ELSE {c \in rows.comments : c.issue = i /\ InRange(c.at, BoardRange(NoOne, NoOne, now))}}

(* The worklogs on the timeline of an issue.                               *)
WorklogEvents(i, failed) ==
  {[type |-> "WORKLOG", of |-> l] :
     l \in IF "WORKLOGS_TIMELINE" \in failed THEN {}
           ELSE {l \in rows.worklogs : l.issue = i /\ InRange(l.at, BoardRange(NoOne, NoOne, now))}}

(* What is on the timeline of an issue.                                    *)
EventsOn(i, failed) == CommentEvents(i, failed) \cup WorklogEvents(i, failed)

(* What the fields of a board are, in the terms above.                     *)
BoardHas(u, failed, b) ==
  /\ b.range = BoardRange(NoOne, NoOne, now)
  /\ b.issues = BoardIssues(rows, {rows.link[u]} \ {NoOne}, b.range)
  /\ b.comments = UpTo(MaxComments, Arranged(PanelComments(u, failed),
                                             [c \in PanelComments(u, failed) |-> <<-c.at, c.id>>]))
  /\ b.events = [i \in b.issues |-> Arranged(EventsOn(i, failed), [e \in EventsOn(i, failed) |-> <<-EventTime(e), 0>>])]
  /\ b.timeline = WorklogTimeline(PanelLogs(u, failed))
  /\ b.metrics.hours = Hours(Minutes(PanelLogs(u, failed)))
  /\ {rows.link[u]} \ {NoOne} # {} /\ b.issues # {} => b.warnings = failed

(* The board that is built has these fields.                               *)
LEMMA BoardFields ==
  ASSUME NEW u, NEW failed, NEW b, b = BuildFocusBoard(rows, u, NoOne, NoOne, now, failed)
  PROVE  BoardHas(u, failed, b)
<1>1. b.range = BoardRange(NoOne, NoOne, now)
  BY DEF BuildFocusBoard
<1>2. b.issues = BoardIssues(rows, {rows.link[u]} \ {NoOne}, b.range)
  BY <1>1 DEF BuildFocusBoard
<1>3. b.comments = UpTo(MaxComments, Arranged(PanelComments(u, failed),
                                              [c \in PanelComments(u, failed) |-> <<-c.at, c.id>>]))
  BY DEF BuildFocusBoard, PanelComments, SortedBy
<1>4. b.events = [i \in b.issues |-> Arranged(EventsOn(i, failed), [e \in EventsOn(i, failed) |-> <<-EventTime(e), 0>>])]
  BY DEF BuildFocusBoard, EventsOn, CommentEvents, WorklogEvents, SortedBy
<1>5. b.timeline = WorklogTimeline(PanelLogs(u, failed))
  BY DEF BuildFocusBoard, PanelLogs
<1>6. b.metrics.hours = Hours(Minutes(PanelLogs(u, failed)))
  <2>1. b.metrics = BoardMetrics(rows, BoardIssues(rows, {rows.link[u]} \ {NoOne}, BoardRange(NoOne, NoOne, now)),
                                 PanelLogs(u, failed), BoardRange(NoOne, NoOne, now))
    BY DEF BuildFocusBoard, PanelLogs
  <2>2. QED
    BY <2>1 DEF BoardMetrics
<1>7. {rows.link[u]} \ {NoOne} # {} /\ b.issues # {} => b.warnings = failed
  <2>1. b.warnings = CASE {rows.link[u]} \ {NoOne} = {} -> {} [] b.issues = {} -> failed \ TimelineQueries
                       [] OTHER -> failed
    BY DEF BuildFocusBoard
  <2>2. QED
    BY <2>1
<1>8. QED
  BY <1>1, <1>2, <1>3, <1>4, <1>5, <1>6, <1>7 DEF BoardHas

(* The sorted timeline of an issue has all its events and no other.        *)
LEMMA EventsListed ==
  ASSUME RowsHold, NEW i, NEW failed
  PROVE  ToSet(Arranged(EventsOn(i, failed), [e \in EventsOn(i, failed) |-> <<-EventTime(e), 0>>])) = EventsOn(i, failed)
<1> DEFINE S == EventsOn(i, failed)
           key == [e \in S |-> <<-EventTime(e), 0>>]
           K == IF "COMMENTS_TIMELINE" \in failed THEN {}
                ELSE {c \in rows.comments : c.issue = i /\ InRange(c.at, BoardRange(NoOne, NoOne, now))}
           L == IF "WORKLOGS_TIMELINE" \in failed THEN {}
                ELSE {l \in rows.worklogs : l.issue = i /\ InRange(l.at, BoardRange(NoOne, NoOne, now))}
           told == [c \in K |-> [type |-> "COMMENT", of |-> c]]
           logged == [l \in L |-> [type |-> "WORKLOG", of |-> l]]
<1>1. IsFiniteSet(K) /\ IsFiniteSet(L) /\ K \subseteq CommentRows /\ L \subseteq WorklogRows
  <2>1. K \subseteq rows.comments /\ L \subseteq rows.worklogs
    OBVIOUS
  <2>2. rows.comments \subseteq CommentRows /\ rows.worklogs \subseteq WorklogRows
    BY RowsKinds DEF RowsHold
  <2> HIDE DEF K, L
  <2>3. QED
    BY <2>1, <2>2, FS_Subset DEF RowsHold
<1>2. S = {told[c] : c \in K} \cup {logged[l] : l \in L}
  BY DEF EventsOn, CommentEvents, WorklogEvents
<1>3. \A e \in S : e.of.at \in Int
  <2>1. \A c \in CommentRows : c.at \in Int
    BY DEF CommentRows
  <2>2. \A l \in WorklogRows : l.at \in Int
    BY DEF WorklogRows
  <2>k. \A c \in K : told[c].of = c
    OBVIOUS
  <2>l. \A l \in L : logged[l].of = l
    OBVIOUS
  <2> HIDE DEF S, K, L, told, logged
  <2>3. \A e \in S : e.of \in K \cup L
    BY <1>2, <2>k, <2>l
  <2>4. QED
    BY <1>1, <2>1, <2>2, <2>3
<1> HIDE DEF S, K, L, told, logged
<1>4. IsFiniteSet(S)
  <2>1. IsFiniteSet({told[c] : c \in K}) /\ IsFiniteSet({logged[l] : l \in L})
    BY <1>1, ImageFinite
  <2>2. QED
    BY <1>2, <2>1, FS_Union
<1>5. Keys(S, key)
  <2> SUFFICES ASSUME NEW e \in S PROVE \E a, b \in Int : key[e] = <<a, b>>
    BY DEF Keys
  <2>1. key[e] = <<-EventTime(e), 0>> /\ -EventTime(e) \in Int
    BY <1>3 DEF EventTime
  <2>2. QED
    BY <2>1
<1> HIDE DEF key
<1>6. Enumerates(Arranged(S, key), S)
  BY <1>4, <1>5, ArrangedOnce
<1>7. ToSet(Arranged(S, key)) = S
  BY <1>6 DEF Enumerates, ToSet
<1>8. QED
  BY <1>7 DEF S, key

(* The panel of comments, sorted and cut, shows comments of the panel.     *)
LEMMA PanelListed ==
  ASSUME RowsHold, NEW u, NEW failed
  PROVE  ToSet(UpTo(MaxComments, Arranged(PanelComments(u, failed), [c \in PanelComments(u, failed) |-> <<-c.at, c.id>>])))
           \subseteq PanelComments(u, failed)
<1> DEFINE S == PanelComments(u, failed)
           key == [c \in S |-> <<-c.at, c.id>>]
<1>1. S \subseteq rows.comments /\ rows.comments \subseteq CommentRows
  BY RowsKinds DEF PanelComments, WrittenBy, RowsHold
<1>2. IsFiniteSet(S)
  BY <1>1, FS_Subset DEF RowsHold
<1>3. \A c \in S : c.at \in Int /\ c.id \in Int
  BY <1>1 DEF CommentRows
<1> HIDE DEF S
<1>4. Keys(S, key)
  <2> SUFFICES ASSUME NEW c \in S PROVE \E a, b \in Int : key[c] = <<a, b>>
    BY DEF Keys
  <2>1. key[c] = <<-c.at, c.id>> /\ -c.at \in Int /\ c.id \in Int
    BY <1>3
  <2>2. QED
    BY <2>1
<1> HIDE DEF key
<1>5. Enumerates(Arranged(S, key), S)
  BY <1>2, <1>4, ArrangedOnce
<1>6. MaxComments \in Nat
  BY CommentsAssumption
<1>7. ToSet(UpTo(MaxComments, Arranged(S, key))) \subseteq S
  BY <1>5, <1>6, UpToTakes DEF Enumerates
<1>8. QED
  BY <1>7 DEF S, key

(* What a board promises, of what its timelines show and of what its user  *)
(* logged in the range.                                                    *)
BoardTells(b, shown, logged) ==
  /\ ToSet(b.comments) \subseteq shown \/ "COMMENTS_TIMELINE" \in b.warnings
  /\ logged \subseteq shown \/ "WORKLOGS_TIMELINE" \in b.warnings
  /\ Near(SumOf(b.timeline), b.metrics.hours, Cardinality(DOMAIN b.timeline))
  /\ b.metrics.hours = Hours(Minutes(logged)) \/ "WORKLOGS_PANEL" \in b.warnings

(* The comments and the worklogs on the timelines of a board.              *)
ShownOn(b) == {e.of : e \in UNION {ToSet(b.events[i]) : i \in b.issues}}

(* What the board's user logged in its range.                              *)
LoggedFor(u, b) == LoggedBy(rows, {rows.link[u]} \ {NoOne}, b.range)

(* A board keeps its promises whichever of its queries failed: an issue    *)
(* that its user commented or logged on is on the board, so its timeline   *)
(* has the comment or the worklog unless the query for it failed, which is *)
(* then a warning.                                                         *)
LEMMA FocusTells ==
  ASSUME RowsHold, NEW u, NEW failed \in {{}} \cup {{q} : q \in Queries},
         NEW b, b = BuildFocusBoard(rows, u, NoOne, NoOne, now, failed),
         NEW shown, shown = ShownOn(b), NEW logged, logged = LoggedFor(u, b)
  PROVE  BoardTells(b, shown, logged)
<1> DEFINE A == {rows.link[u]} \ {NoOne}
           R == BoardRange(NoOne, NoOne, now)
           written == WrittenBy(rows, A, R)
<1>0. BoardHas(u, failed, b)
  BY BoardFields
<1>1. /\ b.range = R /\ b.issues = BoardIssues(rows, A, R)
      /\ b.comments = UpTo(MaxComments, Arranged(PanelComments(u, failed), [c \in PanelComments(u, failed) |-> <<-c.at, c.id>>]))
      /\ b.events = [i \in b.issues |-> Arranged(EventsOn(i, failed), [e \in EventsOn(i, failed) |-> <<-EventTime(e), 0>>])]
      /\ b.timeline = WorklogTimeline(PanelLogs(u, failed))
      /\ b.metrics.hours = Hours(Minutes(PanelLogs(u, failed)))
      /\ A # {} /\ b.issues # {} => b.warnings = failed
  BY <1>0 DEF BoardHas
<1>2. /\ logged = LoggedBy(rows, A, R) /\ logged \subseteq rows.worklogs
      /\ written \subseteq rows.comments
      /\ \A l \in logged : l.author \in A /\ InRange(l.at, R)
      /\ \A c \in written : c.author \in A /\ InRange(c.at, R)
  BY <1>1 DEF LoggedFor, LoggedBy, WrittenBy
<1>3. (\A l \in logged : l.issue \in b.issues) /\ (\A c \in written : c.issue \in b.issues)
  BY <1>1, <1>2 DEF BoardIssues
<1>4. A = {} => logged = {} /\ written = {}
  BY <1>2
<1>5. b.issues = {} => logged = {} /\ written = {}
  BY <1>3
<1>6. \A i \in b.issues : ToSet(b.events[i]) = EventsOn(i, failed)
  BY <1>1, EventsListed
<1>7. shown = {e.of : e \in UNION {EventsOn(i, failed) : i \in b.issues}}
  <2>1. shown = {e.of : e \in UNION {ToSet(b.events[i]) : i \in b.issues}}
    BY DEF ShownOn
  <2>2. QED
    BY <1>6, <2>1
<1> HIDE DEF A, R
<1>8. ToSet(b.comments) \subseteq written
  <2>1. ToSet(b.comments) \subseteq PanelComments(u, failed)
    BY <1>1, PanelListed
  <2>2. PanelComments(u, failed) \subseteq written
    BY DEF PanelComments, A, R
  <2>3. QED
    BY <2>1, <2>2
<1>9. PanelLogs(u, failed) = (IF "WORKLOGS_PANEL" \in failed THEN {} ELSE logged)
  BY <1>2 DEF PanelLogs, A, R
<1>10. "COMMENTS_TIMELINE" \notin failed => written \subseteq shown
  <2> SUFFICES ASSUME "COMMENTS_TIMELINE" \notin failed, NEW c \in written PROVE c \in shown
    OBVIOUS
  <2>1. [type |-> "COMMENT", of |-> c] \in CommentEvents(c.issue, failed)
    BY <1>2 DEF CommentEvents, R
  <2>2. [type |-> "COMMENT", of |-> c] \in EventsOn(c.issue, failed)
    BY <2>1 DEF EventsOn
  <2>3. QED
    BY <1>3, <1>7, <2>2
<1>11. "WORKLOGS_TIMELINE" \notin failed => logged \subseteq shown
  <2> SUFFICES ASSUME "WORKLOGS_TIMELINE" \notin failed, NEW l \in logged PROVE l \in shown
    OBVIOUS
  <2>1. [type |-> "WORKLOG", of |-> l] \in WorklogEvents(l.issue, failed)
    BY <1>2 DEF WorklogEvents, R
  <2>2. [type |-> "WORKLOG", of |-> l] \in EventsOn(l.issue, failed)
    BY <2>1 DEF EventsOn
  <2>x. [type |-> "WORKLOG", of |-> l].of = l
    OBVIOUS
  <2>3. QED
    BY <1>3, <1>7, <2>2, <2>x
<1> HIDE DEF written
<1>12. A # {} /\ b.issues # {} => b.warnings = failed
  BY <1>1
<1>14. ToSet(b.comments) \subseteq shown \/ "COMMENTS_TIMELINE" \in b.warnings
  BY <1>4, <1>5, <1>8, <1>10, <1>12
<1>15. logged \subseteq shown \/ "WORKLOGS_TIMELINE" \in b.warnings
  BY <1>4, <1>5, <1>11, <1>12
<1>16. b.metrics.hours = Hours(Minutes(logged)) \/ "WORKLOGS_PANEL" \in b.warnings
  <2>1. logged = {} => PanelLogs(u, failed) = logged
    BY <1>9
  <2>2. "WORKLOGS_PANEL" \notin failed => PanelLogs(u, failed) = logged
    BY <1>9
  <2>3. QED
    BY <1>1, <1>4, <1>5, <1>12, <2>1, <2>2
<1>17. Near(SumOf(b.timeline), b.metrics.hours, Cardinality(DOMAIN b.timeline))
  <2> DEFINE L == PanelLogs(u, failed)
             day == [l \in L |-> LocalDay(l.at)]
             D == {day[l] : l \in L}
             f == [d \in D |-> Hours(Minutes({l \in L : day[l] = d}))]
  <2>1. L \in SUBSET rows.worklogs
    BY <1>2, <1>9
  <2>2. IsFiniteSet(L)
    BY <2>1, FS_Subset DEF RowsHold
  <2>3. D = {LocalDay(l.at) : l \in L} /\ \A d : {l \in L : day[l] = d} = {l \in L : LocalDay(l.at) = d}
    OBVIOUS
  <2>4. \A l \in L : day[l] \in D
    OBVIOUS
  <2>5. b.timeline = f
    BY <1>1, <2>3 DEF WorklogTimeline
  <2> HIDE DEF L
  <2>6. IsFiniteSet(D)
    <3> HIDE DEF day
    <3>1. QED
      BY <2>2, ImageFinite
  <2> HIDE DEF D
  <2>7. Near(SumOf(f), Hours(Minutes(L)), Cardinality(DOMAIN f))
    <3> HIDE DEF day
    <3>1. QED
      BY <2>1, <2>4, <2>6, DaysNear
  <2> HIDE DEF f
  <2>8. QED
    BY <1>1, <2>5, <2>7 DEF L
<1>18. QED
  BY <1>14, <1>15, <1>16, <1>17 DEF BoardTells

(* Any board of any user does, over rows of the right shape.               *)
LEMMA FocusOfRows == RowsHold => FocusIsComplete
<1> SUFFICES ASSUME RowsHold, NEW u \in Users, NEW failed \in {{}} \cup {{q} : q \in Queries}
             PROVE  LET board == BuildFocusBoard(rows, u, NoOne, NoOne, now, failed)
                        shown == {e.of : e \in UNION {ToSet(board.events[i]) : i \in board.issues}}
                        logged == LoggedBy(rows, {rows.link[u]} \ {NoOne}, board.range)
                    IN /\ ToSet(board.comments) \subseteq shown \/ "COMMENTS_TIMELINE" \in board.warnings
                       /\ logged \subseteq shown \/ "WORKLOGS_TIMELINE" \in board.warnings
                       /\ Near(SumOf(board.timeline), board.metrics.hours, Cardinality(DOMAIN board.timeline))
                       /\ board.metrics.hours = Hours(Minutes(logged)) \/ "WORKLOGS_PANEL" \in board.warnings
  BY DEF FocusIsComplete
<1>1. PICK b : b = BuildFocusBoard(rows, u, NoOne, NoOne, now, failed)
  OBVIOUS
<1>2. PICK shown : shown = ShownOn(b)
  OBVIOUS
<1>3. PICK logged : logged = LoggedFor(u, b)
  OBVIOUS
<1>4. BoardTells(b, shown, logged)
  BY <1>1, <1>2, <1>3, FocusTells
<1>5. /\ shown = {e.of : e \in UNION {ToSet(b.events[i]) : i \in b.issues}}
      /\ logged = LoggedBy(rows, {rows.link[u]} \ {NoOne}, b.range)
  <2>1. shown = {e.of : e \in UNION {ToSet(b.events[i]) : i \in b.issues}}
    BY <1>2 DEF ShownOn
  <2>2. logged = LoggedBy(rows, {rows.link[u]} \ {NoOne}, b.range)
    BY <1>3 DEF LoggedFor
  <2>3. QED
    BY <2>1, <2>2
<1>6. /\ ToSet(b.comments) \subseteq shown \/ "COMMENTS_TIMELINE" \in b.warnings
      /\ logged \subseteq shown \/ "WORKLOGS_TIMELINE" \in b.warnings
      /\ Near(SumOf(b.timeline), b.metrics.hours, Cardinality(DOMAIN b.timeline))
      /\ b.metrics.hours = Hours(Minutes(logged)) \/ "WORKLOGS_PANEL" \in b.warnings
  BY <1>4 DEF BoardTells
<1>7. QED
  BY <1>1, <1>5, <1>6, ZenonT(30)

(* In every reachable state, for every user and whichever query failed,    *)
(* the focus board shows on its timelines every comment of its panel and   *)
(* every worklog its user logged in the range, or warns that it could not; *)
(* its hours are those of all these worklogs, or it warns; and the daily   *)
(* figures of its timeline add up to its hours but for their rounding      *)
(* (buildFocusBoard, buildWorklogTimeline).                                *)
THEOREM FocusAlwaysComplete == Spec => []FocusIsComplete
BY RowsHoldInit, RowsHoldNext, FocusOfRows, PTL DEF Spec

-----------------------------------------------------------------------------
(***************************************************************************)
(* The performance reviews: those of two periods that follow each other,   *)
(* put together, are the review of both.                                   *)
(***************************************************************************)

(* The sum of two.                                                         *)
LEMMA SumOfTwo ==
  ASSUME NEW f, DOMAIN f = {1, 2}, f[1] \in Int, f[2] \in Int
  PROVE  SumOf(f) = f[1] + f[2]
<1>1. IsFiniteSet({2}) /\ 1 \notin {2} /\ {2} \cup {1} = {1, 2}
  <2>1. IsFiniteSet({2})
    BY FS_Singleton
  <2>2. 1 \notin {2} /\ {2} \cup {1} = {1, 2}
    OBVIOUS
  <2>3. QED
    BY <2>1, <2>2
<1>2. SumOver(f, {2} \cup {1}) = f[1] + SumOver(f, {2})
  BY <1>1, SumAdds
<1>3. SumOver(f, {2}) = f[2]
  BY SumSingle
<1>4. SumOf(f) = SumOver(f, {1, 2})
  BY DEF SumOf, SumOver
<1>5. QED
  BY <1>1, <1>2, <1>3, <1>4

(* What is combined of two reviews.                                        *)
Two(x, y) == [i \in {1, 2} |-> IF i = 1 THEN x ELSE y]

(* The sum of two figures.                                                 *)
LEMMA SumTwo == ASSUME NEW x \in Int, NEW y \in Int PROVE SumOf(Two(x, y)) = x + y
<1>1. PICK f : f = Two(x, y)
  OBVIOUS
<1>2. DOMAIN f = {1, 2} /\ f[1] = x /\ f[2] = y
  BY <1>1 DEF Two
<1>3. SumOf(f) = f[1] + f[2]
  BY <1>2, SumOfTwo
<1>4. QED
  BY <1>1, <1>2, <1>3

(* The counts of a review are natural numbers.                             *)
Counted(m) ==
  /\ m.committed \in Nat /\ m.completed \in Nat /\ m.reopened \in Nat /\ m.bugs \in Nat
  /\ m.authored \in Nat /\ m.mentions \in Nat /\ m.links \in Nat
  /\ m.blockers.resolved \in Nat /\ m.blockers.active \in Nat

(* What each field of a combined review is, in those of its parts.         *)
CombinedHas(c, p, q) ==
  /\ c.committed = p.committed + q.committed
  /\ c.completed = p.completed + q.completed
  /\ c.reopened = p.reopened + q.reopened
  /\ c.bugs = p.bugs + q.bugs
  /\ c.authored = p.authored + q.authored
  /\ c.mentions = p.mentions + q.mentions
  /\ c.links = p.links + q.links
  /\ c.blockers.resolved = p.blockers.resolved + q.blockers.resolved
  /\ c.blockers.active = p.blockers.active + q.blockers.active
  /\ c.blockers = [resolved |-> c.blockers.resolved, active |-> c.blockers.active]
  /\ c.ratio = IF c.committed = 0 THEN NoOne ELSE Rounded(100 * c.completed, c.committed)
  /\ c.weekly = SumMaps(Two(p.weekly, q.weekly)) /\ c.daily = SumMaps(Two(p.daily, q.daily))
  /\ c.totalHours = SumOf(c.daily) /\ c.spread = Spread(c.daily)
  /\ c.averageHours = Rounded(SumOf(c.daily), Cardinality(DOMAIN c.daily))
  /\ c.highlights = ToSet(p.highlights) \cup ToSet(q.highlights)
  /\ p.warnings \cup q.warnings \subseteq c.warnings

(* The review that is combined has these fields.                           *)
LEMMA CombinedFields ==
  ASSUME NEW p, NEW q, Counted(p), Counted(q), NEW c, c = CombinePerformanceMetrics(<<p, q>>)
  PROVE  CombinedHas(c, p, q)
<1>1. c.committed = p.committed + q.committed
  <2>1. [i \in DOMAIN <<p, q>> |-> <<p, q>>[i].committed] = Two(p.committed, q.committed)
    BY DEF Two
  <2>2. c.committed = SumOf(Two(p.committed, q.committed))
    BY <2>1 DEF CombinePerformanceMetrics
  <2>3. QED
    BY <2>2, SumTwo DEF Counted
<1>2. c.completed = p.completed + q.completed
  <2>1. [i \in DOMAIN <<p, q>> |-> <<p, q>>[i].completed] = Two(p.completed, q.completed)
    BY DEF Two
  <2>2. c.completed = SumOf(Two(p.completed, q.completed))
    BY <2>1 DEF CombinePerformanceMetrics
  <2>3. QED
    BY <2>2, SumTwo DEF Counted
<1>3. c.reopened = p.reopened + q.reopened
  <2>1. [i \in DOMAIN <<p, q>> |-> <<p, q>>[i].reopened] = Two(p.reopened, q.reopened)
    BY DEF Two
  <2>2. c.reopened = SumOf(Two(p.reopened, q.reopened))
    BY <2>1 DEF CombinePerformanceMetrics
  <2>3. QED
    BY <2>2, SumTwo DEF Counted
<1>4. c.bugs = p.bugs + q.bugs
  <2>1. [i \in DOMAIN <<p, q>> |-> <<p, q>>[i].bugs] = Two(p.bugs, q.bugs)
    BY DEF Two
  <2>2. c.bugs = SumOf(Two(p.bugs, q.bugs))
    BY <2>1 DEF CombinePerformanceMetrics
  <2>3. QED
    BY <2>2, SumTwo DEF Counted
<1>5. c.authored = p.authored + q.authored
  <2>1. [i \in DOMAIN <<p, q>> |-> <<p, q>>[i].authored] = Two(p.authored, q.authored)
    BY DEF Two
  <2>2. c.authored = SumOf(Two(p.authored, q.authored))
    BY <2>1 DEF CombinePerformanceMetrics
  <2>3. QED
    BY <2>2, SumTwo DEF Counted
<1>6. c.mentions = p.mentions + q.mentions
  <2>1. [i \in DOMAIN <<p, q>> |-> <<p, q>>[i].mentions] = Two(p.mentions, q.mentions)
    BY DEF Two
  <2>2. c.mentions = SumOf(Two(p.mentions, q.mentions))
    BY <2>1 DEF CombinePerformanceMetrics
  <2>3. QED
    BY <2>2, SumTwo DEF Counted
<1>7. c.links = p.links + q.links
  <2>1. [i \in DOMAIN <<p, q>> |-> <<p, q>>[i].links] = Two(p.links, q.links)
    BY DEF Two
  <2>2. c.links = SumOf(Two(p.links, q.links))
    BY <2>1 DEF CombinePerformanceMetrics
  <2>3. QED
    BY <2>2, SumTwo DEF Counted
<1>8. c.blockers.resolved = p.blockers.resolved + q.blockers.resolved
  <2>1. [i \in DOMAIN <<p, q>> |-> <<p, q>>[i].blockers.resolved] = Two(p.blockers.resolved, q.blockers.resolved)
    BY DEF Two
  <2>2. c.blockers.resolved = SumOf(Two(p.blockers.resolved, q.blockers.resolved))
    BY <2>1 DEF CombinePerformanceMetrics
  <2>3. QED
    BY <2>2, SumTwo DEF Counted
<1>9. c.blockers.active = p.blockers.active + q.blockers.active
  <2>1. [i \in DOMAIN <<p, q>> |-> <<p, q>>[i].blockers.active] = Two(p.blockers.active, q.blockers.active)
    BY DEF Two
  <2>2. c.blockers.active = SumOf(Two(p.blockers.active, q.blockers.active))
    BY <2>1 DEF CombinePerformanceMetrics
  <2>3. QED
    BY <2>2, SumTwo DEF Counted
<1>10. c.ratio = IF c.committed = 0 THEN NoOne ELSE Rounded(100 * c.completed, c.committed)
  BY DEF CombinePerformanceMetrics
<1>11. c.weekly = SumMaps(Two(p.weekly, q.weekly)) /\ c.daily = SumMaps(Two(p.daily, q.daily))
  <2>1. [i \in DOMAIN <<p, q>> |-> <<p, q>>[i].weekly] = Two(p.weekly, q.weekly)
    BY DEF Two
  <2>2. [i \in DOMAIN <<p, q>> |-> <<p, q>>[i].daily] = Two(p.daily, q.daily)
    BY DEF Two
  <2>3. c.weekly = SumMaps(Two(p.weekly, q.weekly))
    BY <2>1 DEF CombinePerformanceMetrics
  <2>4. c.daily = SumMaps(Two(p.daily, q.daily))
    BY <2>2 DEF CombinePerformanceMetrics
  <2>5. QED
    BY <2>3, <2>4
<1>12. /\ c.totalHours = SumOf(c.daily) /\ c.spread = Spread(c.daily)
      /\ c.averageHours = Rounded(SumOf(c.daily), Cardinality(DOMAIN c.daily))
      /\ c.blockers = [resolved |-> c.blockers.resolved, active |-> c.blockers.active]
  BY DEF CombinePerformanceMetrics
<1>13. c.highlights = ToSet(p.highlights) \cup ToSet(q.highlights)
  <2>1. c.highlights = UNION {ToSet(<<p, q>>[i].highlights) : i \in DOMAIN <<p, q>>}
    BY DEF CombinePerformanceMetrics
  <2>2. QED
    BY <2>1
<1>14. p.warnings \cup q.warnings \subseteq c.warnings
  <2>1. c.warnings = UNION {<<p, q>>[i].warnings : i \in DOMAIN <<p, q>>} \cup {"PORTFOLIO_VIEW"}
    BY DEF CombinePerformanceMetrics
  <2>2. QED
    BY <2>1
<1>15. QED
  BY <1>1, <1>2, <1>3, <1>4, <1>5, <1>6, <1>7, <1>8, <1>9, <1>10, <1>11, <1>12, <1>13, <1>14 DEF CombinedHas

(* Y and Z share nothing and make up the finite set X.                     *)
Parts(X, Y, Z) == X = Y \cup Z /\ Y \cap Z = {} /\ IsFiniteSet(X)

(* The cardinalities of the parts add up.                                  *)
LEMMA PartsCount ==
  ASSUME NEW X, NEW Y, NEW Z, Parts(X, Y, Z)
  PROVE  /\ IsFiniteSet(Y) /\ IsFiniteSet(Z) /\ Cardinality(Y) \in Nat /\ Cardinality(Z) \in Nat
         /\ Cardinality(X) = Cardinality(Y) + Cardinality(Z)
<1>1. IsFiniteSet(X) /\ X = Y \cup Z /\ Y \cap Z = {}
  BY DEF Parts
<1>2. IsFiniteSet(Y) /\ IsFiniteSet(Z)
  <2>1. Y \subseteq X /\ Z \subseteq X
    BY <1>1
  <2>2. QED
    BY <1>1, <2>1, FS_Subset
<1>3. Cardinality(Y) \in Nat /\ Cardinality(Z) \in Nat
  BY <1>2, FS_CardinalityType
<1>4. Cardinality(Y \cup Z) = Cardinality(Y) + Cardinality(Z) - Cardinality(Y \cap Z)
  BY <1>2, FS_Union
<1>5. Cardinality(Y \cap Z) = 0
  BY <1>1, FS_EmptySet
<1>6. QED
  BY <1>1, <1>2, <1>3, <1>4, <1>5

(* The figure of a day or a week, 0 when it is not told.                   *)
ValueAt(m, d) == IF d \in DOMAIN m THEN m[d] ELSE 0

(* Two tables of figures, added day by day or week by week.                *)
Merged(m1, m2) == [d \in DOMAIN m1 \cup DOMAIN m2 |-> ValueAt(m1, d) + ValueAt(m2, d)]

(* The combination adds the tables.                                        *)
LEMMA MapsOfTwo ==
  ASSUME NEW m1, NEW m2, \A d \in DOMAIN m1 : m1[d] \in Int, \A d \in DOMAIN m2 : m2[d] \in Int
  PROVE  SumMaps(Two(m1, m2)) = Merged(m1, m2)
<1>1. PICK maps : maps = Two(m1, m2)
  OBVIOUS
<1>2. DOMAIN maps = {1, 2} /\ maps[1] = m1 /\ maps[2] = m2
  BY <1>1 DEF Two
<1> DEFINE D == UNION {DOMAIN maps[i] : i \in DOMAIN maps}
           V(d) == [i \in DOMAIN maps |-> IF d \in DOMAIN maps[i] THEN maps[i][d] ELSE 0]
<1>3. D = DOMAIN m1 \cup DOMAIN m2
  BY <1>2
<1>4. SumMaps(maps) = [d \in D |-> SumOf(V(d))]
  BY DEF SumMaps
<1>5. \A d \in D : SumOf(V(d)) = ValueAt(m1, d) + ValueAt(m2, d)
  <2> SUFFICES ASSUME NEW d \in D PROVE SumOf(V(d)) = ValueAt(m1, d) + ValueAt(m2, d)
    OBVIOUS
  <2>1. V(d) = Two(ValueAt(m1, d), ValueAt(m2, d))
    BY <1>2 DEF Two, ValueAt
  <2>2. ValueAt(m1, d) \in Int /\ ValueAt(m2, d) \in Int
    BY DEF ValueAt
  <2> HIDE DEF V
  <2>3. QED
    BY <2>1, <2>2, SumTwo
<1> HIDE DEF V, D
<1>6. SumMaps(maps) = [d \in D |-> ValueAt(m1, d) + ValueAt(m2, d)]
  BY <1>4, <1>5
<1>7. QED
  BY <1>1, <1>3, <1>6 DEF Merged

(* The blocked issues among some.                                          *)
Blocked(w, issues) == {i \in issues : IsBlocked(w.issue[i].status)}

(* Those of them that are done.                                            *)
Resolved(w, issues) == Blocked(w, issues) \cap Done(w, issues)

(* Those that are not.                                                     *)
Unresolved(w, issues) == Blocked(w, issues) \ Done(w, issues)

(* The teammate's own comments among some.                                 *)
Authored(comments, a) == comments \ {c \in comments : c.author # a}

(* What each field of a review is, in its issues, worklogs and comments.   *)
ReviewHas(b, w, a, range, issues, logs, comments) ==
  /\ b.range = range
  /\ b.committed = Cardinality(issues) /\ b.completed = Cardinality(Done(w, issues))
  /\ b.ratio = IF issues = {} THEN NoOne ELSE Rounded(100 * Cardinality(Done(w, issues)), Cardinality(issues))
  /\ b.weekly = WeeklyVelocity(w, Done(w, issues)) /\ b.daily = DailyHours(range, logs)
  /\ b.totalHours = SumOf(b.daily) /\ b.spread = Spread(b.daily)
  /\ b.averageHours = Rounded(SumOf(b.daily), Cardinality(DOMAIN b.daily))
  /\ b.reopened = Cardinality(Reopened(w, issues)) /\ b.bugs = Cardinality(Bugs(w, issues))
  /\ b.blockers = [resolved |-> b.blockers.resolved, active |-> b.blockers.active]
  /\ b.blockers.resolved = Cardinality(Resolved(w, issues)) /\ b.blockers.active = Cardinality(Unresolved(w, issues))
  /\ b.highlights = ReviewHighlights(comments, a)
  /\ b.authored = Cardinality(Authored(comments, a)) /\ b.mentions = Cardinality(MentionsOf(w, comments, a))
  /\ b.links = IssueLinks(w, issues)
  /\ "MISSING_WORKLOGS" \in b.warnings <=> logs = {}
  /\ "LOW_COLLABORATION" \in b.warnings <=> comments = {}
  /\ b.warnings \subseteq {"MISSING_WORKLOGS", "LOW_COLLABORATION"}

(* The review that is built has these fields.                              *)
LEMMA ReviewFields ==
  ASSUME NEW w, NEW a, NEW s, NEW e, NEW b, b = BuildPerformanceMetrics(w, a, s, e)
  PROVE  ReviewHas(b, w, a, DayRange(s, e), ReviewedIssues(w, a, DayRange(s, e)),
                   LoggedBy(w, {a}, DayRange(s, e)), ReviewedComments(w, a, DayRange(s, e)))
<1> DEFINE R == DayRange(s, e)
           I == ReviewedIssues(w, a, R)
           L == LoggedBy(w, {a}, R)
           C == ReviewedComments(w, a, R)
<1>1. b.range = R /\ b.committed = Cardinality(I) /\ b.completed = Cardinality(Done(w, I))
  BY DEF BuildPerformanceMetrics
<1>2. b.ratio = IF I = {} THEN NoOne ELSE Rounded(100 * Cardinality(Done(w, I)), Cardinality(I))
  BY DEF BuildPerformanceMetrics
<1>3. b.weekly = WeeklyVelocity(w, Done(w, I)) /\ b.daily = DailyHours(R, L)
  BY DEF BuildPerformanceMetrics
<1>4. /\ b.totalHours = SumOf(b.daily) /\ b.spread = Spread(b.daily)
      /\ b.averageHours = Rounded(SumOf(b.daily), Cardinality(DOMAIN b.daily))
  BY DEF BuildPerformanceMetrics
<1>5. b.reopened = Cardinality(Reopened(w, I)) /\ b.bugs = Cardinality(Bugs(w, I)) /\ b.links = IssueLinks(w, I)
  BY DEF BuildPerformanceMetrics
<1>6. b.blockers = [resolved |-> Cardinality(Resolved(w, I)), active |-> Cardinality(Unresolved(w, I))]
  BY DEF BuildPerformanceMetrics, Resolved, Unresolved, Blocked
<1>7. b.highlights = ReviewHighlights(C, a) /\ b.mentions = Cardinality(MentionsOf(w, C, a))
  BY DEF BuildPerformanceMetrics
<1>8. b.authored = Cardinality(Authored(C, a))
  BY DEF BuildPerformanceMetrics, Authored
<1>9. b.warnings = {v \in {"MISSING_WORKLOGS"} : L = {}} \cup {v \in {"LOW_COLLABORATION"} : C = {}}
  BY DEF BuildPerformanceMetrics
<1>10. /\ "MISSING_WORKLOGS" \in b.warnings <=> L = {}
       /\ "LOW_COLLABORATION" \in b.warnings <=> C = {}
       /\ b.warnings \subseteq {"MISSING_WORKLOGS", "LOW_COLLABORATION"}
  <2> HIDE DEF L, C
  <2>1. QED
    BY <1>9
<1>11. /\ b.blockers = [resolved |-> b.blockers.resolved, active |-> b.blockers.active]
       /\ b.blockers.resolved = Cardinality(Resolved(w, I)) /\ b.blockers.active = Cardinality(Unresolved(w, I))
  BY <1>6
<1> HIDE DEF R, I, L, C
<1>12. ReviewHas(b, w, a, R, I, L, C)
  BY <1>1, <1>2, <1>3, <1>4, <1>5, <1>7, <1>8, <1>10, <1>11 DEF ReviewHas
<1>13. QED
  BY <1>12 DEF R, I, L, C

(* What is selected of the issues of two periods by their fields makes up  *)
(* what is selected of both.                                               *)
LEMMA DoneParts ==
  ASSUME NEW w, NEW X, NEW Y, NEW Z, Parts(X, Y, Z)
  PROVE  /\ Parts(Done(w, X), Done(w, Y), Done(w, Z)) /\ Parts(Reopened(w, X), Reopened(w, Y), Reopened(w, Z))
         /\ Parts(Bugs(w, X), Bugs(w, Y), Bugs(w, Z))
         /\ Parts(Resolved(w, X), Resolved(w, Y), Resolved(w, Z))
         /\ Parts(Unresolved(w, X), Unresolved(w, Y), Unresolved(w, Z))
<1>1. X = Y \cup Z /\ Y \cap Z = {} /\ IsFiniteSet(X)
  BY DEF Parts
<1>2. \A S \in SUBSET X : IsFiniteSet(S)
  BY <1>1, FS_Subset
<1>3. Parts(Done(w, X), Done(w, Y), Done(w, Z))
  BY <1>1, <1>2 DEF Parts, Done
<1>4. Parts(Reopened(w, X), Reopened(w, Y), Reopened(w, Z))
  BY <1>1, <1>2 DEF Parts, Reopened
<1>5. Parts(Bugs(w, X), Bugs(w, Y), Bugs(w, Z))
  BY <1>1, <1>2 DEF Parts, Bugs
<1>6. Parts(Resolved(w, X), Resolved(w, Y), Resolved(w, Z))
  BY <1>1, <1>2 DEF Parts, Resolved, Blocked, Done
<1>7. Parts(Unresolved(w, X), Unresolved(w, Y), Unresolved(w, Z))
  BY <1>1, <1>2 DEF Parts, Unresolved, Blocked, Done
<1>8. QED
  BY <1>3, <1>4, <1>5, <1>6, <1>7

(* So with the comments.                                                   *)
LEMMA SaidParts ==
  ASSUME NEW w, NEW a, NEW X, NEW Y, NEW Z, Parts(X, Y, Z)
  PROVE  /\ Parts(Authored(X, a), Authored(Y, a), Authored(Z, a))
         /\ Parts(MentionsOf(w, X, a), MentionsOf(w, Y, a), MentionsOf(w, Z, a))
<1>1. X = Y \cup Z /\ Y \cap Z = {} /\ IsFiniteSet(X)
  BY DEF Parts
<1>2. \A S \in SUBSET X : IsFiniteSet(S)
  BY <1>1, FS_Subset
<1>3. Parts(Authored(X, a), Authored(Y, a), Authored(Z, a))
  BY <1>1, <1>2 DEF Parts, Authored
<1>4. Parts(MentionsOf(w, X, a), MentionsOf(w, Y, a), MentionsOf(w, Z, a))
  BY <1>1, <1>2 DEF Parts, MentionsOf
<1>5. QED
  BY <1>3, <1>4

(* The links to issues of others add up.                                   *)
LEMMA LinkParts ==
  ASSUME RowsHold, NEW X \in SUBSET IssueIds, NEW Y, NEW Z, Parts(X, Y, Z)
  PROVE  /\ IssueLinks(rows, Y) \in Nat /\ IssueLinks(rows, Z) \in Nat
         /\ IssueLinks(rows, X) = IssueLinks(rows, Y) + IssueLinks(rows, Z)
<1> DEFINE f == [i \in IssueIds |-> rows.issue[i].foreignLinks]
<1>0. X = Y \cup Z /\ Y \cap Z = {} /\ IsFiniteSet(X) /\ IsFiniteSet(Y) /\ IsFiniteSet(Z)
  BY PartsCount DEF Parts
<1>1. \A i \in IssueIds : f[i] \in Nat
  <2>1. rows.issue \in [IssueIds -> IssueRows]
    BY RowsKinds DEF RowsHold
  <2>2. QED
    BY <2>1 DEF IssueRows
<1>2. ASSUME NEW S \in SUBSET X PROVE IssueLinks(rows, S) = SumOver(f, S) /\ SumOver(f, S) \in Nat
  <2> DEFINE g == [i \in S |-> rows.issue[i].foreignLinks]
  <2>1. IssueLinks(rows, S) = SumOf(g)
    BY DEF IssueLinks
  <2>2. SumOf(g) = SumOver(g, S)
    BY DEF SumOf, SumOver
  <2>3. \A i \in S : g[i] = f[i] /\ f[i] \in Int /\ f[i] \in Nat
    BY <1>1
  <2>4. IsFiniteSet(S)
    BY <1>0, FS_Subset
  <2> HIDE DEF f, g
  <2>5. SumOver(g, S) = SumOver(f, S)
    BY <2>3, <2>4, SumSame
  <2>6. SumOver(f, S) \in Nat
    BY <2>3, <2>4, SumNat
  <2>7. QED
    BY <2>1, <2>2, <2>5, <2>6
<1>3. \A i \in Y \cup Z : f[i] \in Int
  BY <1>0, <1>1
<1> HIDE DEF f
<1>4. SumOver(f, Y \cup Z) = SumOver(f, Y) + SumOver(f, Z)
  BY <1>0, <1>3, SumUnion
<1>5. QED
  BY <1>0, <1>2, <1>4

(* The issues that were updated in a week.                                 *)
InWeek(w, S, k) == {i \in S : WeekOf(w.issue[i].updated) = k}

(* The velocity of two periods adds up, a week that both share included.   *)
LEMMA WeekParts ==
  ASSUME NEW w, NEW X, NEW Y, NEW Z, Parts(X, Y, Z)
  PROVE  /\ \A k \in DOMAIN WeeklyVelocity(w, Y) : WeeklyVelocity(w, Y)[k] \in Nat
         /\ \A k \in DOMAIN WeeklyVelocity(w, Z) : WeeklyVelocity(w, Z)[k] \in Nat
         /\ WeeklyVelocity(w, X) = Merged(WeeklyVelocity(w, Y), WeeklyVelocity(w, Z))
<1> DEFINE K(S) == {WeekOf(w.issue[i].updated) : i \in S}
<1>0. X = Y \cup Z /\ Y \cap Z = {} /\ IsFiniteSet(X) /\ IsFiniteSet(Y) /\ IsFiniteSet(Z)
  BY PartsCount DEF Parts
<1>1. \A S : WeeklyVelocity(w, S) = [k \in K(S) |-> Cardinality(InWeek(w, S, k))]
  BY DEF WeeklyVelocity, InWeek
<1>2. \A k : /\ Parts(InWeek(w, X, k), InWeek(w, Y, k), InWeek(w, Z, k))
  <2> SUFFICES ASSUME NEW k PROVE Parts(InWeek(w, X, k), InWeek(w, Y, k), InWeek(w, Z, k))
    OBVIOUS
  <2>1. InWeek(w, X, k) \subseteq X
    BY DEF InWeek
  <2>2. IsFiniteSet(InWeek(w, X, k))
    BY <1>0, <2>1, FS_Subset
  <2>3. QED
    BY <1>0, <2>2 DEF Parts, InWeek
<1>3. \A S : \A k : k \notin K(S) => InWeek(w, S, k) = {}
  BY DEF InWeek
<1>4. K(X) = K(Y) \cup K(Z)
  BY <1>0
<1> HIDE DEF K
<1>5. ASSUME NEW k
      PROVE  /\ Cardinality(InWeek(w, Y, k)) \in Nat /\ Cardinality(InWeek(w, Z, k)) \in Nat
             /\ Cardinality(InWeek(w, X, k)) = Cardinality(InWeek(w, Y, k)) + Cardinality(InWeek(w, Z, k))
  BY <1>2, PartsCount
<1>6. ASSUME NEW S, NEW k, Cardinality(InWeek(w, S, k)) \in Nat
      PROVE  ValueAt(WeeklyVelocity(w, S), k) = Cardinality(InWeek(w, S, k))
  <2>1. CASE k \in K(S)
    BY <1>1, <2>1 DEF ValueAt
  <2>2. CASE k \notin K(S)
    <3>1. Cardinality(InWeek(w, S, k)) = 0
      BY <1>3, <2>2, FS_EmptySet
    <3>2. QED
      BY <1>1, <2>2, <3>1 DEF ValueAt
  <2>3. QED
    BY <2>1, <2>2
<1>7. \A k : ValueAt(WeeklyVelocity(w, Y), k) = Cardinality(InWeek(w, Y, k)) /\ ValueAt(WeeklyVelocity(w, Z), k) = Cardinality(InWeek(w, Z, k))
  BY <1>5, <1>6
<1>8. DOMAIN WeeklyVelocity(w, X) = K(X) /\ DOMAIN WeeklyVelocity(w, Y) = K(Y) /\ DOMAIN WeeklyVelocity(w, Z) = K(Z)
  BY <1>1
<1>9. \A k \in K(X) : Cardinality(InWeek(w, X, k)) = ValueAt(WeeklyVelocity(w, Y), k) + ValueAt(WeeklyVelocity(w, Z), k)
  BY <1>5, <1>7
<1>10. WeeklyVelocity(w, X) = Merged(WeeklyVelocity(w, Y), WeeklyVelocity(w, Z))
  BY <1>1, <1>4, <1>8, <1>9 DEF Merged
<1>11. QED
  BY <1>1, <1>5, <1>10

(* A range of whole days.                                                  *)
FullDays(range) ==
  /\ range.from \in Int /\ range.until \in Int
  /\ range.from % Day = 0 /\ range.until % Day = 0

(* The worklogs of a day.                                                  *)
OnDay(logs, d) == {l \in logs : StartOfDay(l.at) = d}

(* The table of daily hours has every day of the range, with the hours of  *)
(* its worklogs.                                                           *)
LEMMA DailyIs ==
  ASSUME RowsHold, NEW L \in SUBSET rows.worklogs, NEW R, FullDays(R)
  PROVE  /\ IsFiniteSet(DOMAIN DailyHours(R, L))
         /\ DOMAIN DailyHours(R, L) = {t \in Int : R.from <= t /\ t < R.until /\ t % Day = 0}
         /\ \A d \in DOMAIN DailyHours(R, L) : DailyHours(R, L)[d] = Hours(Minutes(OnDay(L, d))) /\ DailyHours(R, L)[d] \in Int
<1> DEFINE D == {t \in R.from..(R.until - 1) : t % Day = 0}
<1>1. DailyHours(R, L) = [d \in D |-> Hours(Minutes(OnDay(L, d)))]
  BY DEF DailyHours, OnDay
<1>2. D = {t \in Int : R.from <= t /\ t < R.until /\ t % Day = 0}
  BY DEF FullDays
<1>3. IsFiniteSet(D)
  <2>1. IsFiniteSet(R.from..(R.until - 1))
    BY FS_Interval DEF FullDays
  <2>2. D \subseteq R.from..(R.until - 1)
    OBVIOUS
  <2>3. QED
    BY <2>1, <2>2, FS_Subset
<1> HIDE DEF D
<1>4. \A d : Hours(Minutes(OnDay(L, d))) \in Int
  <2> SUFFICES ASSUME NEW d PROVE Hours(Minutes(OnDay(L, d))) \in Int
    OBVIOUS
  <2>1. OnDay(L, d) \in SUBSET rows.worklogs
    BY DEF OnDay
  <2>2. Minutes(OnDay(L, d)) \in Nat
    BY <2>1, MinutesAre
  <2>3. QED
    BY <2>2, HoursRound
<1>5. QED
  BY <1>1, <1>2, <1>3, <1>4

(* The ranges of two periods, one after the other, and of both.            *)
Follow(R, R1, R2) ==
  /\ FullDays(R) /\ FullDays(R1) /\ FullDays(R2)
  /\ R.from = R1.from /\ R1.until = R2.from /\ R2.until = R.until /\ R.from <= R1.until /\ R1.until <= R.until

(* A time of both periods is in one of them and not in the other.          *)
LEMMA RangesFollow ==
  ASSUME NEW R, NEW R1, NEW R2, Follow(R, R1, R2), NEW t \in Int
  PROVE  /\ InRange(t, R) <=> InRange(t, R1) \/ InRange(t, R2)
         /\ ~(InRange(t, R1) /\ InRange(t, R2))
BY DEF Follow, FullDays, InRange

(* The daily hours of two periods are those of both: a day is in one of    *)
(* them, with all its worklogs.                                            *)
LEMMA DayParts ==
  ASSUME RowsHold, NEW R, NEW R1, NEW R2, Follow(R, R1, R2), NEW a,
         NEW L, L = LoggedBy(rows, a, R), NEW L1, L1 = LoggedBy(rows, a, R1), NEW L2, L2 = LoggedBy(rows, a, R2)
  PROVE  DailyHours(R, L) = Merged(DailyHours(R1, L1), DailyHours(R2, L2))
<1>0. /\ R.from \in Int /\ R.until \in Int /\ R1.until \in Int
      /\ R.from % Day = 0 /\ R.until % Day = 0 /\ R1.until % Day = 0
      /\ R.from = R1.from /\ R1.until = R2.from /\ R2.until = R.until /\ R.from <= R1.until /\ R1.until <= R.until
      /\ FullDays(R) /\ FullDays(R1) /\ FullDays(R2)
  BY DEF Follow, FullDays
<1>1. L \in SUBSET rows.worklogs /\ L1 \in SUBSET rows.worklogs /\ L2 \in SUBSET rows.worklogs
  BY DEF LoggedBy
<1>2. \A l \in rows.worklogs : l.at \in Int
  BY RowsKinds DEF RowsHold, WorklogRows
<1> DEFINE h == DailyHours(R, L)
           h1 == DailyHours(R1, L1)
           h2 == DailyHours(R2, L2)
<1>3. /\ DOMAIN h = {t \in Int : R.from <= t /\ t < R.until /\ t % Day = 0}
      /\ \A d \in DOMAIN h : h[d] = Hours(Minutes(OnDay(L, d))) /\ h[d] \in Int
  BY <1>0, <1>1, DailyIs
<1>4. /\ DOMAIN h1 = {t \in Int : R1.from <= t /\ t < R1.until /\ t % Day = 0}
      /\ \A d \in DOMAIN h1 : h1[d] = Hours(Minutes(OnDay(L1, d))) /\ h1[d] \in Int
  BY <1>0, <1>1, DailyIs
<1>5. /\ DOMAIN h2 = {t \in Int : R2.from <= t /\ t < R2.until /\ t % Day = 0}
      /\ \A d \in DOMAIN h2 : h2[d] = Hours(Minutes(OnDay(L2, d))) /\ h2[d] \in Int
  BY <1>0, <1>1, DailyIs
<1>x. h = [d \in DOMAIN h |-> h[d]]
  BY DEF DailyHours
<1> HIDE DEF h, h1, h2
<1>6. DOMAIN h = DOMAIN h1 \cup DOMAIN h2 /\ DOMAIN h1 \cap DOMAIN h2 = {}
  BY <1>0, <1>3, <1>4, <1>5
<1>y. \A l \in rows.worklogs : \A d \in Int : d % Day = 0 =>
         (StartOfDay(l.at) = d <=> d <= l.at /\ l.at < d + Day)
  <2> SUFFICES ASSUME NEW l \in rows.worklogs, NEW d \in Int, d % Day = 0
               PROVE StartOfDay(l.at) = d <=> d <= l.at /\ l.at < d + Day
    OBVIOUS
  <2>1. PICK t \in Int : t = l.at
    BY <1>2
  <2>2. t - (t % 2) = d <=> d <= t /\ t < d + 2
    BY DEF Day
  <2>3. QED
    BY <2>1, <2>2 DEF StartOfDay, Day
<1>7. \A d \in DOMAIN h1 : OnDay(L, d) = OnDay(L1, d)
  <2> SUFFICES ASSUME NEW d \in DOMAIN h1 PROVE OnDay(L, d) = OnDay(L1, d)
    OBVIOUS
  <2>1. d \in Int /\ R.from <= d /\ d + Day <= R1.until /\ d % Day = 0
    BY <1>0, <1>4 DEF Day
  <2>2. \A l \in rows.worklogs : StartOfDay(l.at) = d => InRange(l.at, R) /\ InRange(l.at, R1)
    <3> SUFFICES ASSUME NEW l \in rows.worklogs, StartOfDay(l.at) = d PROVE InRange(l.at, R) /\ InRange(l.at, R1)
      OBVIOUS
    <3>1. l.at \in Int /\ d <= l.at /\ l.at < d + Day
      BY <1>2, <1>y, <2>1
    <3>2. QED
      BY <1>0, <2>1, <3>1 DEF InRange, Day
  <2>3. QED
    BY <2>2 DEF OnDay, LoggedBy
<1>8. \A d \in DOMAIN h2 : OnDay(L, d) = OnDay(L2, d)
  <2> SUFFICES ASSUME NEW d \in DOMAIN h2 PROVE OnDay(L, d) = OnDay(L2, d)
    OBVIOUS
  <2>1. d \in Int /\ R1.until <= d /\ d + Day <= R.until /\ d % Day = 0
    BY <1>0, <1>5 DEF Day
  <2>2. \A l \in rows.worklogs : StartOfDay(l.at) = d => InRange(l.at, R) /\ InRange(l.at, R2)
    <3> SUFFICES ASSUME NEW l \in rows.worklogs, StartOfDay(l.at) = d PROVE InRange(l.at, R) /\ InRange(l.at, R2)
      OBVIOUS
    <3>1. l.at \in Int /\ d <= l.at /\ l.at < d + Day
      BY <1>2, <1>y, <2>1
    <3>2. QED
      BY <1>0, <2>1, <3>1 DEF InRange, Day
  <2>3. QED
    BY <2>2 DEF OnDay, LoggedBy
<1>9. \A d \in DOMAIN h : h[d] = ValueAt(h1, d) + ValueAt(h2, d)
  <2> SUFFICES ASSUME NEW d \in DOMAIN h PROVE h[d] = ValueAt(h1, d) + ValueAt(h2, d)
    OBVIOUS
  <2>0. h[d] = Hours(Minutes(OnDay(L, d))) /\ h[d] \in Int
    BY <1>3
  <2>1. CASE d \in DOMAIN h1
    <3>1. h1[d] = h[d] /\ d \notin DOMAIN h2
      BY <1>4, <1>6, <1>7, <2>0, <2>1
    <3>2. QED
      BY <2>0, <2>1, <3>1 DEF ValueAt
  <2>2. CASE d \notin DOMAIN h1
    <3>1. d \in DOMAIN h2
      BY <1>6, <2>2
    <3>2. h2[d] = h[d]
      BY <1>5, <1>8, <2>0, <3>1
    <3>3. QED
      BY <2>0, <2>2, <3>1, <3>2 DEF ValueAt
  <2>3. QED
    BY <2>1, <2>2
<1>10. h = Merged(h1, h2)
  BY <1>x, <1>6, <1>9 DEF Merged
<1>11. QED
  BY <1>10 DEF h, h1, h2

(* The second inductive invariant, which the reviews need: an issue was    *)
(* created before now and no later than it was updated, and no two         *)
(* comments have one id.                                                   *)
RowsDated ==
  /\ 0 <= changes
  /\ \A i \in IssueIds : rows.issue[i].created <= rows.issue[i].updated /\ rows.issue[i].created <= now
  /\ \A c \in rows.comments : c.id < changes
  /\ \A c, d \in rows.comments : c.id = d.id => c = d

(* It holds at the start.                                                  *)
LEMMA RowsDatedInit == Init => RowsDated
BY DatesAssumption DEF Init, RowsDated

(* What a step may do to the dates of the issues.                          *)
SameDates == \A i \in IssueIds :
  /\ rows'.issue[i].created = rows.issue[i].created
  /\ rows'.issue[i].updated \in {rows.issue[i].updated, now}

(* What a step may do to the comments.                                     *)
SameComments == rows'.comments = rows.comments \/ \E c : c.id = changes /\ rows'.comments = rows.comments \cup {c}

(* An upsert of an issue does no more.                                     *)
LEMMA UpsertKeeps ==
  ASSUME RowsHold, NEW i \in IssueIds, NEW s, NEW a, IssueUpserted(i, s, a)
  PROVE  SameDates /\ SameComments
<1> DEFINE b == Assignee(i, a)
<1>1. PICK w, t, y : w = rows /\ t = now /\ y = b
  OBVIOUS
<1>2. rows' = [w EXCEPT !.issue[i].status = s, !.issue[i].updated = t, !.issue[i].assignee = y]
  BY <1>1, Zenon DEF IssueUpserted, Changes
<1>3. w \in Rows /\ w.issue \in [IssueIds -> IssueRows]
  BY <1>1, RowsKinds DEF RowsHold
<1> HIDE DEF b
<1> DEFINE before == w.issue[i]
           after == [[[before EXCEPT !.status = s] EXCEPT !.updated = t] EXCEPT !.assignee = y]
<1>4. before \in IssueRows
  BY <1>3
<1>5. after.created = before.created /\ after.updated = t
  BY <1>4 DEF IssueRows
<1>6. [[[w.issue EXCEPT ![i].status = s] EXCEPT ![i].updated = t] EXCEPT ![i].assignee = y] = [w.issue EXCEPT ![i] = after]
  BY <1>3, <1>4
<1>7. rows' = [w EXCEPT !.issue = [[[w.issue EXCEPT ![i].status = s] EXCEPT ![i].updated = t] EXCEPT ![i].assignee = y]]
  BY <1>2, <1>3 DEF Rows
<1>8. rows' = [w EXCEPT !.issue = [w.issue EXCEPT ![i] = after]]
  BY <1>6, <1>7
<1> HIDE DEF after
<1>9. rows'.issue = [w.issue EXCEPT ![i] = after] /\ rows'.comments = w.comments
  BY <1>3, <1>8 DEF Rows
<1>10. \A j \in IssueIds : rows'.issue[j] = IF j = i THEN after ELSE w.issue[j]
  BY <1>3, <1>9
<1>11. SameDates
  BY <1>1, <1>5, <1>10 DEF SameDates
<1>12. QED
  BY <1>1, <1>9, <1>11 DEF SameComments

(* A field that changes leaves the issues and the comments alone.          *)
LEMMA OtherFields ==
  ASSUME NEW w \in Rows
  PROVE  /\ \A x : [w EXCEPT !.worklogs = x].issue = w.issue /\ [w EXCEPT !.worklogs = x].comments = w.comments
         /\ \A x : [w EXCEPT !.comments = x].issue = w.issue /\ [w EXCEPT !.comments = x].comments = x
         /\ \A x : [w EXCEPT !.absences = x].issue = w.issue /\ [w EXCEPT !.absences = x].comments = w.comments
         /\ \A x : [w EXCEPT !.tracked = x].issue = w.issue /\ [w EXCEPT !.tracked = x].comments = w.comments
         /\ \A x : [w EXCEPT !.link = x].issue = w.issue /\ [w EXCEPT !.link = x].comments = w.comments
BY DEF Rows

(* A sync does no more.                                                    *)
LEMMA SyncKeeps == ASSUME RowsHold, SyncStep PROVE SameDates /\ SameComments
<1>0. Issues(rows) = IssueIds /\ rows \in Rows
  BY RowsKinds DEF RowsHold
<1>a. ASSUME rows'.issue = rows.issue, rows'.comments = rows.comments PROVE SameDates /\ SameComments
  BY <1>a DEF SameDates, SameComments
<1>1. ASSUME NEW i \in IssueIds, NEW s, NEW a, IssueUpserted(i, s, a) PROVE SameDates /\ SameComments
  BY <1>1, UpsertKeeps
<1>2. ASSUME NEW a, NEW i, WorkLogged(a, i) PROVE SameDates /\ SameComments
  <2>1. PICK x : rows' = [rows EXCEPT !.worklogs = x]
    BY <1>2 DEF WorkLogged, Changes
  <2>2. QED
    BY <2>1, <1>0, <1>a, OtherFields
<1>3. ASSUME NEW a, NEW i, NEW words, NEW h, Commented(a, i, words, h) PROVE SameDates /\ SameComments
  <2>1. PICK c : c = [id |-> changes, author |-> a, issue |-> i, at |-> now, words |-> words, handles |-> h]
    OBVIOUS
  <2>2. PICK x : x = rows.comments \cup {c}
    OBVIOUS
  <2>3. rows' = [rows EXCEPT !.comments = x]
    BY <1>3, <2>1, <2>2 DEF Commented, Changes
  <2>4. rows'.issue = rows.issue /\ rows'.comments = x
    BY <2>3, <1>0, OtherFields
  <2>5. c.id = changes
    BY <2>1
  <2>6. QED
    BY <2>2, <2>4, <2>5 DEF SameDates, SameComments
<1>4. ASSUME NEW a, AbsenceEntered(a) PROVE SameDates /\ SameComments
  <2>1. PICK x : rows' = [rows EXCEPT !.absences = x]
    BY <1>4 DEF AbsenceEntered, Changes
  <2>2. QED
    BY <2>1, <1>0, <1>a, OtherFields
<1>5. QED
  BY <1>0, <1>1, <1>2, <1>3, <1>4 DEF SyncStep

(* Nor does an administrator.                                              *)
LEMMA AdminKeeps == ASSUME RowsHold, AdminStep PROVE SameDates /\ SameComments
<1>0. rows \in Rows
  BY DEF RowsHold
<1>a. ASSUME rows'.issue = rows.issue, rows'.comments = rows.comments PROVE SameDates /\ SameComments
  BY <1>a DEF SameDates, SameComments
<1>1. ASSUME NEW u, NEW a, Changes([rows EXCEPT !.link[u] = a]) PROVE SameDates /\ SameComments
  <2>1. PICK x : x = [rows.link EXCEPT ![u] = a]
    OBVIOUS
  <2>2. rows' = [rows EXCEPT !.link = x]
    BY <1>1, <2>1 DEF Changes
  <2>3. QED
    BY <2>2, <1>0, <1>a, OtherFields
<1>2. ASSUME NEW x, SetProjectTrackedUsers(x) PROVE SameDates /\ SameComments
  <2>1. rows' = [rows EXCEPT !.tracked = x]
    BY <1>2 DEF SetProjectTrackedUsers, Changes
  <2>2. QED
    BY <2>1, <1>0, <1>a, OtherFields
<1>3. QED
  BY <1>1, <1>2 DEF AdminStep, MapUserToProject, UnlinkUserFromProject

(* Every step keeps it.                                                    *)
LEMMA RowsDatedNext == RowsHold /\ RowsDated /\ [Next]_vars => RowsDated'
<1> SUFFICES ASSUME RowsHold, RowsDated, [Next]_vars PROVE RowsDated'
  OBVIOUS
<1>0. /\ rows.issue \in [IssueIds -> IssueRows] /\ rows.comments \in SUBSET CommentRows
      /\ now \in Int /\ changes \in Int
  BY RowsKinds DEF RowsHold
<1>k. /\ \A i \in IssueIds : rows.issue[i].created \in Int /\ rows.issue[i].updated \in Int
      /\ \A c \in rows.comments : c.id \in Int
  BY <1>0 DEF IssueRows, CommentRows
<1>1. ASSUME NEW v, Changes(v), SameDates, SameComments PROVE RowsDated'
  <2>1. changes' = changes + 1 /\ now' = now
    BY <1>1 DEF Changes
  <2>2. \A i \in IssueIds : rows'.issue[i].created <= rows'.issue[i].updated /\ rows'.issue[i].created <= now'
    BY <1>1, <1>k, <2>1, <1>0 DEF SameDates, RowsDated
  <2>3. (\A c \in rows'.comments : c.id < changes') /\ \A c, d \in rows'.comments : c.id = d.id => c = d
    <3>1. CASE rows'.comments = rows.comments
      BY <1>0, <1>k, <2>1, <3>1 DEF RowsDated
    <3>2. CASE rows'.comments # rows.comments
      <4>1. PICK e : e.id = changes /\ rows'.comments = rows.comments \cup {e}
        BY <1>1, <3>2 DEF SameComments
      <4>2. \A c \in rows.comments : c.id < changes
        BY DEF RowsDated
      <4>3. \A c, d \in rows.comments : c.id = d.id => c = d
        BY DEF RowsDated
      <4>4. \A c \in rows'.comments : c.id < changes'
        BY <1>0, <1>k, <2>1, <4>1, <4>2
      <4>5. \A c, d \in rows'.comments : c.id = d.id => c = d
        BY <1>0, <1>k, <4>1, <4>2, <4>3
      <4>6. QED
        BY <4>4, <4>5
    <3>3. QED
      BY <3>1, <3>2
  <2>4. 0 <= changes'
    BY <1>0, <2>1 DEF RowsDated
  <2>5. QED
    BY <2>2, <2>3, <2>4 DEF RowsDated
<1>2. CASE SyncStep
  <2>1. \E v : Changes(v)
    BY <1>2 DEF SyncStep, IssueUpserted, WorkLogged, Commented, AbsenceEntered
  <2>2. QED
    BY <1>1, <1>2, <2>1, SyncKeeps
<1>3. CASE AdminStep
  <2>1. \E v : Changes(v)
    BY <1>3 DEF AdminStep, MapUserToProject, UnlinkUserFromProject, SetProjectTrackedUsers
  <2>2. QED
    BY <1>1, <1>3, <2>1, AdminKeeps
<1>4. CASE SummaryStep
  BY <1>4 DEF SummaryStep, GenerateHierarchicalSummariesForDate, BackfillProjectSummaries, RowsDated
<1>5. CASE Tick
  <2>1. now' = now + 1 /\ rows' = rows /\ changes' = changes
    BY <1>5 DEF Tick
  <2>2. QED
    BY <1>0, <1>k, <2>1 DEF RowsDated
<1>6. CASE UNCHANGED vars
  BY <1>6 DEF vars, RowsDated
<1>7. QED
  BY <1>2, <1>3, <1>4, <1>5, <1>6 DEF Next

(* What is in the first k of a list.                                       *)
LEMMA TakenBy ==
  ASSUME NEW n \in Nat, NEW S, NEW s \in [1..n -> S], NEW k \in Nat, NEW x
  PROVE  x \in ToSet(UpTo(k, s)) <=> \E q \in 1..n : q <= k /\ s[q] = x
<1>1. UpTo(k, s) = [i \in 1..(IF n < k THEN n ELSE k) |-> s[i]]
  <2>1. s \in Seq(S) /\ Len(s) = n
    OBVIOUS
  <2>2. PICK m \in 0..n : m = IF n < k THEN n ELSE k
    OBVIOUS
  <2>3. UpTo(k, s) = SubSeq(s, 1, m)
    BY <2>1, <2>2 DEF UpTo
  <2>4. SubSeq(s, 1, m) = [i \in 1..m |-> s[i]]
    BY <2>1, <2>2
  <2>5. QED
    BY <2>2, <2>3, <2>4
<1>2. ToSet(UpTo(k, s)) = {s[i] : i \in 1..(IF n < k THEN n ELSE k)}
  BY <1>1 DEF ToSet
<1>3. \A q \in Nat : q \in 1..(IF n < k THEN n ELSE k) <=> q \in 1..n /\ q <= k
  OBVIOUS
<1>4. QED
  BY <1>2, <1>3

(* Who is among the first k of a set is among the first k of any part that *)
(* has it: were there k before it in the part, they would be k before it   *)
(* in the whole, by the pigeonhole principle.                              *)
LEMMA TopOfPart ==
  ASSUME NEW X, IsFiniteSet(X), NEW Y \in SUBSET X, NEW key, Keys(X, key), NEW keyY, Keys(Y, keyY),
         \A y \in Y : keyY[y] = key[y], \A y, z \in X : key[y] = key[z] => y = z,
         NEW k \in Nat, NEW x \in Y, x \in ToSet(UpTo(k, Arranged(X, key)))
  PROVE  x \in ToSet(UpTo(k, Arranged(Y, keyY)))
<1> DEFINE A == Arranged(X, key)
           B == Arranged(Y, keyY)
           n == Cardinality(X)
           m == Cardinality(Y)
<1>1. IsFiniteSet(Y)
  BY FS_Subset
<1>2. Enumerates(A, X) /\ \A i, j \in 1..n : i < j => ~Before(key[A[j]], key[A[i]])
  BY ArrangedOnce
<1>3. Enumerates(B, Y) /\ \A i, j \in 1..m : i < j => ~Before(keyY[B[j]], keyY[B[i]])
  BY <1>1, ArrangedOnce
<1> HIDE DEF A, B, n, m
<1>4. /\ n \in Nat /\ A \in [1..n -> X] /\ \A y \in X : \E i \in 1..n : A[i] = y
  BY <1>2 DEF Enumerates, n
<1>5. /\ m \in Nat /\ B \in [1..m -> Y] /\ \A i, j \in 1..m : B[i] = B[j] => i = j
      /\ \A y \in Y : \E i \in 1..m : B[i] = y
  BY <1>3 DEF Enumerates, m
<1>6. PICK i \in 1..n : i <= k /\ A[i] = x
  <2>1. n \in Nat /\ A \in [1..n -> X] /\ x \in ToSet(UpTo(k, A))
    BY <1>4 DEF A
  <2>2. QED
    BY <2>1, TakenBy
<1>7. PICK j \in 1..m : B[j] = x
  BY <1>5
<1>8. j <= k
  <2> SUFFICES ASSUME k < j PROVE FALSE
    BY <1>5
  <2>1. ASSUME NEW l \in 1..k PROVE \E p \in 1..(i - 1) : A[p] = B[l]
    <3>1. l \in 1..m /\ l < j /\ B[l] \in Y /\ B[l] # x
      BY <1>5, <1>7
    <3>2. ~Before(key[x], key[B[l]])
      BY <1>3, <1>7, <3>1
    <3>3. key[x] # key[B[l]]
      BY <3>1
    <3>4. PICK a1, a2, b1, b2 \in Int : key[x] = <<a1, a2>> /\ key[B[l]] = <<b1, b2>>
      BY <3>1 DEF Keys
    <3>5. Before(key[B[l]], key[x])
      BY <3>2, <3>3, <3>4 DEF Before
    <3>6. PICK p \in 1..n : A[p] = B[l]
      BY <1>4, <3>1
    <3>7. ~(i < p) /\ p # i
      BY <1>2, <1>6, <3>1, <3>5, <3>6
    <3>8. QED
      BY <1>4, <3>6, <3>7
  <2> DEFINE At == [l \in 1..k |-> CHOOSE p \in 1..(i - 1) : A[p] = B[l]]
  <2>2. \A l \in 1..k : At[l] \in 1..(i - 1) /\ A[At[l]] = B[l]
    BY <2>1
  <2>3. At \in [1..k -> 1..(i - 1)]
    BY <2>2
  <2> HIDE DEF At
  <2>4. IsFiniteSet(1..k) /\ Cardinality(1..k) = k
    <3>1. 1 \in Int /\ k \in Int /\ (IF 1 > k THEN 0 ELSE k - 1 + 1) = k
      OBVIOUS
    <3>2. IsFiniteSet(1..k) /\ Cardinality(1..k) = IF 1 > k THEN 0 ELSE k - 1 + 1
      BY <3>1, FS_Interval
    <3>3. QED
      BY <3>1, <3>2
  <2>5. IsFiniteSet(1..(i - 1)) /\ Cardinality(1..(i - 1)) = i - 1
    <3>1. 1 \in Int /\ i - 1 \in Int /\ (IF 1 > i - 1 THEN 0 ELSE i - 1 - 1 + 1) = i - 1
      BY <1>4
    <3>2. PICK h \in Int : h = i - 1
      BY <3>1
    <3>3. IsFiniteSet(1..h) /\ Cardinality(1..h) = IF 1 > h THEN 0 ELSE h - 1 + 1
      BY <3>1, FS_Interval
    <3>4. Cardinality(1..h) = h
      BY <1>4, <3>2, <3>3
    <3>5. QED
      BY <3>2, <3>3, <3>4
  <2>6. Cardinality(1..(i - 1)) < Cardinality(1..k)
    BY <1>4, <1>6, <2>4, <2>5
  <2>7. PICK l1, l2 \in 1..k : l1 # l2 /\ At[l1] = At[l2]
    <3>1. PICK S, T : S = 1..k /\ T = 1..(i - 1)
      OBVIOUS
    <3>2. IsFiniteSet(S) /\ IsFiniteSet(T) /\ Cardinality(T) < Cardinality(S) /\ At \in [S -> T]
      BY <2>3, <2>4, <2>5, <2>6, <3>1
    <3>3. \E u, v \in S : u # v /\ At[u] = At[v]
      BY <3>2, FS_PigeonHole
    <3>4. QED
      BY <3>1, <3>3
  <2>8. B[l1] = B[l2]
    BY <2>2, <2>7
  <2>9. QED
    BY <1>5, <1>7, <2>7, <2>8
<1>9. x \in ToSet(UpTo(k, B))
  <2>1. m \in Nat /\ B \in [1..m -> Y] /\ j \in 1..m /\ j <= k /\ B[j] = x
    BY <1>5, <1>7, <1>8
  <2>2. QED
    BY <2>1, TakenBy
<1>10. QED
  BY <1>9 DEF B

(* The comments of the peers.                                              *)
Peers(comments, a) == {c \in comments : c.author # a}

(* The three latest of some comments.                                      *)
Latest3(C) == ToSet(UpTo(3, Arranged(C, [c \in C |-> <<-c.at, c.id>>])))

(* These are the highlights of a review.                                   *)
LEMMA HighlightsAre == ASSUME NEW C, NEW a PROVE ToSet(ReviewHighlights(C, a)) = Latest3(Peers(C, a))
BY DEF ReviewHighlights, Latest3, Peers, SortedBy

(* The three latest comments of two periods are among the three latest of  *)
(* one or the other.                                                       *)
LEMMA LatestSplit ==
  ASSUME RowsHold, RowsDated, NEW X \in SUBSET rows.comments, NEW Y, NEW Z, X = Y \cup Z
  PROVE  Latest3(X) \subseteq Latest3(Y) \cup Latest3(Z)
<1> DEFINE K(C) == [c \in C |-> <<-c.at, c.id>>]
<1>1. IsFiniteSet(X) /\ \A c \in X : c.at \in Int /\ c.id \in Int
  <2>1. rows.comments \in SUBSET CommentRows
    BY RowsKinds DEF RowsHold
  <2>2. QED
    BY <2>1, FS_Subset DEF RowsHold, CommentRows
<1>2. ASSUME NEW C \in SUBSET X PROVE Keys(C, K(C)) /\ \A c \in C : K(C)[c] = <<-c.at, c.id>>
  <2>1. \A c \in C : K(C)[c] = <<-c.at, c.id>> /\ -c.at \in Int /\ c.id \in Int
    BY <1>1
  <2>2. QED
    BY <2>1 DEF Keys
<1>3. \A c, d \in X : K(X)[c] = K(X)[d] => c = d
  <2>1. \A c, d \in X : K(X)[c] = K(X)[d] => c.id = d.id
    BY <1>2
  <2>2. QED
    BY <2>1 DEF RowsDated
<1>4. Y \in SUBSET X /\ Z \in SUBSET X /\ X \in SUBSET X
  OBVIOUS
<1>5. ASSUME NEW C \in SUBSET X PROVE Latest3(C) = ToSet(UpTo(3, Arranged(C, K(C))))
  BY DEF Latest3
<1>a. PICK kx, ky, kz : kx = K(X) /\ ky = K(Y) /\ kz = K(Z)
  OBVIOUS
<1>b. /\ Keys(X, kx) /\ Keys(Y, ky) /\ Keys(Z, kz) /\ \A c, d \in X : kx[c] = kx[d] => c = d
      /\ (\A c \in Y : ky[c] = kx[c]) /\ (\A c \in Z : kz[c] = kx[c])
  BY <1>2, <1>3, <1>4, <1>a
<1>c. /\ Latest3(X) = ToSet(UpTo(3, Arranged(X, kx))) /\ Latest3(Y) = ToSet(UpTo(3, Arranged(Y, ky)))
      /\ Latest3(Z) = ToSet(UpTo(3, Arranged(Z, kz)))
  BY <1>4, <1>5, <1>a
<1> HIDE DEF K
<1>6. Latest3(X) \subseteq X
  <2>1. Enumerates(Arranged(X, kx), X)
    BY <1>1, <1>b, ArrangedOnce
  <2>2. 3 \in Nat
    OBVIOUS
  <2>3. ToSet(UpTo(3, Arranged(X, kx))) \subseteq X
    BY <2>1, <2>2, UpToTakes DEF Enumerates
  <2>4. QED
    BY <1>c, <2>3
<1>7. ASSUME NEW x \in Latest3(X), x \in Y PROVE x \in Latest3(Y)
  <2>1. x \in ToSet(UpTo(3, Arranged(X, kx)))
    BY <1>c
  <2>2. 3 \in Nat
    OBVIOUS
  <2>3. x \in ToSet(UpTo(3, Arranged(Y, ky)))
    BY <1>1, <1>4, <1>7, <1>b, <2>1, <2>2, TopOfPart
  <2>4. QED
    BY <1>c, <2>3
<1>8. ASSUME NEW x \in Latest3(X), x \in Z PROVE x \in Latest3(Z)
  <2>1. x \in ToSet(UpTo(3, Arranged(X, kx)))
    BY <1>c
  <2>2. 3 \in Nat
    OBVIOUS
  <2>3. x \in ToSet(UpTo(3, Arranged(Z, kz)))
    BY <1>1, <1>4, <1>8, <1>b, <2>1, <2>2, TopOfPart
  <2>4. QED
    BY <1>c, <2>3
<1>9. QED
  BY <1>6, <1>7, <1>8

(* The periods of the property follow each other.                          *)
LEMMA PeriodsFollow ==
  ASSUME RowsHold, NEW s, s = Today - 2 * Day, NEW f, f = Today - 4 * Day
  PROVE  Follow(DayRange(f, Today), DayRange(f, s), DayRange(s + Day, Today))
<1>1. PICK t \in Int : t = Today /\ t % 2 = 0
  <2>1. now \in Int
    BY DEF RowsHold
  <2>2. Today \in Int /\ Today % 2 = 0
    BY <2>1 DEF Today, Day
  <2>3. QED
    BY <2>2
<1>2. s \in Int /\ f \in Int /\ s = t - 4 /\ f = t - 8 /\ s % 2 = 0 /\ f % 2 = 0
  BY <1>1 DEF Day
<1>3. PICK R, R1, R2 : R = DayRange(f, Today) /\ R1 = DayRange(f, s) /\ R2 = DayRange(s + Day, Today)
  OBVIOUS
<1>4. /\ R.from = f /\ R.until = t + 2 /\ R1.from = f /\ R1.until = s + 2 /\ R2.from = s + 2 /\ R2.until = t + 2
  BY <1>1, <1>3 DEF DayRange, Day
<1>5. (t + 2) % 2 = 0 /\ (s + 2) % 2 = 0
  BY <1>1, <1>2
<1>6. FullDays(R) /\ FullDays(R1) /\ FullDays(R2)
  BY <1>1, <1>2, <1>4, <1>5 DEF FullDays, Day
<1>7. Follow(R, R1, R2)
  BY <1>1, <1>2, <1>4, <1>6 DEF Follow
<1>8. QED
  BY <1>3, <1>7

(* The issues, worklogs and comments of two periods make up those of both: *)
(* an issue is in the period of its last update, and its creation, which   *)
(* is no later, leaves it there.                                           *)
LEMMA PeriodParts ==
  ASSUME RowsHold, RowsDated, NEW R, NEW R1, NEW R2, Follow(R, R1, R2), NEW a
  PROVE  /\ Parts(ReviewedIssues(rows, a, R), ReviewedIssues(rows, a, R1), ReviewedIssues(rows, a, R2))
         /\ Parts(LoggedBy(rows, {a}, R), LoggedBy(rows, {a}, R1), LoggedBy(rows, {a}, R2))
         /\ Parts(ReviewedComments(rows, a, R), ReviewedComments(rows, a, R1), ReviewedComments(rows, a, R2))
         /\ ReviewedIssues(rows, a, R) \in SUBSET IssueIds /\ ReviewedComments(rows, a, R) \in SUBSET rows.comments
<1>0. /\ rows.issue \in [IssueIds -> IssueRows] /\ rows.worklogs \in SUBSET WorklogRows
      /\ rows.comments \in SUBSET CommentRows /\ Issues(rows) = IssueIds
  BY RowsKinds DEF RowsHold
<1>1. /\ \A i \in IssueIds : rows.issue[i].created \in Int /\ rows.issue[i].updated \in Int
      /\ \A l \in rows.worklogs : l.at \in Int
      /\ \A c \in rows.comments : c.at \in Int
  BY <1>0 DEF IssueRows, WorklogRows, CommentRows
<1>2. \A t \in Int : /\ InRange(t, R) <=> InRange(t, R1) \/ InRange(t, R2)
                     /\ ~(InRange(t, R1) /\ InRange(t, R2))
  BY RangesFollow
<1>3. Parts(LoggedBy(rows, {a}, R), LoggedBy(rows, {a}, R1), LoggedBy(rows, {a}, R2))
  <2>1. LoggedBy(rows, {a}, R) \subseteq rows.worklogs
    BY DEF LoggedBy
  <2>2. IsFiniteSet(LoggedBy(rows, {a}, R))
    BY <2>1, FS_Subset DEF RowsHold
  <2>3. QED
    BY <1>1, <1>2, <2>2 DEF Parts, LoggedBy
<1>4. /\ Parts(ReviewedComments(rows, a, R), ReviewedComments(rows, a, R1), ReviewedComments(rows, a, R2))
      /\ ReviewedComments(rows, a, R) \in SUBSET rows.comments
  <2>1. ReviewedComments(rows, a, R) \subseteq rows.comments
    BY DEF ReviewedComments
  <2>2. IsFiniteSet(ReviewedComments(rows, a, R))
    BY <2>1, FS_Subset DEF RowsHold
  <2>3. QED
    BY <1>1, <1>2, <2>1, <2>2 DEF Parts, ReviewedComments
<1>5. /\ Parts(ReviewedIssues(rows, a, R), ReviewedIssues(rows, a, R1), ReviewedIssues(rows, a, R2))
      /\ ReviewedIssues(rows, a, R) \in SUBSET IssueIds
  <2>0. \A i \in IssueIds : rows.issue[i].created <= rows.issue[i].updated
    BY DEF RowsDated
  <2>1. ASSUME NEW P, P.until \in Int
        PROVE  ReviewedIssues(rows, a, P) = {i \in IssueIds : rows.issue[i].assignee = a /\ InRange(rows.issue[i].updated, P)}
    <3>1. \A i \in IssueIds : InRange(rows.issue[i].updated, P) => rows.issue[i].created < P.until
      BY <1>1, <2>0, <2>1 DEF InRange
    <3>2. QED
      BY <1>0, <3>1 DEF ReviewedIssues
  <2>2. R.until \in Int /\ R1.until \in Int /\ R2.until \in Int
    BY DEF Follow, FullDays
  <2>3. /\ ReviewedIssues(rows, a, R) = {i \in IssueIds : rows.issue[i].assignee = a /\ InRange(rows.issue[i].updated, R)}
        /\ ReviewedIssues(rows, a, R1) = {i \in IssueIds : rows.issue[i].assignee = a /\ InRange(rows.issue[i].updated, R1)}
        /\ ReviewedIssues(rows, a, R2) = {i \in IssueIds : rows.issue[i].assignee = a /\ InRange(rows.issue[i].updated, R2)}
    BY <2>1, <2>2
  <2>4. ReviewedIssues(rows, a, R) \subseteq IssueIds
    BY <2>3
  <2>5. IsFiniteSet(ReviewedIssues(rows, a, R))
    BY <2>4, FS_Subset, RowsAssumption
  <2>6. QED
    BY <1>1, <1>2, <2>3, <2>4, <2>5 DEF Parts
<1>6. QED
  BY <1>3, <1>4, <1>5

(* What is told of both periods is what the combination tells.             *)
Whole(b, c) ==
  /\ b.committed = c.committed /\ b.completed = c.completed /\ b.ratio = c.ratio
  /\ b.weekly = c.weekly /\ b.daily = c.daily /\ b.totalHours = c.totalHours
  /\ b.averageHours = c.averageHours /\ b.spread = c.spread
  /\ b.reopened = c.reopened /\ b.bugs = c.bugs /\ b.blockers = c.blockers
  /\ b.authored = c.authored /\ b.mentions = c.mentions /\ b.links = c.links
  /\ b.warnings \subseteq c.warnings /\ ToSet(b.highlights) \subseteq c.highlights

(* It is, whatever the periods that follow each other.                     *)
LEMMA ReviewsAddUp ==
  ASSUME RowsHold, RowsDated, NEW a, NEW R, NEW R1, NEW R2, Follow(R, R1, R2),
         NEW I, I = ReviewedIssues(rows, a, R), NEW I1, I1 = ReviewedIssues(rows, a, R1),
         NEW I2, I2 = ReviewedIssues(rows, a, R2),
         NEW L, L = LoggedBy(rows, {a}, R), NEW L1, L1 = LoggedBy(rows, {a}, R1), NEW L2, L2 = LoggedBy(rows, {a}, R2),
         NEW C, C = ReviewedComments(rows, a, R), NEW C1, C1 = ReviewedComments(rows, a, R1),
         NEW C2, C2 = ReviewedComments(rows, a, R2),
         NEW b, ReviewHas(b, rows, a, R, I, L, C), NEW p, ReviewHas(p, rows, a, R1, I1, L1, C1),
         NEW q, ReviewHas(q, rows, a, R2, I2, L2, C2), NEW c, c = CombinePerformanceMetrics(<<p, q>>)
  PROVE  Whole(b, c) /\ Counted(p) /\ Counted(q)
<1>1. Parts(I, I1, I2) /\ Parts(L, L1, L2) /\ Parts(C, C1, C2) /\ I \in SUBSET IssueIds /\ C \in SUBSET rows.comments
  BY PeriodParts
<1>2. /\ Parts(Done(rows, I), Done(rows, I1), Done(rows, I2)) /\ Parts(Reopened(rows, I), Reopened(rows, I1), Reopened(rows, I2))
      /\ Parts(Bugs(rows, I), Bugs(rows, I1), Bugs(rows, I2))
      /\ Parts(Resolved(rows, I), Resolved(rows, I1), Resolved(rows, I2))
      /\ Parts(Unresolved(rows, I), Unresolved(rows, I1), Unresolved(rows, I2))
  BY <1>1, DoneParts
<1>3. /\ Parts(Authored(C, a), Authored(C1, a), Authored(C2, a))
      /\ Parts(MentionsOf(rows, C, a), MentionsOf(rows, C1, a), MentionsOf(rows, C2, a))
  BY <1>1, SaidParts
<1>4. /\ p.committed \in Nat /\ q.committed \in Nat /\ b.committed = p.committed + q.committed
  BY <1>1, PartsCount DEF ReviewHas
<1>5. /\ p.completed \in Nat /\ q.completed \in Nat /\ b.completed = p.completed + q.completed
  BY <1>2, PartsCount DEF ReviewHas
<1>6. /\ p.reopened \in Nat /\ q.reopened \in Nat /\ b.reopened = p.reopened + q.reopened
  BY <1>2, PartsCount DEF ReviewHas
<1>7. /\ p.bugs \in Nat /\ q.bugs \in Nat /\ b.bugs = p.bugs + q.bugs
  BY <1>2, PartsCount DEF ReviewHas
<1>8. /\ p.blockers.resolved \in Nat /\ q.blockers.resolved \in Nat
      /\ b.blockers.resolved = p.blockers.resolved + q.blockers.resolved
  BY <1>2, PartsCount DEF ReviewHas
<1>9. /\ p.blockers.active \in Nat /\ q.blockers.active \in Nat
      /\ b.blockers.active = p.blockers.active + q.blockers.active
  BY <1>2, PartsCount DEF ReviewHas
<1>10. /\ p.authored \in Nat /\ q.authored \in Nat /\ b.authored = p.authored + q.authored
  BY <1>3, PartsCount DEF ReviewHas
<1>11. /\ p.mentions \in Nat /\ q.mentions \in Nat /\ b.mentions = p.mentions + q.mentions
  BY <1>3, PartsCount DEF ReviewHas
<1>12. /\ p.links \in Nat /\ q.links \in Nat /\ b.links = p.links + q.links
  BY <1>1, LinkParts DEF ReviewHas
<1>13. Counted(p) /\ Counted(q)
  BY <1>4, <1>5, <1>6, <1>7, <1>8, <1>9, <1>10, <1>11, <1>12 DEF Counted
<1>14. CombinedHas(c, p, q)
  BY <1>13, CombinedFields
<1>15. /\ b.committed = c.committed /\ b.completed = c.completed /\ b.reopened = c.reopened /\ b.bugs = c.bugs
       /\ b.authored = c.authored /\ b.mentions = c.mentions /\ b.links = c.links
       /\ b.blockers.resolved = c.blockers.resolved /\ b.blockers.active = c.blockers.active
  BY <1>4, <1>5, <1>6, <1>7, <1>8, <1>9, <1>10, <1>11, <1>12, <1>14 DEF CombinedHas
<1>16. b.blockers = c.blockers
  BY <1>14, <1>15 DEF CombinedHas, ReviewHas
<1>17. b.ratio = c.ratio
  <2>1. I = {} <=> b.committed = 0
    <3>1. IsFiniteSet(I) /\ b.committed = Cardinality(I)
      BY <1>1 DEF Parts, ReviewHas
    <3>2. QED
      BY <3>1, FS_EmptySet
  <2>2. b.ratio = IF I = {} THEN NoOne ELSE Rounded(100 * b.completed, b.committed)
    BY DEF ReviewHas
  <2>3. c.ratio = IF c.committed = 0 THEN NoOne ELSE Rounded(100 * c.completed, c.committed)
    BY <1>14 DEF CombinedHas
  <2>4. QED
    BY <1>15, <2>1, <2>2, <2>3
<1>18. b.weekly = c.weekly
  <2>0. PICK w1, w2 : w1 = WeeklyVelocity(rows, Done(rows, I1)) /\ w2 = WeeklyVelocity(rows, Done(rows, I2))
    OBVIOUS
  <2>1. /\ (\A k \in DOMAIN w1 : w1[k] \in Nat) /\ (\A k \in DOMAIN w2 : w2[k] \in Nat)
        /\ b.weekly = Merged(w1, w2)
    BY <1>2, <2>0, WeekParts DEF ReviewHas
  <2>2. p.weekly = w1 /\ q.weekly = w2
    BY <2>0 DEF ReviewHas
  <2>3. (\A k \in DOMAIN w1 : w1[k] \in Int) /\ (\A k \in DOMAIN w2 : w2[k] \in Int)
    BY <2>1
  <2>4. SumMaps(Two(w1, w2)) = Merged(w1, w2)
    BY <2>3, MapsOfTwo
  <2>5. c.weekly = SumMaps(Two(p.weekly, q.weekly))
    BY <1>14 DEF CombinedHas
  <2>6. QED
    BY <2>1, <2>2, <2>4, <2>5
<1>19. b.daily = c.daily
  <2>0. PICK d1, d2 : d1 = DailyHours(R1, L1) /\ d2 = DailyHours(R2, L2)
    OBVIOUS
  <2>1. b.daily = Merged(d1, d2)
    BY <2>0, DayParts DEF ReviewHas
  <2>2. p.daily = d1 /\ q.daily = d2
    BY <2>0 DEF ReviewHas
  <2>3. (\A k \in DOMAIN d1 : d1[k] \in Int) /\ (\A k \in DOMAIN d2 : d2[k] \in Int)
    <3>1. FullDays(R1) /\ FullDays(R2) /\ L1 \in SUBSET rows.worklogs /\ L2 \in SUBSET rows.worklogs
      BY DEF Follow, LoggedBy
    <3>2. QED
      BY <2>0, <3>1, DailyIs
  <2>4. SumMaps(Two(d1, d2)) = Merged(d1, d2)
    BY <2>3, MapsOfTwo
  <2>5. c.daily = SumMaps(Two(p.daily, q.daily))
    BY <1>14 DEF CombinedHas
  <2>6. QED
    BY <2>1, <2>2, <2>4, <2>5
<1>20. b.totalHours = c.totalHours /\ b.averageHours = c.averageHours /\ b.spread = c.spread
  BY <1>14, <1>19 DEF CombinedHas, ReviewHas
<1>21. b.warnings \subseteq c.warnings
  <2>1. (L = {} => L1 = {}) /\ (C = {} => C1 = {})
    BY <1>1 DEF Parts
  <2>2. b.warnings \subseteq p.warnings
    BY <2>1 DEF ReviewHas
  <2>3. p.warnings \cup q.warnings \subseteq c.warnings
    BY <1>14 DEF CombinedHas
  <2>4. QED
    BY <2>2, <2>3
<1>22. ToSet(b.highlights) \subseteq c.highlights
  <2>1. /\ ToSet(b.highlights) = Latest3(Peers(C, a)) /\ ToSet(p.highlights) = Latest3(Peers(C1, a))
        /\ ToSet(q.highlights) = Latest3(Peers(C2, a))
    BY HighlightsAre DEF ReviewHas
  <2>2. Peers(C, a) \in SUBSET rows.comments /\ Peers(C, a) = Peers(C1, a) \cup Peers(C2, a)
    BY <1>1 DEF Parts, Peers
  <2>3. Latest3(Peers(C, a)) \subseteq Latest3(Peers(C1, a)) \cup Latest3(Peers(C2, a))
    BY <2>2, LatestSplit
  <2>4. c.highlights = ToSet(p.highlights) \cup ToSet(q.highlights)
    BY <1>14 DEF CombinedHas
  <2>5. QED
    BY <2>1, <2>3, <2>4
<1>23. QED
  BY <1>13, <1>15, <1>16, <1>17, <1>18, <1>19, <1>20, <1>21, <1>22 DEF Whole

(* The figures of a review are numbers, and who wrote nothing is warned    *)
(* of.                                                                     *)
Figured(m) ==
  /\ m.completed \in Nat /\ m.authored \in Nat /\ m.totalHours \in Int /\ m.spread \in Int
  /\ Cardinality(DOMAIN m.daily) \in Nat
  /\ m.ratio = NoOne \/ m.ratio \in Int
  /\ "LOW_COLLABORATION" \in m.warnings => m.authored = 0

(* A rounded quotient is an integer.                                       *)
LEMMA RoundedType == ASSUME NEW x \in Int, NEW y \in Nat, y # 0 PROVE Rounded(x, y) \in Int
BY DEF Rounded

(* The figures of the review that is built are.                            *)
LEMMA ReviewFigures ==
  ASSUME RowsHold, RowsDated, NEW a, NEW R, FullDays(R),
         NEW I, I = ReviewedIssues(rows, a, R), NEW L, L = LoggedBy(rows, {a}, R),
         NEW C, C = ReviewedComments(rows, a, R), NEW b, ReviewHas(b, rows, a, R, I, L, C)
  PROVE  Figured(b)
<1>1. IsFiniteSet(I) /\ IsFiniteSet(C) /\ L \in SUBSET rows.worklogs
  <2>1. I \subseteq IssueIds /\ C \subseteq rows.comments /\ L \in SUBSET rows.worklogs
    BY RowsKinds DEF ReviewedIssues, ReviewedComments, LoggedBy, RowsHold
  <2>2. QED
    BY <2>1, FS_Subset, RowsAssumption DEF RowsHold
<1>2. b.completed \in Nat
  <2>1. Done(rows, I) \subseteq I
    BY DEF Done
  <2>2. QED
    BY <1>1, <2>1, FS_Subset, FS_CardinalityType DEF ReviewHas
<1>3. b.authored \in Nat
  <2>1. Authored(C, a) \subseteq C
    BY DEF Authored
  <2>2. QED
    BY <1>1, <2>1, FS_Subset, FS_CardinalityType DEF ReviewHas
<1>4. PICK h : h = DailyHours(R, L)
  OBVIOUS
<1>5. IsFiniteSet(DOMAIN h) /\ \A d \in DOMAIN h : h[d] \in Int
  BY <1>1, <1>4, DailyIs
<1>6. Cardinality(DOMAIN h) \in Nat
  BY <1>5, FS_CardinalityType
<1>7. SumOf(h) \in Int
  <2>1. SumOf(h) = SumOver(h, DOMAIN h)
    BY DEF SumOf, SumOver
  <2>2. QED
    BY <1>5, <2>1, SumType
<1>8. Spread(h) \in Int
  <2> DEFINE g == [d \in DOMAIN h |-> h[d] * h[d]]
  <2>1. DOMAIN g = DOMAIN h /\ \A d \in DOMAIN h : g[d] \in Int
    BY <1>5
  <2>2. Spread(h) = Cardinality(DOMAIN h) * SumOf(g) - SumOf(h) * SumOf(h)
    BY DEF Spread
  <2> HIDE DEF g
  <2>3. SumOf(g) \in Int
    <3>1. SumOf(g) = SumOver(g, DOMAIN h)
      BY <2>1 DEF SumOf, SumOver
    <3>2. QED
      BY <1>5, <2>1, <3>1, SumType
  <2>4. QED
    BY <1>6, <1>7, <2>2, <2>3
<1>9. b.daily = h /\ b.totalHours = SumOf(h) /\ b.spread = Spread(h)
  BY <1>4 DEF ReviewHas
<1>10. b.ratio = NoOne \/ b.ratio \in Int
  <2>1. CASE I = {}
    BY <2>1 DEF ReviewHas
  <2>2. CASE I # {}
    <3>1. PICK n \in Nat : n = Cardinality(I) /\ n # 0
      BY <1>1, <2>2, FS_CardinalityType, FS_EmptySet
    <3>2. PICK k \in Int : k = 100 * Cardinality(Done(rows, I))
      <4>1. Cardinality(Done(rows, I)) \in Nat
        BY <1>2 DEF ReviewHas
      <4>2. 100 * Cardinality(Done(rows, I)) \in Int
        BY <4>1
      <4>3. QED
        BY <4>2
    <3>3. b.ratio = Rounded(k, n)
      BY <2>2, <3>1, <3>2 DEF ReviewHas
    <3>4. QED
      BY <3>1, <3>3, RoundedType
  <2>3. QED
    BY <2>1, <2>2
<1>11. "LOW_COLLABORATION" \in b.warnings => b.authored = 0
  <2>1. C = {} => Authored(C, a) = {}
    BY DEF Authored
  <2>2. QED
    BY <2>1, FS_EmptySet DEF ReviewHas
<1>12. QED
  BY <1>2, <1>3, <1>6, <1>7, <1>8, <1>9, <1>10, <1>11 DEF Figured

(* A narrative does not praise and criticise the same thing: the           *)
(* thresholds of the deviation exclude each other, and a teammate of five  *)
(* comments is not one of none.                                            *)
LEMMA PraisedOrCriticised ==
  ASSUME NEW m, Figured(m), NEW told, told = GeneratePerformanceSummary(m)
  PROVE  /\ {"steady", "balance"} \cap (told.strengths \cup told.improvements) # {"steady", "balance"}
         /\ ~("collaboration" \in told.strengths /\ "no collaboration" \in told.anomalies)
<1>1. PICK n \in Nat : n = Cardinality(DOMAIN m.daily)
  BY DEF Figured
<1>2. /\ "steady" \in told.strengths => 4 * m.spread < ((200 * 2 - 1) * n) * ((200 * 2 - 1) * n)
      /\ "collaboration" \in told.strengths => m.authored >= 5
      /\ "balance" \notin told.strengths
  BY <1>1 DEF GeneratePerformanceSummary
<1>3. /\ "balance" \in told.improvements => 4 * m.spread >= ((200 * 3 + 1) * n) * ((200 * 3 + 1) * n)
      /\ "steady" \notin told.improvements
  BY <1>1 DEF GeneratePerformanceSummary
<1>4. "no collaboration" \in told.anomalies => "LOW_COLLABORATION" \in m.warnings
  BY DEF GeneratePerformanceSummary
<1>5. PICK s \in Int : s = m.spread
  BY DEF Figured
<1>6. ~(/\ 4 * s < ((200 * 2 - 1) * n) * ((200 * 2 - 1) * n)
        /\ 4 * s >= ((200 * 3 + 1) * n) * ((200 * 3 + 1) * n))
  <2>1. /\ n * n \in Nat
        /\ ((200 * 2 - 1) * n) * ((200 * 2 - 1) * n) = 159201 * (n * n)
        /\ ((200 * 3 + 1) * n) * ((200 * 3 + 1) * n) = 361201 * (n * n)
    OBVIOUS
  <2>2. QED
    BY <2>1
<1>7. ~("collaboration" \in told.strengths /\ "no collaboration" \in told.anomalies)
  <2>1. "LOW_COLLABORATION" \in m.warnings => m.authored = 0
    BY DEF Figured
  <2>2. ~(0 >= 5)
    OBVIOUS
  <2>3. "LOW_COLLABORATION" \in m.warnings => ~(m.authored >= 5)
    BY <2>1, <2>2
  <2>4. QED
    BY <1>2, <1>4, <2>3
<1>8. ~("steady" \in told.strengths /\ "balance" \in told.improvements)
  BY <1>2, <1>3, <1>5, <1>6
<1>9. QED
  BY <1>2, <1>3, <1>7, <1>8

(* Compared the other way round, the change is the opposite one.           *)
LEMMA ComparedEitherWay ==
  ASSUME NEW p, NEW q, Figured(p), Figured(q), NEW change, change = ComparePerformanceMetrics(q, p),
         NEW back, back = ComparePerformanceMetrics(p, q)
  PROVE  \A f \in DOMAIN change : change[f] = NoOne \/ change[f] = -back[f]
<1>1. DOMAIN change = {"completion", "velocity", "hours", "comments"}
  BY DEF ComparePerformanceMetrics
<1>2. change["velocity"] = -back["velocity"]
  BY DEF ComparePerformanceMetrics, Figured
<1>3. change["hours"] = -back["hours"]
  BY DEF ComparePerformanceMetrics, Figured
<1>4. change["comments"] = -back["comments"]
  BY DEF ComparePerformanceMetrics, Figured
<1>5. change["completion"] = NoOne \/ change["completion"] = -back["completion"]
  <2>1. CASE NoOne \in {p.ratio, q.ratio}
    BY <2>1 DEF ComparePerformanceMetrics
  <2>2. CASE NoOne \notin {p.ratio, q.ratio}
    <3>1. PICK x, y \in Int : x = p.ratio /\ y = q.ratio
      BY <2>2 DEF Figured
    <3>2. change["completion"] = y - x /\ back["completion"] = x - y
      BY <2>2, <3>1 DEF ComparePerformanceMetrics
    <3>3. QED
      BY <3>2
  <2>3. QED
    BY <2>1, <2>2
<1>6. QED
  BY <1>1, <1>2, <1>3, <1>4, <1>5

(* What the property says of one account.                                  *)
Told(both, combined, told, change, back) ==
  /\ \A f \in Additive : both[f] = combined[f]
  /\ both.warnings \subseteq combined.warnings /\ ToSet(both.highlights) \subseteq combined.highlights
  /\ {"steady", "balance"} \cap (told.strengths \cup told.improvements) # {"steady", "balance"}
  /\ ~("collaboration" \in told.strengths /\ "no collaboration" \in told.anomalies)
  /\ \A f \in DOMAIN change : change[f] = NoOne \/ change[f] = -back[f]

(* It holds of every account.                                              *)
LEMMA PeriodTells ==
  ASSUME RowsHold, RowsDated, NEW a, NEW s, s = Today - 2 * Day, NEW f, f = Today - 4 * Day,
         NEW p, p = BuildPerformanceMetrics(rows, a, f, s),
         NEW q, q = BuildPerformanceMetrics(rows, a, s + Day, Today),
         NEW b, b = BuildPerformanceMetrics(rows, a, f, Today),
         NEW c, c = CombinePerformanceMetrics(<<p, q>>), NEW told, told = GeneratePerformanceSummary(b),
         NEW change, change = ComparePerformanceMetrics(q, p), NEW back, back = ComparePerformanceMetrics(p, q)
  PROVE  Told(b, c, told, change, back)
<1>1. PICK R, R1, R2 : R = DayRange(f, Today) /\ R1 = DayRange(f, s) /\ R2 = DayRange(s + Day, Today)
  OBVIOUS
<1>2. Follow(R, R1, R2)
  BY <1>1, PeriodsFollow
<1>3. PICK I, I1, I2 : /\ I = ReviewedIssues(rows, a, R) /\ I1 = ReviewedIssues(rows, a, R1)
                       /\ I2 = ReviewedIssues(rows, a, R2)
  OBVIOUS
<1>4. PICK L, L1, L2 : L = LoggedBy(rows, {a}, R) /\ L1 = LoggedBy(rows, {a}, R1) /\ L2 = LoggedBy(rows, {a}, R2)
  OBVIOUS
<1>5. PICK C, C1, C2 : /\ C = ReviewedComments(rows, a, R) /\ C1 = ReviewedComments(rows, a, R1)
                       /\ C2 = ReviewedComments(rows, a, R2)
  OBVIOUS
<1>6. ReviewHas(b, rows, a, R, I, L, C)
  BY <1>1, <1>3, <1>4, <1>5, ReviewFields
<1>7. ReviewHas(p, rows, a, R1, I1, L1, C1)
  BY <1>1, <1>3, <1>4, <1>5, ReviewFields
<1>8. ReviewHas(q, rows, a, R2, I2, L2, C2)
  BY <1>1, <1>3, <1>4, <1>5, ReviewFields
<1>9. Whole(b, c)
  BY <1>2, <1>3, <1>4, <1>5, <1>6, <1>7, <1>8, ReviewsAddUp
<1>10. FullDays(R) /\ FullDays(R1) /\ FullDays(R2)
  BY <1>2 DEF Follow
<1>11. Figured(b)
  BY <1>3, <1>4, <1>5, <1>6, <1>10, ReviewFigures
<1>12. Figured(p)
  BY <1>3, <1>4, <1>5, <1>7, <1>10, ReviewFigures
<1>13. Figured(q)
  BY <1>3, <1>4, <1>5, <1>8, <1>10, ReviewFigures
<1>14. \A g \in Additive : b[g] = c[g]
  BY <1>9 DEF Whole, Additive
<1>15. /\ {"steady", "balance"} \cap (told.strengths \cup told.improvements) # {"steady", "balance"}
       /\ ~("collaboration" \in told.strengths /\ "no collaboration" \in told.anomalies)
  BY <1>11, PraisedOrCriticised
<1>16. \A g \in DOMAIN change : change[g] = NoOne \/ change[g] = -back[g]
  BY <1>12, <1>13, ComparedEitherWay
<1>17. QED
  BY <1>9, <1>14, <1>15, <1>16 DEF Told, Whole

(* So it does over all rows of the right shape whose dates are in order.   *)
LEMMA PeriodsOfRows == RowsHold /\ RowsDated => PeriodsAddUp
<1> SUFFICES ASSUME RowsHold, RowsDated, NEW a \in Accounts
             PROVE  LET split == Today - 2 * Day
                        Review(from, until) == BuildPerformanceMetrics(rows, a, from, until)
                        early == Review(Today - 4 * Day, split)
                        late == Review(split + Day, Today)
                        both == Review(Today - 4 * Day, Today)
                        combined == CombinePerformanceMetrics(<<early, late>>)
                        told == GeneratePerformanceSummary(both)
                        change == ComparePerformanceMetrics(late, early)
                        back == ComparePerformanceMetrics(early, late)
                    IN Told(both, combined, told, change, back)
  BY DEF PeriodsAddUp, Told
<1>1. PICK s, f : s = Today - 2 * Day /\ f = Today - 4 * Day
  OBVIOUS
<1>2. PICK p, q, b : /\ p = BuildPerformanceMetrics(rows, a, f, s)
                     /\ q = BuildPerformanceMetrics(rows, a, s + Day, Today)
                     /\ b = BuildPerformanceMetrics(rows, a, f, Today)
  OBVIOUS
<1>3. PICK c, told, change, back : /\ c = CombinePerformanceMetrics(<<p, q>>)
                                   /\ told = GeneratePerformanceSummary(b)
                                   /\ change = ComparePerformanceMetrics(q, p)
                                   /\ back = ComparePerformanceMetrics(p, q)
  OBVIOUS
<1>4. Told(b, c, told, change, back)
  BY <1>1, <1>2, <1>3, PeriodTells
<1>5. QED
  BY <1>1, <1>2, <1>3, <1>4

(* In every reachable state, for every account, the reviews of two periods *)
(* that follow each other, combined as the portfolio view does it, are the *)
(* review of both in every figure that is summed; no warning and no        *)
(* highlight of the whole is missing from the combination; a narrative     *)
(* does not praise and criticise the same thing; and a comparison tells    *)
(* the same change either way (normalizeRange, loadContext,                *)
(* buildPerformanceMetrics, combinePerformanceMetrics,                     *)
(* comparePerformanceMetrics).                                             *)
THEOREM PeriodsAlwaysAddUp == Spec => []PeriodsAddUp
<1>1. Init => RowsHold /\ RowsDated
  BY RowsHoldInit, RowsDatedInit
<1>2. RowsHold /\ RowsDated /\ [Next]_vars => RowsHold' /\ RowsDated'
  BY RowsHoldNext, RowsDatedNext
<1>3. RowsHold /\ RowsDated => PeriodsAddUp
  BY PeriodsOfRows
<1>4. QED
  BY <1>1, <1>2, <1>3, PTL DEF Spec

-----------------------------------------------------------------------------
(***************************************************************************)
(* The reports beside each other: the hours of a teammate in the stand-up, *)
(* the review and the focus board, and the last run of a day in the        *)
(* newsletter and on the pages.                                            *)
(***************************************************************************)

(* What the review, the teammate's own summary and the focus board tell of *)
(* an account on a day, beside the minutes and hours of the stand-up.      *)
AccountAgrees(a, day, m, hours) ==
  /\ LET review == BuildPerformanceMetrics(rows, a, day - Day, day)
     IN Near(review.totalHours, hours, Cardinality(DOMAIN review.daily))
  /\ \A v \in UserIds : rows.link[v] = a =>
       /\ GenerateSummaryForUser(rows, v, day).minutes = m
       /\ \A t : hours = BuildFocusBoard(rows, v, day - Day, day, t, {}).metrics.hours

(* The two days of a stand-up are the range of the review and the board    *)
(* that begins the day before.                                             *)
LEMMA WindowIsRange ==
  ASSUME RowsHold, NEW a, NEW day \in Int
  PROVE  LoggedBy(rows, {a}, DayRange(day - Day, day)) = WorklogsOf(rows, a, day)
<1>1. PICK R : R = DayRange(day - Day, day)
  OBVIOUS
<1>2. R.from = day - Day /\ R.until = day + Day
  BY <1>1 DEF DayRange
<1>3. \A l \in rows.worklogs : InRange(l.at, R) <=> InWindow(l.at, day)
  BY <1>2 DEF InRange, InWindow
<1>4. QED
  BY <1>1, <1>3 DEF LoggedBy, WorklogsOf

(* The review of these days tells the hours of the stand-up, but for the   *)
(* rounding of its daily figures.                                          *)
LEMMA ReviewAgrees ==
  ASSUME RowsHold, NEW a, NEW day \in Int, day % Day = 0, NEW hours, hours = Hours(Minutes(WorklogsOf(rows, a, day))),
         NEW b, b = BuildPerformanceMetrics(rows, a, day - Day, day)
  PROVE  Near(b.totalHours, hours, Cardinality(DOMAIN b.daily))
<1>1. PICK e : e = day - Day
  OBVIOUS
<1>2. PICK R, L : R = DayRange(e, day) /\ L = LoggedBy(rows, {a}, R)
  OBVIOUS
<1>3. PICK I, C : I = ReviewedIssues(rows, a, R) /\ C = ReviewedComments(rows, a, R)
  OBVIOUS
<1>4. ReviewHas(b, rows, a, R, I, L, C)
  BY <1>1, <1>2, <1>3, ReviewFields
<1>5. b.daily = DailyHours(R, L) /\ b.totalHours = SumOf(b.daily)
  BY <1>4 DEF ReviewHas
<1>6. L = WorklogsOf(rows, a, day) /\ L \in SUBSET rows.worklogs
  <2>1. L = WorklogsOf(rows, a, day)
    BY <1>1, <1>2, WindowIsRange
  <2>2. WorklogsOf(rows, a, day) \in SUBSET rows.worklogs
    BY DEF WorklogsOf
  <2>3. QED
    BY <2>1, <2>2
<1>7. R.from = day - 2 /\ R.until = day + 2 /\ FullDays(R)
  <2>1. R.from = day - 2 /\ R.until = day + 2
    BY <1>1, <1>2 DEF DayRange, Day
  <2>2. day % 2 = 0 /\ (day - 2) % 2 = 0 /\ (day + 2) % 2 = 0
    BY DEF Day
  <2>3. QED
    BY <2>1, <2>2 DEF FullDays, Day
<1>8. PICK D : D = DOMAIN DailyHours(R, L)
  OBVIOUS
<1>9. IsFiniteSet(D) /\ D = {t \in Int : R.from <= t /\ t < R.until /\ t % Day = 0}
  BY <1>6, <1>7, <1>8, DailyIs
<1>10. \A l \in L : StartOfDay(l.at) \in D
  <2> SUFFICES ASSUME NEW l \in L PROVE StartOfDay(l.at) \in D
    OBVIOUS
  <2>1. PICK t \in Int : t = l.at /\ day - 2 <= t /\ t < day + 2
    <3>1. l.at \in Int
      BY <1>6, RowsKinds DEF RowsHold, WorklogRows
    <3>2. InWindow(l.at, day)
      BY <1>6 DEF WorklogsOf
    <3>3. QED
      BY <3>1, <3>2 DEF InWindow, Day
  <2>2. t - (t % 2) \in Int /\ day - 2 <= t - (t % 2) /\ t - (t % 2) < day + 2 /\ (t - (t % 2)) % 2 = 0
    BY <2>1 DEF Day
  <2>3. QED
    BY <1>7, <1>9, <2>1, <2>2 DEF StartOfDay, Day
<1>11. PICK h : h = [l \in L |-> StartOfDay(l.at)]
  OBVIOUS
<1>x. PICK f : f = [d \in D |-> Hours(Minutes({l \in L : h[l] = d}))]
  OBVIOUS
<1>12. DailyHours(R, L) = f
  <2>1. \A d \in D : {l \in L : h[l] = d} = {l \in L : StartOfDay(l.at) = d}
    BY <1>11
  <2>2. QED
    BY <1>8, <1>x, <2>1 DEF DailyHours
<1>13. Near(SumOf(f), Hours(Minutes(L)), Cardinality(DOMAIN f))
  <2>1. \A l \in L : h[l] \in D
    BY <1>10, <1>11
  <2>2. QED
    BY <1>6, <1>9, <1>x, <2>1, DaysNear
<1>14. QED
  BY <1>5, <1>6, <1>12, <1>13

(* The focus board of whoever is linked to the account tells the hours of  *)
(* the stand-up.                                                           *)
LEMMA BoardAgrees ==
  ASSUME RowsHold, NEW v \in UserIds, NEW a \in Profiles, rows.link[v] = a, NEW day \in Int, NEW t
  PROVE  BuildFocusBoard(rows, v, day - Day, day, t, {}).metrics.hours = Hours(Minutes(WorklogsOf(rows, a, day)))
<1>1. PICK e \in Int : e = day - Day /\ e <= day
  BY DEF Day
<1>2. NoOne \notin Int /\ a # NoOne
  BY RowsAssumption DEF Holders
<1>3. BoardRange(e, day, t) = DayRange(e, day)
  BY <1>1, <1>2 DEF BoardRange
<1>4. PICK R, A, L, I : /\ R = BoardRange(e, day, t) /\ A = {rows.link[v]} \ {NoOne}
                        /\ L = LoggedBy(rows, A, R) /\ I = BoardIssues(rows, A, R)
  OBVIOUS
<1>5. PICK b : b = BuildFocusBoard(rows, v, e, day, t, {})
  OBVIOUS
<1>6. b.metrics = BoardMetrics(rows, I, L, R)
  BY <1>4, <1>5 DEF BuildFocusBoard
<1>7. b.metrics.hours = Hours(Minutes(L))
  BY <1>6 DEF BoardMetrics
<1>8. A = {a}
  BY <1>2, <1>4
<1>9. L = WorklogsOf(rows, a, day)
  BY <1>1, <1>3, <1>4, <1>8, WindowIsRange
<1>10. QED
  BY <1>1, <1>5, <1>7, <1>9

(* So does the summary that its user asks for.                             *)
LEMMA OwnAgrees ==
  ASSUME RowsHold, NEW v, NEW a \in Profiles, rows.link[v] = a, NEW day, ~IsAway(rows, a, day)
  PROVE  GenerateSummaryForUser(rows, v, day).minutes = Minutes(WorklogsOf(rows, a, day))
<1>1. a # NoOne /\ rows.profiles = Profiles
  BY RowsAssumption, RowsKinds DEF Holders, RowsHold
<1>2. PICK t : t = [account |-> a, user |-> v, tracked |-> IF a \in rows.tracked THEN a ELSE NoOne]
  OBVIOUS
<1>3. GenerateSummaryForUser(rows, v, day) = GenerateSummaryForTarget(rows, t, day)
  BY <1>2 DEF GenerateSummaryForUser
<1>4. t.account = a
  BY <1>2
<1>5. GenerateSummaryForTarget(rows, t, day) = ComputedSummary(rows, t, day)
  BY <1>1, <1>4 DEF GenerateSummaryForTarget
<1>6. ComputedSummary(rows, t, day).minutes = Minutes(WorklogsOf(rows, a, day))
  BY <1>4 DEF ComputedSummary
<1>7. QED
  BY <1>3, <1>5, <1>6

(* All of them agree about an account that is not away.                    *)
LEMMA TeammateAgrees ==
  ASSUME RowsHold, NEW a \in Profiles, NEW day \in Int, day % Day = 0, ~IsAway(rows, a, day),
         NEW m, m = Minutes(WorklogsOf(rows, a, day))
  PROVE  AccountAgrees(a, day, m, Hours(m))
<1>1. PICK b, hours : b = BuildPerformanceMetrics(rows, a, day - Day, day) /\ hours = Hours(m)
  OBVIOUS
<1>2. Near(b.totalHours, hours, Cardinality(DOMAIN b.daily))
  BY <1>1, ReviewAgrees
<1>3. \A v \in UserIds : rows.link[v] = a =>
        /\ GenerateSummaryForUser(rows, v, day).minutes = m
        /\ \A t : hours = BuildFocusBoard(rows, v, day - Day, day, t, {}).metrics.hours
  BY <1>1, BoardAgrees, OwnAgrees
<1>4. QED
  BY <1>1, <1>2, <1>3 DEF AccountAgrees

(* What the property says of one run, whatever the time when the board is  *)
(* asked for.                                                              *)
AgreesIn(r) ==
  \A u \in ToSet(r.users) :
    LET target == u.payload.target
        hours == Hours(u.payload.metrics.minutes)
    IN target.account \in r.rows.profiles /\ "unavailable" \notin u.payload.flags =>
         /\ LET review == BuildPerformanceMetrics(r.rows, target.account, r.day - Day, r.day)
            IN Near(review.totalHours, hours, Cardinality(DOMAIN review.daily))
         /\ \A v \in UserIds : r.rows.link[v] = target.account =>
              /\ GenerateSummaryForUser(r.rows, v, r.day).minutes = u.payload.metrics.minutes
              /\ \A t : hours = BuildFocusBoard(r.rows, v, r.day - Day, r.day, t, {}).metrics.hours

(* It holds of a run that tells of the rows as they are.                   *)
LEMMA RunAgrees ==
  ASSUME RowsHold, NEW day \in Int, day % Day = 0, NEW r, RunTells(r, day)
  PROVE  AgreesIn(r)
<1>1. r.rows = rows /\ r.day = day /\ \A k \in DOMAIN r.users : ChapterTells(r.users[k], day)
  BY DEF RunTells
<1>2. ASSUME NEW u \in ToSet(r.users), "unavailable" \notin u.payload.flags
      PROVE  AccountAgrees(u.payload.target.account, day, u.payload.metrics.minutes, Hours(u.payload.metrics.minutes))
  <2>1. ChapterTells(u, day)
    BY <1>1 DEF ToSet
  <2>2. PICK a \in Profiles : a = u.payload.target.account
    BY <2>1 DEF ChapterTells
  <2>3. PICK m : m = u.payload.metrics.minutes
    OBVIOUS
  <2>4. ~IsAway(rows, a, day) /\ m = Minutes(WorklogsOf(rows, a, day))
    BY <1>2, <2>1, <2>2, <2>3 DEF ChapterTells
  <2>5. AccountAgrees(a, day, m, Hours(m))
    BY <2>4, TeammateAgrees
  <2>6. QED
    BY <2>2, <2>3, <2>5
<1>3. QED
  BY <1>1, <1>2 DEF AgreesIn, AccountAgrees

(* What is known of a stored run without the rows as they are now.         *)
RunTold(r) ==
  /\ r.day \in Int
  /\ Len(r.users) \in Nat /\ r.users = [k \in 1..Len(r.users) |-> r.users[k]]
  /\ \A k \in 1..Len(r.users) : r.users[k].payload.metrics.minutes \in Nat
  /\ r.payload.health.minutes = SumOf([k \in DOMAIN r.users |-> r.users[k].payload.metrics.minutes])
  /\ AgreesIn(r)

(* It is true of a new run.                                                *)
LEMMA RunIsTold ==
  ASSUME RowsHold, NEW runs, NEW userOf \in FoundUsers(rows), NEW day \in Int, day % Day = 0
  PROVE  RunTold(NewRun(runs, userOf, day))
<1>1. PICK r : r = NewRun(runs, userOf, day)
  OBVIOUS
<1>2. RunTells(r, day)
  BY <1>1, RunAddsUp
<1>3. AgreesIn(r)
  BY <1>2, RunAgrees
<1>4. r.day \in Int /\ Len(r.users) \in Nat /\ r.users = [k \in 1..Len(r.users) |-> r.users[k]]
  BY <1>2 DEF RunTells
<1>5. DOMAIN r.users = 1..Len(r.users)
  BY <1>4
<1>6. \A k \in 1..Len(r.users) : r.users[k].payload.metrics.minutes \in Nat
  BY <1>2, <1>5 DEF RunTells, ChapterTells
<1>7. r.payload.health.minutes = SumOf([k \in DOMAIN r.users |-> r.users[k].payload.metrics.minutes])
  BY <1>2 DEF RunTells
<1>8. RunTold(r)
  BY <1>3, <1>4, <1>6, <1>7 DEF RunTold
<1>9. QED
  BY <1>1, <1>8

(* The inductive invariant: it is true of every run that is stored.        *)
RunsTold == IsList(snapshots) /\ \A r \in ToSet(snapshots) : RunTold(r)

(* It holds at the start.                                                  *)
LEMMA RunsToldInit == Init => RunsTold
<1> SUFFICES ASSUME Init PROVE RunsTold
  OBVIOUS
<1>1. snapshots = <<>>
  BY DEF Init
<1>2. QED
  BY <1>1 DEF RunsTold, IsList, ToSet

(* Every step keeps it.                                                    *)
LEMMA RunsToldNext == RowsHold /\ RunsTold /\ [Next]_vars => RunsTold'
<1> SUFFICES ASSUME RowsHold, RunsTold, [Next]_vars PROVE RunsTold'
  OBVIOUS
<1>a. ASSUME NEW runs, IsList(runs), \A r \in ToSet(runs) : RunTold(r), NEW userOf \in FoundUsers(rows),
             NEW day \in Int, day % Day = 0
      PROVE  LET more == Append(runs, NewRun(runs, userOf, day))
             IN IsList(more) /\ \A r \in ToSet(more) : RunTold(r)
  <2>1. RunTold(NewRun(runs, userOf, day))
    BY <1>a, RunIsTold
  <2>2. QED
    BY <1>a, <2>1, ListAppended
<1>d. Today \in Int /\ Today - Day \in Int /\ Today % Day = 0 /\ (Today - Day) % Day = 0
  <2>1. now \in Int
    BY DEF RowsHold
  <2>2. PICK d \in Int : d = now - (now % 2)
    BY <2>1
  <2>3. d % 2 = 0 /\ (d - 2) % 2 = 0
    BY <2>1, <2>2
  <2>4. QED
    BY <2>2, <2>3 DEF Today, Day
<1>1. CASE snapshots' = snapshots
  BY <1>1 DEF RunsTold, IsList
<1>2. CASE \E userOf \in FoundUsers(rows) : snapshots' = Append(snapshots, NewRun(snapshots, userOf, Today))
  BY <1>2, <1>a, <1>d DEF RunsTold
<1>3. CASE \E userOf \in FoundUsers(rows) : \E runs :
             /\ runs = Append(snapshots, NewRun(snapshots, userOf, Today))
             /\ snapshots' = Append(runs, NewRun(runs, userOf, Today - Day))
  <2>u. PICK userOf \in FoundUsers(rows) : \E runs :
             /\ runs = Append(snapshots, NewRun(snapshots, userOf, Today))
             /\ snapshots' = Append(runs, NewRun(runs, userOf, Today - Day))
    BY <1>3
  <2>1. PICK runs :
             /\ runs = Append(snapshots, NewRun(snapshots, userOf, Today))
             /\ snapshots' = Append(runs, NewRun(runs, userOf, Today - Day))
    BY <2>u
  <2>2. IsList(runs) /\ \A r \in ToSet(runs) : RunTold(r)
    BY <2>1, <1>a, <1>d DEF RunsTold
  <2>3. IsList(snapshots') /\ \A r \in ToSet(snapshots') : RunTold(r)
    BY <2>1, <2>2, <1>a, <1>d
  <2>4. QED
    BY <2>3 DEF RunsTold, IsList
<1>4. QED
  BY <1>1, <1>2, <1>3, RunsAdded DEF RowsHold

(* The runs of a day.                                                      *)
RunsOf(day) == {k \in DOMAIN snapshots : snapshots[k].day = day}

(* The runs are a list of such runs.                                       *)
LEMMA RunsAre ==
  ASSUME RunsTold
  PROVE  Len(snapshots) \in Nat /\ DOMAIN snapshots = 1..Len(snapshots) /\ \A k \in DOMAIN snapshots : RunTold(snapshots[k])
<1>1. snapshots \in Seq(ToSet(snapshots))
  BY DEF RunsTold, IsList
<1>2. Len(snapshots) \in Nat /\ DOMAIN snapshots = 1..Len(snapshots)
  BY <1>1, LenProperties
<1>3. \A k \in DOMAIN snapshots : RunTold(snapshots[k])
  BY DEF RunsTold, ToSet
<1>4. QED
  BY <1>2, <1>3

(* A day that has a run has a last one.                                    *)
LEMMA LastRunOf ==
  ASSUME RunsTold, NEW day \in {r.day : r \in ToSet(snapshots)}, NEW K, K = RunsOf(day)
  PROVE  /\ day \in Int /\ K \in SUBSET Int /\ IsFiniteSet(K) /\ K # {}
         /\ Max(K) \in K /\ \A k \in K : Max(K) >= k
<1>1. Len(snapshots) \in Nat /\ DOMAIN snapshots = 1..Len(snapshots) /\ \A k \in DOMAIN snapshots : RunTold(snapshots[k])
  BY RunsAre
<1>2. K \in SUBSET Int
  BY <1>1 DEF RunsOf
<1>3. IsFiniteSet(K)
  <2>1. IsFiniteSet(1..Len(snapshots))
    BY <1>1, FS_Interval
  <2>2. K \subseteq 1..Len(snapshots)
    BY <1>1 DEF RunsOf
  <2>3. QED
    BY <2>1, <2>2, FS_Subset
<1>4. PICK k \in DOMAIN snapshots : snapshots[k].day = day
  BY DEF ToSet
<1>5. day \in Int
  BY <1>1, <1>4 DEF RunTold
<1>6. k \in K
  BY <1>4 DEF RunsOf
<1>7. Max(K) \in K /\ \A x \in K : Max(K) >= x
  BY <1>2, <1>3, <1>6, Greatest
<1>8. QED
  BY <1>2, <1>3, <1>5, <1>6, <1>7

(* x begins the list F.                                                    *)
FirstIs(F, x) == Len(F) \in Nat /\ Len(F) >= 1 /\ DOMAIN F = 1..Len(F) /\ F \in Seq(ToSet(F)) /\ F[1] = x

(* What is fetched of a day begins with its last run: of equal days the    *)
(* later run comes first.                                                  *)
LEMMA LastRunFetched ==
  ASSUME RunsTold, NEW day \in {r.day : r \in ToSet(snapshots)}, NEW K, K = RunsOf(day), NEW inc
  PROVE  FirstIs(FetchProjectSummaries(snapshots, day, day, inc), ProjectDailySummary(snapshots, Max(K), inc))
<1>1. PICK M : M = Max(K)
  OBVIOUS
<1>2. /\ day \in Int /\ K \in SUBSET Int /\ IsFiniteSet(K) /\ K # {}
      /\ M \in K /\ \A k \in K : M >= k
  BY <1>1, LastRunOf
<1>3. Len(snapshots) \in Nat /\ DOMAIN snapshots = 1..Len(snapshots) /\ \A k \in DOMAIN snapshots : RunTold(snapshots[k])
  BY RunsAre
<1>4. {k \in DOMAIN snapshots : day <= snapshots[k].day /\ snapshots[k].day <= day} = K
  <2>1. \A k \in DOMAIN snapshots : snapshots[k].day \in Int
    BY <1>3 DEF RunTold
  <2>2. QED
    BY <1>2, <2>1 DEF RunsOf
<1>5. PICK key : key = [k \in K |-> <<-snapshots[k].day, -k>>]
  OBVIOUS
<1>6. PICK order : order = Arranged(K, key)
  OBVIOUS
<1>7. PICK F : F = FetchProjectSummaries(snapshots, day, day, inc)
  OBVIOUS
<1>8. F = [j \in DOMAIN order |-> ProjectDailySummary(snapshots, order[j], inc)]
  <2>1. order = SortedBy(K, LAMBDA k : <<-snapshots[k].day, -k>>)
    BY <1>5, <1>6 DEF SortedBy
  <2>2. F = Mapped(order, LAMBDA k : ProjectDailySummary(snapshots, k, inc))
    BY <1>4, <1>7, <2>1 DEF FetchProjectSummaries
  <2>3. QED
    BY <2>2 DEF Mapped
<1>9. \A k \in K : key[k] = <<-day, -k>>
  BY <1>5 DEF RunsOf
<1>10. Keys(K, key)
  <2> SUFFICES ASSUME NEW k \in K PROVE \E a, b \in Int : key[k] = <<a, b>>
    BY DEF Keys
  <2>1. -day \in Int /\ -k \in Int /\ key[k] = <<-day, -k>>
    BY <1>2, <1>9
  <2>2. QED
    BY <2>1
<1>11. /\ Enumerates(order, K)
       /\ \A i, j \in 1..Cardinality(K) : i < j => ~Before(key[order[j]], key[order[i]])
  BY <1>2, <1>6, <1>10, ArrangedOnce
<1>12. PICK n \in Nat : n = Cardinality(K)
  BY <1>11 DEF Enumerates
<1>13. order \in [1..n -> K] /\ \A x \in K : \E k \in 1..n : order[k] = x
  BY <1>11, <1>12 DEF Enumerates
<1>14. PICK j \in 1..n : order[j] = M
  BY <1>2, <1>13
<1>15. n >= 1 /\ order[1] = M
  <2>1. n >= 1 /\ 1 \in 1..n
    BY <1>14
  <2>2. PICK o \in K : o = order[1]
    BY <1>13, <2>1
  <2>3. CASE j = 1
    BY <1>14, <2>1, <2>3
  <2>4. CASE 1 < j
    <3>1. ~Before(key[M], key[o])
      BY <1>11, <1>12, <1>14, <2>1, <2>2, <2>4
    <3>2. ~Before(<<-day, -M>>, <<-day, -o>>)
      BY <1>2, <1>9, <2>2, <3>1
    <3>3. ~(-M < -o)
      BY <3>2 DEF Before
    <3>4. M \in Int /\ o \in Int /\ M >= o
      BY <1>2
    <3>5. M = o
      BY <3>3, <3>4
    <3>6. QED
      BY <2>1, <2>2, <3>5
  <2>5. QED
    BY <1>14, <2>3, <2>4
<1>16. DOMAIN order = 1..n
  BY <1>13
<1>17. F = [k \in 1..n |-> ProjectDailySummary(snapshots, order[k], inc)]
  BY <1>8, <1>16
<1>18. Len(F) = n /\ DOMAIN F = 1..n /\ F[1] = ProjectDailySummary(snapshots, M, inc)
  <2>1. 1 \in 1..n
    BY <1>15
  <2>2. QED
    BY <1>15, <1>17, <2>1
<1>19. F \in Seq(ToSet(F))
  <2>1. \A k \in 1..n : F[k] \in ToSet(F)
    BY <1>18 DEF ToSet
  <2>2. F \in [1..n -> ToSet(F)]
    BY <1>17, <1>18, <2>1
  <2>3. QED
    BY <2>2, SeqDef
<1>20. FirstIs(F, ProjectDailySummary(snapshots, M, inc))
  BY <1>15, <1>18, <1>19 DEF FirstIs
<1>21. QED
  BY <1>1, <1>7, <1>20

(* The newsletter of a day is rendered from its last run.                  *)
LEMMA NewsletterSent ==
  ASSUME RunsTold, NEW day \in {r.day : r \in ToSet(snapshots)}, NEW K, K = RunsOf(day)
  PROVE  Head(SendDailySummaryNewsletter(snapshots, day)).html = RenderProjectHtml(ProjectDailySummary(snapshots, Max(K), FALSE))
<1>1. PICK F, x : F = FetchProjectSummaries(snapshots, day, day, FALSE) /\ x = ProjectDailySummary(snapshots, Max(K), FALSE)
  OBVIOUS
<1>2. FirstIs(F, x)
  BY <1>1, LastRunFetched
<1>3. FirstOf(F) = [i \in 1..1 |-> F[i]]
  <2>1. Len(F) \in Nat /\ Len(F) >= 1 /\ F \in Seq(ToSet(F))
    BY <1>2 DEF FirstIs
  <2>2. FirstOf(F) = SubSeq(F, 1, 1)
    BY <2>1 DEF FirstOf, UpTo
  <2>3. QED
    BY <2>1, <2>2
<1>4. PICK sent : sent = SendDailySummaryNewsletter(snapshots, day)
  OBVIOUS
<1>5. sent = [k \in DOMAIN FirstOf(F) |-> [html |-> RenderProjectHtml(FirstOf(F)[k]), text |-> RenderProjectText(FirstOf(F)[k])]]
  BY <1>1, <1>4 DEF SendDailySummaryNewsletter, Mapped
<1>6. DOMAIN FirstOf(F) = 1..1 /\ FirstOf(F)[1] = x
  BY <1>2, <1>3 DEF FirstIs
<1>7. PICK mail : mail = [html |-> RenderProjectHtml(x), text |-> RenderProjectText(x)]
  OBVIOUS
<1>8. sent = [k \in 1..1 |-> mail]
  <2>1. \A k \in 1..1 : k = 1
    OBVIOUS
  <2>2. \A k \in 1..1 : FirstOf(F)[k] = x
    BY <1>6, <2>1
  <2>3. QED
    BY <1>5, <1>6, <1>7, <2>2
<1>9. sent = <<mail>>
  BY <1>8
<1>10. Head(sent) = mail
  BY <1>9
<1>11. mail.html = RenderProjectHtml(x)
  BY <1>7
<1>12. QED
  BY <1>1, <1>4, <1>10, <1>11

(* The minutes of a chapter.                                               *)
Logged(p) == p.metrics.minutes

(* B has the chapters in the order o, which names each of them once, and   *)
(* nobody is behind one who logged less.                                   *)
MostFirst(users, B, o) ==
  /\ Enumerates(o, 1..Len(users)) /\ Cardinality(1..Len(users)) = Len(users)
  /\ Len(users) \in Nat /\ DOMAIN users = 1..Len(users)
  /\ B = [k \in 1..Len(users) |-> users[o[k]].payload]
  /\ \A k \in 1..Len(users) : Logged(B[k]) \in Nat
  /\ \A i, j \in 1..Len(users) : i < j => Logged(B[i]) >= Logged(B[j])

(* So the newsletter orders the teammates that it read back in reverse.    *)
LEMMA OrderedTeam ==
  ASSUME NEW r, RunTold(r), NEW V, V = Mapped(Reverse(r.users), SummaryRecord)
  PROVE  \E o : MostFirst(r.users, ByWorklog(V), o)
<1>1. PICK U, B : U = r.users /\ B = ByWorklog(V)
  OBVIOUS
<1>2. PICK N \in Nat : N = Len(U)
  BY <1>1 DEF RunTold
<1>3. DOMAIN U = 1..N /\ \A k \in 1..N : Logged(U[k].payload) \in Nat
  <2>1. U = [k \in 1..N |-> U[k]]
    BY <1>1, <1>2 DEF RunTold
  <2>2. DOMAIN U = 1..N
    BY <2>1
  <2>3. QED
    BY <1>1, <1>2, <2>2 DEF RunTold, Logged
<1>4. DOMAIN V = 1..N /\ \A k \in 1..N : V[k].payload = U[N - k + 1].payload
  <2>1. Reverse(U) = [k \in 1..N |-> U[(N - k) + 1]]
    BY <1>2 DEF Reverse
  <2>2. V = [k \in 1..N |-> SummaryRecord(Reverse(U)[k])]
    BY <1>1, <2>1 DEF Mapped
  <2>3. \A k \in 1..N : V[k] = SummaryRecord(U[N - k + 1])
    BY <2>1, <2>2
  <2>4. \A x : SummaryRecord(x).payload = x.payload
    BY DEF SummaryRecord
  <2>5. DOMAIN V = 1..N
    BY <2>2
  <2>6. QED
    BY <2>3, <2>4, <2>5
<1>5. \A k \in 1..N : N - k + 1 \in 1..N
  OBVIOUS
<1>6. PICK key : key = [k \in 1..N |-> <<-V[k].payload.metrics.minutes, k>>]
  OBVIOUS
<1>7. PICK order : order = Arranged(1..N, key)
  OBVIOUS
<1>8. IsFiniteSet(1..N) /\ Cardinality(1..N) = N
  BY FS_Interval
<1>9. \A k \in 1..N : Logged(V[k].payload) \in Nat /\ key[k] = <<-Logged(V[k].payload), k>>
  BY <1>3, <1>4, <1>5, <1>6 DEF Logged
<1>10. Keys(1..N, key)
  <2> SUFFICES ASSUME NEW k \in 1..N PROVE \E a, b \in Int : key[k] = <<a, b>>
    BY DEF Keys
  <2>1. -Logged(V[k].payload) \in Int /\ k \in Int /\ key[k] = <<-Logged(V[k].payload), k>>
    BY <1>9
  <2>2. QED
    BY <2>1
<1>11. /\ Enumerates(order, 1..N)
       /\ \A i, j \in 1..Cardinality(1..N) : i < j => ~Before(key[order[j]], key[order[i]])
  BY <1>7, <1>8, <1>10, ArrangedOnce
<1>12. /\ order \in [1..N -> 1..N] /\ DOMAIN order = 1..N
       /\ \A j, k \in 1..N : order[j] = order[k] => j = k
       /\ \A x \in 1..N : \E k \in 1..N : order[k] = x
  BY <1>8, <1>11 DEF Enumerates
<1>13. B = [k \in 1..N |-> V[order[k]].payload]
  <2>1. order = SortedBy(DOMAIN V, LAMBDA k : <<-V[k].payload.metrics.minutes, k>>)
    BY <1>4, <1>6, <1>7 DEF SortedBy
  <2>2. B = Mapped(order, LAMBDA k : V[k].payload)
    BY <1>1, <2>1 DEF ByWorklog
  <2>3. QED
    BY <1>12, <2>2 DEF Mapped
<1>14. PICK o : o = [k \in 1..N |-> N - order[k] + 1]
  OBVIOUS
<1>15. \A k \in 1..N : o[k] \in 1..N /\ o[k] = N - order[k] + 1 /\ order[k] \in 1..N
  BY <1>5, <1>12, <1>14
<1>16. Enumerates(o, 1..N)
  <2>1. o \in [1..N -> 1..N]
    BY <1>14, <1>15
  <2>2. \A j, k \in 1..N : o[j] = o[k] => j = k
    <3> SUFFICES ASSUME NEW j \in 1..N, NEW k \in 1..N, o[j] = o[k] PROVE j = k
      OBVIOUS
    <3>1. order[j] = order[k]
      BY <1>15
    <3>2. QED
      BY <3>1, <1>12
  <2>3. \A x \in 1..N : \E k \in 1..N : o[k] = x
    <3> SUFFICES ASSUME NEW x \in 1..N PROVE \E k \in 1..N : o[k] = x
      OBVIOUS
    <3>1. PICK k \in 1..N : order[k] = N - x + 1
      BY <1>5, <1>12
    <3>2. o[k] = x
      BY <3>1, <1>15
    <3>3. QED
      BY <3>2
  <2>4. QED
    BY <1>8, <2>1, <2>2, <2>3 DEF Enumerates
<1>17. \A k \in 1..N : B[k] = U[o[k]].payload /\ B[k] = V[order[k]].payload
  BY <1>4, <1>13, <1>15
<1>18. B = [k \in 1..N |-> U[o[k]].payload]
  BY <1>13, <1>17
<1>19. \A k \in 1..N : Logged(B[k]) \in Nat
  BY <1>3, <1>15, <1>17
<1>20. ASSUME NEW i \in 1..N, NEW j \in 1..N, i < j PROVE Logged(B[i]) >= Logged(B[j])
  <2>1. ~Before(key[order[j]], key[order[i]])
    BY <1>8, <1>11, <1>20
  <2>2. PICK a, b, c, d : a = Logged(B[i]) /\ b = Logged(B[j]) /\ c = order[i] /\ d = order[j]
    OBVIOUS
  <2>3. a \in Nat /\ b \in Nat /\ c \in 1..N /\ d \in 1..N
    BY <1>12, <1>19, <2>2
  <2>4. key[c] = <<-a, c>> /\ key[d] = <<-b, d>>
    BY <1>9, <1>17, <2>2, <2>3
  <2>5. ~Before(<<-b, d>>, <<-a, c>>)
    BY <2>1, <2>2, <2>4
  <2>6. ~(-b < -a)
    BY <2>5 DEF Before
  <2>7. QED
    BY <2>2, <2>3, <2>6
<1>21. MostFirst(U, B, o)
  BY <1>2, <1>3, <1>8, <1>16, <1>18, <1>19, <1>20 DEF MostFirst
<1>22. QED
  BY <1>1, <1>21

(* A chart with a bar for each teammate, that adds up to the minutes of    *)
(* the project.                                                            *)
ChartAgrees(users, chart, minutes) ==
  /\ {b.who : b \in ToSet(chart)} = {u.payload.target : u \in ToSet(users)}
  /\ Total(chart, LAMBDA b : b.minutes) = minutes

(* The workload chart is one as long as it has room for everybody.         *)
LEMMA ChartOfTeam ==
  ASSUME NEW r, RunTold(r), NEW V, V = Mapped(Reverse(r.users), SummaryRecord), Len(r.users) <= MaxBars
  PROVE  ChartAgrees(r.users, WorkloadChart(V), r.payload.health.minutes)
<1>1. PICK U, B, C : U = r.users /\ B = ByWorklog(V) /\ C = WorkloadChart(V)
  OBVIOUS
<1>2. PICK o : MostFirst(U, B, o)
  BY <1>1, OrderedTeam
<1>3. PICK N \in Nat : N = Len(U)
  BY <1>2 DEF MostFirst
<1>4. /\ Enumerates(o, 1..N) /\ Cardinality(1..N) = N /\ DOMAIN U = 1..N
      /\ B = [k \in 1..N |-> U[o[k]].payload]
  BY <1>2, <1>3 DEF MostFirst
<1>5. /\ o \in [1..N -> 1..N] /\ \A x \in 1..N : \E k \in 1..N : o[k] = x
  BY <1>4 DEF Enumerates
<1>6. UpTo(MaxBars, B) = B
  <2>1. MaxBars \in Nat /\ N <= MaxBars
    BY <1>1, <1>3, NewsletterAssumption
  <2>2. PICK S : S = {U[k].payload : k \in 1..N}
    OBVIOUS
  <2>3. B \in [1..N -> S]
    BY <1>4, <1>5, <2>2
  <2>4. QED
    BY <2>1, <2>3, UpToTakes
<1>7. DOMAIN C = 1..N /\ \A k \in 1..N : C[k].who = B[k].target /\ C[k].minutes = Logged(B[k])
  <2>1. PICK longest : longest = Max({p.metrics.minutes : p \in ToSet(B)} \cup {1})
    OBVIOUS
  <2>2. C = [k \in DOMAIN B |-> [who |-> B[k].target, minutes |-> B[k].metrics.minutes,
                                 width |-> (200 * B[k].metrics.minutes + longest) \div (2 * longest)]]
    BY <1>1, <1>6, <2>1 DEF WorkloadChart, Mapped
  <2>3. DOMAIN B = 1..N
    BY <1>4
  <2>4. QED
    BY <2>2, <2>3 DEF Logged
<1>8. {b.who : b \in ToSet(C)} = {u.payload.target : u \in ToSet(U)}
  <2>1. {b.who : b \in ToSet(C)} = {C[k].who : k \in 1..N}
    BY <1>7 DEF ToSet
  <2>2. {u.payload.target : u \in ToSet(U)} = {U[k].payload.target : k \in 1..N}
    BY <1>4 DEF ToSet
  <2>3. \A k \in 1..N : C[k].who = U[o[k]].payload.target /\ o[k] \in 1..N
    <3> SUFFICES ASSUME NEW k \in 1..N PROVE C[k].who = U[o[k]].payload.target /\ o[k] \in 1..N
      OBVIOUS
    <3>1. o[k] \in 1..N
      BY <1>5
    <3>2. B[k] = U[o[k]].payload
      BY <1>4
    <3>3. C[k].who = B[k].target
      BY <1>7
    <3>4. QED
      BY <3>1, <3>2, <3>3
  <2>4. \A x \in 1..N : \E k \in 1..N : C[k].who = U[x].payload.target
    <3> SUFFICES ASSUME NEW x \in 1..N PROVE \E k \in 1..N : C[k].who = U[x].payload.target
      OBVIOUS
    <3>1. PICK k \in 1..N : o[k] = x
      BY <1>5
    <3>2. C[k].who = U[x].payload.target
      BY <2>3, <3>1
    <3>3. QED
      BY <3>2
  <2>5. {C[k].who : k \in 1..N} \subseteq {U[k].payload.target : k \in 1..N}
    BY <2>3
  <2>6. {U[k].payload.target : k \in 1..N} \subseteq {C[k].who : k \in 1..N}
    <3> SUFFICES ASSUME NEW x \in 1..N PROVE U[x].payload.target \in {C[k].who : k \in 1..N}
      OBVIOUS
    <3>1. PICK k \in 1..N : C[k].who = U[x].payload.target
      BY <2>4
    <3>2. QED
      BY <3>1
  <2>7. QED
    BY <2>1, <2>2, <2>5, <2>6
<1>9. PICK f, g : f = [k \in 1..N |-> U[k].payload.metrics.minutes] /\ g = [k \in 1..N |-> C[k].minutes]
  OBVIOUS
<1>10. \A k \in 1..N : f[k] \in Int
  BY <1>1, <1>3, <1>9 DEF RunTold
<1>11. \A k \in 1..N : g[k] = f[o[k]]
  BY <1>4, <1>5, <1>7, <1>9 DEF Logged
<1>12. SumOver(g, 1..N) = SumOver(f, 1..N)
  <2>1. PICK D : D = 1..N
    OBVIOUS
  <2>2. /\ Enumerates(o, D) /\ \A k \in D : f[k] \in Int
        /\ \A k \in 1..Cardinality(D) : g[k] = f[o[k]]
    BY <1>4, <1>10, <1>11, <2>1
  <2>3. SumOver(g, 1..Cardinality(D)) = SumOver(f, D)
    BY <2>2, EnumeratedSum
  <2>4. QED
    BY <1>4, <2>1, <2>3
<1>13. r.payload.health.minutes = SumOf(f)
  BY <1>1, <1>4, <1>9 DEF RunTold
<1>14. SumOf(f) = SumOver(f, 1..N) /\ SumOf(g) = SumOver(g, 1..N)
  <2>1. DOMAIN f = 1..N /\ DOMAIN g = 1..N
    BY <1>9
  <2>2. QED
    BY <2>1 DEF SumOf, SumOver
<1>15. Total(C, LAMBDA b : b.minutes) = SumOf(g)
  BY <1>7, <1>9 DEF Total
<1>16. QED
  BY <1>1, <1>8, <1>12, <1>13, <1>14, <1>15 DEF ChartAgrees

(* Nobody who is told of has logged less than somebody who is not.         *)
SpotlightsAgree(users, told) ==
  \A u \in ToSet(users), s \in ToSet(told) :
    u.payload.target \in {t.who : t \in ToSet(told)} \/ s.minutes >= u.payload.metrics.minutes

(* So it is in the spotlights.                                             *)
LEMMA SpotlightsOfTeam ==
  ASSUME NEW r, RunTold(r), NEW V, V = Mapped(Reverse(r.users), SummaryRecord)
  PROVE  SpotlightsAgree(r.users, Spotlights(V))
<1>1. PICK U, B, C : U = r.users /\ B = ByWorklog(V) /\ C = Spotlights(V)
  OBVIOUS
<1>2. PICK o : MostFirst(U, B, o)
  BY <1>1, OrderedTeam
<1>3. PICK N \in Nat : N = Len(U)
  BY <1>2 DEF MostFirst
<1>4. /\ Enumerates(o, 1..N) /\ Cardinality(1..N) = N /\ DOMAIN U = 1..N
      /\ B = [k \in 1..N |-> U[o[k]].payload]
      /\ \A k \in 1..N : Logged(B[k]) \in Nat
      /\ \A i, j \in 1..N : i < j => Logged(B[i]) >= Logged(B[j])
  BY <1>2, <1>3 DEF MostFirst
<1>5. /\ o \in [1..N -> 1..N] /\ \A x \in 1..N : \E k \in 1..N : o[k] = x
  BY <1>4 DEF Enumerates
<1>6. PICK S : S = {U[k].payload : k \in 1..N}
  OBVIOUS
<1>7. B \in [1..N -> S] /\ MaxSpotlights \in Nat
  BY <1>4, <1>5, <1>6, NewsletterAssumption
<1>8. PICK top : top = UpTo(MaxSpotlights, B)
  OBVIOUS
<1>9. \A p : p \in ToSet(top) <=> \E q \in 1..N : q <= MaxSpotlights /\ B[q] = p
  <2> SUFFICES ASSUME NEW p PROVE p \in ToSet(top) <=> \E q \in 1..N : q <= MaxSpotlights /\ B[q] = p
    OBVIOUS
  <2>1. PICK k \in Nat : k = MaxSpotlights
    BY <1>7
  <2>2. p \in ToSet(UpTo(k, B)) <=> \E q \in 1..N : q <= k /\ B[q] = p
    BY <1>3, <1>7, <2>1, TakenBy, SMTT(30)
  <2>3. QED
    BY <1>8, <2>1, <2>2
<1>10. ToSet(C) = {Spotlight(p) : p \in ToSet(top)}
  BY <1>1, <1>8 DEF Spotlights, Mapped, ToSet
<1>11. \A p : Spotlight(p).who = p.target /\ Spotlight(p).minutes = Logged(p)
  BY DEF Spotlight, Logged
<1>12. ASSUME NEW u \in ToSet(U), NEW s \in ToSet(C), u.payload.target \notin {t.who : t \in ToSet(C)}
       PROVE  s.minutes >= u.payload.metrics.minutes
  <2>1. PICK j \in 1..N : u = U[j]
    BY <1>4 DEF ToSet
  <2>2. PICK q \in 1..N : o[q] = j
    BY <1>5
  <2>3. B[q] = u.payload
    BY <1>4, <2>1, <2>2
  <2>4. ~(q <= MaxSpotlights)
    <3> SUFFICES ASSUME q <= MaxSpotlights PROVE FALSE
      OBVIOUS
    <3>1. u.payload \in ToSet(top)
      BY <1>9, <2>3
    <3>2. Spotlight(u.payload) \in ToSet(C) /\ Spotlight(u.payload).who = u.payload.target
      BY <1>10, <1>11, <3>1
    <3>3. QED
      BY <1>12, <3>2
  <2>5. PICK p \in ToSet(top) : s = Spotlight(p)
    BY <1>10
  <2>6. PICK i \in 1..N : i <= MaxSpotlights /\ B[i] = p
    BY <1>9
  <2>7. i < q
    BY <1>7, <2>4, <2>6
  <2>8. Logged(B[i]) >= Logged(B[q])
    BY <1>4, <2>7
  <2>9. s.minutes = Logged(B[i]) /\ u.payload.metrics.minutes = Logged(B[q])
    BY <1>11, <2>3, <2>5, <2>6 DEF Logged
  <2>10. QED
    BY <2>8, <2>9
<1>13. QED
  BY <1>1, <1>12 DEF SpotlightsAgree

(* What the property says of the newsletter of a day.                      *)
LastRunTells(day) ==
  LET run == snapshots[Max(RunsOf(day))]
      sent == Head(SendDailySummaryNewsletter(snapshots, day)).html
  IN /\ sent.health = run.payload.health
     /\ Len(run.users) <= MaxBars => ChartAgrees(run.users, sent.chart, sent.health.minutes)
     /\ SpotlightsAgree(run.users, sent.spotlights)

(* It holds of every day that has a run.                                   *)
LEMMA NewsletterTells ==
  ASSUME RunsTold, NEW day \in {r.day : r \in ToSet(snapshots)}
  PROVE  LastRunTells(day)
<1>1. PICK K, M : K = RunsOf(day) /\ M = Max(K)
  OBVIOUS
<1>2. M \in K
  BY <1>1, LastRunOf
<1>3. PICK r : r = snapshots[M]
  OBVIOUS
<1>4. RunTold(r)
  BY <1>1, <1>2, <1>3, RunsAre DEF RunsOf
<1>5. PICK x, sent : x = ProjectDailySummary(snapshots, M, FALSE)
                     /\ sent = Head(SendDailySummaryNewsletter(snapshots, day)).html
  OBVIOUS
<1>6. sent = RenderProjectHtml(x)
  BY <1>1, <1>5, NewsletterSent
<1>7. PICK V : V = Mapped(Reverse(r.users), SummaryRecord)
  OBVIOUS
<1>8. x.users = V
  BY <1>3, <1>5, <1>7 DEF ProjectDailySummary, UsersForRun
<1>9. x.project.payload = r.payload
  <2>1. x.project = SummaryRecord(r)
    BY <1>3, <1>5 DEF ProjectDailySummary
  <2>2. SummaryRecord(r).payload = r.payload
    BY DEF SummaryRecord
  <2>3. QED
    BY <2>1, <2>2
<1>10. /\ sent.health = r.payload.health /\ sent.chart = WorkloadChart(V) /\ sent.spotlights = Spotlights(V)
  <2>1. sent.health = x.project.payload.health
    BY <1>6 DEF RenderProjectHtml
  <2>2. sent.chart = WorkloadChart(x.users)
    BY <1>6 DEF RenderProjectHtml
  <2>3. sent.spotlights = Spotlights(x.users)
    BY <1>6 DEF RenderProjectHtml
  <2>4. QED
    BY <1>8, <1>9, <2>1, <2>2, <2>3
<1>11. Len(r.users) <= MaxBars => ChartAgrees(r.users, sent.chart, sent.health.minutes)
  BY <1>4, <1>7, <1>10, ChartOfTeam
<1>12. SpotlightsAgree(r.users, sent.spotlights)
  BY <1>4, <1>7, <1>10, SpotlightsOfTeam
<1>13. QED
  BY <1>1, <1>3, <1>5, <1>10, <1>11, <1>12 DEF LastRunTells

(* What it says of the pages of a day, whoever reads them.                 *)
PagesTell(day) ==
  LET run == snapshots[Max(RunsOf(day))]
  IN /\ \A viewer :
          LET seen == ProjectDailySummaries(rows, snapshots, viewer, day, day)
          IN seen # <<>> => seen[1].project.payload = run.payload
     /\ \A viewer : \A latest \in LatestProjectSummary(rows, snapshots, viewer) :
          latest.project.day >= day /\ (latest.project.day = day => latest.tasks = run.tasks)

(* So does that: what is found as the latest run is of no earlier day, and *)
(* of the same day it is the last one.                                     *)
LEMMA PagesTellOfLast ==
  ASSUME RunsTold, NEW day \in {r.day : r \in ToSet(snapshots)}
  PROVE  PagesTell(day)
<1>1. PICK K, M : K = RunsOf(day) /\ M = Max(K)
  OBVIOUS
<1>2. M \in K /\ day \in Int /\ \A k \in K : M >= k
  BY <1>1, LastRunOf
<1>3. M \in DOMAIN snapshots /\ snapshots[M].day = day
  BY <1>1, <1>2 DEF RunsOf
<1>4. Len(snapshots) \in Nat /\ DOMAIN snapshots = 1..Len(snapshots)
  BY RunsAre
<1>5. \A k \in DOMAIN snapshots : snapshots[k].day \in Int
  BY RunsAre DEF RunTold
<1>6. PICK F, x : F = FetchProjectSummaries(snapshots, day, day, TRUE) /\ x = ProjectDailySummary(snapshots, M, TRUE)
  OBVIOUS
<1>7. F[1] = x
  BY <1>1, <1>6, LastRunFetched DEF FirstIs
<1>8. x.project.payload = snapshots[M].payload
  <2>1. x.project = SummaryRecord(snapshots[M])
    BY <1>6 DEF ProjectDailySummary
  <2>2. SummaryRecord(snapshots[M]).payload = snapshots[M].payload
    BY DEF SummaryRecord
  <2>3. QED
    BY <2>1, <2>2
<1>9. ASSUME NEW viewer, ProjectDailySummaries(rows, snapshots, viewer, day, day) # <<>>
      PROVE  ProjectDailySummaries(rows, snapshots, viewer, day, day)[1].project.payload = snapshots[M].payload
  <2>1. ProjectDailySummaries(rows, snapshots, viewer, day, day) = F
    BY <1>6, <1>9 DEF ProjectDailySummaries
  <2>2. QED
    BY <1>7, <1>8, <2>1
<1>10. ASSUME NEW viewer, NEW latest \in LatestProjectSummary(rows, snapshots, viewer)
       PROVE  latest.project.day >= day /\ (latest.project.day = day => latest.tasks = snapshots[M].tasks)
  <2>1. latest \in FetchLatestProjectSummary(snapshots)
    BY <1>10 DEF LatestProjectSummary
  <2>2. PICK k \in DOMAIN snapshots :
          /\ latest = ProjectDailySummary(snapshots, k, TRUE)
          /\ \A l \in DOMAIN snapshots :
               ~(snapshots[l].day > snapshots[k].day \/ (snapshots[l].day = snapshots[k].day /\ l > k))
    BY <2>1 DEF FetchLatestProjectSummary
  <2>3. latest.project.day = snapshots[k].day /\ latest.tasks = snapshots[k].tasks
    <3>1. latest.project = SummaryRecord(snapshots[k])
      BY <2>2 DEF ProjectDailySummary
    <3>2. SummaryRecord(snapshots[k]).day = snapshots[k].day
      BY DEF SummaryRecord
    <3>3. latest.tasks = snapshots[k].tasks
      BY <2>2 DEF ProjectDailySummary
    <3>4. QED
      BY <3>1, <3>2, <3>3
  <2>4. PICK d \in Int : d = snapshots[k].day
    BY <1>5
  <2>5. ~(day > d) /\ ~(day = d /\ M > k)
    BY <1>3, <2>2, <2>4
  <2>6. d >= day
    BY <1>2, <2>5
  <2>7. ASSUME d = day PROVE k = M
    <3>1. k \in K
      BY <1>1, <2>4, <2>7 DEF RunsOf
    <3>2. M >= k /\ ~(M > k) /\ M \in Int /\ k \in Int
      BY <1>2, <1>3, <1>4, <2>5, <2>7, <3>1
    <3>3. QED
      BY <3>2
  <2>8. QED
    BY <2>3, <2>4, <2>6, <2>7
<1>11. QED
  BY <1>1, <1>9, <1>10 DEF PagesTell

(* Over rows of the right shape and runs that are told, the reports agree. *)
LEMMA ReportsOfRuns == RowsHold /\ RunsTold => ReportsAgree
<1> SUFFICES ASSUME RowsHold, RunsTold PROVE ReportsAgree
  OBVIOUS
<1>1. Users = UserIds
  BY RowsKinds DEF RowsHold, Users, UserIds
<1>2. NewsletterAgrees
  <2>1. \A day \in {r.day : r \in ToSet(snapshots)} : LastRunTells(day) /\ PagesTell(day)
    BY NewsletterTells, PagesTellOfLast
  <2>2. QED
    BY <2>1 DEF NewsletterAgrees, LastRunTells, PagesTell, ChartAgrees, SpotlightsAgree, RunsOf
<1>3. \A r \in ToSet(snapshots) : AgreesIn(r)
  BY DEF RunsTold, RunTold
<1>4. QED
  BY <1>1, <1>2, <1>3, ZenonT(30) DEF ReportsAgree, AgreesIn

(* In every reachable state, the newsletter of a day and the pages of the  *)
(* day are those of the day's last run, with a bar for each teammate, bars *)
(* that add up to the project's hours and nobody passed over who logged    *)
(* more; and in every stored run the stand-up of a teammate who is not     *)
(* away tells the minutes that the performance review, the teammate's own  *)
(* summary and the focus board of the two days tell of the account         *)
(* (buildUserPayload, buildPerformanceMetrics, generateSummaryForUser,     *)
(* buildFocusBoard, fetchProjectSummaries, renderProjectHtml).             *)
THEOREM ReportsAlwaysAgree == Spec => []ReportsAgree
<1>1. QED
  BY RowsHoldInit, RowsHoldNext, RunsToldInit, RunsToldNext, ReportsOfRuns, PTL DEF Spec
=============================================================================

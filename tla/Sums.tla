-------------------------------- MODULE Sums --------------------------------
(***************************************************************************)
(* Sums over finite sets, which the community modules define as folds:     *)
(* how they are computed, that no order of the terms matters, and what     *)
(* they are for two sets together.                                         *)
(*                                                                         *)
(* A fold is a function on the subsets of its set, chosen by the equation  *)
(* that defines it.  What holds of such a function is proved on a least    *)
(* subset that would be an exception.                                      *)
(***************************************************************************)
EXTENDS Integers, FiniteSetsExt, FiniteSetTheorems, WellFoundedInduction, TLAPS

SumOf(w, S) == MapThenSumSet(LAMBDA x : w[x], S)

OneOf(S) == CHOOSE x \in S : TRUE

Adds(f, w, S) ==
    f = [s \in SUBSET S |-> IF s = {} THEN 0 ELSE w[OneOf(s)] + f[s \ {OneOf(s)}]]

Adder(w, S) == CHOOSE f : Adds(f, w, S)

LEMMA SumIsFold == ASSUME NEW w, NEW S PROVE SumOf(w, S) = Adder(w, S)[S]
BY DEF SumOf, MapThenSumSet, MapThenFoldSet, Adder, Adds, OneOf

(* A set of subsets of a finite set has a least element.                    *)
LEMMA LeastSubset ==
  ASSUME NEW S, IsFiniteSet(S), NEW T, T \subseteq SUBSET S, T # {}
  PROVE  \E t \in T : \A u \in T : u \subseteq t => u = t
<1>1. IsWellFoundedOn(StrictSubsetOrdering(S), SUBSET S)
  BY FS_StrictSubsetOrderingWellFounded, FS_FiniteSubsetsOfFinite
<1>2. PICK t \in T : \A u \in T : <<u, t>> \notin StrictSubsetOrdering(S)
  BY <1>1, WFMin
<1>3. ASSUME NEW u \in T, u \subseteq t PROVE u = t
  BY <1>2, <1>3 DEF StrictSubsetOrdering
<1> QED BY <1>3

LEMMA OneOfIn == ASSUME NEW S, S # {} PROVE OneOf(S) \in S
BY DEF OneOf

(* Of natural numbers some one is the least.                                *)
LEMMA LeastNumber ==
  ASSUME NEW I, I \subseteq Nat, I # {}
  PROVE  \E n \in I : \A m \in I : n <= m
<1>2. PICK k \in I : TRUE
  OBVIOUS
<1> DEFINE T == {0 .. n : n \in {m \in I : m <= k}}
<1>3. PICK n \in I : n <= k /\ \A u \in T : u \subseteq 0 .. n => u = 0 .. n
  <2>1. IsFiniteSet(0 .. k)
    <3>1. 0 \in Int /\ k \in Int
      OBVIOUS
    <3> QED BY <3>1, FS_Interval, Zenon
  <2>2. T \subseteq SUBSET (0 .. k)
    <3> SUFFICES ASSUME NEW m \in I, m <= k PROVE 0 .. m \subseteq 0 .. k
      OBVIOUS
    <3>1. m \in Nat /\ k \in Nat
      OBVIOUS
    <3> QED BY <3>1
  <2>4. 0 .. k \in T
    BY <1>2
  <2> DEFINE K == 0 .. k
  <2>5. IsFiniteSet(K) /\ T \subseteq SUBSET K /\ T # {}
    BY <2>1, <2>2, <2>4
  <2> HIDE DEF T, K
  <2>3. PICK t0 \in T : \A u \in T : u \subseteq t0 => u = t0
    BY <2>5, LeastSubset
  <2> QED BY <2>3 DEF T
<1>5. \A m \in I : n <= m
  <2> SUFFICES ASSUME NEW m \in I, m < n PROVE FALSE
    OBVIOUS
  <2>1. m \in Nat /\ n \in Nat /\ k \in Nat
    OBVIOUS
  <2>2. 0 .. m \in T
    BY <1>3, <2>1
  <2>3. 0 .. m \subseteq 0 .. n /\ n \in 0 .. n /\ n \notin 0 .. m
    BY <2>1
  <2> QED BY <1>3, <2>2, <2>3
<1> QED BY <1>5

LEMMA AddsAt ==
  ASSUME NEW f, NEW w, NEW S, Adds(f, w, S), NEW s \in SUBSET S
  PROVE  f[s] = IF s = {} THEN 0 ELSE w[OneOf(s)] + f[s \ {OneOf(s)}]
<1> DEFINE F(t) == IF t = {} THEN 0 ELSE w[OneOf(t)] + f[t \ {OneOf(t)}]
<1>1. f = [t \in SUBSET S |-> F(t)]
  BY DEF Adds
<1> HIDE DEF F
<1>2. f[s] = F(s)
  BY <1>1
<1> QED BY <1>2 DEF F

LEMMA AddsOnce ==
  ASSUME NEW w, NEW S, IsFiniteSet(S), NEW T, T \subseteq S, NEW f, NEW g,
         Adds(f, w, S), Adds(g, w, T)
  PROVE  f[T] = g[T]
<1> DEFINE B == {t \in SUBSET T : f[t] # g[t]}
<1>1. IsFiniteSet(T)
  BY FS_Subset
<1>2. SUFFICES ASSUME B # {} PROVE FALSE
  <2>1. T \in SUBSET T
    OBVIOUS
  <2> QED BY <2>1
<1>3. PICK t \in B : \A u \in B : u \subseteq t => u = t
  <2>1. B \subseteq SUBSET T /\ B # {}
    BY <1>2
  <2> HIDE DEF B
  <2> QED BY <1>1, <2>1, LeastSubset
<1>4. t \in SUBSET T /\ t \in SUBSET S /\ f[t] # g[t]
  OBVIOUS
<1>5. t # {}
  BY <1>4, AddsAt
<1>6. OneOf(t) \in t
  BY <1>5, OneOfIn
<1> DEFINE u == t \ {OneOf(t)}
<1>7. u \in SUBSET T /\ u \subseteq t /\ u # t
  BY <1>4, <1>6
<1>8. f[u] = g[u]
  BY <1>3, <1>7
<1>9. f[t] = w[OneOf(t)] + f[u]
  BY <1>4, <1>5, AddsAt
<1>10. g[t] = w[OneOf(t)] + g[u]
  BY <1>4, <1>5, AddsAt
<1> QED BY <1>4, <1>8, <1>9, <1>10

LEMMA AdderAdds == ASSUME NEW w, NEW S, IsFiniteSet(S) PROVE Adds(Adder(w, S), w, S)
<1> DEFINE B == {t \in SUBSET S : ~Adds(Adder(w, t), w, t)}
<1>1. SUFFICES ASSUME B # {} PROVE FALSE
  <2>1. S \in SUBSET S
    OBVIOUS
  <2> QED BY <2>1
<1>2. PICK t \in B : \A u \in B : u \subseteq t => u = t
  <2>1. B \subseteq SUBSET S /\ B # {}
    BY <1>1
  <2> HIDE DEF B
  <2> QED BY <2>1, LeastSubset
<1>3. t \in SUBSET S /\ ~Adds(Adder(w, t), w, t) /\ IsFiniteSet(t)
  BY FS_Subset
<1>4. \A u \in SUBSET t : u # t => IsFiniteSet(u) /\ Adds(Adder(w, u), w, u)
  BY <1>2, <1>3, FS_Subset
<1> DEFINE part(s) == IF s = {} THEN 0
                      ELSE w[OneOf(s)] + Adder(w, s \ {OneOf(s)})[s \ {OneOf(s)}]
           f == [s \in SUBSET t |-> part(s)]
<1>5. ASSUME NEW u \in SUBSET t, u # t PROVE Adder(w, u)[u] = part(u)
  <2>1. Adds(Adder(w, u), w, u) /\ IsFiniteSet(u)
    BY <1>4, <1>5
  <2>2. CASE u = {}
    BY <2>1, <2>2, AddsAt
  <2>3. CASE u # {}
    <3> DEFINE v == u \ {OneOf(u)}
    <3>1. v \in SUBSET t /\ v # t /\ v \in SUBSET u
      BY <1>5
    <3>2. Adds(Adder(w, v), w, v)
      BY <1>4, <3>1
    <3>3. Adder(w, u)[v] = Adder(w, v)[v]
      BY <2>1, <3>1, <3>2, AddsOnce
    <3>4. Adder(w, u)[u] = w[OneOf(u)] + Adder(w, u)[v]
      BY <2>1, <2>3, AddsAt
    <3> QED BY <2>3, <3>3, <3>4
  <2> QED BY <2>2, <2>3
<1>6. ASSUME NEW s \in SUBSET t
      PROVE  part(s) = IF s = {} THEN 0 ELSE w[OneOf(s)] + f[s \ {OneOf(s)}]
  <2>1. CASE s = {}
    BY <2>1
  <2>2. CASE s # {}
    <3> DEFINE v == s \ {OneOf(s)}
    <3>1. v \in SUBSET t /\ v # t
      BY <2>2, OneOfIn
    <3>2. f[v] = part(v)
      BY <3>1
    <3>3. part(v) = Adder(w, v)[v]
      BY <1>5, <3>1
    <3>4. part(s) = w[OneOf(s)] + Adder(w, v)[v]
      BY <2>2
    <3> QED BY <2>2, <3>2, <3>3, <3>4
  <2> QED BY <2>1, <2>2
<1>7. Adds(f, w, t)
  <2> DEFINE F(s) == IF s = {} THEN 0 ELSE w[OneOf(s)] + f[s \ {OneOf(s)}]
  <2>1. \A s \in SUBSET t : part(s) = F(s)
    BY <1>6
  <2> HIDE DEF part
  <2>2. f = [s \in SUBSET t |-> F(s)]
    <3> HIDE DEF F
    <3> QED BY <2>1
  <2> HIDE DEF f
  <2> QED BY <2>2 DEF Adds
<1>8. Adds(Adder(w, t), w, t)
  <2> HIDE DEF f
  <2> QED BY <1>7 DEF Adder
<1> QED BY <1>3, <1>8

(* How a sum is computed.                                                   *)
LEMMA SumOfNone == ASSUME NEW w PROVE SumOf(w, {}) = 0
<1>1. Adds(Adder(w, {}), w, {})
  BY AdderAdds, FS_EmptySet
<1>2. Adder(w, {})[{}] = 0
  BY <1>1, AddsAt
<1> QED BY <1>2, SumIsFold

LEMMA SumOfSome ==
  ASSUME NEW w, NEW S, IsFiniteSet(S), S # {}
  PROVE  SumOf(w, S) = w[OneOf(S)] + SumOf(w, S \ {OneOf(S)})
<1> DEFINE T == S \ {OneOf(S)}
<1>1. IsFiniteSet(T)
  BY FS_Subset
<1>2. Adds(Adder(w, S), w, S) /\ Adds(Adder(w, T), w, T)
  BY <1>1, AdderAdds
<1>3. Adder(w, S)[T] = Adder(w, T)[T]
  BY <1>2, AddsOnce
<1>4. Adder(w, S)[S] = w[OneOf(S)] + Adder(w, S)[T]
  BY <1>2, AddsAt
<1> QED BY <1>3, <1>4, SumIsFold

(* It is a number, and no smaller than any of its terms.                    *)
LEMMA SumIsNat ==
  ASSUME NEW w, NEW S, IsFiniteSet(S), \A x \in S : w[x] \in Nat
  PROVE  SumOf(w, S) \in Nat
<1> DEFINE B == {t \in SUBSET S : SumOf(w, t) \notin Nat}
<1>1. SUFFICES ASSUME B # {} PROVE FALSE
  <2>1. S \in SUBSET S
    OBVIOUS
  <2> QED BY <2>1
<1>2. PICK t \in B : \A u \in B : u \subseteq t => u = t
  <2>1. B \subseteq SUBSET S /\ B # {}
    BY <1>1
  <2> HIDE DEF B
  <2> QED BY <2>1, LeastSubset
<1>3. t \in SUBSET S /\ SumOf(w, t) \notin Nat /\ IsFiniteSet(t)
  BY FS_Subset
<1>4. t # {}
  BY <1>3, SumOfNone
<1> DEFINE u == t \ {OneOf(t)}
<1>5. OneOf(t) \in t
  BY <1>4, OneOfIn
<1>6. u \in SUBSET S /\ u \subseteq t /\ u # t
  BY <1>3, <1>5
<1>7. SumOf(w, u) \in Nat
  BY <1>2, <1>6
<1>8. w[OneOf(t)] \in Nat
  BY <1>3, <1>5
<1>9. SumOf(w, t) = w[OneOf(t)] + SumOf(w, u)
  BY <1>3, <1>4, SumOfSome
<1> QED BY <1>3, <1>7, <1>8, <1>9

LEMMA SumIsInt ==
  ASSUME NEW w, NEW S, IsFiniteSet(S), \A x \in S : w[x] \in Int
  PROVE  SumOf(w, S) \in Int
<1> DEFINE B == {t \in SUBSET S : SumOf(w, t) \notin Int}
<1>1. SUFFICES ASSUME B # {} PROVE FALSE
  <2>1. S \in SUBSET S
    OBVIOUS
  <2> QED BY <2>1
<1>2. PICK t \in B : \A u \in B : u \subseteq t => u = t
  <2>1. B \subseteq SUBSET S /\ B # {}
    BY <1>1
  <2> HIDE DEF B
  <2> QED BY <2>1, LeastSubset
<1>3. t \in SUBSET S /\ SumOf(w, t) \notin Int /\ IsFiniteSet(t)
  BY FS_Subset
<1>4. t # {}
  BY <1>3, SumOfNone
<1> DEFINE u == t \ {OneOf(t)}
<1>5. OneOf(t) \in t
  BY <1>4, OneOfIn
<1>6. u \in SUBSET S /\ u \subseteq t /\ u # t
  BY <1>3, <1>5
<1>7. SumOf(w, u) \in Int
  BY <1>2, <1>6
<1>8. w[OneOf(t)] \in Int
  BY <1>3, <1>5
<1>9. SumOf(w, t) = w[OneOf(t)] + SumOf(w, u)
  BY <1>3, <1>4, SumOfSome
<1> QED BY <1>3, <1>7, <1>8, <1>9

(* Any term may be taken first.                                             *)
LEMMA SumWithout ==
  ASSUME NEW w, NEW S, IsFiniteSet(S), \A x \in S : w[x] \in Int, NEW x \in S
  PROVE  SumOf(w, S) = w[x] + SumOf(w, S \ {x})
<1> DEFINE B == {t \in SUBSET S : \E y \in t : SumOf(w, t) # w[y] + SumOf(w, t \ {y})}
<1>1. SUFFICES ASSUME B # {} PROVE FALSE
  <2>1. S \in SUBSET S
    OBVIOUS
  <2> QED BY <2>1
<1>2. PICK t \in B : \A u \in B : u \subseteq t => u = t
  <2>1. B \subseteq SUBSET S /\ B # {}
    BY <1>1
  <2> HIDE DEF B
  <2> QED BY <2>1, LeastSubset
<1>3. PICK y \in t : SumOf(w, t) # w[y] + SumOf(w, t \ {y})
  OBVIOUS
<1> DEFINE z == OneOf(t)
           ty == t \ {y}
           tz == t \ {z}
           u == ty \ {z}
<1>4. t \in SUBSET S /\ IsFiniteSet(t) /\ z \in t
  BY <1>3, OneOfIn, FS_Subset
<1>5. SumOf(w, t) = w[z] + SumOf(w, tz)
  BY <1>3, <1>4, SumOfSome
<1>6. z # y
  BY <1>3, <1>5
<1>7. ty \in SUBSET S /\ ty \subseteq t /\ ty # t /\ z \in ty
  BY <1>3, <1>4, <1>6
<1>8. tz \in SUBSET S /\ tz \subseteq t /\ tz # t /\ y \in tz
  BY <1>3, <1>4, <1>6
<1>9. tz \ {y} = u
  OBVIOUS
<1>10. SumOf(w, ty) = w[z] + SumOf(w, u)
  BY <1>2, <1>7
<1>11. SumOf(w, tz) = w[y] + SumOf(w, u)
  BY <1>2, <1>8, <1>9
<1>12. w[y] \in Int /\ w[z] \in Int
  BY <1>3, <1>4
<1>13. SumOf(w, u) \in Int
  <2>1. IsFiniteSet(u)
    BY <1>4, FS_Subset
  <2>2. \A v \in u : w[v] \in Int
    BY <1>4
  <2> HIDE DEF u
  <2> QED BY <2>1, <2>2, SumIsInt
<1>14. SumOf(w, t) # w[y] + SumOf(w, ty)
  BY <1>3
<1> HIDE DEF u, ty, tz, z
<1> QED BY <1>5, <1>10, <1>11, <1>12, <1>13, <1>14

LEMMA SumWith ==
  ASSUME NEW w, NEW S, IsFiniteSet(S), NEW x, x \notin S,
         \A y \in S \cup {x} : w[y] \in Int
  PROVE  SumOf(w, S \cup {x}) = w[x] + SumOf(w, S)
<1> DEFINE T == S \cup {x}
<1>1. IsFiniteSet(T) /\ x \in T /\ T \ {x} = S
  BY FS_AddElement
<1> HIDE DEF T
<1>2. \A y \in T : w[y] \in Int
  BY DEF T
<1>3. SumOf(w, T) = w[x] + SumOf(w, T \ {x})
  BY <1>1, <1>2, SumWithout
<1> QED BY <1>1, <1>3 DEF T

LEMMA SumBounds ==
  ASSUME NEW w, NEW S, IsFiniteSet(S), \A x \in S : w[x] \in Nat, NEW x \in S
  PROVE  SumOf(w, S) >= w[x]
<1>1. SumOf(w, S) = w[x] + SumOf(w, S \ {x})
  BY SumWithout
<1> DEFINE T == S \ {x}
<1>2. IsFiniteSet(T) /\ \A y \in T : w[y] \in Nat
  BY FS_Subset
<1> HIDE DEF T
<1>3. SumOf(w, T) \in Nat
  BY <1>2, SumIsNat
<1> QED BY <1>1, <1>3 DEF T

LEMMA SumOfOne == ASSUME NEW w, NEW x, w[x] \in Int PROVE SumOf(w, {x}) = w[x]
<1>1. {x} \ {x} = {} /\ IsFiniteSet({x}) /\ \A y \in {x} : w[y] \in Int
  BY FS_Singleton
<1>2. SumOf(w, {x}) = w[x] + SumOf(w, {})
  <2> DEFINE T == {x}
  <2>1. SumOf(w, T) = w[x] + SumOf(w, T \ {x})
    <3>1. IsFiniteSet(T) /\ x \in T /\ \A y \in T : w[y] \in Int
      BY <1>1
    <3> HIDE DEF T
    <3> QED BY <3>1, SumWithout
  <2> QED BY <1>1, <2>1
<1> QED BY <1>2, SumOfNone

(* Only the terms matter, not the function that gives them.                 *)
LEMMA SumSame ==
  ASSUME NEW w, NEW v, NEW S, IsFiniteSet(S), \A x \in S : w[x] = v[x]
  PROVE  SumOf(w, S) = SumOf(v, S)
<1> DEFINE B == {t \in SUBSET S : SumOf(w, t) # SumOf(v, t)}
<1>1. SUFFICES ASSUME B # {} PROVE FALSE
  <2>1. S \in SUBSET S
    OBVIOUS
  <2> QED BY <2>1
<1>2. PICK t \in B : \A u \in B : u \subseteq t => u = t
  <2>1. B \subseteq SUBSET S /\ B # {}
    BY <1>1
  <2> HIDE DEF B
  <2> QED BY <2>1, LeastSubset
<1>3. t \in SUBSET S /\ SumOf(w, t) # SumOf(v, t) /\ IsFiniteSet(t)
  BY FS_Subset
<1>4. t # {}
  BY <1>3, SumOfNone
<1> DEFINE u == t \ {OneOf(t)}
<1>5. OneOf(t) \in t
  BY <1>4, OneOfIn
<1>6. u \in SUBSET S /\ u \subseteq t /\ u # t
  BY <1>3, <1>5
<1>7. SumOf(w, u) = SumOf(v, u)
  BY <1>2, <1>6
<1>8. SumOf(w, t) = w[OneOf(t)] + SumOf(w, u) /\ SumOf(v, t) = v[OneOf(t)] + SumOf(v, u)
  BY <1>3, <1>4, SumOfSome
<1>9. w[OneOf(t)] = v[OneOf(t)]
  BY <1>3, <1>5
<1> QED BY <1>3, <1>7, <1>8, <1>9

(* Two sets together.                                                       *)
LEMMA SumOfBoth ==
  ASSUME NEW w, NEW S, NEW T, IsFiniteSet(S), IsFiniteSet(T), S \cap T = {},
         \A x \in S \cup T : w[x] \in Int
  PROVE  SumOf(w, S \cup T) = SumOf(w, S) + SumOf(w, T)
<1> DEFINE B == {t \in SUBSET T : SumOf(w, S \cup t) # SumOf(w, S) + SumOf(w, t)}
<1>1. SUFFICES ASSUME B # {} PROVE FALSE
  <2>1. T \in SUBSET T
    OBVIOUS
  <2> QED BY <2>1
<1>2. PICK t \in B : \A u \in B : u \subseteq t => u = t
  <2>1. B \subseteq SUBSET T /\ B # {}
    BY <1>1
  <2> HIDE DEF B
  <2> QED BY <2>1, LeastSubset
<1>3. t \in SUBSET T /\ SumOf(w, S \cup t) # SumOf(w, S) + SumOf(w, t) /\ IsFiniteSet(t)
  BY FS_Subset
<1>4. SumOf(w, S) \in Int
  BY SumIsInt
<1>5. t # {}
  <2> SUFFICES ASSUME t = {} PROVE FALSE
    OBVIOUS
  <2>1. S \cup t = S /\ SumOf(w, t) = 0
    BY SumOfNone
  <2> QED BY <1>3, <1>4, <2>1
<1>6. PICK x \in t : TRUE
  BY <1>5
<1> DEFINE u == t \ {x}
           V == S \cup u
<1>7. u \in SUBSET T /\ u \subseteq t /\ u # t /\ IsFiniteSet(u)
  BY <1>3, <1>6, FS_Subset
<1>8. SumOf(w, V) = SumOf(w, S) + SumOf(w, u)
  BY <1>2, <1>7
<1>9. S \cup t = V \cup {x} /\ x \notin V
  BY <1>3, <1>6
<1>10. IsFiniteSet(V) /\ \A y \in V \cup {x} : w[y] \in Int
  <2>1. IsFiniteSet(V)
    BY <1>7, FS_Union
  <2> QED BY <1>3, <1>7, <2>1
<1>11. SumOf(w, u) \in Int /\ w[x] \in Int
  <2>1. \A y \in u : w[y] \in Int
    BY <1>3
  <2> HIDE DEF u
  <2> QED BY <1>3, <1>6, <1>7, <2>1, SumIsInt
<1>12. SumOf(w, t) = w[x] + SumOf(w, u)
  <2>1. \A y \in t : w[y] \in Int
    BY <1>3
  <2> QED BY <1>3, <2>1, SumWithout
<1> HIDE DEF V, u
<1>13. SumOf(w, V \cup {x}) = w[x] + SumOf(w, V)
  BY <1>9, <1>10, SumWith
<1>14. SumOf(w, S \cup t) = w[x] + SumOf(w, V)
  BY <1>9, <1>13
<1>15. SumOf(w, S \cup t) # SumOf(w, S) + SumOf(w, t)
  BY <1>3
<1>16. SumOf(w, S \cup t) = w[x] + (SumOf(w, S) + SumOf(w, u))
  BY <1>8, <1>14
<1> QED BY <1>4, <1>11, <1>12, <1>15, <1>16
=============================================================================

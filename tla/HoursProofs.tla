----------------------------- MODULE HoursProofs -----------------------------
(***************************************************************************)
(* Proofs that the reports count the hours that were worked.  A report     *)
(* reads the punches in the order of their times: what its loop has found  *)
(* before an instant are the hours worked before it (Right).  The week and *)
(* the pay are sums over days and weeks, which a payroll may be cut along. *)
(***************************************************************************)
EXTENDS AttendanceProofs, HoursReport, Sums

(***************************************************************************)
(* The loop over the punches.                                              *)
(***************************************************************************)

Reads(f, acc, S) ==
    f = [s \in SUBSET S |-> IF s = {} THEN acc ELSE Read(f[s \ {LastOf(s)}], LastOf(s))]

Reader(acc, S) == CHOOSE f : Reads(f, acc, S)

LEMMA ReadAllIsFold == ASSUME NEW acc, NEW S PROVE ReadAll(acc, S) = Reader(acc, S)[S]
BY DEF ReadAll, MapThenFoldSet, Reader, Reads

LEMMA ReadsAt ==
  ASSUME NEW f, NEW acc, NEW S, Reads(f, acc, S), NEW s \in SUBSET S
  PROVE  f[s] = IF s = {} THEN acc ELSE Read(f[s \ {LastOf(s)}], LastOf(s))
<1> DEFINE F(t) == IF t = {} THEN acc ELSE Read(f[t \ {LastOf(t)}], LastOf(t))
<1>1. f = [t \in SUBSET S |-> F(t)]
  BY DEF Reads
<1> HIDE DEF F
<1>2. f[s] = F(s)
  BY <1>1
<1> QED BY <1>2 DEF F

(* Every non-empty part of S has a last row.                                *)
HasLast(S) == \A s \in SUBSET S : s # {} => LastOf(s) \in s

LEMMA ReadsOnce ==
  ASSUME NEW acc, NEW S, IsFiniteSet(S), HasLast(S), NEW T, T \subseteq S, NEW f, NEW g,
         Reads(f, acc, S), Reads(g, acc, T)
  PROVE  f[T] = g[T]
<1> DEFINE B == {t \in SUBSET T : f[t] # g[t]}
<1>1. IsFiniteSet(T)
  BY FS_Subset
<1>2. SUFFICES ASSUME B # {} PROVE FALSE
  <2>1. T \in SUBSET T
    OBVIOUS
  <2> QED BY <2>1
<1>3. PICK t \in B : \A u \in B : u \subseteq t => u = t
  <2>1. B \subseteq SUBSET T /\ B # {}
    BY <1>2
  <2> HIDE DEF B
  <2> QED BY <1>1, <2>1, LeastSubset
<1>4. t \in SUBSET T /\ t \in SUBSET S /\ f[t] # g[t]
  OBVIOUS
<1>5. t # {}
  BY <1>4, ReadsAt
<1>6. LastOf(t) \in t
  BY <1>4, <1>5 DEF HasLast
<1> DEFINE u == t \ {LastOf(t)}
<1>7. u \in SUBSET T /\ u \subseteq t /\ u # t
  BY <1>4, <1>6
<1>8. f[u] = g[u]
  BY <1>3, <1>7
<1>9. f[t] = Read(f[u], LastOf(t))
  BY <1>4, <1>5, ReadsAt
<1>10. g[t] = Read(g[u], LastOf(t))
  BY <1>4, <1>5, ReadsAt
<1> QED BY <1>4, <1>8, <1>9, <1>10

LEMMA ReaderReads ==
  ASSUME NEW acc, NEW S, IsFiniteSet(S), HasLast(S)
  PROVE  Reads(Reader(acc, S), acc, S)
<1> DEFINE B == {t \in SUBSET S : ~Reads(Reader(acc, t), acc, t)}
<1>1. SUFFICES ASSUME B # {} PROVE FALSE
  <2>1. S \in SUBSET S
    OBVIOUS
  <2> QED BY <2>1
<1>2. PICK t \in B : \A u \in B : u \subseteq t => u = t
  <2>1. B \subseteq SUBSET S /\ B # {}
    BY <1>1
  <2> HIDE DEF B
  <2> QED BY <2>1, LeastSubset
<1>3. t \in SUBSET S /\ ~Reads(Reader(acc, t), acc, t) /\ IsFiniteSet(t) /\ HasLast(t)
  BY FS_Subset DEF HasLast
<1>4. \A u \in SUBSET t : u # t => IsFiniteSet(u) /\ HasLast(u) /\ Reads(Reader(acc, u), acc, u)
  BY <1>2, <1>3, FS_Subset DEF HasLast
<1> DEFINE part(s) == IF s = {} THEN acc
                      ELSE Read(Reader(acc, s \ {LastOf(s)})[s \ {LastOf(s)}], LastOf(s))
           f == [s \in SUBSET t |-> part(s)]
<1>5. ASSUME NEW u \in SUBSET t, u # t PROVE Reader(acc, u)[u] = part(u)
  <2>1. Reads(Reader(acc, u), acc, u) /\ IsFiniteSet(u) /\ HasLast(u)
    BY <1>4, <1>5
  <2>2. CASE u = {}
    BY <2>1, <2>2, ReadsAt
  <2>3. CASE u # {}
    <3> DEFINE v == u \ {LastOf(u)}
    <3>1. v \in SUBSET t /\ v # t /\ v \in SUBSET u
      BY <1>5
    <3>2. Reads(Reader(acc, v), acc, v)
      BY <1>4, <3>1
    <3>3. Reader(acc, u)[v] = Reader(acc, v)[v]
      BY <2>1, <3>1, <3>2, ReadsOnce
    <3>4. Reader(acc, u)[u] = Read(Reader(acc, u)[v], LastOf(u))
      BY <2>1, <2>3, ReadsAt
    <3> QED BY <2>3, <3>3, <3>4
  <2> QED BY <2>2, <2>3
<1>6. ASSUME NEW s \in SUBSET t
      PROVE  part(s) = IF s = {} THEN acc ELSE Read(f[s \ {LastOf(s)}], LastOf(s))
  <2>1. CASE s = {}
    BY <2>1
  <2>2. CASE s # {}
    <3> DEFINE v == s \ {LastOf(s)}
    <3>1. v \in SUBSET t /\ v # t
      BY <1>3, <2>2 DEF HasLast
    <3>2. f[v] = part(v)
      BY <3>1
    <3>3. part(v) = Reader(acc, v)[v]
      BY <1>5, <3>1
    <3>4. part(s) = Read(Reader(acc, v)[v], LastOf(s))
      BY <2>2
    <3> QED BY <2>2, <3>2, <3>3, <3>4
  <2> QED BY <2>1, <2>2
<1>7. Reads(f, acc, t)
  <2> DEFINE F(s) == IF s = {} THEN acc ELSE Read(f[s \ {LastOf(s)}], LastOf(s))
  <2>1. \A s \in SUBSET t : part(s) = F(s)
    BY <1>6
  <2> HIDE DEF part
  <2>2. f = [s \in SUBSET t |-> F(s)]
    <3> HIDE DEF F
    <3> QED BY <2>1
  <2> HIDE DEF f
  <2> QED BY <2>2 DEF Reads
<1>8. Reads(Reader(acc, t), acc, t)
  <2> HIDE DEF f
  <2> QED BY <1>7 DEF Reader
<1> QED BY <1>3, <1>8

LEMMA ReadNone == ASSUME NEW acc PROVE ReadAll(acc, {}) = acc
<1>1. HasLast({})
  BY DEF HasLast
<1>2. Reads(Reader(acc, {}), acc, {})
  BY <1>1, ReaderReads, FS_EmptySet
<1>3. Reader(acc, {})[{}] = acc
  BY <1>2, ReadsAt
<1> QED BY <1>3, ReadAllIsFold

LEMMA ReadLast ==
  ASSUME NEW acc, NEW S, IsFiniteSet(S), S # {}, HasLast(S)
  PROVE  ReadAll(acc, S) = Read(ReadAll(acc, S \ {LastOf(S)}), LastOf(S))
<1> DEFINE T == S \ {LastOf(S)}
<1>1. IsFiniteSet(T) /\ HasLast(T) /\ T \subseteq S
  BY FS_Subset DEF HasLast
<1>2. Reads(Reader(acc, S), acc, S) /\ Reads(Reader(acc, T), acc, T)
  BY <1>1, ReaderReads
<1>3. Reader(acc, S)[T] = Reader(acc, T)[T]
  BY <1>1, <1>2, ReadsOnce
<1>4. Reader(acc, S)[S] = Read(Reader(acc, S)[T], LastOf(S))
  BY <1>2, ReadsAt
<1> QED BY <1>3, <1>4, ReadAllIsFold

-----------------------------------------------------------------------------
(* The greatest and the least of two.                                       *)

LEMMA MaxOfTwo == ASSUME NEW a \in Int, NEW b \in Int
                  PROVE  Max({a, b}) = IF a >= b THEN a ELSE b
<1> DEFINE m == IF a >= b THEN a ELSE b
<1>1. m \in {a, b} /\ \A y \in {a, b} : m >= y
  OBVIOUS
<1>2. \A x \in {a, b} : (\A y \in {a, b} : x >= y) => x = m
  OBVIOUS
<1> HIDE DEF m
<1>3. Max({a, b}) = m
  BY <1>1, <1>2 DEF Max
<1> QED BY <1>3 DEF m

LEMMA MinOfTwo == ASSUME NEW a \in Int, NEW b \in Int
                  PROVE  Min({a, b}) = IF a <= b THEN a ELSE b
<1> DEFINE m == IF a <= b THEN a ELSE b
<1>1. m \in {a, b} /\ \A y \in {a, b} : m <= y
  OBVIOUS
<1>2. \A x \in {a, b} : (\A y \in {a, b} : x <= y) => x = m
  OBVIOUS
<1> HIDE DEF m
<1>3. Min({a, b}) = m
  BY <1>1, <1>2 DEF Min
<1> QED BY <1>3 DEF m

-----------------------------------------------------------------------------
(* Days and midnights.                                                      *)

LEMMA MidnightIs == ASSUME NEW d \in Int
                    PROVE  Midnight(d) \in Int /\ Midnight(d + 1) = Midnight(d) + DayLength
BY CalendarAssumption DEF Midnight

LEMMA MidnightsGrow ==
  ASSUME NEW c \in Int, NEW d \in Int, c <= d
  PROVE  Midnight(c) <= Midnight(d)
<1>1. DayLength \in Nat /\ d - c \in Nat
  BY CalendarAssumption
<1>2. DayLength * (d - c) >= 0
  BY <1>1
<1>3. d * DayLength = c * DayLength + DayLength * (d - c)
  BY <1>1
<1>4. c * DayLength \in Int /\ d * DayLength \in Int /\ DayLength * (d - c) \in Int
  BY <1>1
<1> QED BY <1>2, <1>3, <1>4 DEF Midnight

LEMMA DayIs ==
  ASSUME NEW t \in Int
  PROVE  /\ Day(t) \in Int
         /\ Midnight(Day(t)) <= t
         /\ t < Midnight(Day(t) + 1)
<1> DEFINE q == t \div DayLength
           r == t % DayLength
<1>1. DayLength \in Nat \ {0}
  BY CalendarAssumption
<1>2. q \in Int /\ r \in 0 .. (DayLength - 1) /\ t = DayLength * q + r
  BY <1>1
<1> HIDE DEF q, r
<1>3. q * DayLength = DayLength * q /\ (q + 1) * DayLength = DayLength * q + DayLength
      /\ DayLength * q \in Int
  BY <1>1, <1>2
<1>4. Day(t) = q
  BY DEF Day, q
<1> QED BY <1>1, <1>2, <1>3, <1>4 DEF Midnight

LEMMA DaysIn ==
  ASSUME NEW t \in Int, NEW from \in Int, NEW to \in Int
  PROVE  Day(t) \in from .. to <=> Midnight(from) <= t /\ t < Midnight(to + 1)
<1> DEFINE d == Day(t)
<1>1. d \in Int /\ Midnight(d) <= t /\ t < Midnight(d + 1)
  BY DayIs
<1> HIDE DEF d
<1>2. Midnight(d) \in Int /\ Midnight(d + 1) \in Int /\ Midnight(from) \in Int
      /\ Midnight(to + 1) \in Int
  BY <1>1, MidnightIs
<1>3. ASSUME from <= d PROVE Midnight(from) <= t
  BY <1>1, <1>2, <1>3, MidnightsGrow
<1>4. ASSUME d <= to PROVE t < Midnight(to + 1)
  <2>1. Midnight(d + 1) <= Midnight(to + 1)
    BY <1>1, <1>4, MidnightsGrow
  <2> QED BY <1>1, <1>2, <2>1
<1>5. ASSUME d < from PROVE t < Midnight(from)
  <2>1. Midnight(d + 1) <= Midnight(from)
    BY <1>1, <1>5, MidnightsGrow
  <2> QED BY <1>1, <1>2, <2>1
<1>6. ASSUME to < d PROVE Midnight(to + 1) <= t
  <2>1. Midnight(to + 1) <= Midnight(d)
    BY <1>1, <1>6, MidnightsGrow
  <2> QED BY <1>1, <1>2, <2>1
<1> QED BY <1>1, <1>2, <1>3, <1>4, <1>5, <1>6 DEF d

(* An hour more of an interval is an hour of the day it falls on.           *)
LEMMA SegmentTyped ==
  ASSUME NEW d \in Int, NEW i, i[1] \in Int, i[2] \in Int
  PROVE  Segment(i, d) \in Int
<1> DEFINE m == Midnight(d)
           n == Midnight(d + 1)
<1>1. m \in Int /\ n \in Int
  BY MidnightIs
<1> HIDE DEF m, n
<1>2. Min({i[2], n}) \in Int /\ Max({i[1], m}) \in Int
  BY <1>1, MinOfTwo, MaxOfTwo
<1> DEFINE k == Min({i[2], n}) - Max({i[1], m})
<1>3. k \in Int
  BY <1>2
<1>4. Segment(i, d) = Max({0, k})
  BY DEF Segment, m, n
<1> HIDE DEF k
<1>5. 0 \in Int
  OBVIOUS
<1> QED BY <1>3, <1>4, <1>5, MaxOfTwo

LEMMA SegmentIs ==
  ASSUME NEW d \in Int, NEW a \in Int, NEW b \in Int, a <= b
  PROVE  LET k == (IF b <= Midnight(d + 1) THEN b ELSE Midnight(d + 1))
                   - (IF a >= Midnight(d) THEN a ELSE Midnight(d))
         IN  Segment(<<a, b>>, d) = IF 0 >= k THEN 0 ELSE k
<1> DEFINE m == Midnight(d)
           n == Midnight(d + 1)
           low == IF a >= m THEN a ELSE m
           high == IF b <= n THEN b ELSE n
           k == high - low
<1>1. m \in Int /\ n \in Int
  BY MidnightIs
<1>2. Segment(<<a, b>>, d) = Max({0, Min({b, n}) - Max({a, m})})
  BY DEF Segment
<1> HIDE DEF m, n
<1>3. Min({b, n}) = high /\ Max({a, m}) = low
  BY <1>1, MinOfTwo, MaxOfTwo
<1>4. Segment(<<a, b>>, d) = Max({0, k})
  BY <1>2, <1>3
<1>5. 0 \in Int /\ k \in Int
  BY <1>1
<1> HIDE DEF k
<1>6. Segment(<<a, b>>, d) = IF 0 >= k THEN 0 ELSE k
  BY <1>4, <1>5, MaxOfTwo
<1> QED BY <1>6 DEF k, m, n

LEMMA SegmentGrows ==
  ASSUME NEW d \in Int, NEW a \in Int, NEW b \in Int, a <= b
  PROVE  /\ Segment(<<a, a>>, d) = 0
         /\ Segment(<<a, b + 1>>, d)
              = Segment(<<a, b>>, d)
                + IF b \in Midnight(d) .. Midnight(d + 1) - 1 THEN 1 ELSE 0
<1> DEFINE m == Midnight(d)
           n == Midnight(d + 1)
<1>1. m \in Int /\ n \in Int /\ m < n
  BY MidnightIs, CalendarAssumption
<1>2. b + 1 \in Int /\ a <= b + 1 /\ a <= a
  OBVIOUS
<1> DEFINE
     s == Segment(<<a, b>>, d)
     s1 == Segment(<<a, b + 1>>, d)
     s0 == Segment(<<a, a>>, d)
     low == IF a >= m THEN a ELSE m
     k == (IF b <= n THEN b ELSE n) - low
     k1 == (IF b + 1 <= n THEN b + 1 ELSE n) - low
     k0 == (IF a <= n THEN a ELSE n) - low
<1>3. s = IF 0 >= k THEN 0 ELSE k
  BY SegmentIs
<1>4. s1 = IF 0 >= k1 THEN 0 ELSE k1
  BY <1>2, SegmentIs
<1>5. s0 = IF 0 >= k0 THEN 0 ELSE k0
  BY <1>2, SegmentIs
<1> HIDE DEF s, s1, s0, m, n
<1>6. s0 = 0
  BY <1>1, <1>5
<1>7. s1 = s + IF b \in m .. n - 1 THEN 1 ELSE 0
  BY <1>1, <1>3, <1>4
<1> QED BY <1>6, <1>7 DEF s, s1, s0, m, n

-----------------------------------------------------------------------------
(* The minutes of a set of intervals are a sum.                             *)

LEMMA MinutesAre ==
  ASSUME NEW d, NEW S, IsFiniteSet(S), NEW w, \A i \in S : w[i] = Segment(i, d)
  PROVE  MinutesOn(S, d) = SumOf(w, S)
<1> DEFINE Term(f, s) == IF s = {} THEN 0 ELSE Segment(OneOf(s), d) + f[s \ {OneOf(s)}]
           Sums(f) == f = [s \in SUBSET S |-> Term(f, s)]
           M == CHOOSE f : Sums(f)
<1>1. MinutesOn(S, d) = M[S]
  BY DEF MinutesOn, MapThenSumSet, MapThenFoldSet, OneOf
<1>2. ASSUME NEW f PROVE Sums(f) <=> Adds(f, w, S)
  <2> DEFINE Plus(s) == IF s = {} THEN 0 ELSE w[OneOf(s)] + f[s \ {OneOf(s)}]
  <2>1. \A s \in SUBSET S : Plus(s) = Term(f, s)
    <3> SUFFICES ASSUME NEW s \in SUBSET S PROVE Plus(s) = Term(f, s)
      OBVIOUS
    <3>1. CASE s = {}
      BY <3>1
    <3>2. CASE s # {}
      <4>1. OneOf(s) \in S
        BY <3>2, OneOfIn
      <4> QED BY <4>1
    <3> QED BY <3>1, <3>2
  <2>2. Adds(f, w, S) <=> f = [s \in SUBSET S |-> Plus(s)]
    BY DEF Adds
  <2> HIDE DEF Plus, Term
  <2>3. [s \in SUBSET S |-> Plus(s)] = [s \in SUBSET S |-> Term(f, s)]
    BY <2>1
  <2> QED BY <2>2, <2>3
<1>3. Adds(Adder(w, S), w, S)
  BY AdderAdds
<1> HIDE DEF Sums
<1>4. Sums(M)
  BY <1>2, <1>3
<1>5. Adds(M, w, S)
  BY <1>2, <1>4
<1>6. M[S] = Adder(w, S)[S]
  <2> HIDE DEF M
  <2>1. S \subseteq S
    OBVIOUS
  <2> QED BY <1>3, <1>5, <2>1, AddsOnce
<1> QED BY <1>1, <1>6, SumIsFold

LEMMA MinutesOfNone == ASSUME NEW d PROVE MinutesOn({}, d) = 0
<1> DEFINE w == [i \in {} |-> 0]
<1>1. \A i \in {} : w[i] = Segment(i, d)
  OBVIOUS
<1> HIDE DEF w
<1>2. MinutesOn({}, d) = SumOf(w, {})
  BY <1>1, MinutesAre, FS_EmptySet
<1> QED BY <1>2, SumOfNone

LEMMA MinutesWith ==
  ASSUME NEW d \in Int, NEW S, IsFiniteSet(S), NEW j, j \notin S,
         \A i \in S \cup {j} : i[1] \in Int /\ i[2] \in Int
  PROVE  /\ MinutesOn(S, d) \in Int
         /\ MinutesOn(S \cup {j}, d) = Segment(j, d) + MinutesOn(S, d)
<1> DEFINE T == S \cup {j}
           w == [i \in T |-> Segment(i, d)]
<1>1. \A i \in T : w[i] = Segment(i, d) /\ w[i] \in Int
  BY SegmentTyped
<1>2. IsFiniteSet(T) /\ j \in T /\ S \subseteq T
  BY FS_AddElement
<1> HIDE DEF w
<1>3. MinutesOn(T, d) = SumOf(w, T)
  <2> HIDE DEF T
  <2> QED BY <1>1, <1>2, MinutesAre
<1>4. MinutesOn(S, d) = SumOf(w, S)
  BY <1>1, <1>2, MinutesAre
<1>5. SumOf(w, T) = w[j] + SumOf(w, S)
  BY <1>1, SumWith
<1>6. SumOf(w, S) \in Int
  BY <1>1, <1>2, SumIsInt
<1> QED BY <1>1, <1>2, <1>3, <1>4, <1>5, <1>6

-----------------------------------------------------------------------------
(* The last row.                                                            *)

(* Rows with instants.                                                      *)
Timed(S) == \A p \in S : p.at \in Int

LEMMA SomeLast ==
  ASSUME NEW S, IsFiniteSet(S), Timed(S), S # {}
  PROVE  \E p \in S : \A q \in S : q.at <= p.at
<1> DEFINE B == {t \in SUBSET S : t # {} /\ ~\E p \in t : \A q \in t : q.at <= p.at}
<1>1. SUFFICES ASSUME B # {} PROVE FALSE
  <2>1. S \in SUBSET S
    OBVIOUS
  <2> QED BY <2>1
<1>2. PICK t \in B : \A u \in B : u \subseteq t => u = t
  <2>1. B \subseteq SUBSET S /\ B # {}
    BY <1>1
  <2> HIDE DEF B
  <2> QED BY <2>1, LeastSubset
<1>3. t \in SUBSET S /\ t # {} /\ ~\E p \in t : \A q \in t : q.at <= p.at
  OBVIOUS
<1>4. PICK x \in t : TRUE
  BY <1>3
<1> DEFINE u == t \ {x}
<1>5. u \in SUBSET S /\ u \subseteq t /\ u # t
  BY <1>3, <1>4
<1>6. u = {} \/ \E p \in u : \A q \in u : q.at <= p.at
  BY <1>2, <1>5
<1>7. x.at \in Int /\ \A q \in t : q.at \in Int
  BY <1>3, <1>4 DEF Timed
<1>8. CASE u = {}
  <2>1. \A q \in t : q = x
    BY <1>8
  <2>2. \A q \in t : q.at <= x.at
    BY <1>7, <2>1
  <2> QED BY <1>3, <1>4, <2>2
<1>9. CASE \E p \in u : \A q \in u : q.at <= p.at
  <2>1. PICK p \in u : \A q \in u : q.at <= p.at
    BY <1>9
  <2>2. p \in t /\ p.at \in Int
    BY <1>7
  <2>3. CASE x.at <= p.at
    <3>1. \A q \in t : q.at <= p.at
      BY <2>1, <2>3
    <3> QED BY <1>3, <2>2, <3>1
  <2>4. CASE p.at <= x.at
    <3>1. \A q \in t : q.at <= x.at
      <4> SUFFICES ASSUME NEW q \in t PROVE q.at <= x.at
        OBVIOUS
      <4>1. CASE q = x
        BY <1>7, <4>1
      <4>2. CASE q # x
        <5>1. q.at <= p.at
          BY <2>1, <4>2
        <5> QED BY <1>7, <2>2, <2>4, <5>1
      <4> QED BY <4>1, <4>2
    <3> QED BY <1>3, <1>4, <3>1
  <2> QED BY <1>7, <2>2, <2>3, <2>4
<1> QED BY <1>6, <1>8, <1>9

LEMMA TimedHaveLast ==
  ASSUME NEW S, IsFiniteSet(S), Timed(S)
  PROVE  HasLast(S)
<1> SUFFICES ASSUME NEW s \in SUBSET S, s # {} PROVE LastOf(s) \in s
  BY DEF HasLast
<1>1. IsFiniteSet(s) /\ Timed(s)
  BY FS_Subset DEF Timed
<1>2. \E p \in s : \A q \in s : q.at <= p.at
  BY <1>1, SomeLast
<1> QED BY <1>2 DEF LastOf

(* A row that comes after all the others is read after them.                *)
LEMMA ReadNext ==
  ASSUME NEW acc, NEW S, NEW p, IsFiniteSet(S), Timed(S), p.at \in Int,
         \A q \in S : q.at < p.at
  PROVE  ReadAll(acc, S \cup {p}) = Read(ReadAll(acc, S), p)
<1> DEFINE T == S \cup {p}
<1>1. p \notin S
  <2>1. ~(p.at < p.at)
    OBVIOUS
  <2> QED BY <2>1
<1>2. IsFiniteSet(T) /\ T # {} /\ T \ {p} = S
  BY <1>1, FS_AddElement
<1>3. Timed(T)
  BY DEF Timed
<1>4. LastOf(T) = p
  <2>1. \A q \in T : q.at <= p.at
    BY DEF Timed
  <2>2. \A x \in T : (\A q \in T : q.at <= x.at) => x = p
    <3> SUFFICES ASSUME NEW x \in T, \A q \in T : q.at <= x.at PROVE x = p
      OBVIOUS
    <3>1. p.at <= x.at
      OBVIOUS
    <3>2. x \notin S
      <4> SUFFICES ASSUME x \in S PROVE FALSE
        OBVIOUS
      <4>1. x.at < p.at /\ x.at \in Int
        BY DEF Timed
      <4> QED BY <3>1, <4>1
    <3> QED BY <3>2
  <2>3. p \in T
    OBVIOUS
  <2> HIDE DEF T
  <2> QED BY <2>1, <2>2, <2>3 DEF LastOf
<1>5. HasLast(T)
  BY <1>2, <1>3, TimedHaveLast
<1>6. ReadAll(acc, T) = Read(ReadAll(acc, T \ {LastOf(T)}), LastOf(T))
  <2> HIDE DEF T
  <2> QED BY <1>2, <1>5, ReadLast
<1> QED BY <1>2, <1>4, <1>6

-----------------------------------------------------------------------------
(* Reading on, instant by instant.                                          *)

(* The latest punch before t is IN.                                         *)
On(e, t) ==
    \E p \in punches :
      /\ p.emp = e /\ p.at < t /\ p.type = "IN"
      /\ \A q \in punches : q.emp = e /\ q.at < t => q.at <= p.at

(* The rows of the range before t, and what the loop has after them.        *)
Upto(e, from, to, t) == {p \in PunchesOf(e, from, to) : p.at < t}

ReadUpto(e, from, to, t) == ReadAll(AtFirst(e, from), Upto(e, from, to, t))

Hours(d) == Midnight(d) .. Midnight(d + 1) - 1

(* The hours of day d before t that were worked.                            *)
Worked(e, d, t) == {x \in Hours(d) : x < t /\ AtWork(e, x)}

LEMMA PunchTyped == ASSUME TypeOK, NEW p \in punches
                    PROVE  p.at \in Nat /\ p.at \in Int /\ p.type \in PunchTypes
BY DEF TypeOK, Punch

LEMMA AtWorkIsOn == ASSUME TypeOK, NEW e, NEW t \in Int PROVE AtWork(e, t) <=> On(e, t + 1)
<1>1. \A p \in punches : p.at <= t <=> p.at < t + 1
  <2> SUFFICES ASSUME NEW p \in punches PROVE p.at <= t <=> p.at < t + 1
    OBVIOUS
  <2>1. p.at \in Int
    BY PunchTyped
  <2> QED BY <2>1
<1> QED BY <1>1, Zenon DEF AtWork, On

LEMMA OnWithout ==
  ASSUME TypeOK, NEW e, NEW t \in Int, ~\E p \in punches : p.emp = e /\ p.at = t
  PROVE  On(e, t + 1) <=> On(e, t)
<1>1. ASSUME NEW p \in punches, p.emp = e PROVE p.at < t + 1 <=> p.at < t
  <2>1. p.at \in Int /\ p.at # t
    BY <1>1, PunchTyped
  <2> QED BY <2>1
<1> QED BY <1>1, Zenon DEF On

LEMMA OnWith ==
  ASSUME TypeOK, NEW e, OneAtATime(e), NEW p \in punches, p.emp = e
  PROVE  On(e, p.at + 1) <=> p.type = "IN"
<1> DEFINE t == p.at + 1
<1>1. p.at \in Int /\ p.at < t
  BY PunchTyped
<1>2. ASSUME NEW q \in punches, q.emp = e PROVE q.at < t <=> q.at <= p.at
  <2>1. q.at \in Int
    BY PunchTyped
  <2> QED BY <1>1, <2>1
<1>3. ASSUME p.type = "IN" PROVE On(e, t)
  <2> HIDE DEF t
  <2> QED BY <1>1, <1>2, <1>3 DEF On
<1>4. ASSUME On(e, t) PROVE p.type = "IN"
  <2> HIDE DEF t
  <2>1. PICK q \in punches :
          /\ q.emp = e /\ q.at < t /\ q.type = "IN"
          /\ \A r \in punches : r.emp = e /\ r.at < t => r.at <= q.at
    BY <1>4 DEF On
  <2>2. p.at <= q.at /\ q.at <= p.at /\ q.at \in Int
    BY <1>1, <1>2, <2>1, PunchTyped
  <2>3. p.at = q.at
    BY <1>1, <2>2
  <2> QED BY <2>1, <2>3 DEF OneAtATime
<1> QED BY <1>3, <1>4

LEMMA HoursFinite == ASSUME NEW d \in Int
                     PROVE  /\ IsFiniteSet(Hours(d))
                            /\ \A x \in Hours(d) : x \in Int
<1> DEFINE a == Midnight(d)
           b == Midnight(d + 1) - 1
<1>1. a \in Int /\ b \in Int
  BY MidnightIs
<1> HIDE DEF a, b
<1>2. IsFiniteSet(a .. b)
  BY <1>1, FS_Interval, Zenon
<1>3. \A x \in a .. b : x \in Int
  BY <1>1
<1> QED BY <1>2, <1>3 DEF Hours, a, b

LEMMA WorkedFinite == ASSUME NEW e, NEW d \in Int, NEW t
                      PROVE  /\ IsFiniteSet(Worked(e, d, t))
                             /\ Cardinality(Worked(e, d, t)) \in Nat
<1>1. Worked(e, d, t) \subseteq Hours(d) /\ IsFiniteSet(Hours(d))
  BY HoursFinite DEF Worked
<1>2. IsFiniteSet(Worked(e, d, t))
  BY <1>1, FS_Subset
<1> QED BY <1>2, FS_CardinalityType

LEMMA WorkedNext ==
  ASSUME TypeOK, NEW e, NEW d \in Int, NEW t \in Int
  PROVE  Cardinality(Worked(e, d, t + 1))
           = Cardinality(Worked(e, d, t))
             + IF t \in Hours(d) /\ On(e, t + 1) THEN 1 ELSE 0
<1> DEFINE W == Worked(e, d, t)
           V == Worked(e, d, t + 1)
<1>1. IsFiniteSet(W) /\ Cardinality(W) \in Nat
  BY WorkedFinite
<1>2. \A x \in Hours(d) : x < t + 1 <=> x < t \/ x = t
  <2> SUFFICES ASSUME NEW x \in Hours(d) PROVE x < t + 1 <=> x < t \/ x = t
    OBVIOUS
  <2>1. x \in Int
    BY HoursFinite
  <2> QED BY <2>1
<1>3. AtWork(e, t) <=> On(e, t + 1)
  BY AtWorkIsOn
<1>4. t \notin W
  <2>1. ~(t < t)
    OBVIOUS
  <2> QED BY <2>1 DEF Worked
<1>5. CASE t \in Hours(d) /\ On(e, t + 1)
  <2>1. V = W \cup {t}
    BY <1>2, <1>3, <1>5, Zenon DEF Worked
  <2>2. Cardinality(V) = Cardinality(W) + 1
    BY <1>1, <1>4, <2>1, FS_AddElement
  <2> QED BY <1>5, <2>2
<1>6. CASE ~(t \in Hours(d) /\ On(e, t + 1))
  <2>1. V = W
    BY <1>2, <1>3, <1>6, Zenon DEF Worked
  <2> QED BY <1>1, <1>6, <2>1
<1> QED BY <1>5, <1>6

LEMMA RangeRows ==
  ASSUME TypeOK, NEW e, NEW from \in Int, NEW to \in Int
  PROVE  PunchesOf(e, from, to)
           = {p \in punches : p.emp = e /\ Midnight(from) <= p.at /\ p.at < Midnight(to + 1)}
<1>1. \A p \in punches : Day(p.at) \in from .. to
                           <=> Midnight(from) <= p.at /\ p.at < Midnight(to + 1)
  <2> SUFFICES ASSUME NEW p \in punches
               PROVE  Day(p.at) \in from .. to
                        <=> Midnight(from) <= p.at /\ p.at < Midnight(to + 1)
    OBVIOUS
  <2>1. p.at \in Int
    BY PunchTyped
  <2> QED BY <2>1, DaysIn
<1> QED BY <1>1, Zenon DEF PunchesOf

LEMMA UptoFinite ==
  ASSUME TypeOK, IsFiniteSet(punches), NEW e, NEW from, NEW to, NEW t
  PROVE  IsFiniteSet(Upto(e, from, to, t)) /\ Timed(Upto(e, from, to, t))
<1>1. Upto(e, from, to, t) \subseteq punches
  BY DEF Upto, PunchesOf
<1> QED BY <1>1, FS_Subset, PunchTyped DEF Timed

LEMMA UptoWithout ==
  ASSUME TypeOK, NEW e, NEW from \in Int, NEW to \in Int, NEW t \in Int,
         ~\E p \in punches : p.emp = e /\ p.at = t
  PROVE  Upto(e, from, to, t + 1) = Upto(e, from, to, t)
<1>1. ASSUME NEW p \in PunchesOf(e, from, to) PROVE p.at < t + 1 <=> p.at < t
  <2>1. p \in punches /\ p.emp = e
    BY DEF PunchesOf
  <2>2. p.at \in Int /\ p.at # t
    BY <2>1, PunchTyped
  <2> QED BY <2>2
<1> QED BY <1>1, Zenon DEF Upto

LEMMA UptoWith ==
  ASSUME TypeOK, NEW e, OneAtATime(e), NEW from \in Int, NEW to \in Int, NEW t \in Int,
         NEW p \in punches, p.emp = e, p.at = t, Midnight(from) <= t, t < Midnight(to + 1)
  PROVE  /\ Upto(e, from, to, t + 1) = Upto(e, from, to, t) \cup {p}
         /\ \A q \in Upto(e, from, to, t) : q.at < p.at
<1>1. p \in PunchesOf(e, from, to)
  BY RangeRows
<1>2. ASSUME NEW q \in PunchesOf(e, from, to) PROVE q.at < t + 1 <=> q.at < t \/ q = p
  <2>1. q \in punches /\ q.emp = e
    BY DEF PunchesOf
  <2>2. q.at \in Int
    BY <2>1, PunchTyped
  <2>3. q.at = t <=> q = p
    BY <2>1 DEF OneAtATime
  <2> QED BY <2>2, <2>3
<1>3. p.at < t + 1
  OBVIOUS
<1> QED BY <1>1, <1>2, <1>3, Zenon DEF Upto

-----------------------------------------------------------------------------
(* What the loop has is right so far.                                       *)

Open(a, t, d) == IF a.start = NoTime THEN 0 ELSE Segment(<<a.start, t>>, d)

Loop == [start : Int, done : SUBSET (Int \X Int)]

(* An interval is open iff the employee is at work, the closed ones end     *)
(* before t, and all of them together have the hours worked before t.       *)
Right(a, e, d, from, t) ==
    /\ a \in Loop
    /\ a.start # NoTime => Midnight(from) <= a.start /\ a.start <= t
    /\ a.start # NoTime <=> On(e, t)
    /\ IsFiniteSet(a.done)
    /\ \A i \in a.done : i[2] < t
    /\ MinutesOn(a.done, d) + Open(a, t, d) = Cardinality(Worked(e, d, t))

LEMMA MinutesTyped ==
  ASSUME NEW d \in Int, NEW a \in Loop, IsFiniteSet(a.done)
  PROVE  MinutesOn(a.done, d) \in Int
<1> DEFINE S == a.done
           w == [i \in S |-> Segment(i, d)]
<1>1. S \subseteq Int \X Int
  BY DEF Loop
<1> HIDE DEF S
<1>2. \A i \in S : i[1] \in Int /\ i[2] \in Int
  BY <1>1
<1>3. \A i \in S : w[i] = Segment(i, d) /\ w[i] \in Int
  BY <1>2, SegmentTyped
<1> HIDE DEF w
<1>4. IsFiniteSet(S)
  BY DEF S
<1>5. MinutesOn(S, d) = SumOf(w, S) /\ SumOf(w, S) \in Int
  BY <1>3, <1>4, MinutesAre, SumIsInt
<1> QED BY <1>5 DEF S

LEMMA OpenGrows ==
  ASSUME NEW a \in Loop, NEW t \in Int, NEW d \in Int,
         a.start # NoTime => a.start <= t
  PROVE  /\ Open(a, t, d) \in Int
         /\ Open(a, t + 1, d) \in Int
         /\ Open(a, t + 1, d)
              = Open(a, t, d) + IF t \in Hours(d) /\ a.start # NoTime THEN 1 ELSE 0
<1>1. CASE a.start = NoTime
  BY <1>1 DEF Open
<1>2. CASE a.start # NoTime
  <2> DEFINE s == a.start
             i == <<s, t>>
             j == <<s, t + 1>>
  <2>1. s \in Int /\ s <= t
    BY <1>2 DEF Loop
  <2> HIDE DEF s
  <2>2. i[1] \in Int /\ i[2] \in Int /\ j[1] \in Int /\ j[2] \in Int
    BY <2>1
  <2>3. Segment(j, d) = Segment(i, d) + IF t \in Hours(d) THEN 1 ELSE 0
    BY <2>1, SegmentGrows DEF Hours
  <2> HIDE DEF i, j
  <2>4. Segment(i, d) \in Int /\ Segment(j, d) \in Int
    BY <2>2, SegmentTyped
  <2>5. Open(a, t, d) = Segment(i, d) /\ Open(a, t + 1, d) = Segment(j, d)
    BY <1>2 DEF Open, i, j, s
  <2> QED BY <1>2, <2>3, <2>4, <2>5
<1> QED BY <1>1, <1>2

LEMMA RightStays ==
  ASSUME TypeOK, NEW e, NEW d \in Int, NEW from \in Int, NEW t \in Int,
         NEW a, Right(a, e, d, from, t), a.start # NoTime <=> On(e, t + 1)
  PROVE  Right(a, e, d, from, t + 1)
<1>1. a \in Loop /\ IsFiniteSet(a.done) /\ a.start \in Int /\ Midnight(from) \in Int
  BY MidnightIs DEF Right, Loop
<1>2. a.start # NoTime => Midnight(from) <= a.start /\ a.start <= t /\ a.start <= t + 1
  BY <1>1 DEF Right
<1>3. \A i \in a.done : i[2] < t + 1
  <2> SUFFICES ASSUME NEW i \in a.done PROVE i[2] < t + 1
    OBVIOUS
  <2>1. i[2] \in Int /\ i[2] < t
    BY <1>1 DEF Right, Loop
  <2> QED BY <2>1
<1>4. MinutesOn(a.done, d) + Open(a, t + 1, d) = Cardinality(Worked(e, d, t + 1))
  <2> DEFINE
       m == MinutesOn(a.done, d)
       o == Open(a, t, d)
       o1 == Open(a, t + 1, d)
       c == Cardinality(Worked(e, d, t))
       c1 == Cardinality(Worked(e, d, t + 1))
       more == IF t \in Hours(d) /\ a.start # NoTime THEN 1 ELSE 0
  <2>1. m \in Int
    BY <1>1, MinutesTyped
  <2>2. o \in Int /\ o1 \in Int /\ o1 = o + more
    BY <1>1, <1>2, OpenGrows
  <2>3. c1 = c + more
    BY WorkedNext
  <2>4. c \in Nat
    BY WorkedFinite
  <2>5. m + o = c
    BY DEF Right
  <2>6. more \in Int
    OBVIOUS
  <2> HIDE DEF m, o, o1, c, c1, more
  <2>7. m + o1 = c1
    BY <2>1, <2>2, <2>3, <2>4, <2>5, <2>6
  <2> QED BY <2>7 DEF m, o1, c1
<1> QED BY <1>1, <1>2, <1>3, <1>4 DEF Right

LEMMA RightOpens ==
  ASSUME TypeOK, NEW e, NEW d \in Int, NEW from \in Int, NEW t \in Int,
         NEW a, Right(a, e, d, from, t), a.start = NoTime, On(e, t + 1),
         t # NoTime, Midnight(from) <= t
  PROVE  Right([start |-> t, done |-> a.done], e, d, from, t + 1)
<1> DEFINE b == [start |-> t, done |-> a.done]
<1>1. a \in Loop /\ IsFiniteSet(a.done) /\ Midnight(from) \in Int
  BY MidnightIs DEF Right
<1>2. b \in Loop /\ b.start = t /\ b.done = a.done
  BY <1>1 DEF Loop
<1> HIDE DEF b
<1>3. \A i \in a.done : i[2] < t + 1
  <2> SUFFICES ASSUME NEW i \in a.done PROVE i[2] < t + 1
    OBVIOUS
  <2>1. i[2] \in Int /\ i[2] < t
    BY <1>1 DEF Right, Loop
  <2> QED BY <2>1
<1>4. MinutesOn(b.done, d) + Open(b, t + 1, d) = Cardinality(Worked(e, d, t + 1))
  <2> DEFINE
       m == MinutesOn(a.done, d)
       o1 == Open(b, t + 1, d)
       c == Cardinality(Worked(e, d, t))
       c1 == Cardinality(Worked(e, d, t + 1))
       more == IF t \in Hours(d) THEN 1 ELSE 0
  <2>1. m \in Int
    BY <1>1, MinutesTyped
  <2>2. o1 = Open(b, t, d) + more
    BY <1>2, OpenGrows
  <2>3. Open(b, t, d) = 0
    <3>1. t <= t
      OBVIOUS
    <3>2. Segment(<<t, t>>, d) = 0
      BY <3>1, SegmentGrows
    <3> QED BY <1>2, <3>2 DEF Open
  <2>4. c1 = c + more
    BY WorkedNext
  <2>5. c \in Nat
    BY WorkedFinite
  <2>6. m + Open(a, t, d) = c /\ Open(a, t, d) = 0
    BY DEF Right, Open
  <2>7. more \in Int
    OBVIOUS
  <2> HIDE DEF m, o1, c, c1, more
  <2>8. m + o1 = c1
    BY <2>1, <2>2, <2>3, <2>4, <2>5, <2>6, <2>7
  <2> QED BY <1>2, <2>8 DEF m, o1, c1
<1>5. t <= t + 1
  OBVIOUS
<1>6. Right(b, e, d, from, t + 1)
  BY <1>1, <1>2, <1>3, <1>4, <1>5 DEF Right
<1> QED BY <1>6 DEF b

LEMMA RightCloses ==
  ASSUME TypeOK, NEW e, NEW d \in Int, NEW from \in Int, NEW t \in Int,
         NEW a, Right(a, e, d, from, t), a.start # NoTime, ~On(e, t + 1)
  PROVE  Right([start |-> NoTime, done |-> a.done \cup {<<a.start, t>>}], e, d, from, t + 1)
<1> DEFINE s == a.start
           j == <<s, t>>
           S == a.done
           b == [start |-> NoTime, done |-> S \cup {j}]
<1>1. a \in Loop /\ IsFiniteSet(S) /\ s \in Int /\ S \subseteq Int \X Int
  BY DEF Right, Loop
<1>2. j \in Int \X Int /\ j[1] \in Int /\ j[2] = t
  BY <1>1
<1>3. s <= t /\ \A i \in S : i[1] \in Int /\ i[2] \in Int /\ i[2] < t
  BY <1>1 DEF Right
<1>4. b \in Loop /\ b.start = NoTime /\ b.done = S \cup {j}
  <2> HIDE DEF S, j
  <2> QED BY <1>1, <1>2 DEF Loop, NoTime
<1>5. Open(a, t, d) = Segment(j, d)
  BY DEF Open
<1>6. MinutesOn(S, d) + Open(a, t, d) = Cardinality(Worked(e, d, t))
  BY DEF Right
<1> HIDE DEF b, j, S, s
<1>7. j \notin S
  <2>1. ~(t < t)
    OBVIOUS
  <2> QED BY <1>2, <1>3, <2>1
<1>8. IsFiniteSet(S \cup {j})
  BY <1>1, FS_AddElement
<1>9. \A i \in S \cup {j} : i[1] \in Int /\ i[2] \in Int
  BY <1>2, <1>3
<1>10. \A i \in S \cup {j} : i[2] < t + 1
  <2> SUFFICES ASSUME NEW i \in S \cup {j} PROVE i[2] < t + 1
    OBVIOUS
  <2>1. i[2] \in Int /\ (i[2] < t \/ i[2] = t)
    BY <1>2, <1>3
  <2> QED BY <2>1
<1>11. MinutesOn(S, d) \in Int /\ MinutesOn(S \cup {j}, d) = Segment(j, d) + MinutesOn(S, d)
  BY <1>1, <1>7, <1>9, MinutesWith
<1>12. Segment(j, d) \in Int
  BY <1>2, SegmentTyped
<1>13. Cardinality(Worked(e, d, t + 1)) = Cardinality(Worked(e, d, t))
  <2>1. Cardinality(Worked(e, d, t)) \in Nat
    BY WorkedFinite
  <2> QED BY <2>1, WorkedNext
<1>14. MinutesOn(b.done, d) + Open(b, t + 1, d) = Cardinality(Worked(e, d, t + 1))
  <2>1. Open(b, t + 1, d) = 0
    BY <1>4 DEF Open
  <2> QED BY <1>4, <1>5, <1>6, <1>11, <1>12, <1>13, <2>1
<1>15. Right(b, e, d, from, t + 1)
  BY <1>4, <1>8, <1>10, <1>14 DEF Right
<1> QED BY <1>15 DEF b, j, S, s

-----------------------------------------------------------------------------
(* The whole range.                                                         *)

LEMMA RightAtFirst ==
  ASSUME TypeOK, NEW e, NEW from \in Nat, NEW to \in Int, NEW d \in Int, from <= d
  PROVE  Right(ReadUpto(e, from, to, Midnight(from)), e, d, from, Midnight(from))
<1> DEFINE t == Midnight(from)
           a == AtFirst(e, from)
<1>1. t \in Int /\ t # NoTime
  <2>1. Midnight(0) = 0
    BY CalendarAssumption DEF Midnight
  <2>2. Midnight(0) <= Midnight(from)
    BY MidnightsGrow
  <2> QED BY <2>1, <2>2, MidnightIs DEF NoTime
<1>2. Upto(e, from, to, t) = {}
  <2> SUFFICES ASSUME NEW p \in Upto(e, from, to, t) PROVE FALSE
    OBVIOUS
  <2>1. p \in PunchesOf(e, from, to) /\ p.at < t
    BY DEF Upto
  <2>2. t <= p.at /\ p \in punches
    BY <2>1, RangeRows
  <2>3. p.at \in Int
    BY <2>2, PunchTyped
  <2> QED BY <1>1, <2>1, <2>2, <2>3
<1>3. ReadUpto(e, from, to, t) = a
  BY <1>2, ReadNone DEF ReadUpto
<1>4. On(e, t) <=> WorkingBefore(e, from)
  BY DEF On, WorkingBefore
<1>5. a.done = {} /\ a.start = IF On(e, t) THEN t ELSE NoTime
  BY <1>4 DEF AtFirst
<1>6. a \in Loop
  <2>1. a = [start |-> IF On(e, t) THEN t ELSE NoTime, done |-> {}]
    BY <1>4 DEF AtFirst
  <2> HIDE DEF t, a
  <2> QED BY <1>1, <2>1 DEF Loop, NoTime
<1>7. Worked(e, d, t) = {}
  <2> SUFFICES ASSUME NEW x \in Worked(e, d, t) PROVE FALSE
    OBVIOUS
  <2>1. x \in Midnight(d) .. Midnight(d + 1) - 1 /\ x < t
    BY DEF Worked, Hours
  <2>2. t <= Midnight(d) /\ Midnight(d) \in Int
    BY MidnightsGrow, MidnightIs
  <2>3. x \in Int
    BY <2>1, HoursFinite DEF Hours
  <2>4. Midnight(d) <= x
    <3> DEFINE m == Midnight(d)
               n == Midnight(d + 1) - 1
    <3>1. m \in Int /\ n \in Int
      BY MidnightIs
    <3> HIDE DEF m, n
    <3>2. x \in m .. n
      BY <2>1 DEF m, n
    <3>3. m <= x
      BY <3>1, <3>2
    <3> QED BY <3>3 DEF m
  <2> HIDE DEF t
  <2> QED BY <1>1, <2>1, <2>2, <2>3, <2>4
<1>8. MinutesOn(a.done, d) = 0
  BY <1>5, MinutesOfNone
<1>9. Open(a, t, d) = 0
  <2>1. CASE a.start = NoTime
    BY <2>1 DEF Open
  <2>2. CASE a.start # NoTime
    <3>1. a.start = t /\ t <= t
      BY <1>1, <1>5, <2>2
    <3>2. Segment(<<t, t>>, d) = 0
      <4> HIDE DEF t
      <4> QED BY <1>1, <3>1, SegmentGrows
    <3> HIDE DEF a, t
    <3> QED BY <2>2, <3>1, <3>2 DEF Open
  <2> QED BY <2>1, <2>2
<1>10. Cardinality(Worked(e, d, t)) = 0
  BY <1>7, FS_EmptySet
<1>11. IsFiniteSet(a.done)
  BY <1>5, FS_EmptySet
<1>12. t <= t /\ Midnight(from) = t
  BY <1>1
<1> HIDE DEF a, t
<1>13. Right(a, e, d, from, t)
  BY <1>1, <1>5, <1>6, <1>8, <1>9, <1>10, <1>11, <1>12 DEF Right
<1> QED BY <1>3, <1>13 DEF t

(* One instant more.                                                        *)
LEMMA RightNext ==
  ASSUME TypeOK, IsFiniteSet(punches), NEW e, OneAtATime(e),
         NEW from \in Nat, NEW to \in Int, NEW d \in Int, NEW t \in Int,
         Midnight(from) <= t, t < Midnight(to + 1),
         Right(ReadUpto(e, from, to, t), e, d, from, t)
  PROVE  Right(ReadUpto(e, from, to, t + 1), e, d, from, t + 1)
<1> DEFINE a == ReadUpto(e, from, to, t)
           b == ReadUpto(e, from, to, t + 1)
<1>1. Right(a, e, d, from, t) /\ (a.start # NoTime <=> On(e, t))
  BY DEF Right
<1>2. a \in Loop
  BY DEF Right
<1>3. CASE ~\E p \in punches : p.emp = e /\ p.at = t
  <2>1. b = a
    BY <1>3, UptoWithout DEF ReadUpto
  <2>2. On(e, t + 1) <=> On(e, t)
    BY <1>3, OnWithout
  <2>3. Right(a, e, d, from, t + 1)
    <3> HIDE DEF a
    <3> QED BY <1>1, <2>2, RightStays
  <2> QED BY <2>1, <2>3
<1>4. ASSUME NEW p \in punches, p.emp = e, p.at = t
      PROVE  Right(b, e, d, from, t + 1)
  <2> DEFINE S == Upto(e, from, to, t)
  <2>1. Upto(e, from, to, t + 1) = S \cup {p} /\ \A q \in S : q.at < p.at
    BY <1>4, UptoWith
  <2>2. IsFiniteSet(S) /\ Timed(S)
    BY UptoFinite
  <2>3. b = Read(a, p)
    <3>1. ReadAll(AtFirst(e, from), S \cup {p}) = Read(ReadAll(AtFirst(e, from), S), p)
      <4> HIDE DEF S
      <4> QED BY <1>4, <2>1, <2>2, ReadNext
    <3> QED BY <2>1, <3>1 DEF ReadUpto
  <2>4. On(e, t + 1) <=> p.type = "IN"
    BY <1>4, OnWith
  <2>5. t # NoTime
    BY <1>4, PunchTyped DEF NoTime
  <2> HIDE DEF a, S
  <2>6. CASE p.type = "IN" /\ a.start = NoTime
    <3>1. Read(a, p) = [start |-> t, done |-> a.done]
      BY <1>2, <1>4, <2>6 DEF Read, Loop
    <3> QED BY <1>1, <2>3, <2>4, <2>5, <2>6, <3>1, RightOpens
  <2>7. CASE p.type = "IN" /\ a.start # NoTime
    <3>1. Read(a, p) = a
      BY <1>2, <2>7 DEF Read, Loop
    <3>2. Right(a, e, d, from, t + 1)
      BY <1>1, <2>4, <2>7, RightStays
    <3> QED BY <2>3, <3>1, <3>2
  <2>8. CASE p.type # "IN" /\ a.start = NoTime
    <3>1. Read(a, p) = a
      BY <2>8 DEF Read
    <3>2. Right(a, e, d, from, t + 1)
      BY <1>1, <2>4, <2>8, RightStays
    <3> QED BY <2>3, <3>1, <3>2
  <2>9. CASE p.type # "IN" /\ a.start # NoTime
    <3>1. Read(a, p) = [start |-> NoTime, done |-> a.done \cup {<<a.start, t>>}]
      BY <1>4, <2>9 DEF Read
    <3> QED BY <1>1, <2>3, <2>4, <2>9, <3>1, RightCloses
  <2> QED BY <2>6, <2>7, <2>8, <2>9
<1> QED BY <1>3, <1>4

(* Of all instants of the range there is no first that goes wrong.          *)
LEMMA RightThroughout ==
  ASSUME TypeOK, IsFiniteSet(punches), NEW e, OneAtATime(e),
         NEW from \in Nat, NEW to \in Nat, from <= to, NEW d \in Int, from <= d
  PROVE  Right(ReadUpto(e, from, to, Midnight(to + 1)), e, d, from, Midnight(to + 1))
<1> DEFINE
     first == Midnight(from)
     end == Midnight(to + 1)
     Fine(t) == Right(ReadUpto(e, from, to, t), e, d, from, t)
     I == {n \in Nat : first + n <= end /\ ~Fine(first + n)}
<1>1. first \in Int /\ end \in Int /\ first <= end
  BY MidnightIs, MidnightsGrow
<1>2. Fine(first)
  BY RightAtFirst
<1>3. ASSUME NEW t \in Int, first <= t, t < end, Fine(t) PROVE Fine(t + 1)
  BY <1>3, RightNext
<1> HIDE DEF first, end, Fine
<1>4. I = {}
  <2> SUFFICES ASSUME I # {} PROVE FALSE
    OBVIOUS
  <2>1. PICK n \in I : \A m \in I : n <= m
    <3>1. I \subseteq Nat /\ I # {}
      OBVIOUS
    <3> HIDE DEF I
    <3> QED BY <3>1, LeastNumber
  <2>2. n \in Nat /\ first + n <= end /\ ~Fine(first + n)
    BY <2>1
  <2>3. n # 0
    <3> SUFFICES ASSUME n = 0 PROVE FALSE
      OBVIOUS
    <3>1. first + n = first
      BY <1>1
    <3> QED BY <1>2, <2>2, <3>1
  <2> DEFINE m == n - 1
  <2>4. m \in Nat /\ first + m <= end /\ ~(n <= m) /\ (first + m) + 1 = first + n
        /\ first + m \in Int /\ first <= first + m /\ first + m < end
    BY <1>1, <2>2, <2>3
  <2> HIDE DEF m
  <2>5. Fine(first + m)
    BY <2>1, <2>4
  <2>6. Fine((first + m) + 1)
    BY <1>3, <2>4, <2>5
  <2> QED BY <2>2, <2>4, <2>6
<1>5. Fine(end)
  <2> DEFINE n == end - first
  <2>1. n \in Nat /\ first + n = end /\ first + n <= end
    BY <1>1
  <2> HIDE DEF n
  <2> QED BY <1>4, <2>1
<1> QED BY <1>5 DEF Fine, end

(* The minutes of a day are the hours that were worked on it.               *)
LEMMA DayIsWorked ==
  ASSUME TypeOK, IsFiniteSet(punches), NEW e, OneAtATime(e),
         NEW from \in Nat, NEW to \in Nat, NEW d \in from .. to
  PROVE  MinutesOn(Intervals(e, from, to), d)
           = Cardinality({t \in Hours(d) : AtWork(e, t)})
<1> DEFINE
     end == Midnight(to + 1)
     a == ReadUpto(e, from, to, end)
     j == <<a.start, end>>
<1>1. d \in Int /\ from <= d /\ d <= to /\ from <= to
  OBVIOUS
<1>2. Right(a, e, d, from, end)
  BY <1>1, RightThroughout
<1>3. Upto(e, from, to, end) = PunchesOf(e, from, to)
  <2>1. \A p \in PunchesOf(e, from, to) : p.at < end
    BY RangeRows
  <2> QED BY <2>1 DEF Upto
<1>4. Intervals(e, from, to) = IF a.start = NoTime THEN a.done ELSE a.done \cup {j}
  BY <1>3 DEF Intervals, ReadUpto
<1>5. a \in Loop /\ IsFiniteSet(a.done) /\ (\A i \in a.done : i[2] < end)
      /\ MinutesOn(a.done, d) + Open(a, end, d) = Cardinality(Worked(e, d, end))
  BY <1>2 DEF Right
<1>6. end \in Int
  BY MidnightIs
<1>7. Worked(e, d, end) = {t \in Hours(d) : AtWork(e, t)}
  <2>1. \A t \in Hours(d) : t < end
    <3> DEFINE m == Midnight(d)
               n == Midnight(d + 1)
    <3>1. m \in Int /\ n \in Int /\ n <= end
      BY <1>1, MidnightIs, MidnightsGrow
    <3>2. Hours(d) = m .. n - 1
      BY DEF Hours
    <3> HIDE DEF m, n, end
    <3> QED BY <1>6, <3>1, <3>2
  <2> QED BY <2>1 DEF Worked
<1> HIDE DEF a, end
<1>8. MinutesOn(a.done, d) \in Int
  BY <1>1, <1>5, MinutesTyped
<1>9. CASE a.start = NoTime
  <2>1. Open(a, end, d) = 0
    BY <1>9 DEF Open
  <2> QED BY <1>4, <1>5, <1>7, <1>8, <1>9, <2>1
<1>10. CASE a.start # NoTime
  <2>1. a.start \in Int /\ a.done \subseteq Int \X Int
    BY <1>5 DEF Loop
  <2>2. j[1] \in Int /\ j[2] = end
    BY <2>1
  <2>3. Open(a, end, d) = Segment(j, d)
    BY <1>10 DEF Open
  <2> HIDE DEF j
  <2>4. j \notin a.done
    <3>1. ~(end < end)
      BY <1>6
    <3> QED BY <1>5, <2>2, <3>1
  <2>5. \A i \in a.done \cup {j} : i[1] \in Int /\ i[2] \in Int
    BY <1>6, <2>1, <2>2
  <2>6. MinutesOn(a.done \cup {j}, d) = Segment(j, d) + MinutesOn(a.done, d)
    <3> DEFINE S == a.done
    <3>1. IsFiniteSet(S) /\ j \notin S /\ \A i \in S \cup {j} : i[1] \in Int /\ i[2] \in Int
      BY <1>5, <2>4, <2>5
    <3> HIDE DEF S
    <3>2. MinutesOn(S \cup {j}, d) = Segment(j, d) + MinutesOn(S, d)
      BY <1>1, <3>1, MinutesWith
    <3> QED BY <3>2 DEF S
  <2>7. Segment(j, d) \in Int
    BY <1>1, <1>6, <2>2, SegmentTyped
  <2> QED BY <1>4, <1>5, <1>7, <1>8, <1>10, <2>3, <2>6, <2>7
<1> QED BY <1>9, <1>10

(* Whatever was punched, corrected, deleted or entered late, and whichever  *)
(* range is asked for, getPunchContext and buildDailySummary find the hours *)
(* at which the employee was at work; at any moment, with requests in       *)
(* flight as well.                                                          *)
THEOREM HoursTheorem == AttendanceSpec => []HoursAreWorked
<1>1. IInv => HoursAreWorked
  <2> SUFFICES ASSUME IInv,
                      NEW e \in Employees, NEW from \in ReportDays, NEW to \in ReportDays,
                      NEW d \in from .. to, OneAtATime(e)
               PROVE  MinutesOn(Intervals(e, from, to), d)
                        = Cardinality({t \in Midnight(d) .. Midnight(d + 1) - 1 : AtWork(e, t)})
    BY DEF HoursAreWorked
  <2>1. from \in Nat /\ to \in Nat
    <3> DEFINE n == Day(MaxNow)
    <3>1. n \in Int
      BY CalendarAssumption, DayIs
    <3>2. ReportDays = 0 .. n
      BY DEF ReportDays
    <3> HIDE DEF n
    <3> QED BY <3>1, <3>2
  <2>2. TypeOK /\ IsFiniteSet(punches)
    BY DEF IInv
  <2> QED BY <2>1, <2>2, DayIsWorked DEF Hours
<1> QED BY <1>1, ChecksHold, PTL

-----------------------------------------------------------------------------
(* Weeks.                                                                   *)

(* weekStartsOn is a weekday.                                               *)
LEMMA WeekFacts == WeekLength \in Nat \ {0} /\ WeekStartsOn \in Int /\ RoundTo \in Nat \ {0}
                   /\ Penalty \in Nat /\ Threshold \in Nat /\ Rate \in Nat
BY CalendarAssumption, ReportAssumption DEF Weekdays

LEMMA WeekStartBefore ==
  ASSUME NEW d \in Int
  PROVE  WeekStart(d) \in Int /\ WeekStart(d) <= d
<1> DEFINE a == d - WeekStartsOn
           r == a % WeekLength
<1>1. WeekLength \in Nat \ {0} /\ a \in Int
  BY WeekFacts
<1> HIDE DEF a
<1>2. r \in Int /\ 0 <= r
  BY <1>1
<1> HIDE DEF r
<1>3. WeekStart(d) = d - r
  BY DEF WeekStart, r, a
<1> QED BY <1>2, <1>3

(* Days from the start of a week on are in that week or in a later one.     *)
LEMMA WeekStartAfter ==
  ASSUME NEW k \in Int, NEW d \in Int, k <= d, k % WeekLength = WeekStartsOn
  PROVE  k <= WeekStart(d)
<1> DEFINE a == d - WeekStartsOn
           r == a % WeekLength
           q == a \div WeekLength
           s == k % WeekLength
           p == k \div WeekLength
           n == WeekLength
           g == q - p
<1>1. n \in Nat \ {0} /\ a \in Int /\ WeekStartsOn \in Int
  BY WeekFacts
<1>2. r \in Int /\ 0 <= r /\ r <= n - 1 /\ q \in Int /\ a = n * q + r
  <2> HIDE DEF a
  <2> QED BY <1>1
<1>3. p \in Int /\ k = n * p + s /\ s \in Int
  BY <1>1
<1>4. s = WeekStartsOn /\ a = d - WeekStartsOn
  OBVIOUS
<1>5. WeekStart(d) = d - r
  BY DEF WeekStart
<1> HIDE DEF a, r, q, s, p, n
<1>6. n * q = n * p + n * g /\ n * p \in Int /\ n * q \in Int /\ n * g \in Int /\ g \in Int
  BY <1>1, <1>2, <1>3
<1> HIDE DEF g
<1>7. d - k = n * g + r
  BY <1>1, <1>2, <1>3, <1>4, <1>6
<1>8. g >= 0
  <2> SUFFICES ASSUME g <= -1 PROVE FALSE
    BY <1>6
  <2>1. n * g <= n * (-1) /\ n * (-1) = -n
    BY <1>1, <1>6
  <2> QED BY <1>1, <1>2, <1>6, <1>7, <2>1
<1>9. n * g >= 0
  BY <1>1, <1>6, <1>8
<1> QED BY <1>2, <1>5, <1>6, <1>7, <1>9

DaysOf(from, to, w) == {d \in from .. to : WeekStart(d) = w}

WeeksOf(from, to) == {WeekStart(d) : d \in from .. to}

LEMMA IntervalFinite == ASSUME NEW a \in Int, NEW b \in Int PROVE IsFiniteSet(a .. b)
BY FS_Interval, Zenon

LEMMA WeeksFinite ==
  ASSUME NEW a \in Int, NEW b \in Int
  PROVE  /\ IsFiniteSet(WeeksOf(a, b))
         /\ \A w : IsFiniteSet(DaysOf(a, b, w))
<1> DEFINE I == a .. b
<1>1. IsFiniteSet(I)
  BY IntervalFinite
<1>2. WeeksOf(a, b) = {WeekStart(d) : d \in I} /\ \A w : DaysOf(a, b, w) \subseteq I
  BY DEF WeeksOf, DaysOf
<1> HIDE DEF I
<1>3. IsFiniteSet({WeekStart(d) : d \in I})
  <2> DEFINE T == {WeekStart(d) : d \in I}
             f == [d \in I |-> WeekStart(d)]
  <2>1. f \in Surjection(I, T)
    BY DEF Surjection
  <2> QED BY <1>1, <2>1, FS_Surjection
<1>4. \A w : IsFiniteSet(DaysOf(a, b, w))
  BY <1>1, <1>2, FS_Subset
<1> QED BY <1>2, <1>3, <1>4

(* The minutes of a week are a sum over days, the pay one over weeks.       *)
LEMMA WeekIsSum ==
  ASSUME NEW e, NEW from \in Int, NEW to \in Int, NEW k, NEW w,
         \A d \in DaysOf(from, to, k) : w[d] = DayMinutes(e, from, to, d)
  PROVE  WeekMinutes(e, from, to, k) = SumOf(w, DaysOf(from, to, k))
<1> DEFINE S == DaysOf(from, to, k)
           Term(f, s) == IF s = {} THEN 0
                         ELSE DayMinutes(e, from, to, OneOf(s)) + f[s \ {OneOf(s)}]
           Gives(f) == f = [s \in SUBSET S |-> Term(f, s)]
           M == CHOOSE f : Gives(f)
<1>1. WeekMinutes(e, from, to, k) = M[S]
  BY DEF WeekMinutes, MapThenSumSet, MapThenFoldSet, OneOf, DaysOf
<1>2. ASSUME NEW f PROVE Gives(f) <=> Adds(f, w, S)
  <2> DEFINE Plus(s) == IF s = {} THEN 0 ELSE w[OneOf(s)] + f[s \ {OneOf(s)}]
  <2>1. \A s \in SUBSET S : Plus(s) = Term(f, s)
    <3> SUFFICES ASSUME NEW s \in SUBSET S PROVE Plus(s) = Term(f, s)
      OBVIOUS
    <3>1. CASE s = {}
      BY <3>1
    <3>2. CASE s # {}
      <4>1. OneOf(s) \in S
        BY <3>2, OneOfIn
      <4> QED BY <4>1
    <3> QED BY <3>1, <3>2
  <2>2. Adds(f, w, S) <=> f = [s \in SUBSET S |-> Plus(s)]
    BY DEF Adds
  <2> HIDE DEF Plus, Term
  <2>3. [s \in SUBSET S |-> Plus(s)] = [s \in SUBSET S |-> Term(f, s)]
    BY <2>1
  <2> QED BY <2>2, <2>3
<1>3. IsFiniteSet(S)
  BY WeeksFinite
<1>4. Adds(Adder(w, S), w, S)
  BY <1>3, AdderAdds
<1> HIDE DEF Gives
<1>5. Gives(M)
  BY <1>2, <1>4
<1>6. Adds(M, w, S)
  BY <1>2, <1>5
<1>7. M[S] = Adder(w, S)[S]
  <2> HIDE DEF M, S
  <2>1. S \subseteq S
    OBVIOUS
  <2> QED BY <1>3, <1>4, <1>6, <2>1, AddsOnce
<1> QED BY <1>1, <1>7, SumIsFold

LEMMA PayIsSum ==
  ASSUME NEW e, NEW from \in Int, NEW to \in Int, NEW w,
         \A k \in WeeksOf(from, to) : w[k] = WeekPay(WeekMinutes(e, from, to, k))
  PROVE  TotalPay(e, from, to) = SumOf(w, WeeksOf(from, to))
<1> DEFINE S == WeeksOf(from, to)
           Term(f, s) == IF s = {} THEN 0
                         ELSE WeekPay(WeekMinutes(e, from, to, OneOf(s))) + f[s \ {OneOf(s)}]
           Gives(f) == f = [s \in SUBSET S |-> Term(f, s)]
           M == CHOOSE f : Gives(f)
<1>1. TotalPay(e, from, to) = M[S]
  BY DEF TotalPay, MapThenSumSet, MapThenFoldSet, OneOf, WeeksOf
<1>2. ASSUME NEW f PROVE Gives(f) <=> Adds(f, w, S)
  <2> DEFINE Plus(s) == IF s = {} THEN 0 ELSE w[OneOf(s)] + f[s \ {OneOf(s)}]
  <2>1. \A s \in SUBSET S : Plus(s) = Term(f, s)
    <3> SUFFICES ASSUME NEW s \in SUBSET S PROVE Plus(s) = Term(f, s)
      OBVIOUS
    <3>1. CASE s = {}
      BY <3>1
    <3>2. CASE s # {}
      <4>1. OneOf(s) \in S
        BY <3>2, OneOfIn
      <4> QED BY <4>1
    <3> QED BY <3>1, <3>2
  <2>2. Adds(f, w, S) <=> f = [s \in SUBSET S |-> Plus(s)]
    BY DEF Adds
  <2> HIDE DEF Plus, Term
  <2>3. [s \in SUBSET S |-> Plus(s)] = [s \in SUBSET S |-> Term(f, s)]
    BY <2>1
  <2> QED BY <2>2, <2>3
<1>3. IsFiniteSet(S)
  BY WeeksFinite
<1>4. Adds(Adder(w, S), w, S)
  BY <1>3, AdderAdds
<1> HIDE DEF Gives
<1>5. Gives(M)
  BY <1>2, <1>4
<1>6. Adds(M, w, S)
  BY <1>2, <1>5
<1>7. M[S] = Adder(w, S)[S]
  <2> HIDE DEF M, S
  <2>1. S \subseteq S
    OBVIOUS
  <2> QED BY <1>3, <1>4, <1>6, <2>1, AddsOnce
<1> QED BY <1>1, <1>7, SumIsFold

-----------------------------------------------------------------------------
(* Days and weeks do not depend on the range.                               *)

LEMMA RoundedTyped == ASSUME NEW m \in Int PROVE Rounded(m) \in Int
<1> DEFINE a == 2 * m + RoundTo
           b == 2 * RoundTo
           q == a \div b
<1>1. RoundTo \in Nat \ {0} /\ a \in Int /\ b \in Nat \ {0}
  BY WeekFacts
<1> HIDE DEF a, b
<1>2. q \in Int
  BY <1>1
<1> HIDE DEF q
<1>3. q * RoundTo \in Int
  BY <1>1, <1>2
<1> QED BY <1>3 DEF Rounded, q, a, b

LEMMA PayTyped == ASSUME NEW m \in Int PROVE WeekPay(m) \in Int
<1> DEFINE a == Min({m, Threshold})
           b == Max({0, m - Threshold})
           c == 2 * a + 3 * b
<1>1. Threshold \in Int /\ Rate \in Int /\ 0 \in Int /\ m - Threshold \in Int
  BY WeekFacts
<1>2. a \in Int /\ b \in Int
  BY <1>1, MinOfTwo, MaxOfTwo
<1> HIDE DEF a, b
<1>3. c \in Int
  BY <1>2
<1> HIDE DEF c
<1>4. Rate * c \in Int
  BY <1>1, <1>3
<1> QED BY <1>4 DEF WeekPay, a, b, c

Charged(e, d) ==
    Penalty * Cardinality({p \in punches : p.emp = e /\ Day(p.at) = d /\ p.type = "OUT"
                                           /\ p.note.auto /\ p.note.penalty})

LEMMA DayIsSame ==
  ASSUME TypeOK, IsFiniteSet(punches), NEW e, OneAtATime(e),
         NEW from \in Nat, NEW to \in Nat, NEW d \in from .. to
  PROVE  /\ DayMinutes(e, from, to, d)
              = Rounded(Max({0, Cardinality({t \in Hours(d) : AtWork(e, t)}) - Charged(e, d)}))
         /\ DayMinutes(e, from, to, d) \in Int
<1> DEFINE
     P == {p \in PunchesOf(e, from, to) :
             Day(p.at) = d /\ p.type = "OUT" /\ p.note.auto /\ p.note.penalty}
     Q == {p \in punches : p.emp = e /\ Day(p.at) = d /\ p.type = "OUT"
                           /\ p.note.auto /\ p.note.penalty}
     W == {t \in Hours(d) : AtWork(e, t)}
<1>1. d \in Int /\ from \in Int /\ to \in Int
  OBVIOUS
<1>2. P = Q
  BY DEF PunchesOf
<1>3. PenaltyOn(e, from, to, d) = Charged(e, d)
  BY <1>2 DEF PenaltyOn, Charged
<1>4. MinutesOn(Intervals(e, from, to), d) = Cardinality(W)
  BY DayIsWorked
<1>5. DayMinutes(e, from, to, d) = Rounded(Max({0, Cardinality(W) - Charged(e, d)}))
  BY <1>3, <1>4 DEF DayMinutes
<1>6. Cardinality(W) \in Int
  <2>1. W \subseteq Hours(d) /\ IsFiniteSet(Hours(d))
    BY <1>1, HoursFinite
  <2> HIDE DEF W
  <2>2. IsFiniteSet(W)
    BY <2>1, FS_Subset
  <2>3. Cardinality(W) \in Nat
    BY <2>2, FS_CardinalityType
  <2> QED BY <2>3
<1>7. Charged(e, d) \in Int
  <2>1. Q \subseteq punches
    OBVIOUS
  <2>2. Charged(e, d) = Penalty * Cardinality(Q)
    BY DEF Charged
  <2> HIDE DEF Q
  <2>3. IsFiniteSet(Q)
    BY <2>1, FS_Subset
  <2>4. Cardinality(Q) \in Nat
    BY <2>3, FS_CardinalityType
  <2> DEFINE c == Cardinality(Q)
  <2> HIDE DEF c
  <2>5. c \in Int /\ Penalty \in Int
    BY <2>4, WeekFacts DEF c
  <2>6. Penalty * c \in Int
    BY <2>5
  <2> QED BY <2>2, <2>6 DEF c
<1> DEFINE m == Cardinality(W) - Charged(e, d)
<1>8. m \in Int /\ 0 \in Int
  BY <1>6, <1>7
<1> HIDE DEF m
<1>9. Max({0, m}) \in Int
  BY <1>8, MaxOfTwo
<1>10. Rounded(Max({0, m})) \in Int
  BY <1>9, RoundedTyped
<1> QED BY <1>5, <1>10 DEF m

LEMMA WeekIsSame ==
  ASSUME TypeOK, IsFiniteSet(punches), NEW e, OneAtATime(e),
         NEW from \in Nat, NEW to \in Nat, NEW a \in Nat, NEW b \in Nat,
         from <= a, b <= to, NEW k, DaysOf(from, to, k) = DaysOf(a, b, k)
  PROVE  /\ WeekMinutes(e, from, to, k) = WeekMinutes(e, a, b, k)
         /\ WeekMinutes(e, from, to, k) \in Int
<1> DEFINE S == DaysOf(from, to, k)
           w == [d \in S |-> DayMinutes(e, from, to, d)]
<1>1. \A d \in S : d \in from .. to
  BY DEF DaysOf
<1>2. \A d \in S : d \in a .. b
  BY DEF DaysOf
<1>3. \A d \in S : w[d] = DayMinutes(e, from, to, d) /\ w[d] \in Int
  BY <1>1, DayIsSame
<1>4. \A d \in S : w[d] = DayMinutes(e, a, b, d)
  <2> SUFFICES ASSUME NEW d \in S PROVE w[d] = DayMinutes(e, a, b, d)
    OBVIOUS
  <2> DEFINE x == Rounded(Max({0, Cardinality({t \in Hours(d) : AtWork(e, t)}) - Charged(e, d)}))
  <2>1. d \in from .. to /\ d \in a .. b
    BY <1>1, <1>2
  <2>2. w[d] = DayMinutes(e, from, to, d)
    BY <1>3
  <2> HIDE DEF S, w
  <2>3. DayMinutes(e, from, to, d) = x
    BY <2>1, DayIsSame
  <2>4. DayMinutes(e, a, b, d) = x
    BY <2>1, DayIsSame
  <2> QED BY <2>2, <2>3, <2>4
<1>5. IsFiniteSet(S)
  BY WeeksFinite
<1> HIDE DEF w
<1>6. WeekMinutes(e, from, to, k) = SumOf(w, S)
  BY <1>3, WeekIsSum
<1>7. WeekMinutes(e, a, b, k) = SumOf(w, DaysOf(a, b, k))
  BY <1>4, WeekIsSum
<1> HIDE DEF S
<1>8. SumOf(w, S) \in Int
  BY <1>3, <1>5, SumIsInt
<1> QED BY <1>6, <1>7, <1>8 DEF S

LEMMA PaySplits ==
  ASSUME TypeOK, IsFiniteSet(punches), NEW e, OneAtATime(e),
         NEW from \in Nat, NEW to \in Nat, NEW k \in Nat, from <= k, k <= to - 1,
         (k + 1) % WeekLength = WeekStartsOn
  PROVE  TotalPay(e, from, to) = TotalPay(e, from, k) + TotalPay(e, k + 1, to)
<1> DEFINE
     l == k + 1
     S == WeeksOf(from, to)
     A == WeeksOf(from, k)
     B == WeeksOf(l, to)
     w == [x \in S |-> WeekPay(WeekMinutes(e, from, to, x))]
<1>1. l \in Nat /\ l <= to /\ from <= l /\ k <= to /\ from <= from /\ to <= to /\ k < l
      /\ l % WeekLength = WeekStartsOn
  OBVIOUS
<1>2. \A d \in from .. to : (d \in from .. k \/ d \in l .. to) /\ d \in Int
  OBVIOUS
<1>3. \A d \in from .. k : d \in from .. to /\ d \in Int
  BY <1>1
<1>4. \A d \in l .. to : d \in from .. to /\ d \in Int
  BY <1>1
<1>5. \A d \in from .. k : WeekStart(d) \in Int /\ WeekStart(d) < l
  <2> SUFFICES ASSUME NEW d \in from .. k PROVE WeekStart(d) \in Int /\ WeekStart(d) < l
    OBVIOUS
  <2>1. d \in Int /\ d <= k
    OBVIOUS
  <2>2. WeekStart(d) \in Int /\ WeekStart(d) <= d
    BY <2>1, WeekStartBefore
  <2> QED BY <1>1, <2>1, <2>2
<1>6. \A d \in l .. to : WeekStart(d) \in Int /\ l <= WeekStart(d)
  <2> SUFFICES ASSUME NEW d \in l .. to PROVE WeekStart(d) \in Int /\ l <= WeekStart(d)
    OBVIOUS
  <2>1. d \in Int /\ l <= d /\ l \in Int
    BY <1>1
  <2> HIDE DEF l
  <2>2. WeekStart(d) \in Int
    BY <2>1, WeekStartBefore
  <2>3. l <= WeekStart(d)
    BY <1>1, <2>1, WeekStartAfter
  <2> QED BY <2>2, <2>3
<1> HIDE DEF l
<1>7. \A x \in A : x \in Int /\ x < l
  BY <1>5 DEF WeeksOf
<1>8. \A x \in B : x \in Int /\ l <= x
  BY <1>6 DEF WeeksOf
<1>9. S = A \cup B
  BY <1>2, <1>3, <1>4, Zenon DEF WeeksOf
<1>10. A \cap B = {}
  <2> SUFFICES ASSUME NEW x \in A, x \in B PROVE FALSE
    OBVIOUS
  <2>1. x \in Int /\ x < l /\ l <= x
    BY <1>7, <1>8
  <2> QED BY <1>1, <2>1
<1>11. \A x \in A : DaysOf(from, to, x) = DaysOf(from, k, x)
  <2> SUFFICES ASSUME NEW x \in A, NEW d \in from .. to, WeekStart(d) = x
               PROVE  d \in from .. k
    BY <1>3, Zenon DEF DaysOf
  <2>1. d \notin l .. to
    <3> SUFFICES ASSUME d \in l .. to PROVE FALSE
      OBVIOUS
    <3>1. x \in Int /\ x < l /\ l <= x
      BY <1>6, <1>7
    <3> QED BY <1>1, <3>1
  <2> QED BY <1>2, <2>1
<1>12. \A x \in B : DaysOf(from, to, x) = DaysOf(l, to, x)
  <2> SUFFICES ASSUME NEW x \in B, NEW d \in from .. to, WeekStart(d) = x
               PROVE  d \in l .. to
    BY <1>4, Zenon DEF DaysOf
  <2>1. d \notin from .. k
    <3> SUFFICES ASSUME d \in from .. k PROVE FALSE
      OBVIOUS
    <3>1. x \in Int /\ x < l /\ l <= x
      BY <1>5, <1>8
    <3> QED BY <1>1, <3>1
  <2> QED BY <1>2, <2>1
<1>13. ASSUME NEW x \in A
       PROVE  /\ WeekMinutes(e, from, to, x) = WeekMinutes(e, from, k, x)
              /\ WeekMinutes(e, from, to, x) \in Int
  BY <1>1, <1>11, WeekIsSame
<1>14. ASSUME NEW x \in B
       PROVE  /\ WeekMinutes(e, from, to, x) = WeekMinutes(e, l, to, x)
              /\ WeekMinutes(e, from, to, x) \in Int
  BY <1>1, <1>12, WeekIsSame
<1>15. \A x \in S : w[x] = WeekPay(WeekMinutes(e, from, to, x)) /\ w[x] \in Int
  BY <1>9, <1>13, <1>14, PayTyped
<1>16. \A x \in A : w[x] = WeekPay(WeekMinutes(e, from, k, x))
  BY <1>9, <1>13, <1>15
<1>17. \A x \in B : w[x] = WeekPay(WeekMinutes(e, l, to, x))
  BY <1>9, <1>14, <1>15
<1> HIDE DEF w
<1>18. IsFiniteSet(A) /\ IsFiniteSet(B)
  BY <1>1, WeeksFinite
<1>19. TotalPay(e, from, to) = SumOf(w, S)
  BY <1>15, PayIsSum
<1>20. TotalPay(e, from, k) = SumOf(w, A)
  BY <1>16, PayIsSum
<1>21. TotalPay(e, l, to) = SumOf(w, B)
  BY <1>1, <1>17, PayIsSum
<1> HIDE DEF S, A, B
<1>22. SumOf(w, A \cup B) = SumOf(w, A) + SumOf(w, B)
  BY <1>9, <1>10, <1>15, <1>18, SumOfBoth
<1> QED BY <1>9, <1>19, <1>20, <1>21, <1>22 DEF l

(* A payroll of several weeks pays what the payrolls of its parts pay, for  *)
(* any first day of the week, rounding, threshold, penalty and rate, with   *)
(* shifts open at the turn of the week.                                     *)
THEOREM PayrollTheorem == AttendanceSpec => []PayrollSplits
<1>1. IInv => PayrollSplits
  <2> SUFFICES ASSUME IInv,
                      NEW e \in Employees, NEW from \in ReportDays, NEW to \in ReportDays,
                      NEW k \in from .. to - 1, OneAtATime(e),
                      (k + 1) % WeekLength = WeekStartsOn
               PROVE  TotalPay(e, from, to) = TotalPay(e, from, k) + TotalPay(e, k + 1, to)
    BY DEF PayrollSplits
  <2>1. from \in Nat /\ to \in Nat
    <3> DEFINE n == Day(MaxNow)
    <3>1. n \in Int
      BY CalendarAssumption, DayIs
    <3>2. ReportDays = 0 .. n
      BY DEF ReportDays
    <3> HIDE DEF n
    <3> QED BY <3>1, <3>2
  <2>2. k \in Nat /\ from <= k /\ k <= to - 1
    BY <2>1
  <2>3. TypeOK /\ IsFiniteSet(punches)
    BY DEF IInv
  <2> QED BY <2>1, <2>2, <2>3, PaySplits
<1> QED BY <1>1, ChecksHold, PTL
=============================================================================

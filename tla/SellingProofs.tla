---------------------------- MODULE SellingProofs ----------------------------
(***************************************************************************)
(* The hours staff save, the coupon's limit, and the sum on the card.      *)
(*                                                                         *)
(* For any clock, week and beginning of the business day, two windows      *)
(* clash exactly when an instant is in both; and for any number of         *)
(* customers the limit is exceeded by no more than the orders that had     *)
(* passed its check, and were not yet paid, when it was reached.           *)
(*                                                                         *)
(* A sum does not depend on the order in which a fold takes its elements   *)
(* (PartSumProperties), so the sum of discounted prices is that of the     *)
(* prices less that of the discounts (SumOfDifferences).  Every price on a *)
(* menu and in a cart, and every coupon, is what its own record of the     *)
(* configuration makes it (PricesInv), so the sheet and the server agree   *)
(* when those records do.                                                  *)
(***************************************************************************)
EXTENDS Selling, TLAPS, FiniteSetTheorems, WellFoundedInduction

-----------------------------------------------------------------------------
\* The clock

\* A remainder is taken of numbers below twice the divisor only.
LEMMA Clock ==
    ASSUME NEW a \in Slots, NEW b \in Slots
    PROVE  /\ b >= a => Since(a, b) = b - a
           /\ b < a => Since(a, b) = b - a + SlotsPerDay
           /\ Since(a, b) \in 0..(SlotsPerDay - 1)
<1>1. SlotsPerDay \in Nat \ {0}
  BY WeekIsAWeek
<1>2. a \in Int /\ b \in Int /\ 0 <= a /\ a < SlotsPerDay /\ 0 <= b /\ b < SlotsPerDay
  BY <1>1 DEF Slots
<1>3. ASSUME NEW x \in Int, NEW n \in Nat \ {0}, 0 <= x, x < n PROVE x % n = x
  BY <1>3
<1>4. ASSUME NEW x \in Int, NEW n \in Nat \ {0}, n <= x, x < n + n PROVE x % n = x - n
  BY <1>4
<1>5. CASE b >= a
  <2>1. PICK x \in Int : x = b - a + SlotsPerDay
    BY <1>1, <1>2
  <2>2. SlotsPerDay <= x /\ x < SlotsPerDay + SlotsPerDay
    BY <1>1, <1>2, <1>5, <2>1
  <2>3. x % SlotsPerDay = x - SlotsPerDay
    BY <1>1, <1>4, <2>2
  <2>4. Since(a, b) = x % SlotsPerDay
    BY <2>1 DEF Since
  <2> QED
    BY <1>1, <1>2, <1>5, <2>1, <2>3, <2>4
<1>6. CASE b < a
  <2>1. (b - a + SlotsPerDay) % SlotsPerDay = b - a + SlotsPerDay
    <3> DEFINE x == b - a + SlotsPerDay
    <3>1. x \in Int /\ 0 <= x /\ x < SlotsPerDay
      BY <1>1, <1>2, <1>6
    <3> QED
      BY <1>1, <1>3, <3>1
  <2>2. Since(a, b) = b - a + SlotsPerDay
    BY <2>1 DEF Since
  <2> QED
    BY <1>1, <1>2, <1>6, <2>2
<1> QED
  BY <1>2, <1>5, <1>6

\* The parts of a window.
LEMMA WindowParts ==
    ASSUME NEW w \in Windows
    PROVE  /\ w.start \in Slots /\ w.end \in Slots
           /\ w.day \in WeekDays \cup {EVERY_DAY}
           /\ Width(w) \in 0..(SlotsPerDay - 1)
  BY Clock DEF Windows, Width

\* dailyWindowsOverlap finds two windows to overlap exactly when some time of
\* day is in both, as isWithinDailyWindow reads them.
LEMMA OverlapIsACommonTime ==
    ASSUME NEW v \in Windows, NEW w \in Windows
    PROVE  DailyWindowsOverlap(v, w)
              <=> \E s \in Slots : IsWithinDailyWindow(s, v) /\ IsWithinDailyWindow(s, w)
<1> DEFINE a == v.start
           b == w.start
<1>1. SlotsPerDay \in Nat \ {0} /\ a \in Slots /\ b \in Slots
  BY WeekIsAWeek, WindowParts
<1>2. Width(v) \in Nat /\ Width(w) \in Nat
  BY <1>1, WindowParts
<1>3. Since(a, a) = 0 /\ Since(b, b) = 0
  <2>1. a \in Int /\ b \in Int
    BY <1>1 DEF Slots
  <2>2. Since(a, a) = a - a /\ Since(b, b) = b - b
    BY <1>1, <2>1, Clock
  <2> HIDE DEF a, b
  <2> QED
    BY <2>1, <2>2
<1>4. ASSUME DailyWindowsOverlap(v, w)
      PROVE  \E s \in Slots : IsWithinDailyWindow(s, v) /\ IsWithinDailyWindow(s, w)
  <2>1. Width(v) > 0 /\ Width(w) > 0
    BY <1>2, <1>4 DEF DailyWindowsOverlap
  <2>2. CASE Since(a, b) < Width(v)
    <3>1. IsWithinDailyWindow(b, v) /\ IsWithinDailyWindow(b, w)
      BY <1>3, <2>1, <2>2 DEF IsWithinDailyWindow
    <3> QED
      BY <1>1, <3>1
  <2>3. CASE Since(b, a) < Width(w)
    <3>1. IsWithinDailyWindow(a, v) /\ IsWithinDailyWindow(a, w)
      BY <1>3, <2>1, <2>3 DEF IsWithinDailyWindow
    <3> QED
      BY <1>1, <3>1
  <2> QED
    BY <1>4, <2>2, <2>3 DEF DailyWindowsOverlap
<1>5. ASSUME NEW s \in Slots, IsWithinDailyWindow(s, v), IsWithinDailyWindow(s, w)
      PROVE  DailyWindowsOverlap(v, w)
  <2>1. Since(a, s) < Width(v) /\ Since(b, s) < Width(w)
    BY <1>5 DEF IsWithinDailyWindow
  <2>2. Since(a, s) \in Nat /\ Since(b, s) \in Nat /\ Since(a, b) \in Nat /\ Since(b, a) \in Nat
    BY <1>1, Clock
  <2>3. Since(a, b) <= Since(a, s) \/ Since(b, a) <= Since(b, s)
    <3>1. /\ s >= a => Since(a, s) = s - a
          /\ s < a => Since(a, s) = s - a + SlotsPerDay
          /\ s >= b => Since(b, s) = s - b
          /\ s < b => Since(b, s) = s - b + SlotsPerDay
      BY <1>1, Clock
    <3>2. /\ b >= a => Since(a, b) = b - a
          /\ b < a => Since(a, b) = b - a + SlotsPerDay
          /\ a >= b => Since(b, a) = a - b
          /\ a < b => Since(b, a) = a - b + SlotsPerDay
      BY <1>1, Clock
    <3>3. /\ a \in Int /\ b \in Int /\ s \in Int /\ SlotsPerDay \in Int
          /\ 0 <= a /\ a < SlotsPerDay /\ 0 <= b /\ b < SlotsPerDay
          /\ 0 <= s /\ s < SlotsPerDay
      BY <1>1 DEF Slots
    <3> HIDE DEF a, b
    <3> QED
      BY <3>1, <3>2, <3>3
  <2>4. Width(v) # 0 /\ Width(w) # 0
    BY <1>2, <2>1, <2>2
  <2>5. Since(a, b) < Width(v) \/ Since(b, a) < Width(w)
    <3> HIDE DEF a, b
    <3> QED
      BY <1>2, <2>1, <2>2, <2>3
  <2> QED
    BY <2>4, <2>5 DEF DailyWindowsOverlap
<1> QED
  BY <1>4, <1>5

-----------------------------------------------------------------------------
\* The business day

\* Each business day has each time of day once, after midnight included.
LEMMA DayHasEveryTime ==
    ASSUME NEW d \in WeekDays, NEW s \in Slots
    PROVE  \E t \in Instants : t.slot = s /\ BusinessDayOfWeek(t) = d
<1>1. DaysInWeek \in Nat \ {0} /\ SlotsPerDay \in Nat \ {0} /\ BUSINESS_DAY_START \in Nat
  BY WeekIsAWeek, DayStartsInTheDay DEF Slots
<1>2. d \in Nat /\ 1 <= d /\ d <= DaysInWeek /\ s \in Nat
  BY <1>1 DEF WeekDays, Slots
<1>3. CASE s >= BUSINESS_DAY_START
  <2> DEFINE t == [date |-> d, slot |-> s]
  <2>1. t \in Instants /\ t.slot = s /\ BusinessDayOfWeek(t) = d
    BY <1>1, <1>2, <1>3 DEF Instants, BusinessDayOfWeek
  <2> QED
    BY <2>1
<1>4. CASE s < BUSINESS_DAY_START /\ d = DaysInWeek
  <2> DEFINE t == [date |-> 1, slot |-> s]
  <2>1. t \in Instants /\ t.slot = s /\ BusinessDayOfWeek(t) = d
    BY <1>1, <1>2, <1>4 DEF Instants, BusinessDayOfWeek, WeekDays
  <2> QED
    BY <2>1
<1>5. CASE s < BUSINESS_DAY_START /\ d # DaysInWeek
  <2> DEFINE t == [date |-> d + 1, slot |-> s]
  <2>1. t \in Instants /\ t.slot = s /\ BusinessDayOfWeek(t) = d
    BY <1>1, <1>2, <1>5 DEF Instants, BusinessDayOfWeek, WeekDays
  <2> QED
    BY <2>1
<1> QED
  BY <1>1, <1>2, <1>3, <1>4, <1>5

LEMMA BusinessDaysAreDays ==
    ASSUME NEW t \in Instants
    PROVE  BusinessDayOfWeek(t) \in WeekDays /\ t.slot \in Slots
<1>1. DaysInWeek \in Nat \ {0}
  BY WeekIsAWeek
<1>2. t.date \in WeekDays /\ t.slot \in Slots
  BY DEF Instants
<1> QED
  BY <1>1, <1>2 DEF BusinessDayOfWeek, WeekDays

\* Every window is read as it is written.
LEMMA EveryWindowIsReadAsWritten == Windows \subseteq ReadAsWritten
<1> SUFFICES ASSUME NEW w \in Windows, NEW other \in Windows
             PROVE  Clashes(other, w) <=> \E t \in Instants : OpenAt(other, t) /\ OpenAt(w, t)
  BY DEF ReadAsWritten
<1>1. ASSUME Clashes(other, w)
      PROVE  \E t \in Instants : OpenAt(other, t) /\ OpenAt(w, t)
  <2>1. PICK s \in Slots : IsWithinDailyWindow(s, other) /\ IsWithinDailyWindow(s, w)
    BY <1>1, OverlapIsACommonTime DEF Clashes
  <2>2. PICK d \in WeekDays : other.day \in {EVERY_DAY, d} /\ w.day \in {EVERY_DAY, d}
    <3>1. other.day \in WeekDays \cup {EVERY_DAY} /\ w.day \in WeekDays \cup {EVERY_DAY}
      BY WindowParts
    <3>2. 1 \in WeekDays
      BY WeekIsAWeek DEF WeekDays
    <3> QED
      BY <1>1, <3>1, <3>2 DEF Clashes
  <2>3. PICK t \in Instants : t.slot = s /\ BusinessDayOfWeek(t) = d
    BY DayHasEveryTime
  <2> QED
    BY <2>1, <2>2, <2>3 DEF OpenAt
<1>2. ASSUME NEW t \in Instants, OpenAt(other, t), OpenAt(w, t)
      PROVE  Clashes(other, w)
  <2>1. t.slot \in Slots /\ BusinessDayOfWeek(t) \in WeekDays
    BY BusinessDaysAreDays
  <2>2. DailyWindowsOverlap(other, w)
    BY <1>2, <2>1, OverlapIsACommonTime DEF OpenAt
  <2> QED
    BY <1>2, <2>2 DEF OpenAt, Clashes
<1> QED
  BY <1>1, <1>2

-----------------------------------------------------------------------------
\* Sums

LEMMA NatOrder == \A m, n \in Nat : <<m, n>> \in OpToRel(<, Nat) <=> m < n
  BY DEF OpToRel

LEMMA LeastNat ==
    ASSUME NEW T, T \subseteq Nat, T # {}
    PROVE  \E x \in T : \A y \in T : x <= y
<1> DEFINE R == OpToRel(<, Nat)
<1>1. IsWellFoundedOn(R, Nat)
  BY NatLessThanWellFounded
<1> HIDE DEF R
<1>2. \E x \in T : \A y \in T : ~ (<<y, x>> \in R)
  BY <1>1, WFMin
<1>3. \A m, n \in Nat : <<m, n>> \in R <=> m < n
  BY NatOrder DEF R
<1>4. PICK x \in T : \A y \in T : ~ (<<y, x>> \in R)
  BY <1>2
<1>5. ASSUME NEW y \in T PROVE x <= y
  <2>1. x \in Nat /\ y \in Nat
    OBVIOUS
  <2>2. ~ (y < x)
    BY <1>3, <1>4, <2>1
  <2> QED
    BY <2>1, <2>2
<1> QED
  BY <1>5

\* A part that is not empty is one element larger than its rest.
LEMMA RestIsSmaller ==
    ASSUME NEW D, IsFiniteSet(D), NEW s \in SUBSET D, NEW x \in s
    PROVE  /\ IsFiniteSet(s) /\ s \ {x} \in SUBSET D
           /\ Cardinality(s) \in Nat /\ Cardinality(s \ {x}) \in Nat
           /\ Cardinality(s \ {x}) = Cardinality(s) - 1
<1>1. IsFiniteSet(s)
  BY FS_Subset
<1>2. Cardinality(s) \in Nat
  BY <1>1, FS_CardinalityType
<1>3. IsFiniteSet(s \ {x}) /\ Cardinality(s \ {x}) = Cardinality(s) - 1
  BY <1>1, FS_RemoveElement
<1>4. Cardinality(s \ {x}) \in Nat
  BY <1>3, FS_CardinalityType
<1> QED
  BY <1>1, <1>2, <1>3, <1>4

\* Induction over the parts of a finite set: what is true of no part is false
\* of one that has no element without which it is false as well.
LEMMA SmallestPart ==
    ASSUME NEW D, IsFiniteSet(D), NEW Bad, Bad \subseteq SUBSET D, Bad # {}
    PROVE  \E s \in Bad : \A x \in s : s \ {x} \notin Bad
<1> DEFINE Sizes == {Cardinality(s) : s \in Bad}
<1>1. \A s \in Bad : IsFiniteSet(s)
  BY FS_Subset
<1>2. \A s \in Bad : Cardinality(s) \in Nat
  BY <1>1, FS_CardinalityType
<1>3. Sizes \subseteq Nat /\ Sizes # {}
  BY <1>2
<1>4. PICK n \in Sizes : \A m \in Sizes : n <= m
  BY <1>3, LeastNat
<1>5. PICK s \in Bad : Cardinality(s) = n
  BY <1>4
<1>6. ASSUME NEW x \in s, s \ {x} \in Bad PROVE FALSE
  <2>1. Cardinality(s \ {x}) = Cardinality(s) - 1 /\ Cardinality(s) \in Nat
    BY RestIsSmaller
  <2>2. n <= Cardinality(s \ {x})
    BY <1>4, <1>6
  <2> QED
    BY <1>5, <2>1, <2>2
<1> QED
  BY <1>6

\* A fold takes its elements one by one, each the CHOSEN one of what is left.
Chosen(s) == CHOOSE x \in s : TRUE

StepOf(f, g, s) == IF s = {} THEN 0 ELSE f[Chosen(s)] + g[s \ {Chosen(s)}]

IsPartSum(f, g) == g = [s \in SUBSET DOMAIN f |-> StepOf(f, g, s)]

PartSum(f) == CHOOSE g : IsPartSum(f, g)

LEMMA SumIsPartSum == \A f : Sum(f) = PartSum(f)[DOMAIN f]
<1> SUFFICES ASSUME NEW f PROVE Sum(f) = PartSum(f)[DOMAIN f]
  OBVIOUS
<1> DEFINE g == CHOOSE g : g = [s \in SUBSET (DOMAIN f) |->
                   IF s = {} THEN 0
                   ELSE f[CHOOSE x \in s : TRUE] + g[s \ {CHOOSE x \in s : TRUE}]]
<1>1. Sum(f) = g[DOMAIN f]
  BY Zenon DEF Sum, FoldFunction, FoldFunctionOnSet, MapThenFoldSet
<1>2. g = PartSum(f)
  BY Zenon DEF PartSum, IsPartSum, StepOf, Chosen
<1> QED
  BY <1>1, <1>2

\* A fold of the parts of at most n elements.
FoldsUpTo(f, n) ==
    \E g : \A s \in SUBSET DOMAIN f : Cardinality(s) <= n => g[s] = StepOf(f, g, s)

LEMMA FoldsOneFurther ==
    ASSUME NEW f, IsFiniteSet(DOMAIN f), NEW n \in Nat, FoldsUpTo(f, n)
    PROVE  FoldsUpTo(f, n + 1)
<1>1. PICK g : \A s \in SUBSET DOMAIN f : Cardinality(s) <= n => g[s] = StepOf(f, g, s)
  BY DEF FoldsUpTo
<1> DEFINE h == [s \in SUBSET DOMAIN f |->
                     IF Cardinality(s) <= n THEN g[s] ELSE StepOf(f, g, s)]
<1>2. ASSUME NEW s \in SUBSET DOMAIN f, Cardinality(s) <= n + 1
      PROVE  h[s] = StepOf(f, h, s)
  <2>1. h[s] = StepOf(f, g, s)
    BY <1>1
  <2>2. CASE s = {}
    BY <2>1, <2>2 DEF StepOf
  <2>3. CASE s # {}
    <3> DEFINE x == Chosen(s)
               r == s \ {x}
    <3>1. x \in s
      BY <2>3 DEF Chosen
    <3> HIDE DEF x
    <3>2. /\ r \in SUBSET DOMAIN f /\ Cardinality(r) = Cardinality(s) - 1
          /\ Cardinality(s) \in Nat /\ Cardinality(r) \in Nat
      BY <3>1, RestIsSmaller
    <3>3. Cardinality(r) <= n
      BY <1>2, <3>2
    <3>4. h[r] = g[r]
      BY <3>2, <3>3
    <3> QED
      BY <2>1, <2>3, <3>4 DEF StepOf, x
  <2> QED
    BY <2>2, <2>3
<1> QED
  BY <1>2 DEF FoldsUpTo

LEMMA FoldsToTheEnd ==
    ASSUME NEW f, IsFiniteSet(DOMAIN f)
    PROVE  \A n \in Nat : FoldsUpTo(f, n)
<1> DEFINE Bad == {n \in Nat : ~ FoldsUpTo(f, n)}
<1>1. SUFFICES ASSUME Bad # {} PROVE FALSE
  OBVIOUS
<1>2. PICK n \in Bad : \A m \in Bad : n <= m
  BY <1>1, LeastNat
<1>3. n # 0
  <2> DEFINE g == [s \in SUBSET DOMAIN f |-> 0]
  <2>1. ASSUME NEW s \in SUBSET DOMAIN f, Cardinality(s) <= 0
        PROVE  g[s] = StepOf(f, g, s)
    <3>1. IsFiniteSet(s)
      BY FS_Subset
    <3>2. Cardinality(s) = 0
      BY <2>1, <3>1, FS_CardinalityType
    <3>3. s = {}
      BY <3>1, <3>2, FS_EmptySet
    <3> QED
      BY <3>3 DEF StepOf
  <2>2. FoldsUpTo(f, 0)
    BY <2>1 DEF FoldsUpTo
  <2> QED
    BY <1>2, <2>2
<1>4. n - 1 \in Nat /\ n - 1 \notin Bad /\ (n - 1) + 1 = n
  BY <1>2, <1>3
<1>5. FoldsUpTo(f, n - 1)
  BY <1>4
<1>6. FoldsUpTo(f, (n - 1) + 1)
  BY <1>4, <1>5, FoldsOneFurther
<1> QED
  BY <1>2, <1>4, <1>6

LEMMA PartSumIsOne ==
    ASSUME NEW f, IsFiniteSet(DOMAIN f)
    PROVE  \A s \in SUBSET DOMAIN f : PartSum(f)[s] = StepOf(f, PartSum(f), s)
<1> DEFINE n == Cardinality(DOMAIN f)
<1>1. n \in Nat
  BY FS_CardinalityType
<1>2. PICK g : \A s \in SUBSET DOMAIN f : Cardinality(s) <= n => g[s] = StepOf(f, g, s)
  BY <1>1, FoldsToTheEnd DEF FoldsUpTo
<1>3. \A s \in SUBSET DOMAIN f : g[s] = StepOf(f, g, s)
  <2>1. ASSUME NEW s \in SUBSET DOMAIN f PROVE Cardinality(s) <= n
    BY FS_Subset
  <2> QED
    BY <1>2, <2>1
<1> DEFINE h == [s \in SUBSET DOMAIN f |-> g[s]]
<1>4. ASSUME NEW s \in SUBSET DOMAIN f PROVE StepOf(f, h, s) = StepOf(f, g, s)
  <2>1. s \ {Chosen(s)} \in SUBSET DOMAIN f
    OBVIOUS
  <2> QED
    BY <2>1 DEF StepOf
<1>5. h = [s \in SUBSET DOMAIN f |-> StepOf(f, h, s)]
  BY <1>3, <1>4
<1> HIDE DEF h
<1>6. IsPartSum(f, h)
  BY <1>5 DEF IsPartSum
<1>7. IsPartSum(f, PartSum(f))
  BY <1>6 DEF PartSum
<1> QED
  BY <1>7 DEF IsPartSum

\* The sum of a part is that of its rest and any one element more.
LEMMA PartSumProperties ==
    ASSUME NEW D, IsFiniteSet(D)
    PROVE  \A f \in [D -> Int] :
             /\ PartSum(f)[{}] = 0
             /\ \A s \in SUBSET D : PartSum(f)[s] \in Int
             /\ \A s \in SUBSET D : \A y \in s :
                    PartSum(f)[s] = f[y] + PartSum(f)[s \ {y}]
             /\ Sum(f) = PartSum(f)[D]
<1> TAKE f \in [D -> Int]
<1> DEFINE g == PartSum(f)
<1>1. DOMAIN f = D
  OBVIOUS
<1>2. \A s \in SUBSET D : g[s] = StepOf(f, g, s)
  BY <1>1, PartSumIsOne
<1> HIDE DEF g
<1>3. g[{}] = 0
  BY <1>2 DEF StepOf
<1>4. \A s \in SUBSET D : s # {} =>
          Chosen(s) \in s /\ g[s] = f[Chosen(s)] + g[s \ {Chosen(s)}]
  BY <1>2 DEF StepOf, Chosen
<1>5. \A s \in SUBSET D : g[s] \in Int
  <2> DEFINE Bad == {s \in SUBSET D : g[s] \notin Int}
  <2>1. SUFFICES ASSUME Bad # {} PROVE FALSE
    OBVIOUS
  <2>2. PICK s \in Bad : \A x \in s : s \ {x} \notin Bad
    <3>1. Bad \subseteq SUBSET D
      OBVIOUS
    <3> HIDE DEF Bad
    <3> QED
      BY <2>1, <3>1, SmallestPart
  <2>3. s # {}
    BY <1>3
  <2>4. PICK x \in s : g[s] = f[x] + g[s \ {x}]
    BY <1>4, <2>3
  <2>5. s \ {x} \in SUBSET D /\ g[s \ {x}] \in Int /\ f[x] \in Int
    BY <2>2
  <2> QED
    BY <2>4, <2>5
<1>6. ASSUME NEW s \in SUBSET D, NEW y \in s
      PROVE  g[s] = f[y] + g[s \ {y}]
  <2> DEFINE Bad == {t \in SUBSET D : \E z \in t : g[t] # f[z] + g[t \ {z}]}
  <2>1. SUFFICES ASSUME Bad # {} PROVE FALSE
    OBVIOUS
  <2>2. PICK t \in Bad : \A x \in t : t \ {x} \notin Bad
    <3>1. Bad \subseteq SUBSET D
      OBVIOUS
    <3> HIDE DEF Bad
    <3> QED
      BY <2>1, <3>1, SmallestPart
  <2>3. PICK z \in t : g[t] # f[z] + g[t \ {z}]
    OBVIOUS
  <2>4. t # {} /\ t \in SUBSET D
    OBVIOUS
  <2>5. PICK x \in t : g[t] = f[x] + g[t \ {x}]
    BY <1>4, <2>4
  <2>6. x # z
    BY <2>3, <2>5
  <2> DEFINE r == t \ {x, z}
  <2>7. g[t \ {x}] = f[z] + g[r]
    <3>1. t \ {x} \in SUBSET D /\ z \in t \ {x} /\ t \ {x} \notin Bad
      BY <2>2, <2>6
    <3>2. g[t \ {x}] = f[z] + g[(t \ {x}) \ {z}]
      BY <3>1
    <3>3. (t \ {x}) \ {z} = r
      OBVIOUS
    <3> QED
      BY <3>2, <3>3
  <2>8. g[t \ {z}] = f[x] + g[r]
    <3>1. t \ {z} \in SUBSET D /\ x \in t \ {z} /\ t \ {z} \notin Bad
      BY <2>2, <2>6
    <3>2. g[t \ {z}] = f[x] + g[(t \ {z}) \ {x}]
      BY <3>1
    <3>3. (t \ {z}) \ {x} = r
      OBVIOUS
    <3> QED
      BY <3>2, <3>3
  <2>9. g[r] \in Int /\ f[x] \in Int /\ f[z] \in Int
    BY <1>5
  <2> QED
    BY <2>3, <2>5, <2>7, <2>8, <2>9
<1>7. Sum(f) = g[D]
  BY <1>1, SumIsPartSum DEF g
<1> QED
  BY <1>3, <1>5, <1>6, <1>7 DEF g

\* No summand is more than the sum of all, when none is negative.
LEMMA SumOfNaturals ==
    ASSUME NEW D, IsFiniteSet(D), NEW f \in [D -> Nat]
    PROVE  Sum(f) \in Nat /\ \A x \in D : f[x] <= Sum(f)
<1> DEFINE g == PartSum(f)
           Bad == {s \in SUBSET D : g[s] \notin Nat}
<1>1. f \in [D -> Int]
  OBVIOUS
<1>2. /\ g[{}] = 0
      /\ \A s \in SUBSET D : \A y \in s : g[s] = f[y] + g[s \ {y}]
      /\ Sum(f) = g[D]
  BY <1>1, PartSumProperties
<1>3. \A s \in SUBSET D : g[s] \in Nat
  <2>1. SUFFICES ASSUME Bad # {} PROVE FALSE
    OBVIOUS
  <2>2. PICK s \in Bad : \A x \in s : s \ {x} \notin Bad
    <3>1. Bad \subseteq SUBSET D
      OBVIOUS
    <3> HIDE DEF Bad
    <3> QED
      BY <2>1, <3>1, SmallestPart
  <2>3. s # {}
    <3>1. g[{}] = 0 /\ g[s] \notin Nat
      BY <1>2
    <3> QED
      BY <3>1
  <2>4. PICK x \in s : TRUE
    BY <2>3
  <2>5. s \ {x} \in SUBSET D /\ g[s \ {x}] \in Nat /\ f[x] \in Nat
    BY <2>2
  <2>6. g[s] = f[x] + g[s \ {x}] /\ g[s] \notin Nat
    BY <1>2
  <2> HIDE DEF Bad, g
  <2> QED
    BY <2>5, <2>6
<1>4. ASSUME NEW x \in D PROVE f[x] <= Sum(f)
  <2>1. D \ {x} \in SUBSET D /\ D \in SUBSET D
    OBVIOUS
  <2>2. g[D] = f[x] + g[D \ {x}] /\ g[D \ {x}] \in Nat /\ f[x] \in Nat
    BY <1>2, <1>3, <2>1
  <2> HIDE DEF g
  <2> QED
    BY <1>2, <2>2
<1> QED
  BY <1>2, <1>3, <1>4

\* The sum of differences is the difference of the sums.
LEMMA SumOfDifferences ==
    ASSUME NEW D, IsFiniteSet(D), NEW f \in [D -> Int], NEW g \in [D -> Int]
    PROVE  Sum([x \in D |-> f[x] - g[x]]) = Sum(f) - Sum(g)
<1> DEFINE h == [x \in D |-> f[x] - g[x]]
<1>1. h \in [D -> Int]
  OBVIOUS
<1>2. \A x \in D : h[x] = f[x] - g[x]
  OBVIOUS
<1> HIDE DEF h
<1> DEFINE F == PartSum(f)
           G == PartSum(g)
           H == PartSum(h)
           Bad == {s \in SUBSET D : H[s] # F[s] - G[s]}
<1>3. /\ F[{}] = 0 /\ Sum(f) = F[D]
      /\ \A s \in SUBSET D : F[s] \in Int
      /\ \A s \in SUBSET D : \A y \in s : F[s] = f[y] + F[s \ {y}]
  BY PartSumProperties
<1>4. /\ G[{}] = 0 /\ Sum(g) = G[D]
      /\ \A s \in SUBSET D : G[s] \in Int
      /\ \A s \in SUBSET D : \A y \in s : G[s] = g[y] + G[s \ {y}]
  BY PartSumProperties
<1>5. /\ H[{}] = 0 /\ Sum(h) = H[D]
      /\ \A s \in SUBSET D : H[s] \in Int
      /\ \A s \in SUBSET D : \A y \in s : H[s] = h[y] + H[s \ {y}]
  BY <1>1, PartSumProperties
<1> HIDE DEF F, G, H
<1>6. \A s \in SUBSET D : H[s] = F[s] - G[s]
  <2>1. SUFFICES ASSUME Bad # {} PROVE FALSE
    OBVIOUS
  <2>2. PICK s \in Bad : \A x \in s : s \ {x} \notin Bad
    <3>1. Bad \subseteq SUBSET D
      OBVIOUS
    <3> HIDE DEF Bad
    <3> QED
      BY <2>1, <3>1, SmallestPart
  <2>3. s \in SUBSET D /\ H[s] # F[s] - G[s]
    OBVIOUS
  <2>4. s # {}
    <3> HIDE DEF Bad
    <3>1. H[{}] = F[{}] - G[{}]
      BY <1>3, <1>4, <1>5
    <3> QED
      BY <2>3, <3>1
  <2>5. PICK x \in s : TRUE
    BY <2>4
  <2> DEFINE r == s \ {x}
  <2>6. r \in SUBSET D /\ H[r] = F[r] - G[r]
    BY <2>2
  <2> HIDE DEF Bad
  <2>7. F[s] = f[x] + F[r] /\ G[s] = g[x] + G[r] /\ H[s] = h[x] + H[r]
    BY <1>3, <1>4, <1>5, <2>3
  <2>8. F[r] \in Int /\ G[r] \in Int /\ H[r] \in Int
    BY <1>3, <1>4, <1>5, <2>6
  <2>9. f[x] \in Int /\ g[x] \in Int /\ h[x] = f[x] - g[x]
    BY <1>2, <2>3
  <2> HIDE DEF r
  <2> QED
    BY <2>3, <2>6, <2>7, <2>8, <2>9
<1> QED
  BY <1>3, <1>4, <1>5, <1>6 DEF h

-----------------------------------------------------------------------------
\* What prices are made of

\* The rate of a product as a configuration has it on a day.
RateOn(asOf, p) == asOf.shop.rates[p][asOf.day]

PriceOn(asOf, p, source) == RateOn(asOf, p).price - UnitDiscount(RateOn(asOf, p), source)

SubtotalOn(asOf, quantity) ==
    Sum([p \in Ordered(quantity) |-> quantity[p] * RateOn(asOf, p).price])

\* What a coupon is worth, if it is accepted.
WorthOf(o, subtotal) ==
    LET value == IF o.percentage THEN Percent(subtotal, o.amount) ELSE o.amount
    IN  Lesser(IF o.most # None THEN Lesser(value, o.most) ELSE value, subtotal)

\* The source the customer's menu is priced for.
Served == DeriveSource(visit.claim, visit.seat)

ListingIsHonest(l, source) ==
    /\ l.asOf \in Origins
    /\ DOMAIN l.prices \subseteq Products
    /\ l.prices \in [DOMAIN l.prices -> Nat]
    /\ \A p \in DOMAIN l.prices : /\ RateOn(l.asOf, p) \in Rates
                                  /\ l.prices[p] = PriceOn(l.asOf, p, source)

ListingsAreHonest ==
    /\ DOMAIN cache = Sources
    /\ \A s \in Sources : cache[s] # None => ListingIsHonest(cache[s], s)
    /\ page # None => ListingIsHonest(page, Served)

LineIsHonest(line, p, source) ==
    /\ RateOn(line.asOf, p) \in Rates
    /\ line.unitPrice = PriceOn(line.asOf, p, source)

CartIsHonest ==
    /\ cart \in [Products -> Lines \cup {None}]
    /\ \A p \in InCart : LineIsHonest(cart[p], p, Served)

Quantities == [Products -> 0..MaxPieces]

\* A coupon promises what it was worth for its cart when it was looked up.
PromiseIsHonest(c) ==
    /\ c.discount \in Nat \ {0}
    /\ c.discount = WorthOf(c.offer, SubtotalOn(c.asOf, c.cart))

CouponsAreHonest ==
    /\ preview # None =>
         /\ preview.cart \in Quantities
         /\ preview.answered /\ preview.discount # None => PromiseIsHonest(preview)
    /\ applied # None =>
         /\ applied.cart \in Quantities
         /\ applied.cart = ItemsFingerprint(cart)
         /\ PromiseIsHonest(applied)

WorldIsTyped ==
    /\ now \in Instants /\ shop \in Shops /\ offer \in Offers \cup {None}
    /\ visit \in Visits /\ changes \in 0..MaxChanges

PricesInv ==
    /\ WorldIsTyped
    /\ ListingsAreHonest
    /\ CartIsHonest
    /\ CouponsAreHonest
    /\ bill \in Bills \cup {None}

\* A discount is never more than the price.
LEMMA UnitDiscountIsWithinThePrice ==
    ASSUME NEW rate \in Rates, NEW source \in Sources
    PROVE  /\ rate.price \in Nat
           /\ UnitDiscount(rate, source) \in Nat
           /\ UnitDiscount(rate, source) <= rate.price
           /\ rate.price - UnitDiscount(rate, source) \in Nat
<1> DEFINE d == rate.discount
           raw == IF d.on[source] # None THEN d.on[source] ELSE d.value
           amount == IF d.type = "P" THEN Percent(rate.price, raw) ELSE raw
<1>1. rate.price \in Nat /\ d \in Discounts \cup {None}
  BY DEF Rates
<1>2. CASE d = None
  BY <1>1, <1>2 DEF UnitDiscount
<1>3. CASE d # None /\ raw = None
  BY <1>1, <1>3 DEF UnitDiscount
<1>4. CASE d # None /\ raw # None
  <2>1. d.on[source] \in Int \cup {None} /\ d.value \in Int \cup {None}
    BY <1>1, <1>4 DEF Discounts
  <2>2. raw \in Int
    BY <1>4, <2>1
  <2> HIDE DEF raw
  <2>3. amount \in Int
    BY <1>1, <2>2 DEF Percent
  <2>4. UnitDiscount(rate, source) = Lesser(Greater(amount, 0), rate.price)
    BY <1>4 DEF UnitDiscount, raw
  <2> HIDE DEF amount
  <2> QED
    BY <1>1, <2>3, <2>4 DEF Lesser, Greater
<1> QED
  BY <1>2, <1>3, <1>4

LEMMA ServedIsASource ==
    ASSUME NEW v \in Visits
    PROVE  DeriveSource(v.claim, v.seat) \in Sources
<1>1. v.claim \in Sources
  BY VisitsAreVisits
<1> QED
  BY <1>1 DEF DeriveSource, Sources

\* Today's configuration, and the rates it has.
LEMMA RatesOfToday ==
    ASSUME WorldIsTyped
    PROVE  /\ Today \in Origins
           /\ \A p : Rate(p) = RateOn(Today, p)
           /\ \A p \in Products : Rate(p) \in Rates \cup {None}
           /\ OnSale \subseteq Products
           /\ \A p \in OnSale : Rate(p) \in Rates
<1>1. BusinessDayOfWeek(now) \in WeekDays /\ shop \in Shops
  BY BusinessDaysAreDays DEF WorldIsTyped
<1>2. Today \in Origins
  BY <1>1 DEF Today, Origins
<1>3. Today.shop = shop /\ Today.day = BusinessDayOfWeek(now)
  BY DEF Today
<1>4. \A p : Rate(p) = RateOn(Today, p)
  BY <1>3 DEF Rate, RateOn
<1>5. shop.rates \in [Products -> [WeekDays -> Rates \cup {None}]]
  BY <1>1, ConfiguredSoundly DEF ShopRecords
<1>6. \A p \in Products : Rate(p) \in Rates \cup {None}
  BY <1>1, <1>3, <1>5 DEF Rate
<1>7. \A p \in OnSale : p \in Products /\ Rate(p) # None
  BY DEF OnSale, Rate
<1> QED
  BY <1>2, <1>4, <1>6, <1>7

\* The listing the server computes is priced as it says.
LEMMA FreshListingIsHonest ==
    ASSUME WorldIsTyped, NEW source \in Sources
    PROVE  ListingIsHonest(GetProducts(source), source)
<1> DEFINE l == GetProducts(source)
<1>1. /\ l.asOf = Today
      /\ l.prices = [p \in OnSale |-> Rate(p).price - UnitDiscount(Rate(p), source)]
  BY DEF GetProducts
<1> HIDE DEF l
<1>2. DOMAIN l.prices = OnSale
  BY <1>1
<1>3. ASSUME NEW p \in OnSale
      PROVE  /\ RateOn(Today, p) \in Rates
             /\ l.prices[p] = PriceOn(Today, p, source)
             /\ l.prices[p] \in Nat
  <2>1. Rate(p) = RateOn(Today, p) /\ Rate(p) \in Rates
    BY RatesOfToday
  <2>2. l.prices[p] = Rate(p).price - UnitDiscount(Rate(p), source)
    BY <1>1
  <2> QED
    BY <2>1, <2>2, UnitDiscountIsWithinThePrice DEF PriceOn
<1>4. l.prices \in [OnSale -> Nat]
  <2>1. l.prices = [p \in OnSale |-> l.prices[p]]
    BY <1>1
  <2> QED
    BY <1>3, <2>1
<1> QED
  BY <1>1, <1>2, <1>3, <1>4, RatesOfToday DEF ListingIsHonest, l

LEMMA CachedListingIsHonest ==
    ASSUME WorldIsTyped, ListingsAreHonest, NEW v \in Visits
    PROVE  /\ CacheKey(v) = DeriveSource(v.claim, v.seat) /\ CacheKey(v) \in Sources
           /\ ListingIsHonest(GetProductsCached(v), CacheKey(v))
<1>1. CacheKey(v) = DeriveSource(v.claim, v.seat) /\ CacheKey(v) \in Sources
  BY ServedIsASource DEF CacheKey
<1>2. ListingIsHonest(GetProducts(CacheKey(v)), CacheKey(v))
  BY <1>1, FreshListingIsHonest
<1> QED
  BY <1>1, <1>2 DEF GetProductsCached, ListingsAreHonest

\* The cache after a request was served from it.
LEMMA ServingKeepsCache ==
    ASSUME WorldIsTyped, ListingsAreHonest, NEW v \in Visits, Serve(v)
    PROVE  /\ DOMAIN cache' = Sources
           /\ \A s \in Sources : cache'[s] # None => ListingIsHonest(cache'[s], s)
<1>1. CacheKey(v) \in Sources /\ ListingIsHonest(GetProductsCached(v), CacheKey(v))
  BY CachedListingIsHonest
<1>2. DOMAIN cache = Sources /\ \A s \in Sources : cache[s] # None => ListingIsHonest(cache[s], s)
  BY DEF ListingsAreHonest
<1>3. cache' = [cache EXCEPT ![CacheKey(v)] = GetProductsCached(v)]
  BY DEF Serve
<1>4. \A s \in Sources : cache'[s] = IF s = CacheKey(v) THEN GetProductsCached(v) ELSE cache[s]
  BY <1>1, <1>2, <1>3
<1>5. DOMAIN cache' = Sources
  BY <1>2, <1>3
<1> QED
  BY <1>1, <1>2, <1>4, <1>5

\* The server's sum is a number, and so is what a coupon is worth of it.
LEMMA SubtotalIsNatural ==
    ASSUME NEW quantity \in Quantities, NEW asOf,
           \A p \in Ordered(quantity) : RateOn(asOf, p) \in Rates
    PROVE  SubtotalOn(asOf, quantity) \in Nat
<1> DEFINE D == Ordered(quantity)
           f == [p \in D |-> quantity[p] * RateOn(asOf, p).price]
<1>1. D \in SUBSET Products
  BY DEF Ordered
<1>2. IsFiniteSet(D)
  BY <1>1, ProductsAreFinite, FS_Subset
<1>3. ASSUME NEW p \in D PROVE quantity[p] * RateOn(asOf, p).price \in Nat
  <2>1. quantity[p] \in Nat
    BY <1>1, SellingBounds DEF Quantities
  <2>2. RateOn(asOf, p).price \in Nat
    BY DEF Rates
  <2> QED
    BY <2>1, <2>2
<1>4. f \in [D -> Nat]
  BY <1>3
<1>5. Sum(f) \in Nat
  BY <1>2, <1>4, SumOfNaturals
<1> QED
  BY <1>5 DEF SubtotalOn

LEMMA WorthIsANumber ==
    ASSUME NEW o \in Offers, NEW subtotal \in Nat
    PROVE  WorthOf(o, subtotal) \in Int
<1>1. o \in OfferRecords
  BY ConfiguredSoundly
<1>2. o.amount \in Nat /\ o.most \in Nat \cup {None}
  BY <1>1 DEF OfferRecords
<1> DEFINE value == IF o.percentage THEN Percent(subtotal, o.amount) ELSE o.amount
<1>3. value \in Int
  BY <1>2 DEF Percent
<1> HIDE DEF value
<1> DEFINE capped == IF o.most # None THEN Lesser(value, o.most) ELSE value
<1>4. capped \in Int
  BY <1>2, <1>3 DEF Lesser
<1>5. WorthOf(o, subtotal) = Lesser(capped, subtotal)
  BY DEF WorthOf, value
<1> HIDE DEF capped
<1> QED
  BY <1>4, <1>5 DEF Lesser

\* A coupon that is accepted is worth what its offer says, and something.
LEMMA AcceptedCoupons ==
    ASSUME WorldIsTyped, NEW subtotal \in Nat, ValidateCoupon(subtotal) # None
    PROVE  /\ offer # None
           /\ ValidateCoupon(subtotal) = WorthOf(offer, subtotal)
           /\ ValidateCoupon(subtotal) \in Nat \ {0}
<1>1. offer # None /\ WorthOf(offer, subtotal) > 0
         /\ ValidateCoupon(subtotal) = WorthOf(offer, subtotal)
  BY DEF ValidateCoupon, WorthOf
<1>2. offer \in Offers
  BY <1>1 DEF WorldIsTyped
<1>3. WorthOf(offer, subtotal) \in Int
  BY <1>2, WorthIsANumber
<1> QED
  BY <1>1, <1>3

-----------------------------------------------------------------------------
\* The world and the menu

LEMMA WorldKeepsPrices ==
    ASSUME PricesInv, WorldIsTyped', UNCHANGED device, DOMAIN cache' = Sources,
           \A s \in Sources : cache'[s] # None => ListingIsHonest(cache'[s], s)
    PROVE  PricesInv'
<1>1. UNCHANGED <<visit, page, cart, preview, applied, bill>>
  BY DEF device
<1> QED
  BY <1>1 DEF PricesInv, ListingsAreHonest, CartIsHonest, CouponsAreHonest, InCart, Served,
              ItemsFingerprint

LEMMA ClockGoesOn ==
    ASSUME now \in Instants
    PROVE  (IF now.slot < SlotsPerDay - 1 THEN [now EXCEPT !.slot = now.slot + 1]
            ELSE [date |-> (now.date % DaysInWeek) + 1, slot |-> 0]) \in Instants
<1>1. /\ DaysInWeek \in Nat \ {0} /\ SlotsPerDay \in Nat \ {0}
      /\ now.date \in 1..DaysInWeek /\ now.slot \in 0..(SlotsPerDay - 1)
      /\ now = [date |-> now.date, slot |-> now.slot]
  BY WeekIsAWeek DEF Instants, WeekDays, Slots
<1>2. (now.date % DaysInWeek) + 1 \in 1..DaysInWeek
  BY <1>1
<1>3. CASE now.slot < SlotsPerDay - 1
  <2>1. now.slot + 1 \in Slots
    BY <1>1, <1>3 DEF Slots
  <2> QED
    BY <1>1, <1>3, <2>1 DEF Instants, WeekDays
<1>4. CASE ~ (now.slot < SlotsPerDay - 1)
  <2>1. 0 \in Slots
    BY <1>1 DEF Slots
  <2> QED
    BY <1>2, <1>4, <2>1 DEF Instants, WeekDays
<1> QED
  BY <1>3, <1>4

LEMMA ChangesAreCounted ==
    ASSUME changes \in 0..MaxChanges, WorldChanges
    PROVE  changes' \in 0..MaxChanges
  BY SellingBounds DEF WorldChanges

LEMMA WorldSteps ==
    ASSUME PricesInv,
           \/ Tick
           \/ \E s \in Shops : EditCatalogue(s)
           \/ \E o \in Offers \cup {None} : EditOffer(o)
           \/ \E s \in Sources : Expire(s)
           \/ OthersCount \/ OthersCommit \/ OthersRollBack
           \/ CouponOrderPaid \/ CouponOrderGivenUp \/ GivenUpReopened
           \/ CouponOrderRefunded
           \/ \E v \in Visits : OthersBrowse(v)
    PROVE  PricesInv'
<1>1. /\ WorldIsTyped
      /\ DOMAIN cache = Sources
      /\ \A s \in Sources : cache[s] # None => ListingIsHonest(cache[s], s)
      /\ ListingsAreHonest
  BY DEF PricesInv, ListingsAreHonest
<1>2. CASE Tick
  <2>1. now' \in Instants
    BY <1>1, <1>2, ClockGoesOn DEF Tick, WorldIsTyped
  <2>2. WorldIsTyped'
    BY <1>1, <1>2, <2>1, ChangesAreCounted DEF Tick, WorldIsTyped, device
  <2> QED
    BY <1>1, <1>2, <2>2, WorldKeepsPrices DEF Tick
<1>3. ASSUME NEW s \in Shops, EditCatalogue(s) PROVE PricesInv'
  <2>1. WorldIsTyped'
    BY <1>1, <1>3, ChangesAreCounted DEF EditCatalogue, WorldIsTyped, device
  <2>2. DOMAIN cache' = Sources /\ \A c \in Sources : cache'[c] = None
    BY <1>3 DEF EditCatalogue
  <2> QED
    BY <1>3, <2>1, <2>2, WorldKeepsPrices DEF EditCatalogue
<1>4. ASSUME NEW o \in Offers \cup {None}, EditOffer(o) PROVE PricesInv'
  <2>1. WorldIsTyped'
    BY <1>1, <1>4, ChangesAreCounted DEF EditOffer, WorldIsTyped, device
  <2> QED
    BY <1>1, <1>4, <2>1, WorldKeepsPrices DEF EditOffer
<1>5. ASSUME NEW s \in Sources, Expire(s) PROVE PricesInv'
  <2>1. WorldIsTyped'
    BY <1>1, <1>5, ChangesAreCounted DEF Expire, WorldIsTyped, device
  <2>2. DOMAIN cache' = Sources /\ \A c \in Sources : cache'[c] \in {None, cache[c]}
    BY <1>1, <1>5 DEF Expire
  <2>3. \A c \in Sources : cache'[c] # None => ListingIsHonest(cache'[c], c)
    BY <1>1, <2>2
  <2> QED
    BY <1>5, <2>1, <2>2, <2>3, WorldKeepsPrices DEF Expire
<1>6. CASE \/ OthersCount \/ OthersCommit \/ OthersRollBack
          \/ CouponOrderPaid \/ CouponOrderGivenUp \/ GivenUpReopened
          \/ CouponOrderRefunded
  <2>1. UNCHANGED <<now, shop, offer, cache, device>>
    BY <1>6 DEF OthersCount, OthersCommit, OthersRollBack, CouponOrderPaid,
                CouponOrderGivenUp, GivenUpReopened, CouponOrderRefunded
  <2>2. changes' = changes \/ WorldChanges
    BY <1>6 DEF OthersCount, OthersCommit, OthersRollBack, CouponOrderPaid,
                CouponOrderGivenUp, GivenUpReopened, CouponOrderRefunded
  <2>3. changes' \in 0..MaxChanges
    BY <1>1, <2>2, ChangesAreCounted DEF WorldIsTyped
  <2>4. WorldIsTyped'
    BY <1>1, <2>1, <2>3 DEF WorldIsTyped, device
  <2> QED
    BY <1>1, <2>1, <2>4, WorldKeepsPrices
<1>7. ASSUME NEW v \in Visits, OthersBrowse(v) PROVE PricesInv'
  <2>1. WorldIsTyped'
    BY <1>1, <1>7, ChangesAreCounted DEF OthersBrowse, WorldIsTyped, device
  <2>2. /\ DOMAIN cache' = Sources
        /\ \A s \in Sources : cache'[s] # None => ListingIsHonest(cache'[s], s)
    BY <1>1, <1>7, ServingKeepsCache DEF OthersBrowse
  <2> QED
    BY <1>7, <2>1, <2>2, WorldKeepsPrices DEF OthersBrowse
<1> QED
  BY <1>2, <1>3, <1>4, <1>5, <1>6, <1>7

\* The page is priced for the customer it is shown to.
LEMMA LoadProductsKeeps ==
    ASSUME PricesInv, LoadProducts
    PROVE  PricesInv'
<1>1. WorldIsTyped /\ ListingsAreHonest /\ visit \in Visits
  BY DEF PricesInv, WorldIsTyped
<1>2. /\ DOMAIN cache' = Sources
      /\ \A s \in Sources : cache'[s] # None => ListingIsHonest(cache'[s], s)
  BY <1>1, ServingKeepsCache DEF LoadProducts
<1>3. page' = GetProductsCached(visit) /\ ListingIsHonest(page', Served)
  BY <1>1, CachedListingIsHonest DEF LoadProducts, Served
<1>4. /\ UNCHANGED <<now, shop, offer, visit, cart, bill, changes>>
      /\ preview' = None /\ applied' = None
  BY DEF LoadProducts
<1>5. WorldIsTyped'
  BY <1>1, <1>4 DEF WorldIsTyped
<1>6. ListingsAreHonest'
  BY <1>2, <1>3, <1>4 DEF ListingsAreHonest, Served
<1>7. CartIsHonest'
  BY <1>4 DEF PricesInv, CartIsHonest, InCart, Served
<1> QED
  BY <1>4, <1>5, <1>6, <1>7 DEF PricesInv, CouponsAreHonest

-----------------------------------------------------------------------------
\* The cart and the coupon

\* A cart that is let in has no line of more pieces than a cart may have.
LEMMA CartBecomesKeeps ==
    ASSUME PricesInv, NEW lines, lines = [p \in Products |-> lines[p]],
           CartBecomes(lines),
           \A p \in Products : lines[p] # None =>
               /\ lines[p] \in [quantity : Nat \ {0}, unitPrice : Nat, asOf : Origins]
               /\ LineIsHonest(lines[p], p, Served)
    PROVE  PricesInv'
<1> DEFINE print == ItemsFingerprint(lines)
<1>1. /\ cart' = lines /\ applied' = StillApplies(applied, lines)
      /\ UNCHANGED <<now, shop, offer, cache, visit, page, preview, bill, changes>>
  BY DEF CartBecomes
<1>2. /\ print = [p \in Products |-> print[p]]
      /\ \A p \in Products : print[p] = IF lines[p] = None THEN 0 ELSE lines[p].quantity
  BY DEF ItemsFingerprint
<1>3. \A p \in Products : print[p] \in Nat
  BY <1>2
<1>4. print \in [Products -> Nat]
  BY <1>2, <1>3
<1>5. Sum(print) <= MaxPieces
  BY DEF CartBecomes
<1> HIDE DEF print
<1>6. Sum(print) \in Nat /\ \A p \in Products : print[p] <= Sum(print)
  BY <1>4, ProductsAreFinite, SumOfNaturals
<1>7. \A p \in Products : print[p] \in 0..MaxPieces
  BY <1>4, <1>5, <1>6, SellingBounds
<1>8. print \in Quantities
  BY <1>2, <1>7 DEF Quantities
<1>9. ASSUME NEW p \in Products, lines[p] # None PROVE lines[p] \in Lines
  <2>1. lines[p].quantity = print[p] /\ lines[p].quantity \in Nat \ {0}
    BY <1>2, <1>9
  <2>2. lines[p].quantity \in 1..MaxPieces
    BY <1>7, <2>1, SellingBounds
  <2> QED
    BY <1>9, <2>2 DEF Lines, Origins
<1>10. cart' \in [Products -> Lines \cup {None}]
  BY <1>1, <1>9
<1>11. CartIsHonest'
  BY <1>1, <1>10 DEF CartIsHonest, InCart, Served
<1>12. CouponsAreHonest'
  <2>1. applied' # None => applied' = applied /\ applied # None /\ applied.cart = print
    BY <1>1 DEF StillApplies, print
  <2>2. ItemsFingerprint(cart') = print
    BY <1>1 DEF print
  <2> QED
    BY <1>1, <1>8, <2>1, <2>2 DEF PricesInv, CouponsAreHonest
<1> QED
  BY <1>1, <1>11, <1>12 DEF PricesInv, WorldIsTyped, ListingsAreHonest, Served

LEMMA AddItemKeeps ==
    ASSUME PricesInv, NEW p \in Products, AddItem(p)
    PROVE  PricesInv'
<1>1. /\ cart \in [Products -> Lines \cup {None}]
      /\ \A q \in Products : cart[q] # None =>
             /\ cart[q] \in Lines /\ LineIsHonest(cart[q], q, Served)
  BY DEF PricesInv, CartIsHonest, InCart
<1>2. \A q \in Products : cart[q] # None =>
          cart[q] \in [quantity : Nat \ {0}, unitPrice : Nat, asOf : Origins]
  BY <1>1, SellingBounds DEF Lines, Origins
<1>3. /\ page # None /\ p \in DOMAIN page.prices /\ ListingIsHonest(page, Served)
  BY DEF AddItem, PricesInv, ListingsAreHonest
<1>4. ASSUME NEW line, line \in [quantity : Nat \ {0}, unitPrice : Nat, asOf : Origins],
             LineIsHonest(line, p, Served), CartBecomes([cart EXCEPT ![p] = line])
      PROVE  PricesInv'
  <2> DEFINE lines == [cart EXCEPT ![p] = line]
  <2>1. lines = [q \in Products |-> lines[q]]
    BY <1>1
  <2>2. \A q \in Products : lines[q] = IF q = p THEN line ELSE cart[q]
    BY <1>1
  <2> HIDE DEF lines
  <2>3. \A q \in Products : lines[q] # None =>
            /\ lines[q] \in [quantity : Nat \ {0}, unitPrice : Nat, asOf : Origins]
            /\ LineIsHonest(lines[q], q, Served)
    BY <1>1, <1>2, <1>4, <2>2
  <2>4. CartBecomes(lines)
    BY <1>4 DEF lines
  <2> QED
    BY <2>1, <2>3, <2>4, CartBecomesKeeps
<1>5. CASE /\ cart[p] = None
           /\ CartBecomes([cart EXCEPT ![p] =
                [quantity |-> 1, unitPrice |-> page.prices[p], asOf |-> page.asOf]])
  <2> DEFINE line == [quantity |-> 1, unitPrice |-> page.prices[p], asOf |-> page.asOf]
  <2>1. line \in [quantity : Nat \ {0}, unitPrice : Nat, asOf : Origins]
    BY <1>3 DEF ListingIsHonest
  <2>2. LineIsHonest(line, p, Served)
    BY <1>3 DEF ListingIsHonest, LineIsHonest
  <2> HIDE DEF line
  <2>3. CartBecomes([cart EXCEPT ![p] = line])
    BY <1>5 DEF line
  <2> QED
    BY <1>4, <2>1, <2>2, <2>3
<1>6. CASE /\ cart[p] # None
           /\ CartBecomes([cart EXCEPT ![p].quantity = cart[p].quantity + 1])
  <2> DEFINE line == [cart[p] EXCEPT !.quantity = cart[p].quantity + 1]
  <2>1. cart[p] \in [quantity : Nat \ {0}, unitPrice : Nat, asOf : Origins]
    BY <1>2, <1>6
  <2>2. line \in [quantity : Nat \ {0}, unitPrice : Nat, asOf : Origins]
    BY <2>1
  <2>3. line.unitPrice = cart[p].unitPrice /\ line.asOf = cart[p].asOf
    BY <2>1
  <2>4. LineIsHonest(line, p, Served)
    BY <1>1, <1>6, <2>3 DEF LineIsHonest
  <2>5. [cart EXCEPT ![p].quantity = cart[p].quantity + 1] = [cart EXCEPT ![p] = line]
    BY <1>1
  <2> HIDE DEF line
  <2>6. CartBecomes([cart EXCEPT ![p] = line])
    BY <1>6, <2>5
  <2> QED
    BY <1>4, <2>2, <2>4, <2>6
<1> QED
  BY <1>5, <1>6 DEF AddItem

LEMMA UpdateQuantityKeeps ==
    ASSUME PricesInv, NEW p \in Products, NEW n \in 0..MaxPieces, UpdateQuantity(p, n)
    PROVE  PricesInv'
<1> DEFINE line == IF n = 0 THEN None ELSE [cart[p] EXCEPT !.quantity = n]
           lines == [cart EXCEPT ![p] = line]
<1>1. /\ cart \in [Products -> Lines \cup {None}]
      /\ \A q \in Products : cart[q] # None =>
             /\ cart[q] \in Lines /\ LineIsHonest(cart[q], q, Served)
  BY DEF PricesInv, CartIsHonest, InCart
<1>2. \A q \in Products : cart[q] # None =>
          cart[q] \in [quantity : Nat \ {0}, unitPrice : Nat, asOf : Origins]
  BY <1>1, SellingBounds DEF Lines, Origins
<1>3. cart[p] # None /\ CartBecomes(lines)
  BY DEF UpdateQuantity
<1>4. line # None =>
          /\ line \in [quantity : Nat \ {0}, unitPrice : Nat, asOf : Origins]
          /\ LineIsHonest(line, p, Served)
  <2>1. CASE n = 0
    BY <2>1
  <2>2. CASE n # 0
    <3>1. cart[p] \in [quantity : Nat \ {0}, unitPrice : Nat, asOf : Origins]
      BY <1>2, <1>3
    <3>2. n \in Nat \ {0}
      BY <2>2, SellingBounds
    <3>3. line = [cart[p] EXCEPT !.quantity = n]
      BY <2>2
    <3> HIDE DEF line
    <3>4. /\ line \in [quantity : Nat \ {0}, unitPrice : Nat, asOf : Origins]
          /\ line.unitPrice = cart[p].unitPrice /\ line.asOf = cart[p].asOf
      BY <3>1, <3>2, <3>3
    <3> QED
      BY <1>1, <1>3, <3>4 DEF LineIsHonest
  <2> QED
    BY <2>1, <2>2
<1> HIDE DEF line
<1>5. lines = [q \in Products |-> lines[q]]
  BY <1>1
<1>6. \A q \in Products : lines[q] = IF q = p THEN line ELSE cart[q]
  BY <1>1
<1> HIDE DEF lines
<1>7. \A q \in Products : lines[q] # None =>
          /\ lines[q] \in [quantity : Nat \ {0}, unitPrice : Nat, asOf : Origins]
          /\ LineIsHonest(lines[q], q, Served)
  BY <1>1, <1>2, <1>4, <1>6
<1> QED
  BY <1>3, <1>5, <1>7, CartBecomesKeeps

\* What a cart holds, as it is sent to the server.
LEMMA FingerprintOfCart ==
    ASSUME CartIsHonest
    PROVE  /\ ItemsFingerprint(cart) \in Quantities
           /\ Ordered(ItemsFingerprint(cart)) = InCart /\ InCart \subseteq Products
           /\ \A p \in InCart : /\ cart[p] \in Lines
                                /\ ItemsFingerprint(cart)[p] = cart[p].quantity
<1>1. \A p \in Products : cart[p] \in Lines \cup {None}
  BY DEF CartIsHonest
<1>2. \A p \in Products : /\ cart[p] = None => ItemsFingerprint(cart)[p] = 0
                          /\ cart[p] # None => /\ cart[p] \in Lines
                                               /\ ItemsFingerprint(cart)[p] = cart[p].quantity
                                               /\ cart[p].quantity \in 1..MaxPieces
  BY <1>1 DEF ItemsFingerprint, Lines
<1>3. MaxPieces \in Nat
  BY SellingBounds
<1>4. \A p \in Products : ItemsFingerprint(cart)[p] \in 0..MaxPieces
  BY <1>2, <1>3
<1>5. ItemsFingerprint(cart) \in Quantities
  BY <1>4 DEF ItemsFingerprint, Quantities
<1>6. \A p \in Products : ItemsFingerprint(cart)[p] > 0 <=> cart[p] # None
  BY <1>2, <1>3
<1> HIDE DEF ItemsFingerprint
<1> QED
  BY <1>2, <1>5, <1>6 DEF Ordered, InCart

\* What leaves all but the coupons alone.
LEMMA CouponStep ==
    ASSUME PricesInv, CouponsAreHonest',
           UNCHANGED <<now, shop, offer, cache, visit, page, cart, bill, changes>>
    PROVE  PricesInv'
  BY DEF PricesInv, WorldIsTyped, ListingsAreHonest, CartIsHonest, InCart, Served

LEMMA AskForCouponKeeps ==
    ASSUME PricesInv, AskForCoupon
    PROVE  PricesInv'
<1>1. ItemsFingerprint(cart) \in Quantities
  BY FingerprintOfCart DEF PricesInv
<1>2. /\ preview' = [cart |-> ItemsFingerprint(cart), answered |-> FALSE]
      /\ UNCHANGED <<now, shop, offer, cache, visit, page, cart, applied, bill, changes>>
      /\ applied = None
  BY DEF AskForCoupon
<1>3. preview'.cart \in Quantities /\ ~ preview'.answered
  BY <1>1, <1>2
<1>4. CouponsAreHonest'
  BY <1>2, <1>3 DEF CouponsAreHonest
<1> QED
  BY <1>2, <1>4, CouponStep

\* The server's answer is true of what it was asked, when it was asked.
LEMMA ValidateCouponPreviewKeeps ==
    ASSUME PricesInv, ValidateCouponPreview
    PROVE  PricesInv'
<1> DEFINE quantity == preview.cart
           discount == IF Ordered(quantity) \subseteq OnSale
                       THEN ValidateCoupon(Subtotal(quantity)) ELSE None
<1>1. quantity \in Quantities
  BY DEF ValidateCouponPreview, PricesInv, CouponsAreHonest
<1>2. /\ preview' = [cart |-> quantity, answered |-> TRUE, discount |-> discount,
                     asOf |-> Today, offer |-> offer]
      /\ UNCHANGED <<now, shop, offer, cache, visit, page, cart, applied, bill, changes>>
  BY DEF ValidateCouponPreview
<1> HIDE DEF quantity
<1>3. ASSUME discount # None
      PROVE  /\ discount \in Nat \ {0}
             /\ discount = WorthOf(offer, SubtotalOn(Today, quantity))
  <2>1. Ordered(quantity) \subseteq OnSale /\ discount = ValidateCoupon(Subtotal(quantity))
    BY <1>3
  <2>2. WorldIsTyped
    BY DEF PricesInv
  <2>3. \A p \in Ordered(quantity) : RateOn(Today, p) \in Rates
    BY <2>1, <2>2, RatesOfToday
  <2>4. Subtotal(quantity) = SubtotalOn(Today, quantity)
    BY <2>2, RatesOfToday DEF Subtotal, SubtotalOn
  <2>5. Subtotal(quantity) \in Nat
    BY <1>1, <2>3, <2>4, SubtotalIsNatural
  <2> HIDE DEF discount
  <2> QED
    BY <1>3, <2>1, <2>2, <2>4, <2>5, AcceptedCoupons
<1> HIDE DEF discount
<1>4. /\ preview'.cart = quantity /\ preview'.discount = discount
      /\ preview'.asOf = Today /\ preview'.offer = offer
  BY <1>2
<1>5. CouponsAreHonest'
  BY <1>1, <1>2, <1>3, <1>4 DEF CouponsAreHonest, PromiseIsHonest, PricesInv
<1> QED
  BY <1>2, <1>5, CouponStep

LEMMA OtherCouponStepsKeep ==
    ASSUME PricesInv, PreviewLands \/ RemoveCoupon
    PROVE  PricesInv'
<1>1. CASE PreviewLands
  <2>1. /\ preview # None /\ preview.answered /\ preview' = None
        /\ applied' = IF preview.discount = None THEN None ELSE StillApplies(preview, cart)
        /\ UNCHANGED <<now, shop, offer, cache, visit, page, cart, bill, changes>>
    BY <1>1 DEF PreviewLands
  <2>2. applied' # None =>
            /\ applied' = preview /\ preview.discount # None
            /\ preview.cart = ItemsFingerprint(cart)
    BY <2>1 DEF StillApplies
  <2>3. CouponsAreHonest'
    BY <2>1, <2>2 DEF PricesInv, CouponsAreHonest, ItemsFingerprint
  <2> QED
    BY <2>1, <2>3, CouponStep
<1>2. CASE RemoveCoupon
  <2>1. /\ applied' = None
        /\ UNCHANGED <<now, shop, offer, cache, visit, page, cart, preview, bill, changes>>
    BY <1>2 DEF RemoveCoupon
  <2>2. CouponsAreHonest'
    BY <2>1 DEF PricesInv, CouponsAreHonest
  <2> QED
    BY <2>1, <2>2, CouponStep
<1> QED
  BY <1>1, <1>2

-----------------------------------------------------------------------------
\* The order

LEMMA OrderSourceIsASource == visit \in Visits => OrderSource \in Sources
  BY VisitsAreVisits DEF OrderSource, DeriveSource, Sources

\* The sums an order is made of, over the products it has.
LEMMA SumsOfAnOrder ==
    ASSUME PricesInv, InCart \subseteq OnSale, NEW source \in Sources,
           NEW quantity, quantity = ItemsFingerprint(cart)
    PROVE  /\ Subtotal(quantity) = SubtotalOn(Today, quantity)
           /\ Subtotal(quantity) \in Nat
           /\ ProductDiscount(quantity, source) \in Nat
           /\ Sum([p \in InCart |-> quantity[p] * (Rate(p).price - UnitDiscount(Rate(p), source))])
                  = Subtotal(quantity) - ProductDiscount(quantity, source)
<1>1. WorldIsTyped /\ CartIsHonest
  BY DEF PricesInv
<1>2. /\ quantity \in Quantities /\ Ordered(quantity) = InCart
      /\ InCart \subseteq Products
  BY <1>1, FingerprintOfCart
<1>3. IsFiniteSet(InCart)
  BY <1>2, ProductsAreFinite, FS_Subset
<1>4. ASSUME NEW p \in InCart
      PROVE  /\ quantity[p] \in Nat /\ RateOn(Today, p) = Rate(p) /\ Rate(p) \in Rates
             /\ Rate(p).price \in Nat /\ UnitDiscount(Rate(p), source) \in Nat
  BY <1>1, <1>2, RatesOfToday, UnitDiscountIsWithinThePrice, SellingBounds DEF Quantities
<1> DEFINE f == [p \in InCart |-> quantity[p] * Rate(p).price]
           g == [p \in InCart |-> quantity[p] * UnitDiscount(Rate(p), source)]
<1>5. ASSUME NEW m \in Nat, NEW n \in Nat PROVE m * n \in Nat
  OBVIOUS
<1>6. f \in [InCart -> Nat] /\ g \in [InCart -> Nat]
  BY <1>4, <1>5
<1>7. Subtotal(quantity) = Sum(f) /\ ProductDiscount(quantity, source) = Sum(g)
  BY <1>2 DEF Subtotal, ProductDiscount
<1>8. Subtotal(quantity) = SubtotalOn(Today, quantity)
  BY <1>1, RatesOfToday DEF Subtotal, SubtotalOn
<1>9. Sum(f) \in Nat /\ Sum(g) \in Nat
  BY <1>3, <1>6, SumOfNaturals
<1>10. [p \in InCart |-> quantity[p] * (Rate(p).price - UnitDiscount(Rate(p), source))]
           = [p \in InCart |-> f[p] - g[p]]
  <2>1. ASSUME NEW m \in Nat, NEW a \in Nat, NEW b \in Nat
        PROVE  m * (a - b) = m * a - m * b
    OBVIOUS
  <2>2. ASSUME NEW p \in InCart
        PROVE  quantity[p] * (Rate(p).price - UnitDiscount(Rate(p), source)) = f[p] - g[p]
    BY <1>4, <2>1
  <2> QED
    BY <2>2
<1>11. Sum([p \in InCart |-> f[p] - g[p]]) = Sum(f) - Sum(g)
  <2>1. f \in [InCart -> Int] /\ g \in [InCart -> Int]
    BY <1>6
  <2> HIDE DEF f, g
  <2> QED
    BY <1>3, <2>1, SumOfDifferences
<1> QED
  BY <1>7, <1>8, <1>9, <1>10, <1>11

\* The total of an order that goes through.
LEMMA BillOfAnOrder ==
    ASSUME PricesInv, PriceOrder, NEW subtotal, NEW discount, NEW coupon,
           subtotal = Subtotal(ItemsFingerprint(cart)),
           discount = ProductDiscount(ItemsFingerprint(cart), OrderSource),
           coupon = IF applied = None THEN 0 ELSE ValidateCoupon(subtotal)
    PROVE  /\ bill'.total = Total(subtotal, discount + coupon) /\ bill' \in Bills
           /\ subtotal \in Nat /\ discount \in Nat /\ coupon \in Nat
           /\ applied # None => coupon = WorthOf(offer, subtotal)
<1>1. /\ bill' = [total |-> Total(subtotal, discount + coupon),
                  coupon |-> applied # None, placed |-> FALSE]
      /\ coupon # None /\ InCart \subseteq OnSale
  BY DEF PriceOrder
<1>2. OrderSource \in Sources /\ WorldIsTyped
  BY OrderSourceIsASource DEF PricesInv, WorldIsTyped
<1>3. subtotal \in Nat /\ discount \in Nat
  BY <1>1, <1>2, SumsOfAnOrder
<1>4. /\ coupon \in Nat
      /\ applied # None => coupon = WorthOf(offer, subtotal)
  BY <1>1, <1>2, <1>3, AcceptedCoupons
<1>5. Total(subtotal, discount + coupon) \in Nat
  BY <1>3, <1>4 DEF Total, Lesser
<1> QED
  BY <1>1, <1>3, <1>4, <1>5 DEF Bills

LEMMA OrderKeeps ==
    ASSUME PricesInv, PriceOrder \/ CreateOrder \/ OrderRolledBack
    PROVE  PricesInv'
<1>1. bill' \in Bills \cup {None}
  <2>1. CASE PriceOrder
    BY <2>1, BillOfAnOrder
  <2>2. CASE CreateOrder
    BY <2>2 DEF CreateOrder, PricesInv, Bills
  <2>3. CASE OrderRolledBack
    BY <2>3 DEF OrderRolledBack
  <2> QED
    BY <2>1, <2>2, <2>3
<1>2. UNCHANGED <<now, shop, offer, cache, visit, page, cart, preview, applied, changes>>
  BY DEF PriceOrder, CreateOrder, OrderRolledBack
<1> QED
  BY <1>1, <1>2 DEF PricesInv, WorldIsTyped, ListingsAreHonest, CartIsHonest, CouponsAreHonest,
                    InCart, Served, ItemsFingerprint

LEMMA NextCustomerKeeps ==
    ASSUME PricesInv, NEW v \in Visits, NextCustomer(v)
    PROVE  PricesInv'
<1>1. /\ visit' = v /\ page' = None /\ cart' = EmptyCart
      /\ preview' = None /\ applied' = None /\ bill' = None
      /\ UNCHANGED <<now, shop, offer, cache, changes>>
  BY DEF NextCustomer, NewVisit
<1>2. \A p \in Products : cart'[p] = None
  BY <1>1 DEF EmptyCart
<1>3. cart' \in [Products -> Lines \cup {None}]
  BY <1>1 DEF EmptyCart
<1> QED
  BY <1>1, <1>2, <1>3 DEF PricesInv, WorldIsTyped, ListingsAreHonest, CartIsHonest,
                          CouponsAreHonest, InCart

LEMMA PricesStart == Init => PricesInv
<1> SUFFICES ASSUME Init PROVE PricesInv
  OBVIOUS
<1>1. \A p \in Products : cart[p] = None
  BY DEF Init, EmptyCart
<1>2. cart \in [Products -> Lines \cup {None}]
  BY DEF Init, EmptyCart
<1>3. WorldIsTyped
  BY SellingBounds DEF Init, WorldIsTyped
<1>4. ListingsAreHonest
  BY DEF Init, ListingsAreHonest
<1> QED
  BY <1>1, <1>2, <1>3, <1>4 DEF Init, PricesInv, CartIsHonest, CouponsAreHonest, InCart

LEMMA PricesStay == PricesInv /\ [Next]_vars => PricesInv'
<1> SUFFICES ASSUME PricesInv, [Next]_vars PROVE PricesInv'
  OBVIOUS
<1>1. CASE UNCHANGED vars
  BY <1>1 DEF vars, PricesInv, WorldIsTyped, ListingsAreHonest, CartIsHonest,
              CouponsAreHonest, InCart, Served, ItemsFingerprint
<1>2. CASE Next
  BY <1>2, WorldSteps, LoadProductsKeeps, AddItemKeeps, UpdateQuantityKeeps, AskForCouponKeeps,
     ValidateCouponPreviewKeeps, OtherCouponStepsKeep, OrderKeeps, NextCustomerKeeps
     DEF Next
<1> QED
  BY <1>1, <1>2

\* Where the order, the lines and the coupon were priced alike, the sheet's
\* estimate is the sum the server makes.
LEMMA SheetAgreesWithServer ==
    ASSUME PricesInv, PriceOrder, OrderSource = Served,
           \A p \in InCart : cart[p].asOf = Today,
           applied # None => applied.asOf = Today /\ applied.offer = offer
    PROVE  bill'.total = EstimatedTotal
<1> DEFINE quantity == ItemsFingerprint(cart)
           subtotal == Subtotal(quantity)
           discount == ProductDiscount(quantity, OrderSource)
           coupon   == IF applied = None THEN 0 ELSE ValidateCoupon(subtotal)
           priced   == [p \in InCart |->
                           quantity[p] * (Rate(p).price - UnitDiscount(Rate(p), OrderSource))]
<1>1. InCart \subseteq OnSale /\ WorldIsTyped /\ CartIsHonest /\ OrderSource \in Sources
  BY OrderSourceIsASource DEF PriceOrder, PricesInv, WorldIsTyped
<1>2. /\ bill'.total = Total(subtotal, discount + coupon)
      /\ subtotal \in Nat /\ discount \in Nat /\ coupon \in Nat
      /\ applied # None => coupon = WorthOf(offer, subtotal)
  BY BillOfAnOrder
<1>3. subtotal = SubtotalOn(Today, quantity) /\ Sum(priced) = subtotal - discount
  BY <1>1, SumsOfAnOrder
<1>4. EstimatedSubtotal = Sum(priced)
  <2>1. ASSUME NEW p \in InCart
        PROVE  cart[p].quantity * cart[p].unitPrice
                   = quantity[p] * (Rate(p).price - UnitDiscount(Rate(p), OrderSource))
    <3>1. quantity[p] = cart[p].quantity
      BY <1>1, FingerprintOfCart
    <3>2. cart[p].unitPrice = PriceOn(Today, p, OrderSource)
      BY DEF PricesInv, CartIsHonest, LineIsHonest
    <3>3. RateOn(Today, p) = Rate(p)
      BY <1>1, RatesOfToday
    <3> QED
      BY <3>1, <3>2, <3>3 DEF PriceOn
  <2>2. [p \in InCart |-> cart[p].quantity * cart[p].unitPrice] = priced
    BY <2>1
  <2> QED
    BY <2>2 DEF EstimatedSubtotal
<1>5. coupon = IF applied = None THEN 0 ELSE applied.discount
  <2>1. CASE applied = None
    BY <2>1
  <2>2. CASE applied # None
    <3>1. applied.discount = WorthOf(applied.offer, SubtotalOn(applied.asOf, applied.cart))
      BY <2>2 DEF PricesInv, CouponsAreHonest, PromiseIsHonest
    <3>2. applied.cart = quantity /\ applied.asOf = Today /\ applied.offer = offer
      BY <2>2 DEF PricesInv, CouponsAreHonest
    <3> QED
      BY <1>2, <1>3, <2>2, <3>1, <3>2
  <2> QED
    BY <2>1, <2>2
<1>6. EstimatedTotal = Greater(0, (subtotal - discount) - coupon)
  BY <1>3, <1>4, <1>5 DEF EstimatedTotal
<1> HIDE DEF subtotal, discount, coupon
<1> QED
  BY <1>2, <1>6 DEF Total, Greater, Lesser

\* Nothing but createOrder's pricing gives an order its total.
LEMMA OnlyOrdersAreBilled ==
    ASSUME [Next]_vars, bill = None, bill' # None
    PROVE  PriceOrder
  BY DEF Next, vars, device, Tick, EditCatalogue, EditOffer, Expire, OthersCount, OthersCommit,
     OthersRollBack, CouponOrderPaid, CouponOrderGivenUp, GivenUpReopened, CouponOrderRefunded,
     OthersBrowse, LoadProducts, AddItem, UpdateQuantity, CartBecomes, AskForCoupon,
     ValidateCouponPreview, PreviewLands, RemoveCoupon, CreateOrder, OrderRolledBack,
     NextCustomer, NewVisit

-----------------------------------------------------------------------------
\* The coupon's limit

CouponsCounted ==
    /\ counted \in Nat /\ open \in Nat /\ givenUp \in Nat
    /\ redeemed \in Nat /\ overdraft \in Nat
    /\ UnderWay <= MaxUnderWay
    /\ CapBoundsRedemptions

LEMMA CountingStarts == Init => CouponsCounted
  BY SellingBounds DEF Init, CouponsCounted, CapBoundsRedemptions, UnderWay, Submitted

LEMMA UnderWayIsCounted ==
    ASSUME counted \in Nat, open \in Nat, givenUp \in Nat
    PROVE  Submitted(bill) \in {0, 1} /\ UnderWay \in Nat
<1>1. Submitted(bill) \in {0, 1}
  BY DEF Submitted
<1> QED
  BY <1>1 DEF UnderWay

\* Fewer orders under way, or fewer paid.
LEMMA NothingIsAdded ==
    ASSUME CouponsCounted, counted' \in Nat, open' \in Nat, givenUp' \in Nat, redeemed' \in Nat,
           Submitted(bill') \in {0, 1}, UnderWay' <= UnderWay, redeemed' <= redeemed,
           overdraft' = overdraft
    PROVE  CouponsCounted'
<1>1. UnderWay \in Nat
  BY UnderWayIsCounted DEF CouponsCounted
<1>2. UnderWay' \in Nat
  BY DEF UnderWay, CouponsCounted
<1> maxTxnLimit \in Nat /\ MaxUnderWay \in Nat
  BY SellingBounds
<1>3. UnderWay' <= MaxUnderWay
  BY <1>1, <1>2 DEF CouponsCounted
<1>4. CapBoundsRedemptions'
  BY <1>1, <1>2, UnderWayIsCounted DEF CouponsCounted, CapBoundsRedemptions, UnderWay
<1> QED
  BY <1>3, <1>4 DEF CouponsCounted

\* An order that passes the check: the limit is not reached.
LEMMA OneMoreIsUnderWay ==
    ASSUME CouponsCounted, Redeemable, UnderWay < MaxUnderWay, counted' \in Nat,
           open' = open, givenUp' = givenUp, redeemed' = redeemed, overdraft' = overdraft,
           Submitted(bill') \in {0, 1}, UnderWay' <= UnderWay + 1
    PROVE  CouponsCounted'
<1>1. UnderWay \in Nat
  BY UnderWayIsCounted DEF CouponsCounted
<1>2. UnderWay' \in Nat
  BY DEF UnderWay, CouponsCounted
<1> maxTxnLimit \in Nat /\ MaxUnderWay \in Nat
  BY SellingBounds
<1>3. UnderWay' <= MaxUnderWay
  BY <1>1, <1>2
<1>4. CapBoundsRedemptions'
  BY <1>1, <1>2 DEF CouponsCounted, CapBoundsRedemptions, Redeemable
<1> QED
  BY <1>3, <1>4 DEF CouponsCounted

\* What the device does to its own order.
LEMMA DeviceCounts ==
    ASSUME PricesInv, CouponsCounted,
           PriceOrder \/ CreateOrder \/ OrderRolledBack \/ \E v \in Visits : NextCustomer(v)
    PROVE  CouponsCounted'
<1>1. bill \in Bills \cup {None}
  BY DEF PricesInv
<1>2. Submitted(bill') \in {0, 1} /\ Submitted(bill) \in {0, 1}
  BY DEF Submitted
<1>3. CASE PriceOrder /\ applied = None
  <2>1. Submitted(bill') = 0 /\ Submitted(bill) = 0 /\ UNCHANGED coupons
    BY <1>3 DEF PriceOrder, Submitted
  <2> QED
    BY <1>2, <2>1, NothingIsAdded DEF coupons, CouponsCounted, UnderWay
<1>4. CASE PriceOrder /\ applied # None
  <2>1. Submitted(bill) = 0 /\ UNCHANGED coupons /\ UnderWay < MaxUnderWay
    BY <1>4 DEF PriceOrder, Submitted
  <2>2. ValidateCoupon(Subtotal(ItemsFingerprint(cart))) # None
    BY <1>4 DEF PriceOrder
  <2>3. Redeemable
    BY <2>2 DEF ValidateCoupon
  <2>4. UnderWay' <= UnderWay + 1
    <3>1. /\ counted \in Nat /\ open \in Nat /\ givenUp \in Nat
          /\ counted' = counted /\ open' = open /\ givenUp' = givenUp
      BY <2>1 DEF coupons, CouponsCounted
    <3>2. Submitted(bill') \in Nat /\ Submitted(bill') <= 1
      BY <1>2
    <3> QED
      BY <2>1, <3>1, <3>2 DEF UnderWay
  <2> QED
    BY <1>2, <2>1, <2>3, <2>4, OneMoreIsUnderWay DEF coupons, CouponsCounted
<1>5. CASE CreateOrder
  <2>a. bill \in Bills /\ ~bill.placed /\ bill'.placed
    BY <1>1, <1>5 DEF CreateOrder, Bills
  <2>1. /\ Submitted(bill') = 0
        /\ Submitted(bill) = IF bill.coupon THEN 1 ELSE 0
        /\ open' = IF bill.coupon THEN open + 1 ELSE open
        /\ UNCHANGED <<counted, givenUp, redeemed, overdraft>>
    BY <1>1, <1>5, <2>a DEF CreateOrder, Submitted
  <2>2. open' + Submitted(bill') = open + Submitted(bill) /\ open' \in Nat
    BY <2>1 DEF CouponsCounted
  <2>3. UnderWay' = UnderWay
    BY <1>2, <2>1, <2>2 DEF CouponsCounted, UnderWay
  <2>4. UnderWay \in Nat
    BY <1>2 DEF CouponsCounted, UnderWay
  <2> QED
    BY <1>2, <2>1, <2>2, <2>3, <2>4, NothingIsAdded DEF CouponsCounted
<1>6. CASE OrderRolledBack
  <2>1. Submitted(bill') = 0 /\ UNCHANGED coupons
    BY <1>6 DEF OrderRolledBack, Submitted
  <2> QED
    BY <1>2, <2>1, NothingIsAdded DEF coupons, CouponsCounted, UnderWay
<1>7. CASE \E v \in Visits : NextCustomer(v)
  <2>1. Submitted(bill') = 0 /\ Submitted(bill) = 0 /\ UNCHANGED coupons
    BY <1>7 DEF NextCustomer, NewVisit, Submitted
  <2> QED
    BY <1>2, <2>1, NothingIsAdded DEF coupons, CouponsCounted, UnderWay
<1> QED
  BY <1>3, <1>4, <1>5, <1>6, <1>7

LEMMA OthersCounted ==
    ASSUME CouponsCounted, OthersCount \/ OthersCommit \/ OthersRollBack
    PROVE  CouponsCounted'
<1>1. UNCHANGED <<bill, givenUp, redeemed, overdraft>>
  BY DEF OthersCount, OthersCommit, OthersRollBack, device
<1>2. Submitted(bill') = Submitted(bill) /\ Submitted(bill) \in {0, 1}
  BY <1>1 DEF Submitted
<1>3. UnderWay \in Nat
  BY <1>2 DEF CouponsCounted, UnderWay
<1>4. CASE OthersCount
  <2>1. /\ Redeemable /\ UnderWay < MaxUnderWay /\ open' = open
        /\ counted' = counted + 1
    BY <1>4 DEF OthersCount
  <2>2. UnderWay' = UnderWay + 1 /\ counted' \in Nat
    BY <1>1, <1>2, <2>1 DEF CouponsCounted, UnderWay
  <2> QED
    BY <1>1, <1>2, <1>3, <2>1, <2>2, OneMoreIsUnderWay
<1>5. CASE OthersCommit
  <2>1. counted > 0 /\ counted' = counted - 1 /\ open' = open + 1
    BY <1>5 DEF OthersCommit
  <2>2. UnderWay' = UnderWay /\ counted' \in Nat /\ open' \in Nat
    BY <1>1, <1>2, <2>1 DEF CouponsCounted, UnderWay
  <2> QED
    BY <1>1, <1>2, <1>3, <2>1, <2>2, NothingIsAdded DEF CouponsCounted
<1>6. CASE OthersRollBack
  <2>1. counted > 0 /\ counted' = counted - 1 /\ open' = open
    BY <1>6 DEF OthersRollBack
  <2>2. UnderWay' = UnderWay - 1 /\ counted' \in Nat
    BY <1>1, <1>2, <2>1 DEF CouponsCounted, UnderWay
  <2> QED
    BY <1>1, <1>2, <1>3, <2>1, <2>2, NothingIsAdded DEF CouponsCounted
<1> QED
  BY <1>4, <1>5, <1>6

\* What is paid was under way; the limit, reached, remembers the rest.
LEMMA PaidIsCounted ==
    ASSUME CouponsCounted, CouponOrderPaid
    PROVE  CouponsCounted'
<1>1. /\ bill' = bill /\ counted' = counted /\ redeemed' = redeemed + 1
      /\ overdraft' = IF redeemed + 1 = maxTxnLimit THEN UnderWay - 1 ELSE overdraft
      /\ \/ open > 0 /\ open' = open - 1 /\ givenUp' = givenUp
         \/ givenUp > 0 /\ givenUp' = givenUp - 1 /\ open' = open
  BY DEF CouponOrderPaid, device
<1>2. Submitted(bill') = Submitted(bill) /\ Submitted(bill) \in {0, 1}
  BY <1>1 DEF Submitted
<1>3. open' \in Nat /\ givenUp' \in Nat /\ UnderWay' = UnderWay - 1 /\ UnderWay' \in Nat
  BY <1>1, <1>2 DEF CouponsCounted, UnderWay
<1>4. UnderWay \in Nat /\ maxTxnLimit \in Nat /\ MaxUnderWay \in Nat
  BY <1>2, SellingBounds DEF CouponsCounted, UnderWay
<1>5. overdraft' \in Nat /\ UnderWay' <= MaxUnderWay
  BY <1>1, <1>3, <1>4 DEF CouponsCounted
<1>6. CapBoundsRedemptions'
  BY <1>1, <1>3, <1>4 DEF CouponsCounted, CapBoundsRedemptions
<1> QED
  BY <1>1, <1>3, <1>5, <1>6 DEF CouponsCounted

LEMMA StaffCounted ==
    ASSUME CouponsCounted, CouponOrderGivenUp \/ GivenUpReopened \/ CouponOrderRefunded
    PROVE  CouponsCounted'
<1>1. UNCHANGED <<bill, counted, overdraft>>
  BY DEF CouponOrderGivenUp, GivenUpReopened, CouponOrderRefunded, device
<1>2. Submitted(bill') = Submitted(bill) /\ Submitted(bill) \in {0, 1}
  BY <1>1 DEF Submitted
<1>3. UnderWay \in Nat
  BY <1>2 DEF CouponsCounted, UnderWay
<1>4. /\ open' \in Nat /\ givenUp' \in Nat /\ open' + givenUp' = open + givenUp
      /\ redeemed' \in Nat /\ redeemed' <= redeemed
  <2>1. CASE CouponOrderGivenUp
    BY <2>1 DEF CouponOrderGivenUp, CouponsCounted
  <2>2. CASE GivenUpReopened
    BY <2>2 DEF GivenUpReopened, CouponsCounted
  <2>3. CASE CouponOrderRefunded
    BY <2>3 DEF CouponOrderRefunded, CouponsCounted
  <2> QED
    BY <2>1, <2>2, <2>3
<1>5. UnderWay' = UnderWay
  <2>1. counted \in Nat /\ Submitted(bill) \in Nat
    BY <1>2 DEF CouponsCounted
  <2>2. counted' + (open' + givenUp') + Submitted(bill') = counted + (open + givenUp) + Submitted(bill)
    BY <1>1, <1>2, <1>4
  <2>3. open \in Nat /\ givenUp \in Nat
    BY DEF CouponsCounted
  <2> QED
    BY <1>1, <1>2, <1>4, <2>1, <2>2, <2>3 DEF UnderWay
<1> QED
  BY <1>1, <1>2, <1>3, <1>4, <1>5, NothingIsAdded DEF CouponsCounted

LEMMA CountingGoesOn == PricesInv /\ CouponsCounted /\ [Next]_vars => CouponsCounted'
<1> SUFFICES ASSUME PricesInv, CouponsCounted, [Next]_vars
             PROVE  CouponsCounted'
  OBVIOUS
<1>1. CASE PriceOrder \/ CreateOrder \/ OrderRolledBack \/ \E v \in Visits : NextCustomer(v)
  BY <1>1, DeviceCounts
<1>2. CASE \/ OthersCount \/ OthersCommit \/ OthersRollBack
           \/ CouponOrderPaid \/ CouponOrderGivenUp \/ GivenUpReopened \/ CouponOrderRefunded
  BY <1>2, OthersCounted, PaidIsCounted, StaffCounted
<1>3. CASE UNCHANGED <<bill, coupons>>
  BY <1>3 DEF coupons, CouponsCounted, CapBoundsRedemptions, UnderWay, Submitted
<1>4. ASSUME ~(PriceOrder \/ CreateOrder \/ OrderRolledBack \/ \E v \in Visits : NextCustomer(v)),
             ~(\/ OthersCount \/ OthersCommit \/ OthersRollBack
               \/ CouponOrderPaid \/ CouponOrderGivenUp \/ GivenUpReopened \/ CouponOrderRefunded)
      PROVE  UNCHANGED <<bill, coupons>>
  BY <1>4 DEF Next, vars, coupons, device, Tick, EditCatalogue, EditOffer, Expire, OthersBrowse,
      LoadProducts, AddItem, UpdateQuantity, CartBecomes, AskForCoupon, ValidateCouponPreview,
      PreviewLands, RemoveCoupon
<1> QED
  BY <1>1, <1>2, <1>3, <1>4

LEMMA SellingHolds == Spec => [](PricesInv /\ CouponsCounted)
  BY PricesStart, PricesStay, CountingStarts, CountingGoesOn, PTL DEF Spec

-----------------------------------------------------------------------------
\* The theorems

\* Whatever hours staff configure, assertNoOverlap refuses a window beside
\* them exactly when the catalogue would find both open at one instant.
THEOREM WritersAndReadersAgree == Spec => []WriterAndReaderAgree
<1>1. PricesInv => WriterAndReaderAgree
  <2> SUFFICES ASSUME shop \in Shops, NEW p \in Products, shop.hours[p] # None
               PROVE  shop.hours[p] \subseteq ReadAsWritten
    BY DEF PricesInv, WorldIsTyped, WriterAndReaderAgree
  <2>1. shop.hours \in [Products -> (SUBSET Windows) \cup {None}]
    BY ConfiguredSoundly DEF ShopRecords
  <2>2. shop.hours[p] \in SUBSET Windows
    BY <2>1
  <2> QED
    BY <2>2, EveryWindowIsReadAsWritten
<1> QED
  BY <1>1, SellingHolds, PTL

\* coupon.service counts paid orders only, before the order is written: however
\* many customers order, pay, are written off, reopened and refunded, the limit is
\* exceeded by the orders that were under way when it was reached, at most.
THEOREM CapHoldsUpToOrdersUnderWay == Spec => []CapBoundsRedemptions
<1>1. CouponsCounted => CapBoundsRedemptions
  BY DEF CouponsCounted
<1> QED
  BY <1>1, SellingHolds, PTL

\* Every variable keeps its type: whatever staff configure, no price on a
\* menu, no coupon's discount and no total of an order is ever negative.
THEOREM SellingTyped == Spec => []TypeOK
<1>1. PricesInv /\ CouponsCounted => TypeOK
  <2> SUFFICES ASSUME PricesInv, CouponsCounted PROVE TypeOK
    OBVIOUS
  <2>1. ASSUME NEW s \in Sources, NEW l \in {page} \cup {cache[c] : c \in Sources}, l # None
        PROVE  l.asOf \in Origins /\ l.prices \in [DOMAIN l.prices -> Nat]
    BY <2>1 DEF PricesInv, ListingsAreHonest, ListingIsHonest
  <2>2. /\ DOMAIN cache = Sources /\ cart \in [Products -> Lines \cup {None}]
        /\ \A c \in {preview, applied} : c # None => c.cart \in [Products -> 0..MaxPieces]
        /\ applied # None => applied.discount \in Nat \ {0}
        /\ bill \in Bills \cup {None}
    BY DEF PricesInv, ListingsAreHonest, CartIsHonest, CouponsAreHonest, PromiseIsHonest,
           Quantities
  <2>3. {counted, open, givenUp, redeemed, overdraft} \subseteq Nat /\ UnderWay <= MaxUnderWay
    BY DEF CouponsCounted
  <2> QED
    BY <2>1, <2>2, <2>3 DEF PricesInv, WorldIsTyped, TypeOK
<1> QED
  BY <1>1, SellingHolds, PTL

\* An order is charged what the sheet showed: for any products, rates,
\* discounts and coupons, the Consumer's sum of discounted prices and the
\* server's subtotal less its discounts are one number, if both were made of
\* one configuration on one business day for one channel.
THEOREM CardIsAlwaysBill == Spec => CardIsBill
<1>1. PricesInv /\ [Next]_vars =>
          [/\ bill = None /\ bill' # None
           /\ OrderSource = DeriveSource(visit.claim, visit.seat)
           /\ \A p \in InCart : cart[p].asOf = Today
           /\ applied # None => applied.asOf = Today /\ applied.offer = offer
           => bill'.total = EstimatedTotal]_vars
  BY OnlyOrdersAreBilled, SheetAgreesWithServer DEF Served
<1> QED
  BY <1>1, PricesStart, PricesStay, PTL DEF Spec, CardIsBill
=============================================================================

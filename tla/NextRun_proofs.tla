--------------------------- MODULE NextRun_proofs ---------------------------
(***************************************************************************)
(* Proofs about NextRun, for every calendar: the months follow each other  *)
(* without a gap, and what calculate_next_run returns lies ahead, but      *)
(* between the local and the UTC midnight.                                 *)
(***************************************************************************)
EXTENDS NextRun, WellFoundedInduction, TLAPS

-----------------------------------------------------------------------------
(* The smallest number of a set.                                           *)

\* Every nonempty set of naturals has a least element.
LEMMA LeastOfNaturals ==
    ASSUME NEW T \in SUBSET Nat, T # {}
    PROVE  \E x \in T : \A y \in T : x <= y
<1>1. PICK x \in T : \A y \in T : ~(<<y, x>> \in OpToRel(<, Nat))
  BY WFMin, NatLessThanWellFounded
<1>2. ASSUME NEW y \in T PROVE x <= y
  <2>1. <<y, x>> \in OpToRel(<, Nat) <=> y < x
    BY DEF OpToRel
  <2>2. ~(y < x)
    BY <2>1, <1>1
  <2>3. QED
    BY <2>2
<1>3. QED
  BY <1>2

\* Min is that element.
LEMMA MinOfNaturals ==
    ASSUME NEW T \in SUBSET Nat, T # {}
    PROVE  Min(T) \in T /\ \A y \in T : Min(T) <= y
BY LeastOfNaturals DEF Min

-----------------------------------------------------------------------------
(* The calendar.                                                           *)

\* A month has 28 to 31 days.
LEMMA LengthBounds == \A k \in Nat \ {0} : Length(k) \in 28..31
BY DEF Length

\* f numbers the first days of the months 1..n.
Numbers(f, n) ==
    /\ f \in [1..n -> Nat]
    /\ f[1] = 0
    /\ \A k \in 2..n : f[k] = f[k - 1] + Length(k - 1)

\* The first n months can be numbered.
LEMMA NumberingExists == \A n \in Nat \ {0} : \E f : Numbers(f, n)
<1> DEFINE Bad == {n \in Nat \ {0} : ~\E f : Numbers(f, n)}
<1>1. SUFFICES ASSUME Bad # {} PROVE FALSE
  OBVIOUS
<1>2. PICK n \in Bad : \A m \in Bad : n <= m
  BY <1>1, LeastOfNaturals
<1>3. CASE n = 1
  <2>1. Numbers([k \in 1..1 |-> 0], 1)
    BY DEF Numbers
  <2>2. QED
    BY <1>2, <1>3, <2>1
<1>4. CASE n # 1
  <2>1. n \in Nat /\ n - 1 \in Nat \ {0} /\ ~(n - 1 \in Bad)
    BY <1>2, <1>4
  <2>2. PICK f : Numbers(f, n - 1)
    BY <2>1
  <2> DEFINE g == [k \in 1..n |-> IF k = n THEN f[n - 1] + Length(n - 1) ELSE f[k]]
  <2>3. Length(n - 1) \in Nat /\ f[n - 1] \in Nat
    BY <2>1, <2>2, LengthBounds DEF Numbers
  <2>4. g \in [1..n -> Nat]
    BY <2>1, <2>2, <2>3 DEF Numbers
  <2>5. g[1] = 0
    BY <2>1, <2>2 DEF Numbers
  <2>6. ASSUME NEW k \in 2..n PROVE g[k] = g[k - 1] + Length(k - 1)
    <3>1. k \in Nat /\ k - 1 \in 1..n /\ k - 1 # n /\ g[k - 1] = f[k - 1]
      BY <2>1, <2>6
    <3>2. CASE k = n
      BY <2>6, <3>1, <3>2
    <3>3. CASE k # n
      <4>1. k \in 2..(n - 1) /\ g[k] = f[k]
        BY <2>1, <2>6, <3>3
      <4>2. QED
        BY <2>2, <3>1, <4>1 DEF Numbers
    <3>4. QED
      BY <3>2, <3>3
  <2> HIDE DEF g
  <2>7. Numbers(g, n)
    BY <2>4, <2>5, <2>6 DEF Numbers
  <2>8. QED
    BY <1>2, <2>7
<1>5. QED
  BY <1>3, <1>4

\* In one way only.
LEMMA NumberingUnique ==
    ASSUME NEW m \in Nat, NEW n \in Nat, NEW f, NEW g, Numbers(f, m), Numbers(g, n)
    PROVE  \A k \in 1..m : k <= n => f[k] = g[k]
<1> DEFINE Bad == {k \in 1..m : k <= n /\ f[k] # g[k]}
<1>1. SUFFICES ASSUME Bad # {} PROVE FALSE
  OBVIOUS
<1>2. PICK k \in Bad : \A i \in Bad : k <= i
  <2>1. Bad \in SUBSET Nat
    OBVIOUS
  <2> HIDE DEF Bad
  <2>2. QED
    BY <1>1, <2>1, LeastOfNaturals
<1>3. k # 1
  BY <1>2 DEF Numbers
<1>4. k \in 2..m /\ k \in 2..n /\ k - 1 \in 1..m /\ k - 1 <= n /\ ~(k - 1 \in Bad)
  BY <1>2, <1>3
<1>5. f[k - 1] = g[k - 1]
  BY <1>4
<1>6. f[k] = f[k - 1] + Length(k - 1) /\ g[k] = g[k - 1] + Length(k - 1)
  BY <1>4 DEF Numbers
<1>7. QED
  BY <1>2, <1>5, <1>6

\* FirstDay numbers the first days of all months.
LEMMA FirstDayDef ==
    /\ FirstDay[1] = 0
    /\ \A k \in Nat \ {0} : /\ FirstDay[k] \in Nat
                            /\ FirstDay[k + 1] = FirstDay[k] + Length(k)
<1> DEFINE F == [k \in Nat \ {0} |-> (CHOOSE f : Numbers(f, k))[k]]
           next(f) == [k \in Nat \ {0} |-> IF k = 1 THEN 0
                                           ELSE f[k - 1] + Length(k - 1)]
<1>1. \A k \in Nat \ {0} : Numbers(CHOOSE f : Numbers(f, k), k)
  BY NumberingExists
<1>2. ASSUME NEW k \in Nat \ {0}
      PROVE  /\ F[k] \in Nat
             /\ F[k] = IF k = 1 THEN 0 ELSE F[k - 1] + Length(k - 1)
  <2> DEFINE f == CHOOSE f : Numbers(f, k)
  <2>1. Numbers(f, k) /\ F[k] = f[k]
    BY <1>1
  <2>2. CASE k = 1
    BY <2>1, <2>2 DEF Numbers
  <2>3. CASE k # 1
    <3> DEFINE g == CHOOSE g : Numbers(g, k - 1)
    <3>1. k - 1 \in Nat \ {0}
      BY <2>3
    <3>2. Numbers(g, k - 1) /\ F[k - 1] = g[k - 1]
      BY <1>1, <3>1
    <3> HIDE DEF f, g, F
    <3>3. f[k - 1] = g[k - 1]
      BY <2>1, <3>1, <3>2, NumberingUnique
    <3>4. f[k] = f[k - 1] + Length(k - 1) /\ f[k] \in Nat
      BY <2>1, <2>3 DEF Numbers
    <3>5. QED
      BY <2>1, <2>3, <3>2, <3>3, <3>4
  <2>4. QED
    BY <2>2, <2>3
<1>3. F = next(F)
  <2>1. \A k \in Nat \ {0} : F[k] = next(F)[k]
    BY <1>2
  <2>2. QED
    BY <2>1
<1> HIDE DEF F
<1>4. FirstDay = next(FirstDay)
  BY <1>3 DEF FirstDay
<1>5. FirstDay[1] = 0
  BY <1>4
<1>6. \A k \in Nat \ {0} : FirstDay[k + 1] = FirstDay[k] + Length(k)
  BY <1>4
<1>7. \A k \in Nat \ {0} : FirstDay[k] \in Nat
  <2> DEFINE Bad == {k \in Nat \ {0} : ~(FirstDay[k] \in Nat)}
  <2>1. SUFFICES ASSUME Bad # {} PROVE FALSE
    OBVIOUS
  <2>2. PICK k \in Bad : \A i \in Bad : k <= i
    BY <2>1, LeastOfNaturals
  <2>3. k # 1 /\ k \in Nat
    BY <1>5, <2>2
  <2>4. k - 1 \in Nat \ {0} /\ ~(k - 1 \in Bad)
    BY <2>2, <2>3
  <2>5. FirstDay[(k - 1) + 1] = FirstDay[k - 1] + Length(k - 1) /\ Length(k - 1) \in Nat
    BY <1>6, <2>4, LengthBounds
  <2>6. QED
    BY <2>2, <2>4, <2>5
<1>8. QED
  BY <1>5, <1>6, <1>7

\* The first days of the calendar's months, and of the month after them.
LEMMA FirstDaysDef ==
    /\ 12 * Years \in Nat \ {0}
    /\ FirstDays[1] = 0
    /\ \A k \in 1..(12 * Years + 1) : FirstDays[k] \in Nat
    /\ \A k \in Months : /\ Length(k) \in 28..31
                         /\ k + 1 \in 1..(12 * Years + 1)
                         /\ FirstDays[k + 1] = FirstDays[k] + Length(k)
<1>1. 12 * Years \in Nat \ {0}
  BY CalendarAssumption
<1>2. \A k \in 1..(12 * Years + 1) : k \in Nat \ {0} /\ FirstDays[k] = FirstDay[k]
  BY <1>1 DEF FirstDays
<1>3. 1 \in 1..(12 * Years + 1)
  BY <1>1
<1>4. ASSUME NEW k \in Months
      PROVE  /\ k \in 1..(12 * Years + 1) /\ k \in Nat \ {0}
             /\ k + 1 \in 1..(12 * Years + 1)
  BY <1>1 DEF Months
<1>5. QED
  BY <1>1, <1>2, <1>3, <1>4, FirstDayDef, LengthBounds

\* Months follow each other.
LEMMA MonthsFollow ==
    ASSUME NEW j \in 1..(12 * Years + 1), NEW i \in 1..j
    PROVE  /\ FirstDays[i] <= FirstDays[j]
           /\ i < j => FirstDays[i] + Length(i) <= FirstDays[j]
<1> DEFINE Bad == {k \in i..j : ~(FirstDays[i] <= FirstDays[k])
                                \/ ~(i < k => FirstDays[i] + Length(i) <= FirstDays[k])}
<1>1. SUFFICES ASSUME Bad # {} PROVE FALSE
  BY CalendarAssumption
<1>2. Bad \in SUBSET Nat
  BY CalendarAssumption
<1>3. PICK k \in Bad : \A h \in Bad : k <= h
  <2> HIDE DEF Bad
  <2> QED
    BY <1>1, <1>2, LeastOfNaturals
<1>4. i \in 1..(12 * Years + 1) /\ FirstDays[i] \in Nat /\ i \in Nat /\ j \in Nat
  BY FirstDaysDef
<1>5. k # i
  BY <1>3, <1>4
<1>6. k - 1 \in i..j /\ k - 1 \in Months /\ k \in Nat /\ ~(k - 1 \in Bad)
  BY <1>3, <1>4, <1>5, CalendarAssumption DEF Months
<1>7. /\ FirstDays[k] = FirstDays[k - 1] + Length(k - 1)
      /\ FirstDays[k - 1] \in Nat /\ Length(k - 1) \in Nat
  <2>1. (k - 1) + 1 = k /\ k - 1 \in 1..(12 * Years + 1)
    BY <1>6, FirstDaysDef DEF Months
  <2>2. QED
    BY <1>6, <2>1, FirstDaysDef
<1>8. /\ FirstDays[i] <= FirstDays[k - 1]
      /\ i < k - 1 => FirstDays[i] + Length(i) <= FirstDays[k - 1]
  BY <1>6
<1>9. Length(i) \in Nat
  BY <1>4, LengthBounds
<1>10. CASE i = k - 1
  BY <1>3, <1>4, <1>6, <1>7, <1>8, <1>10
<1>11. CASE i # k - 1
  <2>1. i < k - 1
    BY <1>4, <1>6, <1>11
  <2>2. FirstDays[i] <= FirstDays[k] /\ FirstDays[i] + Length(i) <= FirstDays[k]
    BY <1>4, <1>7, <1>8, <1>9, <2>1
  <2>3. QED
    BY <1>3, <2>2
<1>12. QED
  BY <1>10, <1>11

\* The month of a day, and the day of the month.
LEMMA MonthOfDay ==
    ASSUME NEW day, InCalendar(day)
    PROVE  /\ MonthOf[day] \in Months
           /\ FirstDays[MonthOf[day]] <= day /\ day < FirstDays[MonthOf[day] + 1]
           /\ DayOfMonth(day) \in 1..Length(MonthOf[day])
<1> DEFINE last == 12 * Years
           after == {k \in Months : day < FirstDays[k + 1]}
<1>1. last \in Months /\ day < FirstDays[last + 1] /\ day \in Nat
  <2>1. last \in Nat \ {0} /\ last + 1 \in 1..(12 * Years + 1)
    BY FirstDaysDef
  <2>2. FirstDays[last + 1] \in Nat
    BY <2>1, FirstDaysDef
  <2>3. QED
    BY <2>1, <2>2 DEF Months, InCalendar
<1>2. after \in SUBSET Nat /\ after # {}
  BY <1>1 DEF Months
<1>3. PICK k \in after : \A h \in after : k <= h
  <2> HIDE DEF after
  <2> QED
    BY <1>2, LeastOfNaturals
<1>4. k \in Months /\ day < FirstDays[k + 1] /\ FirstDays[k] <= day
  <2>1. CASE k = 1
    BY <1>1, <1>3, <2>1, FirstDaysDef
  <2>2. CASE k # 1
    <3>1. k - 1 \in Months /\ ~(k - 1 \in after) /\ (k - 1) + 1 = k /\ k \in Nat
      <4>1. k \in Months /\ k \in Nat /\ k - 1 \in Months
        BY <1>3, <2>2, CalendarAssumption DEF Months
      <4>2. ~(k - 1 >= k) /\ (k - 1) + 1 = k
        BY <4>1
      <4>3. QED
        BY <1>3, <4>1, <4>2
    <3>2. ~(day < FirstDays[k])
      BY <3>1
    <3>3. k \in 1..(12 * Years + 1)
      BY <1>3, FirstDaysDef DEF Months
    <3>4. FirstDays[k] \in Nat
      BY <3>3, FirstDaysDef
    <3>5. QED
      BY <1>1, <1>3, <3>2, <3>4
  <2>3. QED
    BY <2>1, <2>2
<1>5. MonthOf[day] = CHOOSE h \in Months : FirstDays[h] <= day /\ day < FirstDays[h + 1]
  BY DEF MonthOf, InCalendar
<1>6. /\ MonthOf[day] \in Months
      /\ FirstDays[MonthOf[day]] <= day /\ day < FirstDays[MonthOf[day] + 1]
  BY <1>4, <1>5
<1>7. DayOfMonth(day) \in 1..Length(MonthOf[day])
  <2> DEFINE m == MonthOf[day]
  <2>1. /\ m \in 1..(12 * Years + 1) /\ Length(m) \in Nat
        /\ FirstDays[m + 1] = FirstDays[m] + Length(m)
    BY <1>6, FirstDaysDef DEF Months
  <2>2. FirstDays[m] \in Nat
    BY <2>1, FirstDaysDef
  <2>3. FirstDays[m] <= day /\ day < FirstDays[m + 1]
    BY <1>6
  <2> HIDE DEF m
  <2>4. day - FirstDays[m] + 1 \in 1..Length(m)
    BY <1>1, <2>1, <2>2, <2>3
  <2>5. QED
    BY <2>4 DEF DayOfMonth, m
<1>8. QED
  BY <1>6, <1>7

-----------------------------------------------------------------------------
(* The next run.                                                           *)

\* Later than t; or, while the UTC date is behind the local one, the execution
\* time of the local day, which may have come.
Ahead(next, s, t) ==
    \/ next > t
    \/ UtcDay(t) < LocalDay(t) /\ next = At(LocalDay(t), s)

\* The two dates are at most a day apart.
LEMMA TwoDates ==
    ASSUME NEW t \in Nat
    PROVE  /\ LocalDay(t) \in Nat /\ UtcDay(t) \in Int /\ UtcDay(t) + 1 \in Nat
           /\ 4 * LocalDay(t) <= t /\ t < 4 * LocalDay(t) + 4
           /\ LocalDay(t) <= UtcDay(t) + 1 /\ UtcDay(t) <= LocalDay(t) + 1
<1>1. Offset \in Int /\ -3 <= Offset /\ Offset <= 3
  BY OffsetAssumption
<1>2. QED
  BY <1>1 DEF LocalDay, UtcDay

\* The execution time of a day after the UTC date is ahead.
LEMMA LaterDay ==
    ASSUME NEW t \in Nat, NEW s \in Schedule, NEW day \in Nat, day > UtcDay(t)
    PROVE  At(day, s) \in Nat /\ Ahead(At(day, s), s, t) /\ At(day, s) # Unset
<1>1. s.at \in 0..3
  BY DEF Schedule
<1>2. At(day, s) = 4 * day + s.at
  BY DEF At
<1>3. /\ LocalDay(t) \in Nat /\ UtcDay(t) \in Int
      /\ 4 * LocalDay(t) <= t /\ t < 4 * LocalDay(t) + 4
      /\ LocalDay(t) <= UtcDay(t) + 1 /\ UtcDay(t) <= LocalDay(t) + 1
  BY TwoDates
<1>4. At(day, s) \in Nat /\ At(day, s) # Unset
  BY <1>1, <1>2 DEF Unset
<1>5. CASE day > LocalDay(t)
  <2>1. At(day, s) > t
    BY <1>1, <1>2, <1>3, <1>5
  <2>2. QED
    BY <1>4, <2>1 DEF Ahead
<1>6. CASE ~(day > LocalDay(t))
  <2>1. day = LocalDay(t) /\ UtcDay(t) < LocalDay(t)
    BY <1>3, <1>6
  <2>2. QED
    BY <1>4, <2>1 DEF Ahead
<1>7. QED
  BY <1>5, <1>6

\* And of the day after that, it is later than t.
LEMMA MuchLaterDay ==
    ASSUME NEW t \in Nat, NEW s \in Schedule, NEW day \in Nat, day > UtcDay(t) + 1
    PROVE  At(day, s) \in Nat /\ At(day, s) > t
<1>1. s.at \in 0..3
  BY DEF Schedule
<1>2. /\ LocalDay(t) \in Nat /\ UtcDay(t) \in Int
      /\ 4 * LocalDay(t) <= t /\ t < 4 * LocalDay(t) + 4
      /\ LocalDay(t) <= UtcDay(t) + 1 /\ UtcDay(t) <= LocalDay(t) + 1
  BY TwoDates
<1>3. At(day, s) = 4 * day + s.at
  BY DEF At
<1>4. QED
  BY <1>1, <1>2, <1>3

\* The month of that time, from which next year's can be reached.
LEMMA MonthOfUtcDay ==
    ASSUME NEW t, HasSpareYear(t)
    PROVE  /\ InCalendar(UtcDay(t))
           /\ MonthOf[UtcDay(t)] \in Months /\ MonthOf[UtcDay(t)] + 12 \in Months
           /\ MonthOf[UtcDay(t)] + 1 \in Months
           /\ DayOfMonth(UtcDay(t)) \in 1..Length(MonthOf[UtcDay(t)])
           /\ UtcDay(t) = DayOf(MonthOf[UtcDay(t)], DayOfMonth(UtcDay(t)))
           /\ UtcDay(t) < FirstDays[MonthOf[UtcDay(t)] + 1]
<1> DEFINE top == 12 * Years + 1
           spare == 12 * Years - 11
           k == MonthOf[UtcDay(t)]
<1>1. top \in 1..top /\ spare \in 1..top /\ top \in Nat /\ spare \in Nat
  BY CalendarAssumption
<1>2. FirstDays[top] \in Nat /\ FirstDays[spare] \in Nat
  BY <1>1, FirstDaysDef
<1>3. FirstDays[spare] <= FirstDays[top]
  BY <1>1, MonthsFollow
<1>4. UtcDay(t) \in Nat /\ UtcDay(t) < FirstDays[spare]
  BY TwoDates DEF HasSpareYear
<1>5. InCalendar(UtcDay(t))
  BY <1>2, <1>3, <1>4 DEF InCalendar
<1>6. /\ k \in Months
      /\ FirstDays[k] <= UtcDay(t) /\ UtcDay(t) < FirstDays[k + 1]
      /\ DayOfMonth(UtcDay(t)) \in 1..Length(k)
  BY <1>5, MonthOfDay
<1>7. k \in 1..top /\ k \in Nat /\ k <= 12 * Years
  BY <1>6, CalendarAssumption DEF Months
<1>8. FirstDays[k] \in Nat
  BY <1>7, FirstDaysDef
<1>9. ~(spare <= k)
  <2>1. SUFFICES ASSUME spare <= k PROVE FALSE
    OBVIOUS
  <2>2. spare \in 1..k
    BY <1>1, <1>7, <2>1
  <2>3. FirstDays[spare] <= FirstDays[k]
    BY <1>7, <2>2, MonthsFollow
  <2>4. QED
    BY <1>2, <1>4, <1>6, <1>8, <2>3
<1>10. k + 12 \in Months /\ k + 1 \in Months
  BY <1>7, <1>9, CalendarAssumption DEF Months
<1>11. UtcDay(t) = DayOf(k, DayOfMonth(UtcDay(t)))
  <2> HIDE DEF k
  <2>1. DayOfMonth(UtcDay(t)) = UtcDay(t) - FirstDays[k] + 1
    BY DEF DayOfMonth, k
  <2>2. QED
    BY <1>4, <1>8, <2>1 DEF DayOf
<1>12. QED
  BY <1>5, <1>6, <1>10, <1>11

\* Every day of a later month is ahead.
LEMMA LaterMonth ==
    ASSUME NEW t, HasSpareYear(t), NEW j \in Months, MonthOf[UtcDay(t)] < j,
           NEW d \in Nat \ {0}
    PROVE  DayOf(j, d) \in Nat /\ DayOf(j, d) > UtcDay(t)
<1> DEFINE k == MonthOf[UtcDay(t)]
<1>1. k \in Months /\ k + 1 \in Months /\ UtcDay(t) < FirstDays[k + 1] /\ k < j
  BY MonthOfUtcDay
<1>2. j \in Nat /\ k \in Nat /\ j \in 1..(12 * Years + 1) /\ k + 1 \in 1..j
  BY <1>1, CalendarAssumption DEF Months
<1>3. k + 1 \in 1..(12 * Years + 1)
  BY <1>1, FirstDaysDef DEF Months
<1> HIDE DEF k
<1>4. FirstDays[k + 1] \in Nat /\ FirstDays[j] \in Nat
  BY <1>2, <1>3, FirstDaysDef
<1>5. FirstDays[k + 1] <= FirstDays[j]
  BY <1>2, MonthsFollow
<1>6. UtcDay(t) \in Nat
  BY TwoDates DEF HasSpareYear
<1>7. QED
  BY <1>1, <1>4, <1>5, <1>6 DEF DayOf

\* Cut to the length of its month, the day of the month still is one.
LEMMA ClampedDay ==
    ASSUME NEW k \in Months, NEW dom \in Nat \ {0}
    PROVE  \E d \in Nat \ {0} : Clamped(k, dom) = DayOf(k, d)
<1>1. Length(k) \in Nat \ {0}
  BY FirstDaysDef
<1>2. QED
  BY <1>1 DEF Clamped

\* A first run that lies ahead.
LEMMA FirstRunAhead ==
    ASSUME NEW t \in Nat, NEW s \in Schedule, StartsLater(s, t)
    PROVE  At(s.start, s) \in Nat /\ Ahead(At(s.start, s), s, t)
<1>1. s.start \in Nat /\ s.at \in 0..3
  BY DEF Schedule
<1>2. At(s.start, s) \in Nat
  BY <1>1 DEF At
<1>3. QED
  BY <1>1, <1>2, LaterDay DEF StartsLater, Ahead

\* Every day.
LEMMA DailyAhead ==
    ASSUME NEW t \in Nat, NEW s \in Schedule
    PROVE  NextDaily(s, t) \in Nat /\ Ahead(NextDaily(s, t), s, t)
<1>1. UtcDay(t) + 1 \in Nat /\ UtcDay(t) + 1 > UtcDay(t)
  BY TwoDates
<1>2. QED
  BY <1>1, LaterDay, FirstRunAhead DEF NextDaily

\* On days of the week: the next run is on one of the days chosen, and it is
\* the first of them after the UTC date, whatever date is local.
THEOREM WeeklyOnTheNextDay ==
    ASSUME NEW t \in Nat, NEW s \in Schedule, UtcDay(t) >= 0
    PROVE  /\ s.weekdays = {} => NextWeekly(s, t) = Unset
           /\ s.weekdays # {} =>
                 \E offset \in 1..7 :
                    /\ NextWeekly(s, t) = At(UtcDay(t) + offset, s)
                    /\ Weekday(UtcDay(t) + offset) \in s.weekdays
                    /\ \A o \in 1..(offset - 1) : Weekday(UtcDay(t) + o) \notin s.weekdays
<1> DEFINE wd == Weekday(UtcDay(t))
           ahead == {(w - wd) % 7 : w \in s.weekdays}
           offset == IF ahead \ {0} # {} THEN Min(ahead \ {0}) ELSE 7
<1>1. s.weekdays \in SUBSET (0..6)
  BY DEF Schedule
<1>2. UtcDay(t) \in Nat /\ wd \in 0..6 /\ wd = UtcDay(t) % 7
  <2>1. UtcDay(t) \in Int
    BY TwoDates
  <2>2. QED
    BY <2>1 DEF Weekday
<1>3. NextWeekly(s, t) = IF ahead = {} THEN Unset ELSE At(UtcDay(t) + offset, s)
  BY DEF NextWeekly
<1>4. ASSUME NEW w \in 0..6
      PROVE  /\ (w - wd) % 7 \in 0..6
             /\ (UtcDay(t) + ((w - wd) % 7)) % 7 = w
             /\ \A o \in 0..6 : (UtcDay(t) + o) % 7 = w => (w - wd) % 7 = o
  <2> HIDE DEF wd
  <2>1. (w - wd) % 7 = IF w >= wd THEN w - wd ELSE w - wd + 7
    BY <1>2
  <2>2. (UtcDay(t) + ((w - wd) % 7)) % 7 = w
    BY <1>2, <2>1
  <2>3. ASSUME NEW o \in 0..6, (UtcDay(t) + o) % 7 = w PROVE (w - wd) % 7 = o
    <3>1. (UtcDay(t) + o) % 7 = IF wd + o > 6 THEN wd + o - 7 ELSE wd + o
      BY <1>2
    <3>2. QED
      BY <1>2, <2>1, <2>3, <3>1
  <2>4. (w - wd) % 7 \in 0..6
    BY <1>2, <2>1
  <2>5. QED
    BY <2>2, <2>3, <2>4
<1>5. CASE s.weekdays = {}
  BY <1>3, <1>5
<1>6. CASE s.weekdays # {}
  <2>1. ahead # {} /\ ahead \ {0} \in SUBSET Nat
    BY <1>1, <1>4, <1>6
  \* A chosen day o days ahead is among those the next one is chosen from.
  <2>2. ASSUME NEW o \in 1..6, Weekday(UtcDay(t) + o) \in s.weekdays
        PROVE  o \in ahead \ {0}
    <3> DEFINE w == Weekday(UtcDay(t) + o)
    <3>1. w \in 0..6 /\ (UtcDay(t) + o) % 7 = w
      BY <1>1, <2>2 DEF Weekday
    <3> HIDE DEF w
    <3>2. (w - wd) % 7 = o
      BY <1>4, <3>1
    <3>3. w \in s.weekdays
      BY <2>2 DEF w
    <3>4. QED
      BY <3>2, <3>3
  <2> HIDE DEF ahead
  <2>3. CASE ahead \ {0} # {}
    <3>1. offset \in ahead \ {0} /\ \A o \in ahead \ {0} : offset <= o
      BY <2>1, <2>3, MinOfNaturals
    <3>2. PICK w \in s.weekdays : offset = (w - wd) % 7
      BY <3>1 DEF ahead
    <3> HIDE DEF offset
    <3>3. offset \in 1..6
      <4>1. offset \in 0..6 /\ offset # 0
        BY <1>1, <1>4, <3>1, <3>2
      <4>2. QED
        BY <4>1
    <3>4. Weekday(UtcDay(t) + offset) = w
      <4>1. (UtcDay(t) + offset) % 7 = w
        BY <1>1, <1>4, <3>2
      <4>2. QED
        BY <4>1 DEF Weekday
    <3>5. ASSUME NEW o \in 1..(offset - 1) PROVE Weekday(UtcDay(t) + o) \notin s.weekdays
      <4>1. o \in 1..6 /\ ~(offset <= o)
        BY <3>3
      <4>2. QED
        BY <2>2, <3>1, <4>1
    <3>6. QED
      BY <1>3, <1>6, <2>1, <3>2, <3>3, <3>4, <3>5
  <2>4. CASE ahead \ {0} = {}
    <3>1. offset = 7
      BY <2>4
    <3>2. PICK w \in s.weekdays : (w - wd) % 7 = 0
      BY <2>1, <2>4 DEF ahead
    <3> HIDE DEF offset
    <3>3. UtcDay(t) % 7 = w
      <4>1. (UtcDay(t) + 0) % 7 = w
        BY <1>1, <1>4, <3>2
      <4>2. UtcDay(t) + 0 = UtcDay(t)
        BY <1>2
      <4>3. QED
        BY <4>1, <4>2
    <3>4. (UtcDay(t) + 7) % 7 = UtcDay(t) % 7
      BY <1>2
    <3>5. \A o \in 1..6 : Weekday(UtcDay(t) + o) \notin s.weekdays
      BY <2>2, <2>4
    <3>6. QED
      BY <1>3, <1>6, <2>1, <3>1, <3>2, <3>3, <3>4, <3>5 DEF Weekday
  <2>5. QED
    BY <2>3, <2>4
<1>7. QED
  BY <1>5, <1>6

\* On a day of the month: it is a day of that number, or the last day of a month
\* too short for it, in the UTC date's month or the next, after the UTC date; and no
\* day of that number after the UTC date is passed over.
THEOREM MonthlyOnTheNextDay ==
    ASSUME NEW t, HasSpareYear(t), NEW s \in Schedule
    PROVE  \E k \in Months, d \in 1..31 :
              /\ k \in MonthOf[UtcDay(t)]..(MonthOf[UtcDay(t)] + 1)
              /\ d = s.dayOfMonth \/ (d = Length(k) /\ d < s.dayOfMonth)
              /\ NextMonthly(s, t) = At(DayOf(k, d), s)
              /\ DayOf(k, d) \in Nat /\ DayOf(k, d) > UtcDay(t)
              /\ \A j \in MonthOf[UtcDay(t)]..(MonthOf[UtcDay(t)] + 1) :
                    s.dayOfMonth <= Length(j) /\ DayOf(j, s.dayOfMonth) > UtcDay(t)
                        => DayOf(k, d) <= DayOf(j, s.dayOfMonth)
<1> DEFINE k == MonthOf[UtcDay(t)]
           dom == DayOfMonth(UtcDay(t))
           target == IF dom >= s.dayOfMonth THEN k + 1 ELSE k
           day == IF s.dayOfMonth <= Length(target) THEN DayOf(target, s.dayOfMonth)
                                                    ELSE Clamped(k + 1, s.dayOfMonth)
<1>1. /\ k \in Months /\ k + 1 \in Months
      /\ dom \in 1..Length(k) /\ UtcDay(t) = DayOf(k, dom)
  BY MonthOfUtcDay
<1>2. k \in Nat \ {0} /\ Length(k) \in 28..31 /\ Length(k + 1) \in 28..31
  BY <1>1, CalendarAssumption, FirstDaysDef DEF Months
<1>3. s.dayOfMonth \in 1..31
  BY DEF Schedule
<1>4. NextMonthly(s, t) = At(day, s)
  BY DEF NextMonthly
<1>5. FirstDays[k] \in Nat /\ FirstDays[k + 1] = FirstDays[k] + Length(k)
  <2>1. k \in 1..(12 * Years + 1)
    BY <1>1, CalendarAssumption DEF Months
  <2>2. QED
    BY <1>1, <2>1, FirstDaysDef
<1> HIDE DEF k, dom
<1>6. FirstDays[k + 1] \in Nat
  BY <1>2, <1>5
<1>7. ASSUME NEW d \in 1..31 PROVE DayOf(k + 1, d) \in Nat /\ DayOf(k + 1, d) > UtcDay(t)
  <2>1. MonthOf[UtcDay(t)] < k + 1
    BY <1>2 DEF k
  <2>2. QED
    BY <1>1, <2>1, LaterMonth
\* A day chosen in month j that is not after the day of that number.
<1>8. ASSUME NEW j \in {k, k + 1}, NEW d \in 1..31, day = DayOf(j, d),
             d = s.dayOfMonth \/ (d = Length(j) /\ d < s.dayOfMonth),
             DayOf(j, d) \in Nat, DayOf(j, d) > UtcDay(t),
             \A i \in {k, k + 1} : s.dayOfMonth <= Length(i)
                 /\ DayOf(i, s.dayOfMonth) > UtcDay(t) => DayOf(j, d) <= DayOf(i, s.dayOfMonth)
      PROVE  \E h \in Months, e \in 1..31 :
                /\ h \in k..(k + 1)
                /\ e = s.dayOfMonth \/ (e = Length(h) /\ e < s.dayOfMonth)
                /\ NextMonthly(s, t) = At(DayOf(h, e), s)
                /\ DayOf(h, e) \in Nat /\ DayOf(h, e) > UtcDay(t)
                /\ \A i \in k..(k + 1) :
                      s.dayOfMonth <= Length(i) /\ DayOf(i, s.dayOfMonth) > UtcDay(t)
                          => DayOf(h, e) <= DayOf(i, s.dayOfMonth)
  <2>1. k..(k + 1) = {k, k + 1} /\ j \in Months
    BY <1>1, <1>2
  <2>2. NextMonthly(s, t) = At(DayOf(j, d), s)
    BY <1>4, <1>8
  <2> HIDE DEF day
  <2>3. QED
    BY <1>8, <2>1, <2>2
\* In the next month.
<1>9. ASSUME dom >= s.dayOfMonth \/ s.dayOfMonth > Length(k),
             day = Clamped(k + 1, s.dayOfMonth)
      PROVE  \E d \in 1..31 :
                /\ day = DayOf(k + 1, d)
                /\ d = s.dayOfMonth \/ (d = Length(k + 1) /\ d < s.dayOfMonth)
                /\ \A i \in {k, k + 1} : s.dayOfMonth <= Length(i)
                      /\ DayOf(i, s.dayOfMonth) > UtcDay(t)
                          => DayOf(k + 1, d) <= DayOf(i, s.dayOfMonth)
  <2> HIDE DEF day
  <2>1. PICK d \in 1..31 :
          /\ day = DayOf(k + 1, d)
          /\ d = s.dayOfMonth \/ (d = Length(k + 1) /\ d < s.dayOfMonth)
    <3>1. CASE s.dayOfMonth <= Length(k + 1)
      <4>1. day = DayOf(k + 1, s.dayOfMonth)
        BY <1>2, <1>3, <1>9, <3>1 DEF Clamped
      <4>2. QED
        BY <1>3, <4>1
    <3>2. CASE s.dayOfMonth > Length(k + 1)
      <4>1. day = DayOf(k + 1, Length(k + 1))
        BY <1>9, <3>2 DEF Clamped
      <4>2. Length(k + 1) \in 1..31 /\ Length(k + 1) < s.dayOfMonth
        BY <1>2, <3>2
      <4>3. QED
        BY <4>1, <4>2
    <3>3. QED
      BY <1>2, <1>3, <3>1, <3>2
  <2>2. d <= s.dayOfMonth
    BY <1>2, <1>3, <2>1
  <2>3. DayOf(k + 1, d) <= DayOf(k + 1, s.dayOfMonth)
    BY <1>3, <1>6, <2>2 DEF DayOf
  <2>4. ~(s.dayOfMonth <= Length(k) /\ DayOf(k, s.dayOfMonth) > UtcDay(t))
    BY <1>1, <1>2, <1>3, <1>5, <1>9 DEF DayOf
  <2>5. QED
    BY <2>1, <2>3, <2>4
<1>10. CASE dom >= s.dayOfMonth \/ s.dayOfMonth > Length(k)
  <2>1. day = Clamped(k + 1, s.dayOfMonth)
    BY <1>1, <1>2, <1>3, <1>10 DEF Clamped
  <2> HIDE DEF day
  <2>2. PICK d \in 1..31 :
          /\ day = DayOf(k + 1, d)
          /\ d = s.dayOfMonth \/ (d = Length(k + 1) /\ d < s.dayOfMonth)
          /\ \A i \in {k, k + 1} : s.dayOfMonth <= Length(i)
                /\ DayOf(i, s.dayOfMonth) > UtcDay(t)
                    => DayOf(k + 1, d) <= DayOf(i, s.dayOfMonth)
    BY <1>9, <1>10, <2>1
  <2>3. DayOf(k + 1, d) \in Nat /\ DayOf(k + 1, d) > UtcDay(t)
    BY <1>7
  <2>4. QED
    BY <1>8, <2>2, <2>3 DEF k
<1>11. CASE dom < s.dayOfMonth /\ s.dayOfMonth <= Length(k)
  <2>1. day = DayOf(k, s.dayOfMonth)
    BY <1>1, <1>2, <1>3, <1>11
  <2> HIDE DEF day
  <2>2. DayOf(k, s.dayOfMonth) \in Nat /\ DayOf(k, s.dayOfMonth) > UtcDay(t)
    BY <1>1, <1>2, <1>3, <1>5, <1>11 DEF DayOf
  <2>3. DayOf(k, s.dayOfMonth) <= DayOf(k + 1, s.dayOfMonth)
    BY <1>2, <1>3, <1>5 DEF DayOf
  <2>4. \A i \in {k, k + 1} : DayOf(k, s.dayOfMonth) <= DayOf(i, s.dayOfMonth)
    BY <2>2, <2>3
  <2>5. QED
    BY <1>3, <1>8, <2>1, <2>2, <2>4 DEF k
<1>12. QED
  BY <1>1, <1>2, <1>3, <1>10, <1>11

\* The clamped days of the months are as far apart as the months.
LEMMA ClampedLater ==
    ASSUME NEW j \in Months, NEW i \in Months, i < j, NEW dom \in Nat \ {0}
    PROVE  /\ Clamped(i, dom) \in Nat /\ Clamped(j, dom) \in Nat
           /\ Clamped(i, dom) < FirstDays[i + 1]
           /\ Clamped(i, dom) < Clamped(j, dom)
<1>1. /\ i \in Nat \ {0} /\ j \in Nat \ {0} /\ j \in 1..(12 * Years + 1)
      /\ i \in 1..(12 * Years + 1) /\ i + 1 \in 1..j
  BY CalendarAssumption DEF Months
<1>2. /\ FirstDays[i] \in Nat /\ FirstDays[j] \in Nat
      /\ Length(i) \in 28..31 /\ Length(j) \in 28..31
      /\ FirstDays[i + 1] = FirstDays[i] + Length(i)
  BY <1>1, FirstDaysDef
<1>3. FirstDays[i + 1] <= FirstDays[j]
  BY <1>1, MonthsFollow
<1>4. PICK e \in 1..Length(i) : Clamped(i, dom) = DayOf(i, e)
  BY <1>2 DEF Clamped
<1>5. PICK d \in 1..Length(j) : Clamped(j, dom) = DayOf(j, d)
  BY <1>2 DEF Clamped
<1>6. QED
  BY <1>2, <1>3, <1>4, <1>5 DEF DayOf

\* The run of a report that runs every quarter is, once it has started by the UTC
\* date, the first one later than the clock among the days chosen of January,
\* April, July and October, cut to the length of the month: no quarter is passed
\* over, although calculate_next_run only looks at those of the UTC year and the
\* next, and the local year may be the one before or after it.
THEOREM QuarterlyOnTheNextQuarter ==
    ASSUME NEW t, HasSpareYear(t), NEW s \in Schedule, InCalendar(s.start)
    PROVE  /\ NextQuarterly(s, t) \in Nat /\ Ahead(NextQuarterly(s, t), s, t)
           /\ StartsLater(s, t) => NextQuarterly(s, t) = At(s.start, s)
           /\ ~StartsLater(s, t) =>
                 /\ NextQuarterly(s, t) > t
                 /\ \E q \in Months :
                       /\ q % 3 = 1
                       /\ NextQuarterly(s, t) = At(Clamped(q, DayOfMonth(s.start)), s)
                 /\ \A q \in Months :
                       q % 3 = 1 /\ At(Clamped(q, DayOfMonth(s.start)), s) > t
                          => NextQuarterly(s, t) <= At(Clamped(q, DayOfMonth(s.start)), s)
<1> DEFINE k == MonthOf[UtcDay(t)]
           thisYear == Year(k)
           dom == DayOfMonth(s.start)
           quarters == {q \in Months : q % 3 = 1 /\ Year(q) \in {thisYear, thisYear + 1}}
           candidates == {At(Clamped(q, dom), s) : q \in quarters}
           coming == {c \in candidates : c > t}
           january == 12 * Year(k) + 1
           april == january + 3
<1>1. k \in Months /\ k + 12 \in Months /\ t \in Nat
  BY MonthOfUtcDay DEF HasSpareYear
<1>2. k \in Nat \ {0} /\ thisYear \in Nat
  BY <1>1, CalendarAssumption DEF Months, Year
<1>3. dom \in Nat \ {0}
  <2>1. MonthOf[s.start] \in Months /\ dom \in 1..Length(MonthOf[s.start])
    BY MonthOfDay
  <2>2. Length(MonthOf[s.start]) \in Nat
    BY <2>1, FirstDaysDef
  <2>3. QED
    BY <2>1, <2>2
<1>4. /\ january \in Months /\ january > k /\ january \in Nat
      /\ april \in Months /\ april % 3 = 1 /\ Year(april) = thisYear + 1
  <2> DEFINE past == (k - 1) \div 12
  <2>1. past \in Nat /\ 12 * past <= k - 1 /\ k - 1 < 12 * past + 12
    BY <1>2
  <2>2. Year(k) = past + 1
    BY DEF Year
  <2> HIDE DEF past, k
  <2>3. january = 12 * past + 13
    BY <2>1, <2>2
  <2>4. january > k /\ april % 3 = 1
    BY <1>2, <2>1, <2>3
  <2>5. (april - 1) \div 12 = past + 1
    BY <2>1, <2>3
  <2>6. k + 12 \in Nat /\ k + 12 <= 12 * Years /\ Years \in Nat
    BY <1>1, <1>2, CalendarAssumption DEF Months
  <2>7. past + 2 <= Years
    BY <2>1, <2>6, <1>2
  <2>8. january \in Nat /\ january \in Months /\ april \in Months
    BY <2>1, <2>3, <2>6, <2>7 DEF Months
  <2>9. Year(april) = thisYear + 1
    BY <2>2, <2>5 DEF Year
  <2>10. QED
    BY <2>4, <2>8, <2>9
<1>5. april \in quarters
  BY <1>4
<1> HIDE DEF quarters, dom
<1>6. At(Clamped(april, dom), s) \in coming
  <2>1. PICK d \in Nat \ {0} : Clamped(april, dom) = DayOf(april, d)
    BY <1>3, <1>4, ClampedDay
  \* January lies between, so that it does not matter which date has begun.
  <2>2. DayOf(january, 1) \in Nat /\ DayOf(january, 1) > UtcDay(t)
    BY <1>4, LaterMonth
  <2>3. /\ january \in 1..(12 * Years + 1) /\ april \in 1..(12 * Years + 1)
        /\ january \in 1..april /\ january < april
    BY <1>4, CalendarAssumption DEF Months
  <2>4. /\ FirstDays[january] \in Nat /\ FirstDays[april] \in Nat
        /\ Length(january) \in 28..31
    BY <1>4, <2>3, FirstDaysDef
  <2>5. FirstDays[january] + Length(january) <= FirstDays[april]
    BY <2>3, MonthsFollow
  <2>6. UtcDay(t) \in Int
    BY <1>1, TwoDates
  <2> HIDE DEF january, april
  <2>7. DayOf(april, d) \in Nat /\ DayOf(april, d) > UtcDay(t) + 1
    BY <2>2, <2>4, <2>5, <2>6 DEF DayOf
  <2>8. At(Clamped(april, dom), s) > t
    BY <1>1, <2>1, <2>7, MuchLaterDay
  <2>9. QED
    BY <1>5, <2>8
<1>7. coming \in SUBSET Nat
  <2>1. ASSUME NEW q \in quarters PROVE At(Clamped(q, dom), s) \in Nat
    <3>1. q \in Months
      BY DEF quarters
    <3>2. PICK d \in Nat \ {0} : Clamped(q, dom) = DayOf(q, d)
      BY <1>3, <3>1, ClampedDay
    <3>3. FirstDays[q] \in Nat
      <4>1. q \in 1..(12 * Years + 1)
        BY <3>1, CalendarAssumption DEF Months
      <4>2. QED
        BY <4>1, FirstDaysDef
    <3>4. s.at \in 0..3
      BY DEF Schedule
    <3>5. QED
      BY <3>2, <3>3, <3>4 DEF DayOf, At
  <2>2. QED
    BY <2>1
<1>8. NextQuarterly(s, t) = IF StartsLater(s, t) THEN At(s.start, s) ELSE Min(coming)
  BY DEF NextQuarterly, quarters, dom
<1> HIDE DEF coming
<1>9. Min(coming) \in coming /\ \A c \in coming : Min(coming) <= c
  BY <1>6, <1>7, MinOfNaturals
<1>10. Min(coming) \in Nat /\ Min(coming) > t
  BY <1>7, <1>9 DEF coming
<1>11. \E q \in Months : q % 3 = 1 /\ Min(coming) = At(Clamped(q, dom), s)
  BY <1>9 DEF coming, quarters
\* The quarters of other years are over, or come after January of next year.
<1>12. ASSUME NEW q \in Months, q % 3 = 1, At(Clamped(q, dom), s) > t
       PROVE  Min(coming) <= At(Clamped(q, dom), s)
  <2>1. q \in Nat \ {0} /\ Year(q) \in Nat
    BY CalendarAssumption DEF Months, Year
  <2>2. CASE q \in quarters
    <3>1. At(Clamped(q, dom), s) \in coming
      BY <1>12, <2>2 DEF coming
    <3>2. QED
      BY <1>9, <3>1
  \* A quarter of an earlier year ends two months and more before this month.
  <2>3. CASE q + 1 < k
    <3>1. /\ q + 1 \in Months /\ q < q + 1
          /\ k \in 1..(12 * Years + 1) /\ q + 1 \in 1..k
          /\ q + 1 \in 1..(12 * Years + 1)
      BY <1>1, <1>2, <2>1, <2>3, CalendarAssumption DEF Months
    <3>2. /\ Clamped(q, dom) \in Nat /\ Clamped(q, dom) < FirstDays[q + 1]
      BY <1>3, <3>1, ClampedLater
    <3>3. FirstDays[q + 1] + Length(q + 1) <= FirstDays[k]
      BY <2>3, <3>1, MonthsFollow
    <3>4. /\ FirstDays[q + 1] \in Nat /\ FirstDays[k] \in Nat
          /\ Length(q + 1) \in 28..31
      BY <3>1, FirstDaysDef
    <3>5. UtcDay(t) \in Nat /\ FirstDays[k] <= UtcDay(t)
      <4>1. UtcDay(t) = DayOf(k, DayOfMonth(UtcDay(t)))
            /\ DayOfMonth(UtcDay(t)) \in 1..Length(k)
        BY MonthOfUtcDay
      <4>2. Length(k) \in Nat
        BY <1>1, FirstDaysDef
      <4>3. QED
        BY <1>1, <3>4, <4>1, <4>2 DEF DayOf
    <3>6. Clamped(q, dom) + 1 < UtcDay(t)
      BY <3>2, <3>3, <3>4, <3>5
    <3>7. s.at \in 0..3
      BY DEF Schedule
    <3>8. ~(At(Clamped(q, dom), s) > t)
      <4>1. /\ LocalDay(t) \in Nat /\ UtcDay(t) \in Int
            /\ 4 * LocalDay(t) <= t /\ t < 4 * LocalDay(t) + 4
            /\ LocalDay(t) <= UtcDay(t) + 1 /\ UtcDay(t) <= LocalDay(t) + 1
        BY <1>1, TwoDates
      <4>2. At(Clamped(q, dom), s) = 4 * Clamped(q, dom) + s.at
        BY DEF At
      <4>3. QED
        BY <1>1, <3>2, <3>6, <3>7, <4>1, <4>2
    <3>9. QED
      BY <1>12, <3>8
  <2>4. CASE q > april
    <3>1. /\ Clamped(april, dom) \in Nat /\ Clamped(q, dom) \in Nat
          /\ Clamped(april, dom) < Clamped(q, dom)
      BY <1>3, <1>4, <2>4, ClampedLater
    <3>2. s.at \in 0..3
      BY DEF Schedule
    <3>3. /\ At(Clamped(april, dom), s) < At(Clamped(q, dom), s)
          /\ At(Clamped(april, dom), s) \in Nat /\ At(Clamped(q, dom), s) \in Nat
      BY <3>1, <3>2 DEF At
    <3>4. Min(coming) <= At(Clamped(april, dom), s)
      BY <1>6, <1>9
    <3>5. QED
      BY <1>10, <3>3, <3>4
  <2>5. q \notin quarters => q + 1 < k \/ q > april
    <3> DEFINE past == (k - 1) \div 12
               then == (q - 1) \div 12
    <3>1. past \in Nat /\ 12 * past <= k - 1 /\ k - 1 < 12 * past + 12
      BY <1>2
    <3>2. then \in Nat /\ 12 * then <= q - 1 /\ q - 1 < 12 * then + 12
      BY <2>1
    <3>3. thisYear = past + 1 /\ Year(q) = then + 1
      BY DEF Year
    <3>4. april = 12 * past + 16
      BY <3>1, <3>3
    <3>5. q \notin quarters => Year(q) # thisYear /\ Year(q) # thisYear + 1
      BY <1>12 DEF quarters
    <3>6. q % 3 = 1
      BY <1>12
    <3> HIDE DEF past, then, thisYear, april, january, k
    <3>7. SUFFICES ASSUME then # past, then # past + 1
                   PROVE  q + 1 < k \/ q > april
      BY <3>1, <3>2, <3>3, <3>5
    <3>8. CASE then < past
      BY <3>1, <3>2, <3>6, <3>8, <2>1, <1>2
    <3>9. CASE then > past + 1
      \* The last January before April of the year after next is 12 months later.
      <4>1. q >= 12 * past + 25
        BY <3>1, <3>2, <3>9, <2>1
      <4>2. QED
        BY <3>1, <3>4, <4>1, <2>1
    <3>10. QED
      BY <3>1, <3>2, <3>7, <3>8, <3>9
  <2>6. QED
    BY <2>2, <2>3, <2>4, <2>5
<1>13. CASE StartsLater(s, t)
  BY <1>1, <1>8, <1>13, FirstRunAhead
<1>14. CASE ~StartsLater(s, t)
  <2>1. NextQuarterly(s, t) = Min(coming)
    BY <1>8, <1>14
  <2>2. QED
    BY <1>10, <1>11, <1>12, <1>14, <2>1 DEF dom, Ahead
<1>15. QED
  BY <1>13, <1>14

\* Every year: the UTC date's day of the same month.
LEMMA YearlyAhead ==
    ASSUME NEW t, HasSpareYear(t), NEW s \in Schedule
    PROVE  /\ NextYearly(s, t) \in Nat /\ Ahead(NextYearly(s, t), s, t)
           /\ NextYearly(s, t) # Unset
<1> DEFINE k == MonthOf[UtcDay(t)]
           dom == DayOfMonth(UtcDay(t))
<1>1. k \in Months /\ k + 12 \in Months /\ dom \in 1..Length(k) /\ t \in Nat
  BY MonthOfUtcDay DEF HasSpareYear
<1>2. k < k + 12 /\ dom \in Nat \ {0}
  BY <1>1, FirstDaysDef, CalendarAssumption DEF Months
<1>3. DayOf(k + 12, dom) \in Nat /\ DayOf(k + 12, dom) > UtcDay(t)
  BY <1>1, <1>2, LaterMonth
<1>4. NextYearly(s, t) = At(DayOf(k + 12, dom), s)
  BY DEF NextYearly
<1>5. QED
  BY <1>1, <1>3, <1>4, LaterDay

-----------------------------------------------------------------------------
\* Whenever calculate_next_run is called and whatever it has to go by: what it
\* returns for a report that runs more than once is None, or later than the clock,
\* or, between the local and the UTC midnight, the execution time of the local day
\* that has begun.  A single report is the exception: its day may have passed.
THEOREM NextRunIsAhead ==
    ASSUME NEW t, HasSpareYear(t), NEW s \in Schedule, InCalendar(s.start),
           NEW ran \in BOOLEAN
    PROVE  /\ CalculateNextRun(s, t, ran) \in Nat \cup {Unset}
           /\ s.frequency # "once" =>
                 \/ CalculateNextRun(s, t, ran) = Unset
                 \/ CalculateNextRun(s, t, ran) > t
                 \/ /\ UtcDay(t) < LocalDay(t)
                    /\ CalculateNextRun(s, t, ran) = At(LocalDay(t), s)
<1> DEFINE next == CalculateNextRun(s, t, ran)
<1> SUFFICES /\ next \in Nat \cup {Unset}
             /\ s.frequency # "once" => next = Unset \/ Ahead(next, s, t)
  BY DEF Ahead
<1>1. /\ t \in Nat /\ UtcDay(t) \in Nat /\ s.start \in Nat
      /\ s.frequency \in Frequencies /\ s.at \in 0..3
  BY TwoDates DEF HasSpareYear, Schedule
<1>2. CASE s.frequency = "once"
  <2>1. next = NextOnce(s, t, ran)
    BY <1>2 DEF CalculateNextRun
  <2>2. next \in Nat \cup {Unset}
    BY <1>1, <2>1 DEF NextOnce, At
  <2>3. QED
    BY <1>2, <2>2
<1>3. CASE s.frequency = "daily"
  <2>1. next = NextDaily(s, t)
    BY <1>3 DEF CalculateNextRun
  <2>2. QED
    BY <1>1, <2>1, DailyAhead
<1>4. CASE s.frequency = "weekly"
  <2>1. next = NextWeekly(s, t)
    BY <1>4 DEF CalculateNextRun
  <2>2. CASE s.weekdays = {}
    BY <1>1, <2>1, <2>2, WeeklyOnTheNextDay
  <2>3. CASE s.weekdays # {}
    <3>1. PICK offset \in 1..7 : NextWeekly(s, t) = At(UtcDay(t) + offset, s)
      BY <1>1, <2>3, WeeklyOnTheNextDay
    <3>2. UtcDay(t) + offset \in Nat /\ UtcDay(t) + offset > UtcDay(t)
      BY <1>1
    <3>3. QED
      BY <1>1, <2>1, <3>1, <3>2, LaterDay
  <2>4. QED
    BY <2>2, <2>3
<1>5. CASE s.frequency = "monthly"
  <2>1. next = NextMonthly(s, t)
    BY <1>5 DEF CalculateNextRun
  <2>2. PICK k \in Months, d \in 1..31 :
          /\ NextMonthly(s, t) = At(DayOf(k, d), s)
          /\ DayOf(k, d) \in Nat /\ DayOf(k, d) > UtcDay(t)
    BY MonthlyOnTheNextDay
  <2>3. QED
    BY <1>1, <2>1, <2>2, LaterDay
<1>6. CASE s.frequency = "quarterly"
  <2>1. next = NextQuarterly(s, t)
    BY <1>6 DEF CalculateNextRun
  <2>2. QED
    BY <2>1, QuarterlyOnTheNextQuarter
<1>7. CASE s.frequency = "yearly"
  <2>1. next = NextYearly(s, t)
    BY <1>7 DEF CalculateNextRun
  <2>2. QED
    BY <2>1, YearlyAhead
<1>8. QED
  BY <1>1, <1>2, <1>3, <1>4, <1>5, <1>6, <1>7 DEF Frequencies
=============================================================================

------------------------------ MODULE CronJobsProofs ------------------------------
(***************************************************************************)
(* Proofs about CronJobs, for any number of jobs, ticks, expressions, edits *)
(* and faults, and hours and days of any length.                           *)
(*                                                                         *)
(* calculateNextRunAt gives a later time unless a field is negative        *)
(* (NextIsLater).  For daily and periodic expressions the later time is    *)
(* the right one: a time is taken apart into days, hours, minutes and half *)
(* minutes (PartsOf, PartsMakeIt) and put together again.                  *)
(*                                                                         *)
(* A tick that holds a due time with a run is the one that triggered it    *)
(* (FiredInv), and a row stands at such a time only until that tick's      *)
(* write (LeftInv); both but for the due times that are excused.           *)
(***************************************************************************)
EXTENDS CronJobs, TLAPS

-----------------------------------------------------------------------------
(* The calculation of the next run. *)

\* Hours and days have a length.
LEMMA Lengths == MinutesPerHour \in Nat \ {0} /\ HoursPerDay \in Nat \ {0} /\ Hour \in Nat \ {0} /\ Day \in Nat \ {0}
                 /\ Hour = 2 * MinutesPerHour
<1>1. MinutesPerHour \in Nat \ {0} /\ HoursPerDay \in Nat \ {0}  BY CronAssumption
<1>2. Hour \in Nat \ {0} /\ Hour = 2 * MinutesPerHour  BY <1>1 DEF Hour
<1>3. Day \in Nat \ {0}  BY <1>1, <1>2 DEF Day
<1> QED  BY <1>1, <1>2, <1>3

\* What parts a time has.
LEMMA Parts ==
    ASSUME NEW t \in Nat
    PROVE  /\ MinuteOf(t) \in 0..(MinutesPerHour - 1) /\ 2 * MinuteOf(t) + (t % 2) <= t
           /\ HourOf(t) \in 0..(HoursPerDay - 1) /\ Hour * HourOf(t) <= t
<1> DEFINE m == t \div 2
           h == t \div Hour
<1>1. m \in Nat /\ 2 * m + (t % 2) = t  OBVIOUS
<1>2. h \in Nat /\ Hour * h <= t  BY Lengths
<1>3. m % MinutesPerHour \in 0..(MinutesPerHour - 1) /\ m % MinutesPerHour <= m
  <2> HIDE DEF m
  <2> QED  BY <1>1, Lengths
<1>4. h % HoursPerDay \in 0..(HoursPerDay - 1) /\ h % HoursPerDay <= h
  <2> HIDE DEF h
  <2> QED  BY <1>2, Lengths
<1>5. \A k \in Nat : k <= h => Hour * k <= Hour * h
  <2> HIDE DEF h
  <2> QED  BY <1>2, Lengths
<1>6. Hour * (h % HoursPerDay) <= t
  <2> DEFINE k == h % HoursPerDay
  <2> HIDE DEF h, k
  <2>1. k \in Nat /\ k <= h  BY <1>4 DEF k
  <2>2. Hour * k <= Hour * h  BY <1>5, <2>1
  <2> QED  BY <1>2, <2>1, <2>2, Lengths DEF k
<1> HIDE DEF m, h
<1>7. MinuteOf(t) = m % MinutesPerHour /\ HourOf(t) = h % HoursPerDay  BY DEF MinuteOf, HourOf, m, h
<1>8. t % 2 \in Nat  OBVIOUS
<1> QED  BY <1>1, <1>3, <1>4, <1>6, <1>7, <1>8, Lengths

\* The next step of a field is later, by no more than the step.
LEMMA NextStepIsNear ==
    ASSUME NEW k \in Nat, NEW n \in Nat \ {0}
    PROVE  NextStep(k, n) \in Nat /\ k < NextStep(k, n) /\ NextStep(k, n) <= k + n
BY DEF NextStep

\* The fields make a time of a time.
LEMMA FieldsMove ==
    ASSUME NEW f \in Field, NEW t \in Int
    PROVE  ApplyMinute(f, t) \in Int /\ ApplyHour(f, t) \in Int
<1>1. f.n \in Int /\ f.form \in {"any", "beyond", "at", "every"} /\ (f.form = "every" => f.n \in Nat \ {0})
  BY DEF Field
<1> DEFINE k == MinuteOf(t)
           h == HourOf(t)
           c == t % 2
           n == f.n
<1>2. k \in Int /\ h \in Int /\ c \in Int  BY Lengths DEF MinuteOf, HourOf
<1>3. ASSUME NEW m \in Int  PROVE SetMinutes(t, m) \in Int /\ SetHours(t, m) \in Int
  <2>1. SetMinutes(t, m) = t + 2 * m - 2 * k - c /\ SetHours(t, m) = t + Hour * m - Hour * h
    BY DEF SetMinutes, SetHours
  <2> HIDE DEF k, h, c
  <2> QED  BY <1>2, <2>1, Lengths
<1> HIDE DEF k, h, c
<1>4. CASE f.form = "every"
  <2>1. ASSUME NEW i \in Int  PROVE NextStep(i, n) \in Int
    <3>1. n \in Nat \ {0}  BY <1>1, <1>4
    <3> HIDE DEF n
    <3> QED  BY <3>1 DEF NextStep
  <2>2. NextStep(k, n) \in Int /\ NextStep(h, n) \in Int  BY <1>2, <2>1
  <2>3. ApplyMinute(f, t) = SetMinutes(t, NextStep(k, n)) /\ ApplyHour(f, t) = SetHours(t, NextStep(h, n))
    BY <1>4 DEF ApplyMinute, ApplyHour, k, h
  <2> HIDE DEF n
  <2> QED  BY <1>3, <2>2, <2>3
<1>5. CASE f.form = "at"  BY <1>1, <1>3, <1>5 DEF ApplyMinute, ApplyHour
<1>6. CASE f.form \notin {"every", "at"}  BY <1>6 DEF ApplyMinute, ApplyHour
<1> QED  BY <1>4, <1>5, <1>6

\* The next run is a time.
LEMMA NextIsTime ==
    ASSUME NEW e, e.minute \in Field, e.hour \in Field, NEW t \in Int
    PROVE  NextRunAt(e, t) \in Int
<1> DEFINE s == ApplyMinute(e.minute, t)
           u == ApplyHour(e.hour, s)
<1>1. s \in Int  BY FieldsMove
<1>2. u \in Int
  <2> HIDE DEF s
  <2> QED  BY <1>1, FieldsMove
<1>3. NextRunAt(e, t) = IF "beyond" \in {e.minute.form, e.hour.form} THEN t + Hour
                        ELSE IF u <= t THEN u + Day ELSE u
  BY DEF NextRunAt
<1> HIDE DEF s, u
<1> QED  BY <1>2, <1>3, Lengths

\* A minute's field that is not negative moves a time back by less than an hour, and on by
\* no more than its number says.
LEMMA MinuteMoves ==
    ASSUME NEW f \in Field, f.n \in Nat, NEW t \in Nat
    PROVE  LET s == ApplyMinute(f, t)
           IN s \in Nat /\ t < s + Hour /\ (f.n <= MinutesPerHour => s <= t + Hour)
<1>1. f.n \in Nat /\ f.form \in {"any", "beyond", "at", "every"} /\ (f.form = "every" => f.n # 0)  BY DEF Field
<1> DEFINE k == MinuteOf(t)
           c == t % 2
<1>2. k \in Nat /\ k <= MinutesPerHour - 1 /\ 2 * k + c <= t /\ c \in 0..1
  <2>1. k \in 0..(MinutesPerHour - 1) /\ 2 * k + c <= t  BY Parts
  <2>2. c \in 0..1  OBVIOUS
  <2> HIDE DEF k, c
  <2> QED  BY <2>1, <2>2, Lengths
<1>3. ASSUME NEW m \in Nat, m <= k + f.n
      PROVE  LET s == SetMinutes(t, m)
             IN s \in Nat /\ t < s + Hour /\ (f.n <= MinutesPerHour => s <= t + Hour)
  <2> HIDE DEF k, c
  <2>1. SetMinutes(t, m) = t + 2 * m - 2 * k - c  BY DEF SetMinutes, k, c
  <2> QED  BY <1>1, <1>2, <1>3, <2>1, Lengths
<1>4. CASE f.form = "every"
  <2>1. NextStep(k, f.n) \in Nat /\ NextStep(k, f.n) <= k + f.n
    <3> DEFINE n == f.n
    <3>1. k \in Nat /\ n \in Nat \ {0}  BY <1>1, <1>2, <1>4
    <3> HIDE DEF k, n
    <3>2. NextStep(k, n) \in Nat /\ NextStep(k, n) <= k + n  BY <3>1, NextStepIsNear
    <3> QED  BY <3>2 DEF n
  <2>2. ApplyMinute(f, t) = SetMinutes(t, NextStep(k, f.n))  BY <1>4 DEF ApplyMinute
  <2> HIDE DEF k
  <2> QED  BY <1>3, <2>1, <2>2
<1>5. CASE f.form = "at"
  <2>1. ApplyMinute(f, t) = SetMinutes(t, f.n)  BY <1>5 DEF ApplyMinute
  <2>2. f.n <= k + f.n  BY <1>1, <1>2
  <2> QED  BY <1>1, <1>3, <2>1, <2>2
<1>6. CASE f.form \notin {"every", "at"}
  <2>1. ApplyMinute(f, t) = t  BY <1>6 DEF ApplyMinute
  <2> QED  BY <2>1, Lengths
<1> QED  BY <1>4, <1>5, <1>6

\* An hour's field that is not negative moves a time back by less than a day.
LEMMA HourMoves ==
    ASSUME NEW f \in Field, f.n \in Nat, NEW t \in Nat
    PROVE  LET s == ApplyHour(f, t)
           IN s \in Nat /\ t <= s + Day - Hour /\ (f.n <= HoursPerDay => s <= t + Day)
<1>1. f.n \in Nat /\ f.form \in {"any", "beyond", "at", "every"} /\ (f.form = "every" => f.n # 0)  BY DEF Field
<1> DEFINE k == HourOf(t)
           H == Hour
           D == HoursPerDay
<1>2. k \in Nat /\ k <= D - 1 /\ H * k <= t /\ H \in Nat \ {0} /\ D \in Nat \ {0} /\ Day = D * H
  <2>1. k \in 0..(D - 1) /\ H * k <= t  BY Parts
  <2>2. H \in Nat \ {0} /\ D \in Nat \ {0} /\ Day = D * H  BY Lengths DEF Day
  <2> HIDE DEF k, H, D
  <2> QED  BY <2>1, <2>2
<1>3. ASSUME NEW m \in Nat, m <= k + f.n
      PROVE  LET s == SetHours(t, m)
             IN s \in Nat /\ t <= s + Day - H /\ (f.n <= D => s <= t + Day)
  <2>1. SetHours(t, m) = t + H * m - H * k  BY DEF SetHours
  <2> HIDE DEF k, H, D
  <2>2. H * m \in Nat /\ H * k \in Nat /\ D * H \in Nat /\ H * f.n \in Nat  BY <1>1, <1>2
  <2>3. H * k <= D * H - H
    <3>1. H * k <= H * (D - 1)  BY <1>2
    <3>2. H * (D - 1) = D * H - H  BY <1>2
    <3> QED  BY <1>2, <2>2, <3>1, <3>2
  <2>4. H * m <= H * k + H * f.n
    <3>1. H * m <= H * (k + f.n)  BY <1>1, <1>2, <1>3
    <3>2. H * (k + f.n) = H * k + H * f.n  BY <1>1, <1>2
    <3> QED  BY <3>1, <3>2
  <2>5. f.n <= D => H * f.n <= D * H  BY <1>1, <1>2
  <2> QED  BY <1>2, <2>1, <2>2, <2>3, <2>4, <2>5
<1>4. CASE f.form = "every"
  <2>1. NextStep(k, f.n) \in Nat /\ NextStep(k, f.n) <= k + f.n
    <3> DEFINE n == f.n
    <3>1. k \in Nat /\ n \in Nat \ {0}  BY <1>1, <1>2, <1>4
    <3> HIDE DEF k, n
    <3>2. NextStep(k, n) \in Nat /\ NextStep(k, n) <= k + n  BY <3>1, NextStepIsNear
    <3> QED  BY <3>2 DEF n
  <2>2. ApplyHour(f, t) = SetHours(t, NextStep(k, f.n))  BY <1>4 DEF ApplyHour
  <2> HIDE DEF k
  <2> QED  BY <1>3, <2>1, <2>2
<1>5. CASE f.form = "at"
  <2>1. ApplyHour(f, t) = SetHours(t, f.n)  BY <1>5 DEF ApplyHour
  <2>2. f.n <= k + f.n  BY <1>1, <1>2
  <2> QED  BY <1>1, <1>3, <2>1, <2>2
<1>6. CASE f.form \notin {"every", "at"}
  <2>1. ApplyHour(f, t) = t  BY <1>6 DEF ApplyHour
  <2>2. H <= D * H  BY <1>2
  <2> HIDE DEF H, D, k
  <2> QED  BY <1>2, <2>1, <2>2, Lengths DEF H
<1> QED  BY <1>4, <1>5, <1>6

\* The next run is later than now if no field is negative, and no later than a day and an
\* hour from now if the numbers of the fields are within the hour and the day.
LEMMA NextIsLater ==
    ASSUME NEW e, e.minute \in Field, e.hour \in Field, ~Backward(e), NEW t \in Nat
    PROVE  /\ NextRunAt(e, t) \in Nat /\ NextRunAt(e, t) > t
           /\ e.minute.n <= MinutesPerHour /\ e.hour.n <= HoursPerDay => NextRunAt(e, t) <= t + Day + Hour
<1> DEFINE s == ApplyMinute(e.minute, t)
           u == ApplyHour(e.hour, s)
<1>0. e.minute.n \in Nat /\ e.hour.n \in Nat
  <2>1. e.minute.n \in Int /\ e.hour.n \in Int  BY DEF Field
  <2> QED  BY <2>1 DEF Backward
<1>1. s \in Nat /\ t < s + Hour /\ (e.minute.n <= MinutesPerHour => s <= t + Hour)  BY <1>0, MinuteMoves
<1>2. u \in Nat /\ s <= u + Day - Hour /\ (e.hour.n <= HoursPerDay => u <= s + Day)
  <2> HIDE DEF s
  <2> QED  BY <1>0, <1>1, HourMoves
<1>3. NextRunAt(e, t) = IF "beyond" \in {e.minute.form, e.hour.form} THEN t + Hour
                        ELSE IF u <= t THEN u + Day ELSE u
  BY DEF NextRunAt
<1> HIDE DEF s, u
<1>4. NextRunAt(e, t) \in Nat /\ NextRunAt(e, t) > t  BY <1>1, <1>2, <1>3, Lengths
<1>5. e.minute.n <= MinutesPerHour /\ e.hour.n <= HoursPerDay => NextRunAt(e, t) <= t + Day + Hour
  BY <1>1, <1>2, <1>3, Lengths
<1> QED  BY <1>4, <1>5

\* The next run is in the future unless a field is negative, and within a day and an hour if
\* the numbers are those of an hour and a day, for hours and days of any length.
THEOREM NextAhead == Spec => []NextRunIsAhead
<1>1. NextRunIsAhead
  <2> SUFFICES ASSUME NEW e \in AllExpressions, NEW t \in SampleTimes
               PROVE  /\ NextRunAt(e, t) <= t => Backward(e)
                      /\ Proper(e) => NextRunAt(e, t) \in (t + 1)..(t + Day + Hour)
    BY DEF NextRunIsAhead
  <2>1. e.minute \in Minutes /\ e.hour \in Hours  BY DEF AllExpressions
  <2>2. e.minute \in Field /\ e.hour \in Field  BY <2>1, Lengths DEF Minutes, Hours, Field
  <2>3. t \in Nat  BY Lengths DEF SampleTimes
  <2> DEFINE n == NextRunAt(e, t)
  <2>4. n \in Int  BY <2>2, <2>3, NextIsTime
  <2>5. ~Backward(e) => n > t /\ (e.minute.n <= MinutesPerHour /\ e.hour.n <= HoursPerDay => n <= t + Day + Hour)
    BY <2>2, <2>3, NextIsLater
  <2>6. Proper(e) => ~Backward(e) /\ e.minute.n <= MinutesPerHour /\ e.hour.n <= HoursPerDay
    BY Lengths DEF Proper, Backward
  <2> HIDE DEF n
  <2>7. n <= t => Backward(e)  BY <2>3, <2>4, <2>5
  <2>8. Proper(e) => n \in (t + 1)..(t + Day + Hour)  BY <2>3, <2>4, <2>5, <2>6, Lengths
  <2> QED  BY <2>7, <2>8 DEF n
<1> QED  BY <1>1, PTL

-----------------------------------------------------------------------------
(* The schedules that the calculation gets right. *)

\* Quotient and remainder make up a number.
LEMMA Quotient ==
    ASSUME NEW a \in Nat, NEW b \in Nat \ {0}
    PROVE  /\ a \div b \in Nat /\ a % b \in 0..(b - 1)
           /\ a = b * (a \div b) + (a % b)
OBVIOUS

\* Multiples of b are b apart.
LEMMA Multiples ==
    ASSUME NEW b \in Nat \ {0}, NEW p \in Nat, NEW q \in Nat, p < q
    PROVE  b * p + b <= b * q
<1>1. b * (p + 1) <= b * q
  <2>1. p + 1 <= q  OBVIOUS
  <2> QED  BY <2>1
<1>2. b * (p + 1) = b * p + b
  OBVIOUS
<1> QED  BY <1>1, <1>2

\* A number is taken apart in one way only.
LEMMA QuotientIsUnique ==
    ASSUME NEW b \in Nat \ {0}, NEW q \in Nat, NEW r \in 0..(b - 1)
    PROVE  (b * q + r) \div b = q /\ (b * q + r) % b = r
<1> DEFINE a == b * q + r
           p == a \div b
           s == a % b
<1>1. a \in Nat  OBVIOUS
<1>2. p \in Nat /\ s \in 0..(b - 1) /\ b * q + r = b * p + s
  BY <1>1, Quotient
<1> HIDE DEF p, s
<1> HIDE DEF a
<1>3. ~(p < q)
  <2>1. p < q => b * p + b <= b * q  BY <1>2, Multiples
  <2>2. b * p \in Nat /\ b * q \in Nat  BY <1>2
  <2> QED  BY <1>2, <2>1, <2>2
<1>4. ~(q < p)
  <2>1. q < p => b * q + b <= b * p  BY <1>2, Multiples
  <2>2. b * p \in Nat /\ b * q \in Nat  BY <1>2
  <2> QED  BY <1>2, <2>1, <2>2
<1>5. p = q  BY <1>2, <1>3, <1>4
<1>6. s = r
  <2>1. b * q \in Nat  OBVIOUS
  <2> QED  BY <1>2, <1>5, <2>1
<1> QED  BY <1>5, <1>6 DEF a, p, s

\* A remainder by a multiple of n has the same remainder by n.
LEMMA RemainderByDivisor ==
    ASSUME NEW w \in Nat, NEW n \in Nat \ {0}, NEW b \in Nat \ {0}, b % n = 0
    PROVE  (w % b) % n = w % n
<1> DEFINE k == b \div n
           g == w \div b
           x == w % b
           q == x \div n
           r == x % n
<1>1. k \in Nat /\ b = n * k  BY Quotient
<1>2. g \in Nat /\ x \in Nat /\ w = b * g + x  BY Quotient
<1>3. q \in Nat /\ r \in 0..(n - 1) /\ x = n * q + r
  <2> HIDE DEF x
  <2> QED  BY <1>2, Quotient
<1> HIDE DEF k, g, q, r
<1> HIDE DEF x
<1>4. w = n * (k * g + q) + r
  <2>1. (n * k) * g = n * (k * g) /\ n * (k * g + q) = n * (k * g) + n * q /\ k * g \in Nat
    BY <1>1, <1>2, <1>3
  <2>2. n * (k * g) \in Nat /\ n * q \in Nat  BY <1>3, <2>1
  <2> QED  BY <1>1, <1>2, <1>3, <2>1, <2>2
<1>5. k * g + q \in Nat  BY <1>1, <1>2, <1>3
<1>6. w % n = r  BY <1>3, <1>4, <1>5, QuotientIsUnique
<1> QED  BY <1>6 DEF r, x

\* The parts of a time, put together ...
LEMMA PartsOf ==
    ASSUME NEW d \in Nat, NEW h \in 0..(HoursPerDay - 1), NEW m \in 0..(MinutesPerHour - 1),
           NEW c \in 0..1, NEW t, t = Day * d + Hour * h + 2 * m + c
    PROVE  t \in Nat /\ t % 2 = c /\ MinuteOf(t) = m /\ HourOf(t) = h
<1> DEFINE D == HoursPerDay
           M == MinutesPerHour
           g == D * d + h
           w == M * g + m
           r == 2 * m + c
<1>1. D \in Nat \ {0} /\ M \in Nat \ {0} /\ Hour = 2 * M /\ Hour \in Nat \ {0} /\ Day = D * Hour
  BY Lengths DEF Day
<1> HIDE DEF D, M
<1>2. g \in Nat /\ m \in 0..(M - 1) /\ h \in 0..(D - 1) /\ D * d \in Nat
  BY <1>1 DEF D, M
<1>3. Day * d + Hour * h = Hour * g
  <2>1. Day * d = Hour * (D * d)
    <3>1. (D * Hour) * d = Hour * (D * d)  BY <1>1
    <3> QED  BY <1>1, <3>1
  <2>2. Hour * (D * d + h) = Hour * (D * d) + Hour * h  BY <1>1, <1>2
  <2> QED  BY <2>1, <2>2
<1>4. g % D = h  BY <1>1, <1>2, QuotientIsUnique
<1> HIDE DEF g
<1>5. w \in Nat /\ w % M = m  BY <1>1, <1>2, QuotientIsUnique
<1>6. M * g \in Nat /\ Hour * g = 2 * (M * g)
  <2>1. (2 * M) * g = 2 * (M * g)  BY <1>1, <1>2
  <2> QED  BY <1>1, <1>2, <2>1
<1>7. t = 2 * w + c /\ t = Hour * g + r /\ r \in 0..(Hour - 1)
  BY <1>1, <1>2, <1>3, <1>6
<1> HIDE DEF w, r
<1>8. t \div 2 = w /\ t % 2 = c
  <2>1. 2 \in Nat \ {0} /\ c \in 0..(2 - 1)  OBVIOUS
  <2>2. (2 * w + c) \div 2 = w /\ (2 * w + c) % 2 = c  BY <1>5, <2>1, QuotientIsUnique
  <2> QED  BY <1>7, <2>2
<1>9. t \div Hour = g
  <2>1. (Hour * g + r) \div Hour = g  BY <1>1, <1>2, <1>7, QuotientIsUnique
  <2> QED  BY <1>7, <2>1
<1>10. MinuteOf(t) = m /\ HourOf(t) = h
  BY <1>4, <1>5, <1>8, <1>9 DEF MinuteOf, HourOf, M, D
<1>11. t \in Nat  BY <1>5, <1>7
<1> QED  BY <1>8, <1>10, <1>11

\* ... and taken apart.
LEMMA PartsMakeIt ==
    ASSUME NEW t \in Nat
    PROVE  \E d \in Nat : t = Day * d + Hour * HourOf(t) + 2 * MinuteOf(t) + (t % 2)
<1> DEFINE D == HoursPerDay
           M == MinutesPerHour
           w == t \div 2
           c == t % 2
           g == w \div M
           m == w % M
           d == g \div D
           h == g % D
<1>1. D \in Nat \ {0} /\ M \in Nat \ {0} /\ Hour = 2 * M /\ Hour \in Nat \ {0} /\ Day = D * Hour
  BY Lengths DEF Day
<1>2. w \in Nat /\ c \in 0..1 /\ t = 2 * w + c  BY Quotient
<1> HIDE DEF D, M, w, c
<1>3. g \in Nat /\ m \in 0..(M - 1) /\ w = M * g + m  BY <1>1, <1>2, Quotient
<1> HIDE DEF g, m
<1>4. d \in Nat /\ h \in 0..(D - 1) /\ g = D * d + h  BY <1>1, <1>3, Quotient
<1> HIDE DEF d, h
<1>5. M * g \in Nat /\ Hour * g = 2 * (M * g)
  <2>1. (2 * M) * g = 2 * (M * g)  BY <1>1, <1>3
  <2> QED  BY <1>1, <1>3, <2>1
<1>6. Hour * g = Day * d + Hour * h
  <2>1. Day * d = Hour * (D * d)
    <3>1. (D * Hour) * d = Hour * (D * d)  BY <1>1, <1>4
    <3> QED  BY <1>1, <3>1
  <2>2. Hour * (D * d + h) = Hour * (D * d) + Hour * h  BY <1>1, <1>4
  <2> QED  BY <1>4, <2>1, <2>2
<1>7. t = Day * d + Hour * h + 2 * m + c
  BY <1>1, <1>2, <1>3, <1>4, <1>5, <1>6
<1>8. MinuteOf(t) = m /\ HourOf(t) = h
  <2>1. m \in 0..(MinutesPerHour - 1) /\ h \in 0..(HoursPerDay - 1)  BY <1>3, <1>4 DEF M, D
  <2>2. d \in Nat /\ c \in 0..1  BY <1>2, <1>4
  <2>3. ASSUME NEW x, x = Day * d + Hour * h + 2 * m + c
        PROVE  MinuteOf(x) = m /\ HourOf(x) = h
    BY <2>1, <2>2, <2>3, PartsOf
  <2> QED  BY <1>7, <2>3
<1> QED  BY <1>4, <1>7, <1>8 DEF c

\* A minute of an hour, each day: the next run is today's or tomorrow's.
LEMMA DailyIsExact ==
    ASSUME NEW e, e.minute \in Field, e.hour \in Field, Daily(e), NEW t \in Nat
    PROVE  IsNextMatch(e, t, NextRunAt(e, t))
<1> DEFINE a == e.minute.n
           b == e.hour.n
           m == MinuteOf(t)
           h == HourOf(t)
           c == t % 2
           s == SetMinutes(t, a)
           u == SetHours(s, b)
<1>1. a \in 0..(MinutesPerHour - 1) /\ b \in 0..(HoursPerDay - 1)
  BY DEF Daily
<1>2. m \in 0..(MinutesPerHour - 1) /\ h \in 0..(HoursPerDay - 1) /\ c \in 0..1
  <2>1. c \in 0..1  OBVIOUS
  <2> QED  BY <2>1, Parts
<1>3. Hour \in Nat \ {0} /\ Day \in Nat \ {0} /\ Hour = 2 * MinutesPerHour
  BY Lengths
<1>4. PICK d \in Nat : t = Day * d + Hour * h + 2 * m + c
  BY PartsMakeIt
<1>5. NextRunAt(e, t) = IF u <= t THEN u + Day ELSE u
  BY DEF Daily, NextRunAt, ApplyMinute, ApplyHour
<1>7. ASSUME NEW k \in Nat
      PROVE  Matches(e, k) <=> k % 2 = 0 /\ MinuteOf(k) = a /\ HourOf(k) = b
  BY DEF Matches, Means, Daily
<1>8. s = t + 2 * a - 2 * m - c  BY DEF SetMinutes
<1>9. u = s + Hour * b - Hour * HourOf(s)  BY DEF SetHours
<1> HIDE DEF a, b, m, h, c, s, u
<1>10. Day * d \in Nat /\ Hour * h \in Nat /\ Hour * b \in Nat  BY <1>1, <1>2, <1>3
<1>11. HourOf(s) = h
  <2>1. s = Day * d + Hour * h + 2 * a + 0  BY <1>1, <1>2, <1>4, <1>8, <1>10
  <2> QED  BY <1>1, <1>2, <2>1, PartsOf
<1> DEFINE today == Hour * b + 2 * a
<1>12. u = Day * d + today
  BY <1>1, <1>2, <1>4, <1>8, <1>9, <1>10, <1>11
<1>13. today \in Nat /\ today < Day
  <2>1. Hour * b + Hour <= Hour * HoursPerDay  BY <1>1, <1>3, Lengths, Multiples
  <2>2. Hour * HoursPerDay = Day  BY <1>3, Lengths DEF Day
  <2> QED  BY <1>1, <1>3, <1>10, <2>1, <2>2, Lengths
<1>14. \A k \in Nat : Matches(e, Day * k + today)
  <2> TAKE k \in Nat
  <2> DEFINE x == Day * k + today
  <2>1. x = Day * k + Hour * b + 2 * a + 0  BY <1>1, <1>3, <1>10
  <2> HIDE DEF x
  <2>2. x \in Nat /\ x % 2 = 0 /\ MinuteOf(x) = a /\ HourOf(x) = b
    BY <1>1, <2>1, PartsOf
  <2>3. Matches(e, x)  BY <1>7, <2>2
  <2> QED  BY <2>3 DEF x
<1>15. \A x \in Nat : Matches(e, x) => \E k \in Nat : x = Day * k + today
  <2> SUFFICES ASSUME NEW x \in Nat, Matches(e, x) PROVE \E k \in Nat : x = Day * k + today
    OBVIOUS
  <2>1. PICK k \in Nat : x = Day * k + Hour * HourOf(x) + 2 * MinuteOf(x) + (x % 2)
    BY PartsMakeIt
  <2>2. Day * k \in Nat  BY <1>3
  <2>3. x = Day * k + today  BY <1>1, <1>7, <1>10, <2>1, <2>2
  <2> QED  BY <2>3
<1> HIDE DEF today
<1>16. Day * d <= t /\ t < Day * d + Day
  <2>1. Hour * h + Hour <= Hour * HoursPerDay  BY <1>2, <1>3, Lengths, Multiples
  <2>2. Hour * HoursPerDay = Day  BY <1>3, Lengths DEF Day
  <2> QED  BY <1>2, <1>3, <1>4, <1>10, <2>1, <2>2, Lengths
<1>17. CASE u > t
  <2>1. NextRunAt(e, t) = u /\ Matches(e, u)  BY <1>5, <1>10, <1>12, <1>13, <1>14, <1>17
  <2>2. ASSUME NEW x \in (t + 1)..(u - 1), Matches(e, x) PROVE FALSE
    <3>1. x \in Nat /\ t < x /\ x < u  BY <1>10, <1>12, <1>13, <2>2
    <3>2. PICK k \in Nat : x = Day * k + today  BY <1>15, <2>2, <3>1
    <3>3. Day * k \in Nat  BY <1>3
    <3>4. ~(k < d)
      <4>1. k < d => Day * k + Day <= Day * d  BY <1>3, Multiples
      <4> QED  BY <1>3, <1>10, <1>13, <1>16, <3>1, <3>2, <3>3, <4>1
    <3>5. d <= k => Day * d <= Day * k  BY <1>3
    <3> QED  BY <1>10, <1>12, <1>13, <3>1, <3>2, <3>3, <3>4, <3>5
  <2> QED  BY <1>17, <2>1, <2>2 DEF IsNextMatch
<1>18. CASE ~(u > t)
  <2> DEFINE next == u + Day
  <2>1. next = Day * (d + 1) + today
    <3>1. Day * (d + 1) = Day * d + Day  BY <1>3
    <3> QED  BY <1>3, <1>10, <1>12, <1>13, <3>1
  <2>2. NextRunAt(e, t) = next /\ Matches(e, next)
    <3>1. u <= t  BY <1>10, <1>12, <1>13, <1>18
    <3>2. d + 1 \in Nat  OBVIOUS
    <3> QED  BY <1>5, <1>14, <2>1, <3>1, <3>2
  <2>3. next \in Nat /\ t < next /\ next = Day * d + Day + today
    BY <1>3, <1>10, <1>12, <1>13, <1>16
  <2> HIDE DEF next
  <2>4. ASSUME NEW x \in (t + 1)..(next - 1), Matches(e, x) PROVE FALSE
    <3>1. x \in Nat /\ t < x /\ x < next  BY <2>3, <2>4
    <3>2. PICK k \in Nat : x = Day * k + today  BY <1>15, <2>4, <3>1
    <3>3. Day * k \in Nat  BY <1>3
    <3>4. k <= d => Day * k <= Day * d  BY <1>3
    <3>5. d < k => Day * d + Day <= Day * k  BY <1>3, Multiples
    <3> QED  BY <1>3, <1>10, <1>12, <1>13, <1>18, <2>3, <3>1, <3>2, <3>3, <3>4, <3>5
  <2> QED  BY <2>2, <2>3, <2>4 DEF IsNextMatch
<1> QED  BY <1>17, <1>18

\* Every n minutes, where n divides the hour: the next run is the next multiple of n.
LEMMA PeriodicIsExact ==
    ASSUME NEW e, e.minute \in Field, e.hour \in Field, Periodic(e), NEW t \in Nat
    PROVE  IsNextMatch(e, t, NextRunAt(e, t))
<1> DEFINE n == e.minute.n
           w == t \div 2
           c == t % 2
           q == w \div n
           r == w % n
           m == MinuteOf(t)
           u == SetMinutes(t, NextStep(m, n))
           next == n * (q + 1)
<1>1. n \in Nat \ {0} /\ MinutesPerHour \in Nat \ {0} /\ MinutesPerHour % n = 0
  <2>1. n \in Nat \ {0}  BY DEF Periodic, Field
  <2> QED  BY <2>1, Lengths DEF Periodic
<1>2. w \in Nat /\ c \in 0..1 /\ t = 2 * w + c  BY Quotient
<1>3. m = w % MinutesPerHour  BY DEF MinuteOf
<1>4. NextRunAt(e, t) = IF u <= t THEN u + Day ELSE u
  BY DEF Periodic, NextRunAt, ApplyMinute, ApplyHour
<1>5. ASSUME NEW k \in Nat
      PROVE  Matches(e, k) <=> k % 2 = 0 /\ MinuteOf(k) % n = 0
  BY DEF Matches, Means, Periodic
<1>6. u = t + 2 * (m + (n - (m % n))) - 2 * m - c
  BY DEF SetMinutes, NextStep
<1> HIDE DEF n, w, c, m, u
<1>7. m \in Nat /\ m % n = r
  <2>1. w % MinutesPerHour \in Nat  BY <1>1, <1>2, Quotient
  <2> QED  BY <1>1, <1>2, <1>3, <2>1, RemainderByDivisor, ZenonT(60)
<1>8. q \in Nat /\ r \in 0..(n - 1) /\ w = n * q + r
  BY <1>1, <1>2, Quotient
<1> HIDE DEF q, r
<1>9. n * q \in Nat /\ next = n * q + n /\ next \in Nat
  BY <1>1, <1>8
<1> HIDE DEF next
<1>10. u = 2 * next /\ u > t
  BY <1>1, <1>2, <1>6, <1>7, <1>8, <1>9
<1>11. \A x \in Nat : Matches(e, x) <=> \E k \in Nat : x = 2 * (n * k)
  <2> TAKE x \in Nat
  <2> DEFINE v == x \div 2
             z == x % 2
  <2>1. v \in Nat /\ z \in 0..1 /\ x = 2 * v + z  BY Quotient
  <2>2. MinuteOf(x) % n = v % n
    <3>1. MinuteOf(x) = v % MinutesPerHour  BY DEF MinuteOf
    <3> HIDE DEF v, z
    <3>2. (v % MinutesPerHour) % n = v % n  BY <1>1, <2>1, RemainderByDivisor, ZenonT(60)
    <3> QED  BY <3>1, <3>2
  <2>3. Matches(e, x) <=> z = 0 /\ v % n = 0  BY <1>5, <2>2
  <2> HIDE DEF v, z
  <2>4. ASSUME z = 0, v % n = 0 PROVE \E k \in Nat : x = 2 * (n * k)
    <3> DEFINE k == v \div n
    <3>1. k \in Nat /\ v = n * k + (v % n)  BY <1>1, <2>1, Quotient
    <3> HIDE DEF k
    <3>2. n * k \in Nat  BY <1>1, <3>1
    <3>3. x = 2 * (n * k)  BY <2>1, <2>4, <3>1, <3>2
    <3> QED  BY <3>1, <3>3
  <2>5. ASSUME NEW k \in Nat, x = 2 * (n * k) PROVE z = 0 /\ v % n = 0
    <3>1. n * k \in Nat  BY <1>1
    <3>2. v = n * k + 0 /\ z = 0  BY <2>1, <2>5, <3>1
    <3>3. 0 \in 0..(n - 1)  BY <1>1
    <3> QED  BY <1>1, <3>2, <3>3, QuotientIsUnique
  <2> QED  BY <2>3, <2>4, <2>5
<1>12. NextRunAt(e, t) = u /\ Matches(e, u)
  <2>1. NextRunAt(e, t) = u  BY <1>2, <1>4, <1>9, <1>10
  <2>2. u \in Nat /\ q + 1 \in Nat  BY <1>8, <1>9, <1>10
  <2> QED  BY <1>10, <1>11, <2>1, <2>2 DEF next
<1>13. ASSUME NEW x \in (t + 1)..(u - 1), Matches(e, x) PROVE FALSE
  <2>1. x \in Nat /\ t < x /\ x < u  BY <1>2, <1>9, <1>10, <1>13
  <2>2. PICK k \in Nat : x = 2 * (n * k)  BY <1>11, <1>13, <2>1
  <2>3. n * k \in Nat  BY <1>1
  <2>4. k <= q => n * k <= n * q  BY <1>1, <1>8
  <2>5. q < k => n * q + n <= n * k  BY <1>1, <1>8, Multiples
  <2> QED  BY <1>2, <1>8, <1>9, <1>10, <2>1, <2>2, <2>3, <2>4, <2>5
<1> QED  BY <1>10, <1>12, <1>13 DEF IsNextMatch

\* A daily schedule, and one every n minutes where n divides the hour, runs at the next
\* time its expression means: across the ends of hours and days, and for hours and days
\* of any length.
THEOREM ExactSchedules == Spec => []SimpleSchedulesAreExact
<1>1. SimpleSchedulesAreExact
  <2> SUFFICES ASSUME NEW e \in AllExpressions, NEW t \in SampleTimes, Daily(e) \/ Periodic(e)
               PROVE  IsNextMatch(e, t, NextRunAt(e, t))
    BY DEF SimpleSchedulesAreExact
  <2>1. e.minute \in Minutes /\ e.hour \in Hours  BY DEF AllExpressions
  <2>2. e.minute \in Field /\ e.hour \in Field  BY <2>1, Lengths DEF Minutes, Hours, Field
  <2>3. t \in Nat  BY Lengths DEF SampleTimes
  <2> QED  BY <2>2, <2>3, DailyIsExact, PeriodicIsExact
<1> QED  BY <1>1, PTL

-----------------------------------------------------------------------------
(* The invariant. *)

JobRow == [state : {"none", "on", "off", "removed"}, expr : Expressions, next : Int, basis : Expressions]

TypeInv ==
    /\ now \in 0..MaxTime /\ edits \in 0..MaxEdits /\ faults \in 0..MaxFaults
    /\ workflow \in [Jobs -> {"bare", "active", "deleted"}]
    /\ job \in [Jobs -> JobRow]
    /\ tick \in [Ticks -> TickState]
    /\ pending \subseteq Put
    /\ fired \subseteq Jobs \X Int /\ excused \subseteq Jobs \X Int

Updates(p) == tick[p].phase \in {"triggered", "write"}

\* What a tick holds: one row per job; the one it has triggered among them.
TickInv ==
    \A p \in Ticks :
      /\ \A x, y \in Handling(tick[p]) : x.id = y.id => x = y
      /\ Updates(p) => tick[p].row \in tick[p].todo

\* Two ticks do not hold the same due time, or it is excused.
HoldInv ==
    \A p, q \in Ticks : \A x \in Handling(tick[p]), y \in Handling(tick[q]) :
      p # q /\ Slot(x) = Slot(y) => Slot(x) \in excused

\* A tick that holds a due time for which a run was triggered is the one that triggered it.
FiredInv ==
    \A p \in Ticks : \A x \in Handling(tick[p]) :
      Slot(x) \in fired \ excused => Updates(p) /\ x = tick[p].row

\* A job stands at a due time for which a run was triggered only until that tick's update.
LeftInv ==
    \A j \in Jobs : <<j, job[j].next>> \in fired \ excused =>
      job[j].state = "removed" \/ \E p \in Ticks : Updates(p) /\ Slot(tick[p].row) = <<j, job[j].next>>

Inv == TypeInv /\ TickInv /\ HoldInv /\ FiredInv /\ LeftInv /\ again = {}

-----------------------------------------------------------------------------
(* Lemmas about ticks and rows. *)

\* An idle tick holds no row.
LEMMA IdleTick == Idle \in TickState /\ Handling(Idle) = {} /\ Idle.phase = "idle"
BY DEF Idle, TickState, Handling

\* What a tick holds in each of its phases.
LEMMA TickCases ==
    ASSUME NEW q \in TickState
    PROVE  /\ Handling(q) \subseteq Row
           /\ \/ q = Idle /\ q.phase = "idle"
              \/ q.phase = "rows" /\ Handling(q) = q.todo
              \/ q.phase = "triggered" /\ Handling(q) = q.todo /\ q.row \in Row
              \/ q.phase = "write" /\ Handling(q) = q.todo /\ q.row \in Row /\ q.next \in Int
<1>1. CASE q = Idle  BY <1>1, IdleTick
<1>2. CASE q \in [phase : {"rows"}, todo : SUBSET Row]  BY <1>2 DEF Handling
<1>3. CASE q \in [phase : {"triggered"}, todo : SUBSET Row, row : Row]  BY <1>3 DEF Handling
<1>4. CASE q \in [phase : {"write"}, todo : SUBSET Row, row : Row, next : Int]  BY <1>4 DEF Handling
<1> QED  BY <1>1, <1>2, <1>3, <1>4 DEF TickState

\* A tick goes on with rows, or ends.
Goes(T) == IF T = {} THEN Idle ELSE [phase |-> "rows", todo |-> T]

\* A tick that goes on with some rows holds them and updates none.
LEMMA GoesOn ==
    ASSUME NEW T, T \subseteq Row
    PROVE  Goes(T) \in TickState /\ Handling(Goes(T)) = T /\ Goes(T).phase \notin {"triggered", "write"}
<1>1. CASE T = {}  BY <1>1, IdleTick DEF Goes
<1>2. CASE T # {}
  <2> DEFINE g == [phase |-> "rows", todo |-> T]
  <2>1. g.phase = "rows" /\ g.todo = T /\ g \in [phase : {"rows"}, todo : SUBSET Row]  OBVIOUS
  <2>2. Goes(T) = g  BY <1>2 DEF Goes
  <2> HIDE DEF g
  <2> QED  BY <2>1, <2>2 DEF TickState, Handling
<1> QED  BY <1>1, <1>2

\* A tick that goes on is one with the rows left, or idle.
LEMMA GoForm ==
    ASSUME NEW p, NEW T, Go(p, T)
    PROVE  tick' = [tick EXCEPT ![p] = Goes(T)]
BY DEF Go, Goes

\* The rows a tick holds are rows.
LEMMA TickRows ==
    ASSUME Inv, NEW p \in Ticks, tick[p].phase \in {"rows", "triggered", "write"}
    PROVE  /\ Handling(tick[p]) = tick[p].todo /\ tick[p].todo \subseteq Row
           /\ Updates(p) => tick[p].row \in Row /\ tick[p].row \in tick[p].todo
           /\ tick[p].phase = "write" => tick[p].next \in Int
<1>1. tick[p] \in TickState  BY DEF Inv, TypeInv
<1> QED  BY <1>1, TickCases DEF Inv, TickInv, Updates

\* A row's slot is a job and a time.
LEMMA SlotType ==
    ASSUME NEW x \in Row
    PROVE  Slot(x) \in Jobs \X Int /\ Slot(x)[1] = x.id /\ Slot(x)[2] = x.next /\ x.id \in Jobs /\ x.next \in Int
           /\ x.expr \in Expressions /\ x.runnable \in BOOLEAN
BY DEF Slot, Row

\* The next run that is computed now is a time.
LEMMA NextNow ==
    ASSUME Inv, NEW e \in Expressions
    PROVE  NextRunAt(e, now) \in Int
<1>1. now \in Int  BY CronAssumption DEF Inv, TypeInv
<1>2. e.minute \in Field /\ e.hour \in Field  BY CronAssumption
<1> QED  BY <1>1, <1>2, NextIsTime

\* A row that is written excuses the due time it brings back; no other row changes.
LEMMA StoreRow ==
    ASSUME Inv, NEW j \in Jobs, NEW row \in JobRow, Store(j, row)
    PROVE  /\ job' = [job EXCEPT ![j] = row] /\ job' \in [Jobs -> JobRow]
           /\ fired' = fired /\ again' = again /\ excused \subseteq excused' /\ excused' \subseteq Jobs \X Int
           /\ \A i \in Jobs : <<i, job'[i].next>> \in fired \ excused' => i # j /\ job'[i] = job[i]
<1>1. /\ job' = [job EXCEPT ![j] = row] /\ excused' = excused \cup ({<<j, row.next>>} \cap fired)
      /\ fired' = fired /\ again' = again
  BY DEF Store
<1>2. job' \in [Jobs -> JobRow] /\ job'[j] = row /\ \A i \in Jobs \ {j} : job'[i] = job[i]
  BY <1>1 DEF Inv, TypeInv
<1>3. excused' \subseteq Jobs \X Int  BY <1>1 DEF Inv, TypeInv
<1> QED  BY <1>1, <1>2, <1>3

\* As long as tick p has not triggered a run, no job waits for its update.
LEMMA OthersUpdate ==
    ASSUME Inv, NEW p \in Ticks, ~Updates(p)
    PROVE  /\ \A x \in Handling(tick[p]) : Slot(x) \notin fired \ excused
           /\ \A j \in Jobs : <<j, job[j].next>> \in fired \ excused =>
                \/ job[j].state = "removed"
                \/ \E o \in Ticks \ {p} : Updates(o) /\ Slot(tick[o].row) = <<j, job[j].next>>
BY DEF Inv, FiredInv, LeftInv

\* A tick drops rows, without triggering one that is not excused.
LEMMA MoveKeeps ==
    ASSUME Inv, NEW p \in Ticks, NEW q \in TickState, tick' = [tick EXCEPT ![p] = q],
           q.phase \notin {"triggered", "write"}, Handling(q) \subseteq Handling(tick[p]),
           UNCHANGED <<now, workflow, pending, edits>>, faults' \in 0..MaxFaults,
           fired' \subseteq Jobs \X Int, excused \subseteq excused', excused' \subseteq Jobs \X Int, again' = {},
           fired' \ excused' \subseteq fired \ excused, job' \in [Jobs -> JobRow],
           \A x \in Handling(q) : Slot(x) \notin fired' \ excused',
           \A j \in Jobs : <<j, job'[j].next>> \in fired' \ excused' =>
             \/ job'[j].state = "removed"
             \/ \E o \in Ticks \ {p} : Updates(o) /\ Slot(tick[o].row) = <<j, job'[j].next>>
    PROVE  Inv'
<1>1. tick'[p] = q /\ \A o \in Ticks \ {p} : tick'[o] = tick[o]  BY DEF Inv, TypeInv
<1>2. TypeInv'  BY DEF Inv, TypeInv
<1>3. \A o \in Ticks : Handling(tick'[o]) \subseteq Handling(tick[o])  BY <1>1
<1>4. \A o \in Ticks : Updates(o)' => tick'[o] = tick[o] /\ Updates(o)  BY <1>1 DEF Updates
<1>5. TickInv'  BY <1>3, <1>4 DEF Inv, TickInv
<1>6. HoldInv'  BY <1>3 DEF Inv, HoldInv
<1>7. FiredInv'
  <2>1. ASSUME NEW o \in Ticks, NEW x \in Handling(tick'[o]), Slot(x) \in fired' \ excused'
        PROVE  Updates(o)' /\ x = tick'[o].row
    <3>1. o # p  BY <1>1, <2>1
    <3>2. Slot(x) \in fired \ excused /\ tick'[o] = tick[o]  BY <1>1, <2>1, <3>1
    <3> QED  BY <2>1, <3>2 DEF Inv, FiredInv, Updates
  <2> QED  BY <2>1 DEF FiredInv
<1>8. LeftInv'  BY <1>1 DEF LeftInv, Updates
<1> QED  BY <1>2, <1>5, <1>6, <1>7, <1>8 DEF Inv

\* A tick drops rows before it has triggered one.
LEMMA DropKeeps ==
    ASSUME Inv, NEW p \in Ticks, ~Updates(p), NEW q \in TickState, tick' = [tick EXCEPT ![p] = q],
           q.phase \notin {"triggered", "write"}, Handling(q) \subseteq Handling(tick[p]),
           UNCHANGED <<now, job, workflow, pending, edits>>, faults' \in 0..MaxFaults,
           fired' \subseteq Jobs \X Int, excused \subseteq excused', excused' \subseteq Jobs \X Int, again' = {},
           fired' \ excused' \subseteq fired \ excused
    PROVE  Inv'
<1>1. job' = job /\ job' \in [Jobs -> JobRow]  BY DEF Inv, TypeInv
<1>2. \A x \in Handling(q) : Slot(x) \notin fired' \ excused'  BY OthersUpdate
<1>3. \A j \in Jobs : <<j, job'[j].next>> \in fired' \ excused' =>
        \/ job'[j].state = "removed"
        \/ \E o \in Ticks \ {p} : Updates(o) /\ Slot(tick[o].row) = <<j, job'[j].next>>
  BY <1>1, OthersUpdate
<1> QED  BY <1>1, <1>2, <1>3, MoveKeeps

\* A step of no tick, in which no row comes to stand at a due time with a run.
LEMMA StillKeeps ==
    ASSUME Inv, UNCHANGED <<tick, faults, fired, again>>, now' \in 0..MaxTime, edits' \in 0..MaxEdits,
           workflow' \in [Jobs -> {"bare", "active", "deleted"}], pending' \subseteq Put,
           job' \in [Jobs -> JobRow], excused \subseteq excused', excused' \subseteq Jobs \X Int,
           \A i \in Jobs : <<i, job'[i].next>> \in fired \ excused' =>
             job'[i].state = "removed" \/ (job[i].state # "removed" /\ job'[i].next = job[i].next)
    PROVE  Inv'
<1>1. tick' = tick /\ fired' = fired /\ again' = {} /\ faults' = faults  BY DEF Inv
<1>2. TypeInv'  BY <1>1 DEF Inv, TypeInv
<1>3. TickInv' /\ HoldInv'  BY <1>1 DEF Inv, TickInv, HoldInv, Updates
<1>4. FiredInv'  BY <1>1 DEF Inv, FiredInv, Updates
<1>5. LeftInv'
  <2> SUFFICES ASSUME NEW i \in Jobs, <<i, job'[i].next>> \in fired \ excused', job'[i].state # "removed"
               PROVE  \E p \in Ticks : Updates(p) /\ Slot(tick[p].row) = <<i, job'[i].next>>
    BY <1>1 DEF LeftInv, Updates, Slot
  <2>1. job[i].state # "removed" /\ job'[i].next = job[i].next  OBVIOUS
  <2>2. <<i, job[i].next>> \in fired \ excused  BY <2>1
  <2> QED  BY <2>1, <2>2 DEF Inv, LeftInv
<1> QED  BY <1>1, <1>2, <1>3, <1>4, <1>5 DEF Inv

-----------------------------------------------------------------------------
(* Each action keeps the invariant. *)

\* A row whose state alone changes is a row, due when it was.
LEMMA StateRow ==
    ASSUME Inv, NEW j \in Jobs, NEW s \in {"on", "off", "removed"}
    PROVE  LET row == [job[j] EXCEPT !.state = s]
           IN row \in JobRow /\ row.next = job[j].next /\ row.state = s
<1>1. job[j] \in JobRow  BY DEF Inv, TypeInv
<1> QED  BY <1>1 DEF JobRow

\* One edit more, within the bound.
LEMMA EditCount ==
    ASSUME Inv, edits < MaxEdits, edits' = edits + 1
    PROVE  edits' \in 0..MaxEdits /\ edits' \in 1..MaxEdits
BY CronAssumption DEF Inv, TypeInv

\* A request changes the state of a row, and leaves it where it was due.
LEMMA EditKeeps ==
    ASSUME Inv, NEW j \in Jobs, NEW s \in {"on", "off", "removed"}, job[j].state # "removed",
           Edit(j, [job[j] EXCEPT !.state = s])
    PROVE  Inv'
<1> DEFINE row == [job[j] EXCEPT !.state = s]
<1>1. row \in JobRow /\ row.next = job[j].next  BY StateRow
<1>2. /\ edits' = edits + 1 /\ edits < MaxEdits /\ job' = [job EXCEPT ![j] = row]
      /\ UNCHANGED <<now, workflow, tick, pending, faults, fired, again, excused>>
  BY DEF Edit, history
<1> HIDE DEF row
<1>3. job' \in [Jobs -> JobRow] /\ job'[j] = row /\ \A i \in Jobs \ {j} : job'[i] = job[i]
  BY <1>1, <1>2 DEF Inv, TypeInv
<1>4. \A i \in Jobs : job'[i].state = "removed" \/ (job[i].state # "removed" /\ job'[i].next = job[i].next)
  BY <1>1, <1>3
<1>5. /\ now' \in 0..MaxTime /\ workflow' \in [Jobs -> {"bare", "active", "deleted"}] /\ pending' \subseteq Put
      /\ excused \subseteq excused' /\ excused' \subseteq Jobs \X Int
  BY <1>2 DEF Inv, TypeInv
<1>6. edits' \in 0..MaxEdits  BY <1>2, EditCount
<1> QED  BY <1>2, <1>3, <1>4, <1>5, <1>6, StillKeeps

\* A request that has computed a next run has a write under way.
LEMMA SubmitKeeps ==
    ASSUME Inv, NEW j \in Jobs, NEW s \in {"on", "off", "same"}, NEW e \in Expressions, Submit(j, s, e)
    PROVE  Inv'
<1> DEFINE n == NextRunAt(e, now)
           w == [no |-> edits', id |-> j, state |-> s, expr |-> e, next |-> n]
<1>1. /\ edits' = edits + 1 /\ edits < MaxEdits /\ pending' = pending \cup {w}
      /\ UNCHANGED <<now, job, workflow, tick, faults, fired, again, excused>>
  BY DEF Submit, history
<1>2. n \in Int  BY NextNow
<1>3. edits' \in 0..MaxEdits /\ edits' \in 1..MaxEdits  BY <1>1, EditCount
<1> HIDE DEF n
<1>4. w \in Put  BY <1>2, <1>3 DEF Put
<1> HIDE DEF w
<1>5. /\ now' \in 0..MaxTime /\ workflow' \in [Jobs -> {"bare", "active", "deleted"}] /\ pending' \subseteq Put
      /\ job' \in [Jobs -> JobRow] /\ excused \subseteq excused' /\ excused' \subseteq Jobs \X Int
  BY <1>1, <1>4 DEF Inv, TypeInv
<1>6. \A i \in Jobs : job'[i].state = "removed" \/ (job[i].state # "removed" /\ job'[i].next = job[i].next)
  BY <1>1
<1> QED  BY <1>1, <1>3, <1>5, <1>6, StillKeeps

\* The write lands, or finds no row.
LEMMA WriteRowKeeps ==
    ASSUME Inv, NEW w \in pending, WriteRow(w)
    PROVE  Inv'
<1> DEFINE old == job[w.id]
           row == [state |-> IF w.state = "same" THEN old.state ELSE w.state,
                   expr |-> w.expr, next |-> w.next, basis |-> w.expr]
<1>1. w \in Put /\ w.id \in Jobs  BY DEF Inv, TypeInv, Put
<1>2. old \in JobRow  BY <1>1 DEF Inv, TypeInv
<1>3. row \in JobRow
  <2> HIDE DEF old
  <2> QED  BY <1>1, <1>2 DEF Put, JobRow
<1>4. /\ pending' = pending \ {w} /\ UNCHANGED <<now, workflow, tick, edits, faults>>
      /\ \/ old.state # "removed" /\ Store(w.id, row)
         \/ old.state = "removed" /\ UNCHANGED <<job, fired, again, excused>>
  BY DEF WriteRow, history
<1> HIDE DEF old, row
<1>5. /\ now' \in 0..MaxTime /\ workflow' \in [Jobs -> {"bare", "active", "deleted"}] /\ pending' \subseteq Put
      /\ edits' \in 0..MaxEdits
  BY <1>4 DEF Inv, TypeInv
<1>6. CASE Store(w.id, row)
  <2>1. /\ job' \in [Jobs -> JobRow] /\ UNCHANGED <<fired, again>>
        /\ excused \subseteq excused' /\ excused' \subseteq Jobs \X Int
        /\ \A i \in Jobs : <<i, job'[i].next>> \in fired \ excused' => job'[i] = job[i]
    BY <1>1, <1>3, <1>6, StoreRow
  <2>2. \A i \in Jobs : <<i, job'[i].next>> \in fired \ excused' =>
          job'[i].state = "removed" \/ (job[i].state # "removed" /\ job'[i].next = job[i].next)
    BY <2>1
  <2> QED  BY <1>4, <1>5, <2>1, <2>2, StillKeeps
<1>7. CASE UNCHANGED <<job, fired, again, excused>>
  <2>1. job' \in [Jobs -> JobRow] /\ excused \subseteq excused' /\ excused' \subseteq Jobs \X Int
    BY <1>7 DEF Inv, TypeInv
  <2>2. \A i \in Jobs : job'[i].state = "removed" \/ (job[i].state # "removed" /\ job'[i].next = job[i].next)
    BY <1>7
  <2> QED  BY <1>4, <1>5, <1>7, <2>1, <2>2, StillKeeps
<1> QED  BY <1>4, <1>6, <1>7

\* Requests keep the invariant.
LEMMA RequestKeeps ==
    ASSUME Inv, NEW j \in Jobs, Request(j)
    PROVE  Inv'
<1>1. CASE RemoveJob(j)  BY <1>1, EditKeeps DEF RemoveJob
<1>2. ASSUME NEW e \in Expressions, CreateJob(j, e)  PROVE Inv'
  BY <1>2, SubmitKeeps DEF CreateJob
<1>3. ASSUME NEW e \in Expressions, NEW s \in {"on", "off", "same"}, Reschedule(j, s, e)  PROVE Inv'
  BY <1>3, SubmitKeeps DEF Reschedule
<1>4. ASSUME NEW s \in {"on", "off"}, SetActive(j, s)  PROVE Inv'
  <2>1. job[j].state # "removed" /\ Edit(j, [job[j] EXCEPT !.state = s])  BY <1>4 DEF SetActive
  <2> QED  BY <2>1, EditKeeps
<1>5. ASSUME NEW w \in {"active", "deleted"}, ChangeWorkflow(j, w)  PROVE Inv'
  <2>1. /\ edits' = edits + 1 /\ edits < MaxEdits /\ workflow' = [workflow EXCEPT ![j] = w]
        /\ UNCHANGED <<now, job, tick, pending, faults, fired, again, excused>>
    BY <1>5 DEF ChangeWorkflow, history
  <2>2. edits' \in 0..MaxEdits  BY <2>1, EditCount
  <2>3. /\ now' \in 0..MaxTime /\ workflow' \in [Jobs -> {"bare", "active", "deleted"}] /\ pending' \subseteq Put
        /\ job' \in [Jobs -> JobRow] /\ excused \subseteq excused' /\ excused' \subseteq Jobs \X Int
    BY <2>1 DEF Inv, TypeInv
  <2>4. \A i \in Jobs : job'[i].state = "removed" \/ (job[i].state # "removed" /\ job'[i].next = job[i].next)
    BY <2>1
  <2> QED  BY <2>1, <2>2, <2>3, <2>4, StillKeeps
<1> QED  BY <1>1, <1>2, <1>3, <1>4, <1>5 DEF Request

\* The clock keeps the invariant.
LEMMA PassTimeKeeps ==
    ASSUME Inv, PassTime
    PROVE  Inv'
<1>1. /\ now' = now + 1 /\ now < MaxTime
      /\ UNCHANGED <<job, workflow, tick, pending, edits, faults, fired, again, excused>>
  BY DEF PassTime, history
<1>2. now' \in 0..MaxTime  BY <1>1, CronAssumption DEF Inv, TypeInv
<1>3. /\ edits' \in 0..MaxEdits /\ workflow' \in [Jobs -> {"bare", "active", "deleted"}] /\ pending' \subseteq Put
      /\ job' \in [Jobs -> JobRow] /\ excused \subseteq excused' /\ excused' \subseteq Jobs \X Int
  BY <1>1 DEF Inv, TypeInv
<1>4. \A i \in Jobs : job'[i].state = "removed" \/ (job[i].state # "removed" /\ job'[i].next = job[i].next)
  BY <1>1
<1> QED  BY <1>1, <1>2, <1>3, <1>4, StillKeeps

\* A row that is skipped is let go.
LEMMA SkipKeeps ==
    ASSUME Inv, NEW p \in Ticks, NEW x, SkipRow(p, x)
    PROVE  Inv'
<1> DEFINE T == tick[p].todo \ {x}
<1>1. /\ tick[p].phase = "rows" /\ Go(p, T)
      /\ UNCHANGED <<now, job, workflow, pending, edits, faults, fired, again, excused>>
  BY DEF SkipRow, history
<1>2. T \subseteq Row /\ T \subseteq Handling(tick[p])  BY <1>1, TickRows
<1>3. tick' = [tick EXCEPT ![p] = Goes(T)]  BY <1>1, GoForm
<1>4. ~Updates(p)  BY <1>1 DEF Updates
<1> HIDE DEF T
<1>5. Goes(T) \in TickState /\ Handling(Goes(T)) = T /\ Goes(T).phase \notin {"triggered", "write"}  BY <1>2, GoesOn
<1>6. /\ faults' \in 0..MaxFaults /\ fired' \subseteq Jobs \X Int /\ excused \subseteq excused'
      /\ excused' \subseteq Jobs \X Int /\ again' = {} /\ fired' \ excused' \subseteq fired \ excused
  BY <1>1 DEF Inv, TypeInv
<1> QED  BY <1>1, <1>2, <1>3, <1>4, <1>5, <1>6, DropKeeps

\* The run of a tick that has triggered none yet is the first for its due time, or that is excused.
LEMMA InsertIsFirst ==
    ASSUME Inv, NEW p \in Ticks, NEW x \in Handling(tick[p]), ~Updates(p), InsertRun(x)
    PROVE  again' = {} /\ fired' = fired \cup {Slot(x)}
<1>1. Slot(x) \notin fired \ excused  BY OthersUpdate
<1> QED  BY <1>1 DEF InsertRun, Inv

\* A row whose trigger fails is let go, with its run or without.
LEMMA TriggerFailsKeeps ==
    ASSUME Inv, NEW p \in Ticks, NEW x, TriggerFails(p, x)
    PROVE  Inv'
<1> DEFINE T == tick[p].todo \ {x}
<1>1. /\ tick[p].phase = "rows" /\ x \in tick[p].todo /\ Go(p, T) /\ UNCHANGED <<now, job, workflow, pending, edits>>
      /\ \/ UNCHANGED <<fired, again, excused>>
         \/ InsertRun(x) /\ excused' = excused \cup {Slot(x)}
  BY DEF TriggerFails, history
<1>2. faults' \in {faults, faults + 1} /\ (faults' # faults => faults < MaxFaults)
  BY DEF TriggerFails
<1>3. faults' \in 0..MaxFaults  BY <1>2, CronAssumption DEF Inv, TypeInv
<1>4. T \subseteq Row /\ T \subseteq Handling(tick[p]) /\ x \in Row /\ x \in Handling(tick[p])  BY <1>1, TickRows
<1>5. tick' = [tick EXCEPT ![p] = Goes(T)]  BY <1>1, GoForm
<1>6. ~Updates(p)  BY <1>1 DEF Updates
<1> HIDE DEF T
<1>7. Goes(T) \in TickState /\ Handling(Goes(T)) = T /\ Goes(T).phase \notin {"triggered", "write"}  BY <1>4, GoesOn
<1>8. /\ fired' \subseteq Jobs \X Int /\ excused \subseteq excused' /\ excused' \subseteq Jobs \X Int
      /\ again' = {} /\ fired' \ excused' \subseteq fired \ excused
  <2>1. CASE UNCHANGED <<fired, again, excused>>  BY <2>1 DEF Inv, TypeInv
  <2>2. CASE InsertRun(x) /\ excused' = excused \cup {Slot(x)}
    <3>1. again' = {} /\ fired' = fired \cup {Slot(x)}  BY <1>4, <1>6, <2>2, InsertIsFirst
    <3> QED  BY <1>4, <2>2, <3>1, SlotType DEF Inv, TypeInv
  <2> QED  BY <1>1, <2>1, <2>2
<1> QED  BY <1>1, <1>3, <1>4, <1>5, <1>6, <1>7, <1>8, DropKeeps

\* A tick that computes the next run holds what it held.
LEMMA ComputeNextKeeps ==
    ASSUME Inv, NEW p \in Ticks, ComputeNext(p)
    PROVE  Inv'
<1> DEFINE T == tick[p].todo
           x == tick[p].row
           n == NextRunAt(x.expr, now)
           q == [phase |-> "write", todo |-> T, row |-> x, next |-> n]
<1>1. /\ tick[p].phase = "triggered" /\ tick' = [tick EXCEPT ![p] = q]
      /\ UNCHANGED <<now, job, workflow, pending, edits, faults, fired, again, excused>>
  BY DEF ComputeNext, history
<1>2. Updates(p) /\ Handling(tick[p]) = T /\ T \subseteq Row /\ x \in Row  BY <1>1, TickRows DEF Updates
<1>3. n \in Int  BY <1>2, SlotType, NextNow
<1> HIDE DEF n
<1>4. q \in TickState /\ q.phase = "write" /\ q.todo = T /\ q.row = x
  <2> HIDE DEF T, x
  <2> QED  BY <1>2, <1>3 DEF TickState
<1> HIDE DEF q
<1>5. Handling(q) = T  BY <1>4 DEF Handling
<1>6. tick'[p] = q /\ \A o \in Ticks \ {p} : tick'[o] = tick[o]  BY <1>1 DEF Inv, TypeInv
<1>7. \A o \in Ticks : Handling(tick'[o]) = Handling(tick[o])  BY <1>2, <1>5, <1>6
<1>8. \A o \in Ticks : /\ Updates(o)' <=> Updates(o)
                       /\ Updates(o) => tick'[o].row = tick[o].row /\ tick'[o].todo = tick[o].todo
  BY <1>2, <1>4, <1>6 DEF Updates
<1> HIDE DEF T, x
<1>9. TypeInv'  BY <1>1, <1>4 DEF Inv, TypeInv
<1>10. TickInv'  BY <1>7, <1>8 DEF Inv, TickInv
<1>11. HoldInv'  BY <1>1, <1>7 DEF Inv, HoldInv
<1>12. FiredInv'  BY <1>1, <1>7, <1>8 DEF Inv, FiredInv
<1>13. LeftInv'  BY <1>1, <1>8 DEF Inv, LeftInv, Slot
<1> QED  BY <1>1, <1>9, <1>10, <1>11, <1>12, <1>13 DEF Inv

\* A row that is rescheduled leaves the time it was due, for one without a run or an excused one.
LEMMA UpdateKeeps ==
    ASSUME Inv, NEW p \in Ticks, UpdateRow(p)
    PROVE  Inv'
<1> DEFINE x == tick[p].row
           i == x.id
           n == tick[p].next
           T == tick[p].todo \ {x}
           o == job[i]
           m == [o EXCEPT !.next = n, !.basis = x.expr]
<1>1. /\ tick[p].phase = "write" /\ Updates(p) /\ Go(p, T) /\ UNCHANGED <<now, workflow, pending, edits, faults>>
      /\ \/ o.state # "removed" /\ Store(i, m)
         \/ o.state = "removed" /\ UNCHANGED <<job, fired, again, excused>>
  BY DEF UpdateRow, Updates, history
<1>2. x \in Row /\ T \subseteq Row /\ T \subseteq Handling(tick[p]) /\ x \in Handling(tick[p]) /\ n \in Int
  BY <1>1, TickRows
<1>3. i \in Jobs /\ x.expr \in Expressions  BY <1>2, SlotType
<1>4. o \in JobRow  BY <1>3 DEF Inv, TypeInv
<1>5. m \in JobRow
  <2> HIDE DEF o, n, x, i
  <2> QED  BY <1>2, <1>3, <1>4 DEF JobRow
<1> HIDE DEF m
<1>6. tick' = [tick EXCEPT ![p] = Goes(T)]  BY <1>1, GoForm
<1>7. Goes(T) \in TickState /\ Handling(Goes(T)) = T /\ Goes(T).phase \notin {"triggered", "write"}
  <2> HIDE DEF T
  <2> QED  BY <1>2, GoesOn
<1>8. /\ job' \in [Jobs -> JobRow] /\ fired' = fired /\ again' = {} /\ excused \subseteq excused'
      /\ excused' \subseteq Jobs \X Int
      /\ \A j \in Jobs : <<j, job'[j].next>> \in fired \ excused' =>
           job'[j] = job[j] /\ (j = i => job'[j].state = "removed")
  <2>1. CASE Store(i, m)  BY <1>3, <1>5, <2>1, StoreRow DEF Inv
  <2>2. CASE o.state = "removed" /\ UNCHANGED <<job, fired, again, excused>>  BY <2>2 DEF Inv, TypeInv
  <2> QED  BY <1>1, <2>1, <2>2
<1>9. \A y \in T : Slot(y) \notin fired \ excused  BY <1>2 DEF Inv, FiredInv
<1>10. ASSUME NEW j \in Jobs, <<j, job'[j].next>> \in fired \ excused'
       PROVE  \/ job'[j].state = "removed"
              \/ \E q \in Ticks \ {p} : Updates(q) /\ Slot(tick[q].row) = <<j, job'[j].next>>
  <2>1. job'[j] = job[j] /\ (j = i => job'[j].state = "removed") /\ <<j, job[j].next>> \in fired \ excused
    BY <1>8, <1>10
  <2>2. CASE j = i  BY <2>1, <2>2
  <2>3. CASE j # i
    <3>1. Slot(x) # <<j, job[j].next>>  BY <2>3 DEF Slot
    <3> QED  BY <2>1, <3>1 DEF Inv, LeftInv
  <2> QED  BY <2>2, <2>3
<1>11. /\ faults' \in 0..MaxFaults /\ fired' \subseteq Jobs \X Int /\ fired' \ excused' \subseteq fired \ excused
       /\ UNCHANGED <<now, workflow, pending, edits>>
  BY <1>1, <1>8 DEF Inv, TypeInv
<1>12. /\ Handling(Goes(T)) \subseteq Handling(tick[p])
       /\ \A y \in Handling(Goes(T)) : Slot(y) \notin fired' \ excused'
  BY <1>2, <1>7, <1>8, <1>9
<1> HIDE DEF x, i, n, T, o
<1> QED  BY <1>6, <1>7, <1>8, <1>10, <1>11, <1>12, MoveKeeps

\* The tick that has triggered a run ends or drops the row without the update.
LEMMA FaultKeeps ==
    ASSUME Inv, NEW p \in Ticks, NEW q \in TickState, tick' = [tick EXCEPT ![p] = q],
           q.phase \notin {"triggered", "write"}, Handling(q) \subseteq Handling(tick[p]), Updates(p),
           faults' = faults + 1, faults < MaxFaults, excused' = excused \cup {Slot(tick[p].row)},
           UNCHANGED <<now, job, workflow, pending, edits, fired, again>>
    PROVE  Inv'
<1> DEFINE x == tick[p].row
<1>1. UNCHANGED <<now, workflow, pending, edits>> /\ fired' = fired /\ job' = job /\ again' = {}
  BY DEF Inv
<1>2. x \in Row  BY TickRows DEF Updates
<1>3. excused \subseteq excused' /\ excused' \subseteq Jobs \X Int /\ fired' \subseteq Jobs \X Int
      /\ fired' \ excused' \subseteq fired \ excused
  BY <1>1, <1>2, SlotType DEF Inv, TypeInv
<1>4. faults' \in 0..MaxFaults  BY CronAssumption DEF Inv, TypeInv
<1>5. \A y \in Handling(q) : Slot(y) \notin fired' \ excused'  BY <1>1 DEF Inv, FiredInv
<1>6. \A j \in Jobs : <<j, job'[j].next>> \in fired' \ excused' =>
        \/ job'[j].state = "removed"
        \/ \E o \in Ticks \ {p} : Updates(o) /\ Slot(tick[o].row) = <<j, job'[j].next>>
  BY <1>1 DEF Inv, LeftInv
<1>7. job' \in [Jobs -> JobRow]  BY <1>1 DEF Inv, TypeInv
<1> HIDE DEF x
<1> QED  BY <1>1, <1>3, <1>4, <1>5, <1>6, <1>7, MoveKeeps

\* A failed update excuses the due time it leaves.
LEMMA UpdateFailsKeeps ==
    ASSUME Inv, NEW p \in Ticks, UpdateFails(p)
    PROVE  Inv'
<1> DEFINE T == tick[p].todo \ {tick[p].row}
<1>1. /\ Updates(p) /\ Go(p, T) /\ faults' = faults + 1 /\ faults < MaxFaults
      /\ excused' = excused \cup {Slot(tick[p].row)} /\ UNCHANGED <<now, job, workflow, pending, edits, fired, again>>
  BY DEF UpdateFails, Updates
<1>2. T \subseteq Row /\ T \subseteq Handling(tick[p])  BY <1>1, TickRows DEF Updates
<1>3. tick' = [tick EXCEPT ![p] = Goes(T)]  BY <1>1, GoForm
<1> HIDE DEF T
<1>4. Goes(T) \in TickState /\ Handling(Goes(T)) = T /\ Goes(T).phase \notin {"triggered", "write"}  BY <1>2, GoesOn
<1> QED  BY <1>1, <1>2, <1>3, <1>4, FaultKeeps

\* A crash excuses the due time of the row that was triggered.
LEMMA CrashKeeps ==
    ASSUME Inv, NEW p \in Ticks, Crash(p)
    PROVE  Inv'
<1>1. /\ tick' = [tick EXCEPT ![p] = Idle] /\ tick[p] # Idle /\ faults' = faults + 1 /\ faults < MaxFaults
      /\ excused' = (IF tick[p].phase = "rows" THEN excused ELSE excused \cup {Slot(tick[p].row)})
      /\ UNCHANGED <<now, job, workflow, pending, edits, fired, again>>
  BY DEF Crash
<1>2. Idle \in TickState /\ Idle.phase \notin {"triggered", "write"} /\ Handling(Idle) \subseteq Handling(tick[p])
  BY IdleTick
<1>3. tick[p] \in TickState  BY DEF Inv, TypeInv
<1>4. tick[p].phase = "rows" <=> ~Updates(p)  BY <1>1, <1>3, TickCases DEF Updates
<1>5. faults' \in 0..MaxFaults  BY <1>1, CronAssumption DEF Inv, TypeInv
<1>6. CASE Updates(p)  BY <1>1, <1>2, <1>4, <1>6, FaultKeeps
<1>7. CASE ~Updates(p)
  <2>1. /\ fired' \subseteq Jobs \X Int /\ excused \subseteq excused' /\ excused' \subseteq Jobs \X Int
        /\ again' = {} /\ fired' \ excused' \subseteq fired \ excused
    BY <1>1, <1>4, <1>7 DEF Inv, TypeInv
  <2> QED  BY <1>1, <1>2, <1>5, <1>7, <2>1, DropKeeps
<1> QED  BY <1>6, <1>7

\* A trigger fires a due time that no other tick holds, or an excused one.
LEMMA TriggerKeeps ==
    ASSUME Inv, NEW p \in Ticks, NEW x \in Handling(tick[p]), TriggerRow(p, x)
    PROVE  Inv'
<1> DEFINE T == tick[p].todo
           q == [phase |-> "triggered", todo |-> T, row |-> x]
<1>1. /\ tick[p].phase = "rows" /\ x \in T /\ tick' = [tick EXCEPT ![p] = q] /\ InsertRun(x)
      /\ UNCHANGED <<now, workflow, pending, edits, faults, excused, job>>
  BY DEF TriggerRow
<1>2. Handling(tick[p]) = T /\ T \subseteq Row /\ ~Updates(p)  BY <1>1, TickRows DEF Updates
<1>3. q.phase = "triggered" /\ q.todo = T /\ q.row = x /\ q \in TickState
  <2> HIDE DEF T
  <2> QED  BY <1>1, <1>2 DEF TickState
<1> HIDE DEF T, q
<1>4. Handling(q) = T  BY <1>3 DEF Handling
<1>5. tick'[p] = q /\ \A o \in Ticks \ {p} : tick'[o] = tick[o]  BY <1>1 DEF Inv, TypeInv
<1>6. \A o \in Ticks : Handling(tick'[o]) = Handling(tick[o])  BY <1>2, <1>4, <1>5
<1>7. \A o \in Ticks : Updates(o)' <=> o = p \/ Updates(o)  BY <1>3, <1>5 DEF Updates
<1>8. again' = {} /\ fired' = fired \cup {Slot(x)}  BY <1>1, <1>2, InsertIsFirst
<1>9. TypeInv'
  <2>1. fired' \subseteq Jobs \X Int  BY <1>1, <1>2, <1>8, SlotType DEF Inv, TypeInv
  <2> QED  BY <1>1, <1>3, <2>1 DEF Inv, TypeInv
<1>10. TickInv'
  <2>1. \A o \in Ticks : Updates(o)' => tick'[o].row \in tick'[o].todo
    BY <1>1, <1>3, <1>5, <1>7 DEF Inv, TickInv
  <2> QED  BY <1>6, <2>1 DEF Inv, TickInv
<1>11. HoldInv'  BY <1>1, <1>6 DEF Inv, HoldInv
<1>12. FiredInv'
  <2>1. ASSUME NEW o \in Ticks, NEW y \in Handling(tick[o]), Slot(y) \in fired' \ excused
        PROVE  Updates(o)' /\ y = tick'[o].row
    <3>1. CASE o = p
      <4>1. Slot(y) \notin fired \ excused  BY <1>2, <3>1 DEF Inv, FiredInv
      <4>2. Slot(y) = Slot(x)  BY <1>8, <2>1, <4>1
      <4>3. y.id = x.id  BY <4>2 DEF Slot
      <4>4. y = x  BY <3>1, <4>3 DEF Inv, TickInv
      <4> QED  BY <1>3, <1>5, <1>7, <3>1, <4>4
    <3>2. CASE o # p
      <4>1. Slot(y) # Slot(x)  BY <2>1, <3>2 DEF Inv, HoldInv
      <4>2. Slot(y) \in fired \ excused  BY <1>8, <2>1, <4>1
      <4> QED  BY <1>5, <1>7, <3>2, <4>2 DEF Inv, FiredInv
    <3> QED  BY <3>1, <3>2
  <2> QED  BY <1>1, <1>6, <2>1 DEF FiredInv
<1>13. LeftInv'
  <2> SUFFICES ASSUME NEW j \in Jobs, <<j, job[j].next>> \in fired' \ excused
               PROVE  \/ job[j].state = "removed"
                      \/ \E o \in Ticks : Updates(o)' /\ Slot(tick'[o].row) = <<j, job[j].next>>
    BY <1>1 DEF LeftInv, Slot
  <2>1. CASE <<j, job[j].next>> = Slot(x)  BY <1>3, <1>5, <1>7, <2>1
  <2>2. CASE <<j, job[j].next>> # Slot(x)
    <3>1. <<j, job[j].next>> \in fired \ excused  BY <1>8, <2>2
    <3>2. \A o \in Ticks : Updates(o) => o # p /\ tick'[o] = tick[o] /\ Updates(o)'  BY <1>2, <1>5, <1>7
    <3> QED  BY <3>1, <3>2 DEF Inv, LeftInv
  <2> QED  BY <2>1, <2>2
<1> QED  BY <1>8, <1>9, <1>10, <1>11, <1>12, <1>13 DEF Inv

\* The rows that are due.
DueRow(j) == [id |-> j, expr |-> job[j].expr, next |-> job[j].next, runnable |-> workflow[j] = "active"]
DueRows   == {DueRow(j) : j \in {i \in Jobs : IsDue(i)}}

\* The rows that are due are rows.
LEMMA DueType ==
    ASSUME Inv, NEW x \in DueRows
    PROVE  /\ x \in Row /\ IsDue(x.id) /\ x = DueRow(x.id) /\ x.id \in Jobs
           /\ x.next = job[x.id].next /\ Slot(x) = <<x.id, job[x.id].next>>
<1>1. PICK j \in Jobs : IsDue(j) /\ x = DueRow(j)  BY DEF DueRows
<1>2. x.id = j /\ x.next = job[j].next  BY <1>1 DEF DueRow
<1>3. job[j] \in JobRow  BY DEF Inv, TypeInv
<1>4. job[j].expr \in Expressions /\ job[j].next \in Int  BY <1>3 DEF JobRow
<1>5. x \in Row  BY <1>1, <1>4 DEF DueRow, Row
<1> QED  BY <1>1, <1>2, <1>5 DEF Slot

\* A tick that starts holds due times that were not fired, or were excused.
LEMMA StartKeeps ==
    ASSUME Inv, NEW p \in Ticks, StartTick(p)
    PROVE  Inv'
<1> DEFINE q == Goes(DueRows)
           held == UNION {{Slot(x) : x \in Handling(tick[o])} : o \in Ticks \ {p}}
           both == {Slot(x) : x \in DueRows} \cap held
<1>1. /\ tick[p] = Idle /\ Go(p, DueRows) /\ excused' = excused \cup both
      /\ UNCHANGED <<now, workflow, pending, edits, faults, fired, again, job>>
  BY DEF StartTick, DueRows, DueRow
<1>2. tick' = [tick EXCEPT ![p] = q]  BY <1>1, GoForm
<1>3. q \in TickState /\ Handling(q) = DueRows /\ q.phase \notin {"triggered", "write"}  BY DueType, GoesOn
<1>4. tick'[p] = q /\ \A o \in Ticks \ {p} : tick'[o] = tick[o]  BY <1>2 DEF Inv, TypeInv
<1>5. \A o \in Ticks \ {p} : \A y \in Handling(tick[o]), x \in DueRows : Slot(x) = Slot(y) => Slot(x) \in both
  OBVIOUS
<1>6. both \subseteq Jobs \X Int  BY DueType, SlotType
<1> HIDE DEF q, held, both
<1>7. TypeInv'  BY <1>1, <1>2, <1>3, <1>6 DEF Inv, TypeInv
<1>8. \A o \in Ticks : Updates(o)' <=> Updates(o)  BY <1>1, <1>3, <1>4, IdleTick DEF Updates
<1>9. \A o \in Ticks : Updates(o) => o # p  BY <1>1, IdleTick DEF Updates
<1>10. TickInv'
  <2>1. ASSUME NEW o \in Ticks
        PROVE  /\ \A x, y \in Handling(tick'[o]) : x.id = y.id => x = y
               /\ Updates(o)' => tick'[o].row \in tick'[o].todo
    <3>1. CASE o = p
      <4>1. \A x, y \in DueRows : x.id = y.id => x = y  BY DueType
      <4> QED  BY <1>3, <1>4, <1>8, <1>9, <3>1, <4>1
    <3>2. CASE o # p  BY <1>4, <1>8, <3>2 DEF Inv, TickInv
    <3> QED  BY <3>1, <3>2
  <2> QED  BY <2>1 DEF TickInv
<1>11. HoldInv'
  <2> SUFFICES ASSUME NEW o \in Ticks, NEW r \in Ticks, NEW x \in Handling(tick'[o]), NEW y \in Handling(tick'[r]),
                      o # r, Slot(x) = Slot(y)
               PROVE  Slot(x) \in excused'
    BY DEF HoldInv
  <2>1. CASE o = p  BY <1>1, <1>3, <1>4, <1>5, <2>1
  <2>2. CASE r = p  BY <1>1, <1>3, <1>4, <1>5, <2>2
  <2>3. CASE o # p /\ r # p  BY <1>1, <1>4, <2>3 DEF Inv, HoldInv
  <2> QED  BY <2>1, <2>2, <2>3
<1>12. FiredInv'
  <2>1. ASSUME NEW o \in Ticks, NEW x \in Handling(tick'[o]), Slot(x) \in fired \ excused'
        PROVE  Updates(o)' /\ x = tick'[o].row
    <3>1. CASE o # p  BY <1>1, <1>4, <1>8, <2>1, <3>1 DEF Inv, FiredInv
    <3>2. CASE o = p
      <4>1. x \in DueRows  BY <1>3, <1>4, <3>2
      <4>2. <<x.id, job[x.id].next>> \in fired \ excused /\ x.id \in Jobs /\ job[x.id].state = "on"
        BY <1>1, <2>1, <4>1, DueType DEF IsDue
      <4>3. PICK r \in Ticks : Updates(r) /\ Slot(tick[r].row) = <<x.id, job[x.id].next>>
        BY <4>2 DEF Inv, LeftInv
      <4>4. r \in Ticks \ {p} /\ tick[r].row \in Handling(tick[r])  BY <1>9, <4>3, TickRows DEF Updates
      <4>5. Slot(x) \in both  BY <1>5, <4>1, <4>3, <4>4, DueType
      <4> QED  BY <1>1, <2>1, <4>5
    <3> QED  BY <3>1, <3>2
  <2> QED  BY <1>1, <2>1 DEF FiredInv
<1>13. LeftInv'
  <2>1. \A o \in Ticks : Updates(o) => tick'[o] = tick[o] /\ Updates(o)'  BY <1>4, <1>8, <1>9
  <2> QED  BY <1>1, <2>1 DEF Inv, LeftInv, Slot
<1> QED  BY <1>1, <1>7, <1>10, <1>11, <1>12, <1>13 DEF Inv

-----------------------------------------------------------------------------
(* The theorems. *)

\* The invariant holds initially.
LEMMA InitInv == Init => Inv
<1> SUFFICES ASSUME Init  PROVE Inv
  OBVIOUS
<1>1. /\ now = 0 /\ edits = 0 /\ faults = 0 /\ pending = {} /\ fired = {} /\ again = {} /\ excused = {}
      /\ workflow \in [Jobs -> {"bare", "active"}] /\ tick = [p \in Ticks |-> Idle]
  BY DEF Init
<1>2. PICK e \in [Jobs -> Expressions], s \in [Jobs -> {"none", "on"}] :
        job = [j \in Jobs |-> [state |-> s[j], expr |-> e[j], next |-> NextRunAt(e[j], 0), basis |-> e[j]]]
  BY DEF Init
<1>3. \A f \in Expressions : NextRunAt(f, 0) \in Int  BY CronAssumption, NextIsTime
<1>4. job \in [Jobs -> JobRow]
  <2>1. ASSUME NEW j \in Jobs  PROVE job[j] \in JobRow
    <3> DEFINE n == NextRunAt(e[j], 0)
    <3>1. e[j] \in Expressions /\ s[j] \in {"none", "on"} /\ n \in Int  BY <1>3
    <3>2. job[j] = [state |-> s[j], expr |-> e[j], next |-> n, basis |-> e[j]]  BY <1>2
    <3> HIDE DEF n
    <3> QED  BY <3>1, <3>2 DEF JobRow
  <2> QED  BY <1>2, <2>1
<1>5. TypeInv  BY <1>1, <1>4, IdleTick, CronAssumption DEF TypeInv
<1>6. \A p \in Ticks : Handling(tick[p]) = {} /\ ~Updates(p)  BY <1>1, IdleTick DEF Updates
<1> QED  BY <1>1, <1>5, <1>6 DEF Inv, TickInv, HoldInv, FiredInv, LeftInv

\* Every step keeps the invariant.
LEMMA NextInv == Inv /\ [Next]_vars => Inv'
<1> SUFFICES ASSUME Inv, [Next]_vars  PROVE Inv'
  OBVIOUS
<1>1. CASE PassTime  BY <1>1, PassTimeKeeps
<1>2. CASE \E j \in Jobs : Request(j)  BY <1>2, RequestKeeps
<1>3. CASE \E w \in pending : WriteRow(w)  BY <1>3, WriteRowKeeps
<1>4. ASSUME NEW p \in Ticks, TickStep(p)  PROVE Inv'
  BY <1>4, StartKeeps, ComputeNextKeeps, UpdateKeeps, SkipKeeps, TriggerKeeps, TriggerFailsKeeps DEF TickStep
<1>5. CASE \E p \in Ticks : UpdateFails(p) \/ Crash(p)  BY <1>5, UpdateFailsKeeps, CrashKeeps
<1>6. CASE UNCHANGED vars
  BY <1>6 DEF vars, history, Inv, TypeInv, TickInv, HoldInv, FiredInv, LeftInv, Updates
<1> QED  BY <1>1, <1>2, <1>3, <1>4, <1>5, <1>6 DEF Next

\* The invariant holds in every state.
LEMMA Inductive == Spec => []Inv
BY InitInv, NextInv, PTL DEF Spec

\* The variables have their types, and a tick holds one row per job at most.
THEOREM TypeCorrect == Spec => []TypeOK
<1>1. Inv => TypeOK
  <2> SUFFICES ASSUME Inv  PROVE TypeOK
    OBVIOUS
  <2>1. \A p \in Ticks : Handling(tick[p]) \subseteq Row  BY TickCases DEF Inv, TypeInv
  <2>2. \A p \in Ticks : tick[p].phase = "write" => tick[p].next \in Int  BY TickRows
  <2> QED  BY <2>1, <2>2 DEF Inv, TypeInv, TickInv, Updates, TypeOK, JobRow
<1> QED  BY <1>1, Inductive, PTL

\* A run is triggered once for each due time of a job, unless two ticks held its row at
\* once, a crash or a failed call kept the row from being rescheduled, or a write brought
\* the due time back after its run.
THEOREM OneRun == Spec => []OneRunPerDueTime
<1>1. Inv => OneRunPerDueTime  BY DEF Inv, OneRunPerDueTime
<1> QED  BY <1>1, Inductive, PTL

\* A job is scheduled by its own expression; only a tick that read the row before the
\* expression changed and writes it after can bring back the schedule of the old one.
THEOREM ScheduleFollows == Spec => ScheduleFollowsExpression
<1> DEFINE A == \A j \in Jobs : job'[j].basis # job'[j].expr /\ job[j].basis = job[j].expr =>
                  \E p \in Ticks : /\ tick[p].phase = "write" /\ tick[p].row.id = j
                                   /\ tick[p].row.expr # job[j].expr
<1>1. Inv /\ [Next]_vars => [A]_vars
  <2> SUFFICES ASSUME Inv, Next, NEW j \in Jobs, job'[j].basis # job'[j].expr, job[j].basis = job[j].expr
               PROVE  \E p \in Ticks : /\ tick[p].phase = "write" /\ tick[p].row.id = j
                                       /\ tick[p].row.expr # job[j].expr
    OBVIOUS
  <2>1. job' # job  OBVIOUS
  <2>2. ASSUME NEW i \in Jobs, NEW row, job' = [job EXCEPT ![i] = row],
               row.basis = row.expr \/ (row.basis = job[i].basis /\ row.expr = job[i].expr)
        PROVE  FALSE
    <3>1. i = j => job'[j] = row  BY <2>2 DEF Inv, TypeInv
    <3>2. i # j => job'[j] = job[j]  BY <2>2 DEF Inv, TypeInv
    <3> QED  BY <2>2, <3>1, <3>2
  <2>3. ASSUME NEW i \in Jobs, Request(i)  PROVE FALSE
    <3>1. ASSUME NEW s, Edit(i, [job[i] EXCEPT !.state = s])  PROVE FALSE
      <4> DEFINE row == [job[i] EXCEPT !.state = s]
      <4>1. job[i] \in JobRow  BY DEF Inv, TypeInv
      <4>2. row.basis = job[i].basis /\ row.expr = job[i].expr  BY <4>1 DEF JobRow
      <4>3. job' = [job EXCEPT ![i] = row]  BY <3>1 DEF Edit
      <4> HIDE DEF row
      <4> QED  BY <2>2, <4>2, <4>3
    <3>2. \A s, e : ~Submit(i, s, e)  BY <2>1 DEF Submit
    <3>3. ~RemoveJob(i)  BY <3>1 DEF RemoveJob
    <3>4. \A e : ~CreateJob(i, e) /\ \A s : ~Reschedule(i, s, e)  BY <3>2 DEF CreateJob, Reschedule
    <3>5. \A s : ~SetActive(i, s)  BY <3>1 DEF SetActive
    <3>6. \A w : ~ChangeWorkflow(i, w)  BY <2>1 DEF ChangeWorkflow
    <3> QED  BY <2>3, <3>3, <3>4, <3>5, <3>6 DEF Request
  <2>4. ASSUME NEW w \in pending, WriteRow(w)  PROVE FALSE
    <3> DEFINE row == [state |-> IF w.state = "same" THEN job[w.id].state ELSE w.state,
                       expr |-> w.expr, next |-> w.next, basis |-> w.expr]
    <3>1. row.basis = row.expr  OBVIOUS
    <3>2. job' = [job EXCEPT ![w.id] = row]  BY <2>1, <2>4 DEF WriteRow, Store
    <3>3. w.id \in Jobs  BY DEF Inv, TypeInv, Put
    <3> HIDE DEF row
    <3> QED  BY <2>2, <3>1, <3>2, <3>3
  <2>5. PICK p \in Ticks : UpdateRow(p)
    BY <2>1, <2>3, <2>4 DEF Next, PassTime, TickStep, StartTick, SkipRow, TriggerRow, TriggerFails, ComputeNext,
       UpdateFails, Crash
  <2> DEFINE x == tick[p].row
             i == x.id
             n == tick[p].next
             m == [job[i] EXCEPT !.next = n, !.basis = x.expr]
  <2>6. tick[p].phase = "write" /\ job' = [job EXCEPT ![i] = m]  BY <2>1, <2>5 DEF UpdateRow, Store
  <2>7. x \in Row /\ i \in Jobs  BY <2>6, TickRows, SlotType DEF Updates
  <2>8. m.basis = x.expr /\ m.expr = job[i].expr
    <3>1. job[i] \in JobRow  BY <2>7 DEF Inv, TypeInv
    <3> DEFINE o == job[i]
    <3>2. o \in JobRow  BY <3>1
    <3> HIDE DEF x, i, n, o
    <3>3. [o EXCEPT !.next = n, !.basis = x.expr].basis = x.expr
          /\ [o EXCEPT !.next = n, !.basis = x.expr].expr = o.expr
      BY <3>2 DEF JobRow
    <3> QED  BY <3>3 DEF o
  <2> HIDE DEF m
  <2>9. i = j
    <3>1. i # j => job'[j] = job[j]  BY <2>6 DEF Inv, TypeInv
    <3> QED  BY <3>1
  <2>10. job'[j] = m  BY <2>6, <2>9 DEF Inv, TypeInv
  <2> QED  BY <2>6, <2>8, <2>9, <2>10
<1> QED  BY <1>1, Inductive, PTL DEF Spec, ScheduleFollowsExpression
=============================================================================

---------------------------- MODULE TimeZoneProofs ----------------------------
(***************************************************************************)
(* DateOnlyKept for every zone whose offsets last and every set of days    *)
(* that have a midnight there.  It rests on what Go's time.Date promises:  *)
(* if a wall clock ever shows some minute, then the instant that time.Date *)
(* makes of that minute is one at which it does.                           *)
(***************************************************************************)
EXTENDS TimeZone, TLAPS, FiniteSetTheorems

-----------------------------------------------------------------------------
(* Sets of naturals. *)

\* Induction, as a fact about a set.  Were n missing from S, then i |-> i + 1 would map the part of
\* S up to n into that part without 0, which is smaller.
LEMMA Induction ==
  ASSUME NEW S \in SUBSET Nat, 0 \in S, \A n \in S : n + 1 \in S
  PROVE  S = Nat
<1>1. SUFFICES ASSUME NEW n \in Nat \ S PROVE FALSE
  OBVIOUS
<1> DEFINE T == S \cap (0..n)
           U == T \ {0}
           f == [i \in T |-> i + 1]
<1>2. IsFiniteSet(0..n)
  BY FS_Interval
<1>3. IsFiniteSet(T)
  <2>1. T \in SUBSET (0..n)
    OBVIOUS
  <2>2. QED BY <1>2, <2>1, FS_Subset
<1>4. IsFiniteSet(U) /\ Cardinality(U) < Cardinality(T)
  <2>1. 0 \in T
    OBVIOUS
  <2> HIDE DEF T
  <2>2. IsFiniteSet(U) /\ Cardinality(U) = Cardinality(T) - 1
    BY <1>3, <2>1, FS_RemoveElement
  <2>3. Cardinality(T) \in Nat
    BY <1>3, FS_CardinalityType
  <2>4. QED BY <2>2, <2>3
<1>5. f \in [T -> U]
  <2>1. \A i \in T : i + 1 \in S /\ i # n
    OBVIOUS
  <2>2. QED BY <2>1
<1>6. \E x, y \in T : x # y /\ f[x] = f[y]
  <2> HIDE DEF T, U, f
  <2> QED BY <1>3, <1>4, <1>5, FS_PigeonHole
<1>7. QED BY <1>6

LEMMA Least ==
  ASSUME NEW S \in SUBSET Nat, S # {}
  PROVE  \E m \in S : \A n \in S : m <= n
<1>1. SUFFICES ASSUME \A m \in S : \E n \in S : n < m
               PROVE FALSE
  OBVIOUS
<1> DEFINE Below == {k \in Nat : \A n \in S : k <= n}
<1>2. 0 \in Below
  OBVIOUS
<1>3. \A k \in Below : k + 1 \in Below
  BY <1>1
<1>4. Below = Nat
  <2> HIDE DEF Below
  <2>1. Below \in SUBSET Nat
    BY DEF Below
  <2> QED BY <1>2, <1>3, <2>1, Induction
<1>5. PICK m \in S : TRUE
  OBVIOUS
<1>6. m \in Nat /\ m + 1 \in Below
  <2> HIDE DEF Below
  <2> QED BY <1>4
<1>7. QED BY <1>5, <1>6

-----------------------------------------------------------------------------
(* The periods of a zone. *)

LEMMA ZoneTypes ==
  \A t \in Transitions : t.at \in Int /\ t.offset \in Int
                          /\ -840 <= t.offset /\ t.offset <= 840
<1>1. MaxOffset = 840
  BY DEF MaxOffset
<1>2. QED BY <1>1, ZoneAssumption

LEMMA ZoneApart ==
  \A t, u \in Transitions : t = u \/ t.at + 1680 < u.at \/ u.at + 1680 < t.at
  BY ZoneAssumption DEF MaxOffset

BeganAt(t, u) ==
  /\ t \in Transitions
  /\ t.at <= u
  /\ \A s \in Transitions : s.at <= u => s.at <= t.at

EndedAt(t, u) ==
  /\ t \in Later(u)
  /\ \A s \in Later(u) : t.at <= s.at

LEMMA BeganIs ==
  ASSUME NEW u \in Int, \E t \in Transitions : t.at <= u
  PROVE  BeganAt(Began(u), u)
<1> DEFINE Ago == {u - t.at : t \in {s \in Transitions : s.at <= u}}
<1>1. Ago \in SUBSET Nat /\ Ago # {}
  <2>1. \A t \in Transitions : t.at <= u => u - t.at \in Nat
    BY ZoneTypes
  <2>2. QED BY <2>1
<1>2. PICK m \in Ago : \A n \in Ago : m <= n
  <2> HIDE DEF Ago
  <2> QED BY <1>1, Least
<1>3. PICK t \in Transitions : t.at <= u /\ m = u - t.at
  BY <1>2
<1>4. \A s \in Transitions : s.at <= u => s.at <= t.at
  <2>1. \A s \in Transitions : s.at <= u => m <= u - s.at
    BY <1>2
  <2>2. QED BY <1>3, <2>1, ZoneAssumption
<1>5. QED BY <1>3, <1>4 DEF Began, BeganAt

LEMMA BeganUnique ==
  ASSUME NEW u \in Int, NEW t, BeganAt(t, u)
  PROVE  Began(u) = t
<1>1. BeganAt(Began(u), u)
  BY BeganIs DEF BeganAt
<1>2. Began(u).at = t.at
  BY <1>1, ZoneAssumption DEF BeganAt
<1>3. QED
  BY <1>1, <1>2, ZoneAssumption DEF BeganAt, MaxOffset

LEMMA EndedIs ==
  ASSUME NEW u \in Int, Later(u) # {}
  PROVE  EndedAt(Ended(u), u)
<1> DEFINE Ahead == {t.at - u : t \in Later(u)}
<1>1. Ahead \in SUBSET Nat /\ Ahead # {}
  BY ZoneTypes DEF Later
<1>2. PICK m \in Ahead : \A n \in Ahead : m <= n
  <2> HIDE DEF Ahead
  <2> QED BY <1>1, Least
<1>3. PICK t \in Later(u) : m = t.at - u
  BY <1>2
<1>4. \A s \in Later(u) : t.at <= s.at
  <2>1. \A s \in Later(u) : m <= s.at - u
    BY <1>2
  <2>2. QED BY <1>3, <2>1, ZoneAssumption DEF Later
<1>5. QED BY <1>3, <1>4 DEF Ended, EndedAt

-----------------------------------------------------------------------------
(* time.Date *)

\* What time.Date makes of minute m, as a number of minutes.
DateOf(m) ==
  LET utc == m - Offset(m) IN
  m - (IF utc < Began(m).at THEN Offset(Began(m).at - 1)
       ELSE IF {t \in Later(m) : t.at <= utc} # {} THEN Ended(m).offset
       ELSE Offset(m))

LEMMA GoDateIs ==
  ASSUME NEW day, NEW hour, NEW minute
  PROVE  GoDate(day, hour, minute) = DateOf((day * 24 + hour) * 60 + minute)
  BY DEF GoDate, DateOf

\* Go's time.Date (called by ToAssociationTimeZone): the wall clock shows minute m at the
\* instant made of m, if it does so at any instant u.  Where it does not, because m is skipped when
\* daylight saving begins, no instant would do.
THEOREM GoDateFindsWallClock ==
  ASSUME NEW m \in Int, NEW u \in Int, WallClock(u) = m,
         \E t \in Transitions : t.at <= m - 2 * MaxOffset /\ t.at <= u
  PROVE  DateOf(m) \in Int /\ WallClock(DateOf(m)) = m
<1> DEFINE now == Began(m)
           utc == m - now.offset
           used == Began(u)
<1>0. PICK first \in Transitions : first.at <= m - 1680 /\ first.at <= u
  BY DEF MaxOffset
<1>1. BeganAt(now, m) /\ BeganAt(used, u)
  <2>1. first.at <= m
    BY <1>0, ZoneTypes
  <2>2. QED BY <1>0, <2>1, BeganIs
<1>2. /\ now \in Transitions /\ now.at \in Int /\ now.offset \in Int
      /\ used \in Transitions /\ used.at \in Int /\ u = m - used.offset
  <2>1. now \in Transitions /\ used \in Transitions /\ u + used.offset = m
    BY <1>1 DEF BeganAt, WallClock, Offset
  <2> HIDE DEF now, used
  <2>2. QED BY <2>1, ZoneTypes
<1>3. CASE utc < now.at
  <2> DEFINE before == Began(now.at - 1)
  <2>1. BeganAt(before, now.at - 1)
    <3>1. \E t \in Transitions : t.at <= now.at - 1
      BY <1>0, <1>2, <1>3, ZoneTypes
    <3>2. QED BY <3>1, <1>2, BeganIs
  <2>2. u < now.at
    BY <1>1, <1>2, <1>3, ZoneTypes, ZoneApart DEF BeganAt
  <2>3. BeganAt(before, u)
    BY <1>1, <1>2, <2>1, <2>2, ZoneTypes, ZoneApart DEF BeganAt
  <2>4. used = before
    BY <2>3, BeganUnique
  <2>5. DateOf(m) = m - before.offset
    BY <1>3 DEF DateOf, Offset
  <2>6. QED BY <2>4, <2>5, <1>2
<1>4. CASE ~(utc < now.at) /\ {t \in Later(m) : t.at <= utc} # {}
  <2> DEFINE next == Ended(m)
  <2>1. EndedAt(next, m) /\ next \in Transitions /\ next.at \in Int /\ next.at > m
    BY <1>4, EndedIs, ZoneTypes, ZoneApart DEF EndedAt, Later
  <2>2. next.at <= utc
    BY <1>2, <1>4, <2>1, ZoneTypes, ZoneApart DEF EndedAt, Later
  <2>3. next.at <= u
    BY <1>1, <1>2, <2>1, <2>2, ZoneTypes, ZoneApart DEF BeganAt, EndedAt, Later
  <2>4. BeganAt(next, u)
    BY <1>2, <2>1, <2>3, ZoneTypes, ZoneApart DEF BeganAt
  <2>5. used = next
    BY <2>4, BeganUnique
  <2>6. DateOf(m) = m - next.offset
    BY <1>4 DEF DateOf, Offset
  <2>7. QED BY <2>5, <2>6, <1>2
<1>5. CASE ~(utc < now.at) /\ {t \in Later(m) : t.at <= utc} = {}
  <2>1. DateOf(m) = utc
    BY <1>5 DEF DateOf, Offset
  <2>2. BeganAt(now, utc)
    BY <1>1, <1>2, <1>5, ZoneTypes, ZoneApart DEF BeganAt, Later
  <2>3. Began(utc) = now
    BY <2>2, <1>2, BeganUnique
  <2>4. QED BY <2>1, <2>3, <1>2 DEF WallClock, Offset
<1>6. QED BY <1>3, <1>4, <1>5

-----------------------------------------------------------------------------
(* The conversion. *)

LEMMA DateOfType ==
  ASSUME NEW m \in Int, \E t \in Transitions : t.at <= m - 2 * MaxOffset
  PROVE  DateOf(m) \in Int
<1> DEFINE now == Began(m)
<1>0. PICK first \in Transitions : first.at <= m - 1680
  BY DEF MaxOffset
<1>1. BeganAt(now, m)
  BY <1>0, BeganIs, ZoneTypes
<1>2. now \in Transitions /\ now.at \in Int /\ now.offset \in Int
  BY <1>1, ZoneTypes DEF BeganAt
<1>3. CASE m - now.offset < now.at
  <2>1. first.at <= now.at - 1
    BY <1>0, <1>2, <1>3, ZoneTypes
  <2>2. Began(now.at - 1) \in Transitions
    BY <1>2, <2>1, BeganIs DEF BeganAt
  <2>3. QED BY <1>3, <2>2, ZoneTypes DEF DateOf, Offset
<1>4. CASE ~(m - now.offset < now.at) /\ {t \in Later(m) : t.at <= m - now.offset} # {}
  <2>1. Ended(m) \in Transitions
    BY <1>4, EndedIs DEF EndedAt, Later
  <2>2. QED BY <1>4, <2>1, ZoneTypes DEF DateOf, Offset
<1>5. CASE ~(m - now.offset < now.at) /\ {t \in Later(m) : t.at <= m - now.offset} = {}
  BY <1>2, <1>5 DEF DateOf, Offset
<1>6. QED BY <1>3, <1>4, <1>5

\* The minute that ToAssociationTimeZone asks for: it hands on the fields in this order.
Exchanged(date) == (date.day * 24 + date.minute) * 60 + date.hour

LEMMA DateTypes ==
  ASSUME NEW date \in Dates
  PROVE  /\ date.day \in Int /\ date.hour \in 0..23 /\ date.minute \in 0..59
         /\ Exchanged(date) \in Int
         /\ ToAssociationTimeZone(date) = DateOf(Exchanged(date))
         /\ \E t \in Transitions : t.at <= Exchanged(date) - 2 * MaxOffset
<1>1. /\ date.day \in Days /\ date.day \in Int
      /\ date.hour \in 0..23 /\ date.minute \in 0..59
  BY DateAssumption DEF Dates
<1>2. Exchanged(date) \in Int /\ date.day * 24 * 60 <= Exchanged(date)
  <2>1. \A d \in Int, h \in 0..23, n \in 0..59 :
          (d * 24 + n) * 60 + h \in Int /\ d * 24 * 60 <= (d * 24 + n) * 60 + h
    OBVIOUS
  <2>2. QED BY <1>1, <2>1 DEF Exchanged
<1>3. ToAssociationTimeZone(date) = DateOf(Exchanged(date))
  BY GoDateIs DEF ToAssociationTimeZone, Exchanged
<1>4. PICK t \in Transitions : t.at <= date.day * 24 * 60 - 2 * MaxOffset
  BY <1>1, ZoneAssumption
<1>5. MaxOffset = 840 /\ date.day * 24 * 60 \in Int
  BY <1>1 DEF MaxOffset
<1>6. t.at <= Exchanged(date) - 2 * MaxOffset
  BY <1>2, <1>4, <1>5, ZoneTypes
<1>7. QED BY <1>1, <1>2, <1>3, <1>6

\* What the conversion does to the time of day (rails/db/event.go:39): hours and minutes change places,
\* on every day and in every zone where the exchanged time exists; so the doc comment is right
\* about a date if and only if its hour is its minute, and never about 9 AM.
THEOREM HoursAndMinutesExchanged ==
  ASSUME NEW date \in Dates, NEW u \in Int, WallClock(u) = Exchanged(date),
         \E t \in Transitions : t.at <= Exchanged(date) - 2 * MaxOffset /\ t.at <= u
  PROVE  /\ WallClock(ToAssociationTimeZone(date)) = Exchanged(date)
         /\ WallClock(ToAssociationTimeZone(date)) = MinutesOf(date) <=> date.hour = date.minute
<1>1. WallClock(ToAssociationTimeZone(date)) = Exchanged(date)
  BY DateTypes, GoDateFindsWallClock
<1>2. Exchanged(date) = MinutesOf(date) <=> date.hour = date.minute
  <2>1. \A d \in Int, h \in 0..23, n \in 0..59 :
          (d * 24 + n) * 60 + h = (d * 24 + h) * 60 + n <=> h = n
    OBVIOUS
  <2>2. date.day \in Int /\ date.hour \in 0..23 /\ date.minute \in 0..59
    BY DateTypes
  <2>3. QED BY <2>1, <2>2 DEF Exchanged, MinutesOf
<1>3. QED BY <1>1, <1>2

\* A midnight is found, since every day has one.
LEMMA MidnightKept ==
  ASSUME NEW date \in Dates, DateOnly(date)
  PROVE  WallClock(ToAssociationTimeZone(date)) = MinutesOf(date)
<1> DEFINE m == date.day * 24 * 60
<1>1. date.day \in Days /\ m \in Int /\ date.hour = 0 /\ date.minute = 0
  BY DateTypes DEF Dates, DateOnly
<1>2. Exchanged(date) = m
  BY <1>1, DateTypes DEF Exchanged
<1>3. PICK t \in Transitions : WallClock(m - t.offset) = m
  BY <1>1, MidnightAssumption
<1>4. PICK s \in Transitions : s.at <= m - 2 * MaxOffset
  BY <1>2, DateTypes
<1> HIDE DEF m
<1>5. MaxOffset = 840
  BY DEF MaxOffset
<1>6. m - t.offset \in Int /\ s.at <= m - t.offset
  BY <1>1, <1>4, <1>5, ZoneTypes
<1>7. WallClock(ToAssociationTimeZone(date)) = MinutesOf(date) <=> date.hour = date.minute
  BY <1>2, <1>3, <1>4, <1>6, HoursAndMinutesExchanged
<1>8. QED BY <1>1, <1>7

-----------------------------------------------------------------------------
(* The batch. *)

ZoneInv ==
  /\ dates \in [1..Batch -> Dates]
  /\ startsAt \in Seq(Int)
  /\ Len(startsAt) <= Batch
  /\ \A i \in 1..Len(startsAt) : startsAt[i] = ToAssociationTimeZone(dates[i])

\* Every event converted so far has the instant of its own date.
THEOREM ZoneInvariant == Spec => []ZoneInv
<1>1. Init => ZoneInv
  BY DateAssumption DEF Init, ZoneInv
<1>2. ZoneInv /\ [Next]_vars => ZoneInv'
  <2> SUFFICES ASSUME ZoneInv, [Next]_vars PROVE ZoneInv'
    OBVIOUS
  <2>1. CASE BuildEvent
    <3> DEFINE i == Len(startsAt) + 1
               instant == ToAssociationTimeZone(dates[i])
    <3>1. i \in 1..Batch /\ dates[i] \in Dates /\ Len(startsAt) \in Nat
      BY <2>1, DateAssumption DEF ZoneInv, BuildEvent
    <3>2. instant \in Int
      BY <3>1, DateTypes, DateOfType
    <3>3. startsAt' = Append(startsAt, instant) /\ dates' = dates
      BY <2>1 DEF BuildEvent
    <3> HIDE DEF instant
    <3>4. startsAt' \in Seq(Int) /\ Len(startsAt') = i
      BY <3>2, <3>3 DEF ZoneInv
    <3>5. \A j \in 1..Len(startsAt) : startsAt'[j] = startsAt[j]
      BY <3>2, <3>3 DEF ZoneInv
    <3>6. startsAt'[i] = instant
      BY <3>2, <3>3 DEF ZoneInv
    <3>7. \A j \in 1..i : startsAt'[j] = ToAssociationTimeZone(dates[j])
      BY <3>1, <3>5, <3>6 DEF ZoneInv, instant
    <3>8. QED BY <3>1, <3>3, <3>4, <3>7 DEF ZoneInv
  <2>2. CASE Built \/ UNCHANGED vars
    BY <2>2 DEF ZoneInv, Built, vars
  <2>3. QED BY <2>1, <2>2 DEF Next
<1>3. QED BY <1>1, <1>2, PTL DEF Spec

\* A Rails event that has a date and no time starts at midnight of that day on the
\* association's clock, wherever the transitions of the zone are.
THEOREM ZoneDateOnlyKept == Spec => []DateOnlyKept
<1>1. ZoneInv => DateOnlyKept
  <2> SUFFICES ASSUME ZoneInv, NEW i \in DOMAIN startsAt, DateOnly(dates[i])
               PROVE  Kept(i)
    BY DEF DateOnlyKept
  <2>1. i \in 1..Len(startsAt) /\ dates[i] \in Dates
    BY DateAssumption DEF ZoneInv
  <2>2. QED BY <2>1, MidnightKept DEF ZoneInv, Kept
<1>2. QED BY <1>1, ZoneInvariant, PTL

=============================================================================

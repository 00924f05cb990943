------------------------------ MODULE TimeZone ------------------------------
(***************************************************************************)
(* rails/db/event.go, ToAssociationTimeZone: what Copy does to the date of *)
(* every Rails event before it is stored as starts_at.  Rails dates arrive *)
(* as wall-clock times in UTC; the function reads their fields and builds  *)
(* an instant from them in America/Los_Angeles with Go's time.Date, which  *)
(* accepts fields out of range and knows the changes of daylight saving.   *)
(*                                                                         *)
(* Time is counted in minutes; seconds and nanoseconds pass through.       *)
(***************************************************************************)
EXTENDS Integers, Sequences

CONSTANTS
  Days, Hours, Minutes,  \* the fields of the dates that occur
  Batch,                 \* how many events Copy converts
  Transitions            \* the zone: when (UTC) it changed to which offset

Dates == [day : Days, hour : Hours, minute : Minutes]

\* No place on earth is further from UTC, in minutes.
MaxOffset == 14 * 60

ASSUME DateAssumption ==
  Days \subseteq Int /\ Hours \subseteq 0..23 /\ Minutes \subseteq 0..59 /\ Batch \in Nat

\* The first transition stands for the beginning of time, and a zone keeps an offset for
\* some days.
ASSUME ZoneAssumption ==
  /\ \A t \in Transitions :
       t.at \in Int /\ t.offset \in Int /\ -MaxOffset <= t.offset /\ t.offset <= MaxOffset
  /\ \A t, u \in Transitions : t = u \/ t.at + 2 * MaxOffset < u.at \/ u.at + 2 * MaxOffset < t.at
  /\ \E t \in Transitions : \A d \in Days : t.at <= d * 24 * 60 - 2 * MaxOffset

VARIABLES
  dates,                 \* the dates of the Rails events, in the order read
  startsAt               \* the instants of those converted

vars == <<dates, startsAt>>

MinutesOf(date) == (date.day * 24 + date.hour) * 60 + date.minute

-----------------------------------------------------------------------------
(* Go's time package: a zone's offsets, and time.Date. *)

\* The period of one offset that holds instant u: from its transition to the next.
Began(u) ==
  CHOOSE t \in Transitions :
    /\ t.at <= u
    /\ \A s \in Transitions : s.at <= u => s.at <= t.at

Later(u) == {t \in Transitions : t.at > u}

Ended(u) == CHOOSE t \in Later(u) : \A s \in Later(u) : t.at <= s.at

Offset(u) == Began(u).offset

\* time.Date(year, month, day, hour, min, ...): hours and minutes out of range carry over
\* into days.  The offset is looked up as if the fields were UTC, and again when that
\* lands in another period.
GoDate(day, hour, minute) ==
  LET unix   == (day * 24 + hour) * 60 + minute
      utc    == unix - Offset(unix)
      start  == Began(unix).at
      passed == {t \in Later(unix) : t.at <= utc}
      offset == IF utc < start THEN Offset(start - 1)
                ELSE IF passed # {} THEN Ended(unix).offset
                ELSE Offset(unix)
  IN unix - offset

\* The wall clock in the zone at instant u, as minutes of its calendar.
WallClock(u) == u + Offset(u)

\* America/Los_Angeles changes its clocks at 2 AM: every day has a midnight.
ASSUME MidnightAssumption ==
  \A d \in Days : \E t \in Transitions : WallClock(d * 24 * 60 - t.offset) = d * 24 * 60

-----------------------------------------------------------------------------
(* The function hands time.Date the minute where it takes the hour, and the hour *)
(* where it takes the minute.                                                    *)

\* Mutant: the same instant, in another zone (date.In(pacific)).
SameInstant(date) == MinutesOf(date)

ToAssociationTimeZone(date) == GoDate(date.day, date.minute, date.hour)

Init ==
  /\ dates \in [1..Batch -> Dates]
  /\ startsAt = <<>>

BuildEvent ==
  /\ Len(startsAt) < Batch
  /\ startsAt' = Append(startsAt, ToAssociationTimeZone(dates[Len(startsAt) + 1]))
  /\ UNCHANGED dates

Built ==
  /\ Len(startsAt) = Batch
  /\ UNCHANGED vars

Next == BuildEvent \/ Built

Spec == Init /\ [][Next]_vars

-----------------------------------------------------------------------------
(* Properties. *)

DateOnly(date) == date.hour = 0 /\ date.minute = 0

Kept(i) == WallClock(startsAt[i]) = MinutesOf(dates[i])

\* A Rails event that has a date and no time, as the column events.date holds them, starts
\* at midnight of that day on the association's own clock, next to a change of daylight
\* saving as well.
DateOnlyKept ==
  \A i \in DOMAIN startsAt : DateOnly(dates[i]) => Kept(i)

\* What the doc comment says: Dec 1, 9 AM UTC becomes Dec 1, 9 AM in the zone.
WallClockKept ==
  \A i \in DOMAIN startsAt : Kept(i)

=============================================================================

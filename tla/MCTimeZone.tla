----------------------------- MODULE MCTimeZone -----------------------------
(***************************************************************************)
(* Instances of TimeZone for TLC: seven days, daylight saving from the     *)
(* second at 2 AM (10:00 UTC) to the fifth at 2 AM (9:00 UTC).             *)
(***************************************************************************)
EXTENDS TimeZone

At(day, hour) == (day * 24 + hour) * 60

Pacific ==
  {[at |-> At(-100, 0), offset |-> -8 * 60],
   [at |-> At(2, 10), offset |-> -7 * 60],
   [at |-> At(5, 9), offset |-> -8 * 60]}

Week == 0..6

AllHours == 0..23

AllMinutes == 0..59
=============================================================================

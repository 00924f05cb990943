----------------------------- MODULE MCRailsCopy -----------------------------
(***************************************************************************)
(* Instances of RailsCopy for TLC.                                         *)
(***************************************************************************)
EXTENDS RailsCopy

\* end_to_end_spec.rb posts "atra"; TestCopy posts in capitals.  Nobody has named WSBA.
Posted == {"atra", "ATRA", "WSBA"}

OneAcronym == {"ATRA"}

DatabaseOf == [a \in Acronyms |-> IF a = "WSBA" THEN "wsba" ELSE "atra"]

ShortNamesSeen == [d \in {"atra", "wsba"} |-> IF d = "atra" THEN "ATRA" ELSE NoName]

WebHosts == [d \in {"atra", "wsba"} |-> IF d = "atra" THEN "atra.web" ELSE "wsba.web"]

\* Racing on Rails replaces the events while they are copied.
AtraChanging ==
  [d \in {"atra", "wsba"} |-> IF d = "atra" THEN {<<"a1", "a2">>, <<"b1">>} ELSE {<<"w1">>}]

TwoEvents == [d \in {"atra", "wsba"} |-> {<<"a1", "a2">>}]

NoInputs == {}

NoRows == {}

SeedSql == {[NewDefault EXCEPT !.id = 1, !.host = {"0.0.0.0", "localhost", "cbra.local"}]}

AllTexts == STRING
=============================================================================

------------------------------- MODULE MCRoot -------------------------------
(***************************************************************************)
(* Two associations that are both reached at localhost, each copied once,  *)
(* beside a visitor.  A name that ends in a percent sign breaks the JSON.  *)
(***************************************************************************)
EXTENDS Root

AllTexts == STRING
NoRows == {}
NoInputs == {}

Posted == {"ATRA", "WSBA"}

DatabaseOf == [a \in Posted |-> IF a = "ATRA" THEN "atra" ELSE "wsba"]

ShortNamesSeen == [d \in {"atra", "wsba"} |-> IF d = "atra" THEN "ATRA" ELSE "WSBA"]

WebHosts == [d \in {"atra", "wsba"} |-> IF d = "atra" THEN "atra.web" ELSE "wsba.web"]

Tables == [d \in {"atra", "wsba"} |-> IF d = "atra" THEN {<<"a1", "a2">>} ELSE {<<"w1", "100%">>}]

AskedHosts == {"localhost:8080", "wsba.web"}

RegularExpressions ==
  [x \in {"0.0.0.0", "localhost", "atra.web", "wsba.web"} |->
     CASE x = "localhost" -> {"localhost:8080"}
       [] x = "wsba.web" -> {"wsba.web"}
       [] OTHER -> {}]

=============================================================================

------------------------ MODULE MCAssociationService ------------------------
(***************************************************************************)
(* Instances of AssociationService for TLC.                                *)
(***************************************************************************)
EXTENDS AssociationService

Unsaveds(acronym, host, name) ==
  [id |-> 0, acronym |-> acronym, host |-> host, name |-> name]

\* The associations of association_test.go: their own acronym, host and name.
Atra == Unsaveds("ATRA", {"atra.local"}, "American Track")

\* Another spelling of ATRA: an acronym of its own, the host and name of the first.
AtraLower == Unsaveds("atra", {"atra.local"}, "American Track")

AtraOnly == {Atra}

AtraTwice == {Atra, AtraLower}

NoInputs == {}

\* The row of src/db/seed.sql, whose id does not come from the sequence.
SeedSql == {[NewDefault EXCEPT !.id = 1, !.host = {"0.0.0.0", "localhost", "cbra.local"}]}

NoRows == {}

Hosts == {"localhost", "atra.local"}

AllTexts == STRING
=============================================================================

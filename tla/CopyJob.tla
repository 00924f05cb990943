------------------------------- MODULE CopyJob -------------------------------
(***************************************************************************)
(* What POST /rails/copy promises, whatever connections, retries and       *)
(* lookups it takes: a request keeps the events that it has read, writes   *)
(* them in order under one association of the acronym it was given, and is *)
(* answered after that.  Only a failed statement may lose an event, and no *)
(* answer but 200 leaves events behind, unless the process dies.           *)
(***************************************************************************)
EXTENDS Naturals, Sequences

CONSTANTS
  Requests,
  Acronyms,
  Tables             \* Tables[a]: the contents of the Rails table of acronym a over time

VARIABLES
  status,            \* status[r]: "idle", "running", or the answer
  acronym,           \* acronym[r]: the acronym that was posted
  read,              \* read[r]: the events that r has read
  passed,            \* passed[r]: how many of them r has tried to write
  rows,              \* the events written
  associations,      \* the associations there are
  faulted            \* faulted[r]: a statement of r has failed

vars == <<status, acronym, read, passed, rows, associations, faulted>>

Init ==
  /\ status = [r \in Requests |-> "idle"]
  /\ acronym = [r \in Requests |-> ""]
  /\ read = [r \in Requests |-> <<>>]
  /\ passed = [r \in Requests |-> 0]
  /\ rows = {}
  /\ faulted = [r \in Requests |-> FALSE]

\* A statement of r may fail in any step of r.
MayFault(r) == faulted' \in {faulted, [faulted EXCEPT ![r] = TRUE]}

Answer(r, a) == status' = [status EXCEPT ![r] = a]

Begin(r) ==
  /\ status[r] = "idle"
  /\ status' = [status EXCEPT ![r] = "running"]
  /\ \E a \in Acronyms : acronym' = [acronym EXCEPT ![r] = a]
  /\ UNCHANGED <<read, passed, rows, associations, faulted>>

Refuse(r) ==
  /\ status[r] = "idle"
  /\ Answer(r, "400")
  /\ UNCHANGED <<acronym, read, passed, rows, associations, faulted>>

\* The whole table, or the first events of it if the read has failed.
Read(r) ==
  /\ status[r] = "running"
  /\ read[r] = <<>> /\ passed[r] = 0
  /\ MayFault(r)
  /\ \E t \in Tables[acronym[r]] :
       \/ read' = [read EXCEPT ![r] = t]
       \/ /\ faulted'[r]
          /\ \E n \in 0..Len(t) : read' = [read EXCEPT ![r] = SubSeq(t, 1, n)]
  /\ UNCHANGED <<status, acronym, passed, rows, associations>>

\* The association is looked for and inserted, or neither works.
FindAssociation(r) ==
  /\ status[r] = "running"
  /\ passed[r] = 0
  /\ MayFault(r)
  /\ associations \subseteq associations'
  /\ UNCHANGED <<status, acronym, read, passed, rows>>

Write(r) ==
  /\ status[r] = "running"
  /\ passed[r] < Len(read[r])
  /\ \E a \in associations :
       /\ a.acronym = acronym[r]
       /\ rows' = rows \cup {[by |-> r, pos |-> passed[r] + 1, associationId |-> a.id,
                              event |-> read[r][passed[r] + 1]]}
  /\ passed' = [passed EXCEPT ![r] = @ + 1]
  /\ UNCHANGED <<status, acronym, read, associations, faulted>>

Lose(r) ==
  /\ status[r] = "running"
  /\ passed[r] < Len(read[r])
  /\ MayFault(r) /\ faulted'[r]
  /\ passed' = [passed EXCEPT ![r] = @ + 1]
  /\ UNCHANGED <<status, acronym, read, rows, associations>>

\* All is written, or nothing, for want of an association.
Succeed(r) ==
  /\ status[r] = "running"
  /\ passed[r] \in {0, Len(read[r])}
  /\ Answer(r, "200")
  /\ UNCHANGED <<acronym, read, passed, rows, associations, faulted>>

Fail(r) ==
  /\ status[r] = "running"
  /\ passed[r] = 0
  /\ MayFault(r)
  /\ \E a \in {"500", "aborted"} : Answer(r, a)
  /\ UNCHANGED <<acronym, read, passed, rows, associations>>

Die ==
  /\ status' = [r \in Requests |-> IF status[r] = "running" THEN "lost" ELSE status[r]]
  /\ UNCHANGED <<acronym, read, passed, rows, associations, faulted>>

Next ==
  \/ \E r \in Requests :
       \/ Begin(r) \/ Refuse(r)
       \/ Read(r) \/ FindAssociation(r)
       \/ Write(r) \/ Lose(r)
       \/ Succeed(r) \/ Fail(r)
  \/ Die

Spec == Init /\ [][Next]_vars

=============================================================================

---------------------------- MODULE DawnPatrolDB ----------------------------
(***************************************************************************)
(* The Postgres database of Dawn Patrol, as gorm uses it: the tables       *)
(* associations and events, the sequence behind associations.id, and the   *)
(* transaction that gorm opens around every single Create.                 *)
(*                                                                         *)
(* Each client has one statement in flight at a time.  An INSERT into      *)
(* associations is three steps, because other clients act between them:    *)
(* nextval, which is never undone; the INSERT, which waits for another     *)
(* client's uncommitted row when a unique index would hold both; and       *)
(* COMMIT.                                                                 *)
(***************************************************************************)
EXTENDS Integers, FiniteSets

CONSTANTS
  Texts,             \* the values of text columns
  Clients,           \* who runs statements: requests, or callers of a service
  SeedRows,          \* the rows of associations before the API starts
  FirstId            \* what associations_id_seq returns first

VARIABLES
  associations,      \* the committed rows of table associations
  nextId,            \* what nextval('associations_id_seq') returns next
  tx,                \* tx[c]: the row client c has inserted and not committed, if any
  events             \* the committed rows of table events

dbVars == <<associations, nextId, tx, events>>

\* Two rows that one of the unique indexes on associations cannot both hold.
Conflict(x, y) ==
  \/ x.id = y.id
  \/ x.acronym = y.acronym
  \/ x.host = y.host
  \/ x.name = y.name

\* An api.Association; id 0 while it has no row.  host stands for the alternatives of
\* the regular expression in the column.
Struct == [id : Nat, acronym : Texts, host : SUBSET Texts, name : Texts]

ASSUME SeedAssumption ==
  /\ FirstId \in Nat \ {0}
  /\ \A x \in SeedRows : x \in Struct /\ x.id # 0
  /\ \A x, y \in SeedRows : Conflict(x, y) => x = y

DBInit ==
  /\ associations = SeedRows
  /\ nextId = FirstId
  /\ tx = [c \in Clients |-> {}]
  /\ events = {}

-----------------------------------------------------------------------------
(* The steps of an INSERT INTO associations (...) RETURNING id. *)

Violates(row) == \E x \in associations : Conflict(row, x)

BlockedBy(c, row) == {d \in Clients \ {c} : \E x \in tx[d] : Conflict(row, x)}

\* The sequence is not transactional: a value drawn by an INSERT that fails is lost.
NextVal ==
  /\ nextId' = nextId + 1
  /\ UNCHANGED <<associations, tx, events>>

InsertAssociation(c, row) ==
  /\ ~Violates(row)
  /\ BlockedBy(c, row) = {}
  /\ tx' = [tx EXCEPT ![c] = {row}]
  /\ UNCHANGED <<associations, nextId, events>>

Commit(c) ==
  /\ associations' = associations \cup tx[c]
  /\ tx' = [tx EXCEPT ![c] = {}]
  /\ UNCHANGED <<nextId, events>>

Rollback(S) ==
  /\ tx' = [c \in Clients |-> IF c \in S THEN {} ELSE tx[c]]
  /\ UNCHANGED <<associations, nextId, events>>

-----------------------------------------------------------------------------
(* Events carry the foreign key to associations and nothing unique but their id. *)

ReferencesAssociation(e) == \E a \in associations : a.id = e.associationId

InsertEvent(e) ==
  /\ ReferencesAssociation(e)
  /\ events' = events \cup {e}
  /\ UNCHANGED <<associations, nextId, tx>>

=============================================================================

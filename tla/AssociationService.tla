------------------------- MODULE AssociationService -------------------------
(***************************************************************************)
(* api/pkg/db/association.go: the service that finds and creates           *)
(* associations, called by concurrent clients (HTTP requests; tests).      *)
(*                                                                         *)
(* None of its methods runs in a transaction of its own.  A call is a      *)
(* lookup, a decision taken in Go on what the lookup left in the struct,   *)
(* and an INSERT: every other client can act between them.  Database       *)
(* errors are dropped by Create, FirstOrCreate, Default and                *)
(* DefaultOrCreateDefault; all a caller ever sees is whether the struct    *)
(* came back with an ID.                                                   *)
(***************************************************************************)
EXTENDS DawnPatrolDB

CONSTANTS
  Inputs,            \* the associations callers pass, none of them saved
  RequestHosts,      \* the hosts asked for by FirstByHost
  MaxFaults,         \* bound: database statements that fail
  MaxId              \* bound: no call starts once the sequence is past it

VARIABLES
  op,                \* op[c]: the method client c calls
  where,             \* where[c]: the lookup's conditions; a blank field is none
  association,       \* association[c]: the struct of the call; id 0 while not saved
  drawn,             \* drawn[c]: the id the INSERT of the call took from the sequence
  phase,             \* phase[c]: how far the call is
  faults,            \* how many statements have failed
  faulted            \* faulted[c]: a statement of c's call failed (history)

callVars == <<op, where, association, drawn, phase, faults, faulted>>

Methods == {"Create", "CreateDefault", "Default", "DefaultOrCreateDefault",
            "FirstByHost", "FirstOrCreate"}

Phases == {"idle", "first", "draw", "insert", "commit", "returned"}

Blank == [id |-> 0, acronym |-> "", host |-> {}, name |-> ""]

NewDefault ==
  [id      |-> 0,
   acronym |-> "CBRA",
   host    |-> {"0.0.0.0", "localhost", "cbra.web"},
   name    |-> "Cascadia Bicycle Racing Association"]

ASSUME TextAssumption ==
  {"", "CBRA", "0.0.0.0", "localhost", "cbra.web", "Cascadia Bicycle Racing Association"}
    \subseteq Texts

ASSUME InputAssumption ==
  /\ \A a \in Inputs : a \in Struct /\ a.id = 0
  /\ RequestHosts \subseteq Texts
  /\ MaxFaults \in Nat /\ MaxId \in Nat

CallInit ==
  /\ op = [c \in Clients |-> "Default"]
  /\ where = [c \in Clients |-> Blank]
  /\ association = [c \in Clients |-> Blank]
  /\ drawn = [c \in Clients |-> 0]
  /\ phase = [c \in Clients |-> "idle"]
  /\ faults = 0
  /\ faulted = [c \in Clients |-> FALSE]

-----------------------------------------------------------------------------
(* What a call does, one action per statement it sends.  These are shared   *)
(* with RailsCopy, whose requests call FirstOrCreate.                       *)

\* gorm's Where(struct).First(&struct): the fields that are not blank, and the
\* primary key of the struct to fill if it has one.  FirstByHost passes SQL instead.
Answers(method, w, x) ==
  IF method = "FirstByHost"
  THEN w.host \subseteq x.host
  ELSE /\ w.id \in {0, x.id}
       /\ w.acronym \in {"", x.acronym}
       /\ w.host \in {{}, x.host}
       /\ w.name \in {"", x.name}

\* Mutant: a lookup that reads uncommitted rows.
FoundDirty(c) ==
  {x \in associations \cup UNION {tx[d] : d \in Clients} : Answers(op[c], where[c], x)}

Found(c) == {x \in associations : Answers(op[c], where[c], x)}

NewRecord(c) == association[c].id = 0

CreatesWhenMissing(c) == op[c] \in {"DefaultOrCreateDefault", "FirstOrCreate"}

Enter(c, method, conditions, struct, first) ==
  /\ op' = [op EXCEPT ![c] = method]
  /\ where' = [where EXCEPT ![c] = conditions]
  /\ association' = [association EXCEPT ![c] = struct]
  /\ phase' = [phase EXCEPT ![c] = first]
  /\ UNCHANGED <<drawn, faults>>

\* Something outside the program fails: a server, the network, the process.
Fault ==
  /\ faults < MaxFaults
  /\ faults' = faults + 1

\* A statement of c's call fails, and gorm reports an error that nobody reads.
StatementFails(c) ==
  /\ Fault
  /\ faulted' = [faulted EXCEPT ![c] = TRUE]

Goto(c, p) == phase' = [phase EXCEPT ![c] = p]

FirstFinds(c) ==
  /\ phase[c] = "first"
  /\ \E x \in Found(c) :
       /\ \A y \in Found(c) : x.id <= y.id
       /\ association' = [association EXCEPT ![c] = x]
  /\ Goto(c, "returned")
  /\ UNCHANGED <<dbVars, op, where, drawn, faults, faulted>>

\* Mutant: a lookup that is repeated until it finds a row.
FirstMissesPolls(c) ==
  /\ phase[c] = "first"
  /\ Found(c) = {}
  /\ Goto(c, IF CreatesWhenMissing(c) /\ NewRecord(c) THEN "draw" ELSE "first")
  /\ UNCHANGED <<dbVars, op, where, association, drawn, faults, faulted>>

FirstMisses(c) ==
  /\ phase[c] = "first"
  /\ Found(c) = {}
  /\ Goto(c, IF CreatesWhenMissing(c) /\ NewRecord(c) THEN "draw" ELSE "returned")
  /\ UNCHANGED <<dbVars, op, where, association, drawn, faults, faulted>>

\* FirstOrCreate looks at the ID alone, so it goes on as if nothing had been found;
\* gorm's own FirstOrCreate, behind DefaultOrCreateDefault, creates only on not-found.
FirstFails(c) ==
  /\ phase[c] = "first"
  /\ StatementFails(c)
  /\ Goto(c, IF op[c] = "FirstOrCreate" /\ NewRecord(c) THEN "draw" ELSE "returned")
  /\ UNCHANGED <<dbVars, op, where, association, drawn>>

Row(c) == [association[c] EXCEPT !.id = drawn[c]]

\* Mutant: the id is max(id) + 1 in place of a value of the sequence.
DrawMaxId(c) ==
  /\ phase[c] = "draw"
  /\ NextVal
  /\ \E n \in 1..nextId :
       /\ \A x \in associations : x.id < n
       /\ n = 1 \/ \E x \in associations : x.id = n - 1
       /\ drawn' = [drawn EXCEPT ![c] = n]
  /\ Goto(c, "insert")
  /\ UNCHANGED <<op, where, association, faults, faulted>>

DrawId(c) ==
  /\ phase[c] = "draw"
  /\ NextVal
  /\ drawn' = [drawn EXCEPT ![c] = nextId]
  /\ Goto(c, "insert")
  /\ UNCHANGED <<op, where, association, faults, faulted>>

\* Mutant: the id that the INSERT returned is not put into the struct.
InsertLosesId(c) ==
  /\ phase[c] = "insert"
  /\ InsertAssociation(c, Row(c))
  /\ Goto(c, "commit")
  /\ UNCHANGED <<op, where, association, drawn, faults, faulted>>

\* gorm reads the new id with the INSERT, before it commits.
Insert(c) ==
  /\ phase[c] = "insert"
  /\ InsertAssociation(c, Row(c))
  /\ association' = [association EXCEPT ![c].id = drawn[c]]
  /\ Goto(c, "commit")
  /\ UNCHANGED <<op, where, drawn, faults, faulted>>

\* Mutant: the id is set before the INSERT and stays in the struct when it is refused.
InsertConflictsKeepsId(c) ==
  /\ phase[c] = "insert"
  /\ Violates(Row(c))
  /\ Goto(c, "returned")
  /\ association' = [association EXCEPT ![c].id = drawn[c]]
  /\ UNCHANGED <<dbVars, op, where, drawn, faults, faulted>>

\* A unique violation: gorm rolls back and Create drops the error.
InsertConflicts(c) ==
  /\ phase[c] = "insert"
  /\ Violates(Row(c))
  /\ Goto(c, "returned")
  /\ UNCHANGED <<dbVars, op, where, association, drawn, faults, faulted>>

InsertFails(c) ==
  /\ phase[c] = "insert"
  /\ StatementFails(c)
  /\ Goto(c, "returned")
  /\ UNCHANGED <<dbVars, op, where, association, drawn>>

CommitInsert(c) ==
  /\ phase[c] = "commit"
  /\ Commit(c)
  /\ Goto(c, "returned")
  /\ UNCHANGED <<op, where, association, drawn, faults, faulted>>

\* The row is gone and the struct keeps the id it was given.
CommitFails(c) ==
  /\ phase[c] = "commit"
  /\ StatementFails(c)
  /\ Rollback({c})
  /\ Goto(c, "returned")
  /\ UNCHANGED <<op, where, association, drawn>>

CallStep(c) ==
  \/ FirstFinds(c)
  \/ FirstMisses(c)
  \/ DrawId(c)
  \/ Insert(c)
  \/ InsertConflicts(c)
  \/ CommitInsert(c)

CallFault(c) ==
  \/ FirstFails(c)
  \/ InsertFails(c)
  \/ CommitFails(c)

-----------------------------------------------------------------------------
(* The methods. *)

Idle(c) == phase[c] \in {"idle", "returned"} /\ nextId <= MaxId

Create(c) ==
  \E a \in Inputs : Enter(c, "Create", Blank, a, "draw")

CreateDefault(c) ==
  Enter(c, "CreateDefault", Blank, NewDefault, "draw")

Default(c) ==
  Enter(c, "Default", [Blank EXCEPT !.acronym = "CBRA"], Blank, "first")

DefaultOrCreateDefault(c) ==
  Enter(c, "DefaultOrCreateDefault", NewDefault, NewDefault, "first")

FirstByHost(c) ==
  \E h \in RequestHosts :
    Enter(c, "FirstByHost", [Blank EXCEPT !.host = {h}], Blank, "first")

\* Mutant: the lookup goes by the name in place of the acronym.
FirstOrCreateByName(c, a) ==
  Enter(c, "FirstOrCreate", [Blank EXCEPT !.id = a.id, !.name = a.name], a, "first")

FirstOrCreateOf(c, a) ==
  Enter(c, "FirstOrCreate", [Blank EXCEPT !.id = a.id, !.acronym = a.acronym], a, "first")

\* What a caller passes is new, or what an earlier call gave back.
Saved(c) == {a \in {association[c]} : phase[c] = "returned" /\ ~faulted[c] /\ a.id # 0}

FirstOrCreate(c) ==
  \E a \in Inputs \cup Saved(c) : FirstOrCreateOf(c, a)

Call(c) ==
  /\ Idle(c)
  /\ \/ Create(c)
     \/ CreateDefault(c)
     \/ Default(c)
     \/ DefaultOrCreateDefault(c)
     \/ FirstByHost(c)
     \/ FirstOrCreate(c)
  /\ faulted' = [faulted EXCEPT ![c] = FALSE]
  /\ UNCHANGED dbVars

\* The bound on ids ends the run once every call has returned.
Terminated ==
  /\ nextId > MaxId
  /\ \A c \in Clients : phase[c] \in {"idle", "returned"}
  /\ UNCHANGED <<dbVars, callVars>>

ServiceInit == DBInit /\ CallInit

ServiceNext ==
  \/ \E c \in Clients : Call(c) \/ CallStep(c) \/ CallFault(c)
  \/ Terminated

\* A statement that can run is run: Postgres and the goroutine go on by themselves.
ServiceSpec ==
  /\ ServiceInit
  /\ [][ServiceNext]_<<dbVars, callVars>>
  /\ \A c \in Clients : WF_<<dbVars, callVars>>(CallStep(c))

-----------------------------------------------------------------------------
(* Properties. *)

\* Every variable holds a value of its kind, and a client has a row of its own in an
\* open transaction exactly while its INSERT waits for COMMIT.
ServiceTypeOK ==
  /\ \A x \in associations : x \in Struct /\ x.id # 0
  /\ nextId \in Nat \ {0}
  /\ association \in [Clients -> Struct]
  /\ where \in [Clients -> Struct]
  /\ op \in [Clients -> Methods]
  /\ phase \in [Clients -> Phases]
  /\ drawn \in [Clients -> Nat]
  /\ faulted \in [Clients -> BOOLEAN]
  /\ faults \in 0..MaxFaults
  /\ tx = [c \in Clients |-> IF phase[c] = "commit" THEN {Row(c)} ELSE {}]

Uncommitted == UNION {tx[c] : c \in Clients}

\* No two rows, committed or waiting for COMMIT, have the same id, acronym, host or name.
\* The service looks and then inserts without a lock; that concurrent calls leave one row
\* per acronym rests on the indexes and on who waits for whom.
UniqueRows ==
  \A x, y \in associations \cup Uncommitted : Conflict(x, y) => x = y

\* The id in a struct, whatever became of the call that set it, is the id of that
\* association's row or of no row at all, ever: the id of an INSERT that failed or of a
\* COMMIT that was lost is never given to another association.  Copy files events under
\* this id without looking again.
IdNamesOneAssociation ==
  \A c \in Clients : \A x \in associations :
    association[c].id = x.id => association[c] = x

\* What makes the two above inductive: an id is drawn once, and until a struct's row is
\* committed its id is the one its own call drew, which no row has.
DrawnOnce ==
  \A c \in Clients :
    /\ drawn[c] < nextId
    /\ \A d \in Clients \ {c} : drawn[c] # 0 => drawn[c] # drawn[d]

IdOfPhase ==
  \A c \in Clients :
    /\ phase[c] \in {"draw", "insert"} => association[c].id = 0
    /\ phase[c] \in {"insert", "commit"} => drawn[c] # 0
    /\ phase[c] = "commit" => association[c].id = drawn[c]

OwnId(c) ==
  /\ association[c].id = drawn[c]
  /\ \A x \in associations : x.id # drawn[c]

IdHasRowOrNone ==
  \A c \in Clients :
    association[c].id # 0 => association[c] \in associations \/ OwnId(c)

\* A call that lost no statement has either no id or a row.
ReturnedHasRow ==
  \A c \in Clients :
    /\ phase[c] = "first" \/ (phase[c] = "returned" /\ ~faulted[c])
    /\ association[c].id # 0
    => association[c] \in associations

CallInv ==
  /\ ServiceTypeOK
  /\ UniqueRows
  /\ DrawnOnce
  /\ IdOfPhase
  /\ IdHasRowOrNone
  /\ ReturnedHasRow

\* A call of a method that started returns: an INSERT that waits for another's row gets
\* its answer.
EveryCallReturns ==
  \A c \in Clients : phase[c] = "first" \/ phase[c] = "draw" ~> phase[c] = "returned"

\* What the doc comments say of FirstOrCreate: the association it was given has a row when
\* it returns, unless the database failed.
FirstOrCreateSaves ==
  \A c \in Clients :
    op[c] = "FirstOrCreate" /\ phase[c] = "returned" /\ ~faulted[c] => association[c].id # 0

-----------------------------------------------------------------------------
(* The service implements Registry.  A call takes effect when its lookup      *)
(* finds a row, when its COMMIT succeeds or when its INSERT is refused.       *)

SharesColumn(x, y) == Conflict([x EXCEPT !.id = 0], [y EXCEPT !.id = 1])

RegistryStatus(c) ==
  CASE phase[c] = "idle" -> "none"
    [] phase[c] # "idle" /\ faulted[c] -> "failed"
    [] phase[c] = "returned" /\ ~faulted[c] -> "done"
    [] OTHER -> "pending"

RegistryCall(c) ==
  LET status == RegistryStatus(c)
      done   == status \in {"none", "done"}
  IN [status |-> status,
      method |-> op[c],
      where  |-> where[c],
      new    |-> IF done THEN Blank ELSE [association[c] EXCEPT !.id = 0],
      result |-> IF done THEN association[c] ELSE Blank]

RegistryOfCalls ==
  INSTANCE Registry WITH
    rows         <- associations,
    call         <- [c \in Clients |-> RegistryCall(c)],
    Lookups      <- {"Default", "FirstByHost", "DefaultOrCreateDefault", "FirstOrCreate"},
    Creations    <- {"Create", "CreateDefault", "DefaultOrCreateDefault", "FirstOrCreate"},
    Answers      <- Answers,
    SharesColumn <- SharesColumn,
    Unsaved      <- Blank

\* Every behaviour of the service, its lookups and inserts interleaved as they may be, is
\* one of Registry's, whose calls are atomic.
ImplementsRegistry == RegistryOfCalls!Spec

\* What the mapping rests on beside CallInv: what each method looks for and may create, and
\* that no row has an id that the sequence has yet to return or that waits to be inserted.
\* A row with such an id, as seed.sql writes one, makes an INSERT fail that shares no
\* column with it, which Registry does not allow.
CallOfMethod ==
  \A c \in Clients :
    /\ phase[c] = "first" =>
         /\ op[c] \in {"Default", "FirstByHost", "DefaultOrCreateDefault", "FirstOrCreate"}
         /\ ~faulted[c]
         /\ op[c] \in {"Default", "FirstByHost"} => association[c] = Blank
         /\ op[c] = "DefaultOrCreateDefault" => association[c].id = 0
         /\ op[c] = "FirstOrCreate" =>
              where[c] = [Blank EXCEPT !.id = association[c].id, !.acronym = association[c].acronym]
    /\ phase[c] \in {"draw", "insert", "commit"} =>
         op[c] \in {"Create", "CreateDefault", "DefaultOrCreateDefault", "FirstOrCreate"}

IdsDrawn ==
  \A x \in associations :
    /\ x.id < nextId
    /\ \A c \in Clients : phase[c] \in {"insert", "commit"} => x.id # drawn[c]

=============================================================================

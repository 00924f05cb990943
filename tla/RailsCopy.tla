------------------------------ MODULE RailsCopy ------------------------------
(***************************************************************************)
(* POST /rails/copy: concurrent requests that copy the events of a Racing  *)
(* on Rails MySQL database into Dawn Patrol's Postgres database            *)
(* (rails/http/copy.go, rails/db/racing_association.go, db/databases.go,   *)
(* db/event.go), with the API process that runs them, which may crash, and *)
(* the MySQL server, which has a limit on connections.                     *)
(*                                                                         *)
(* A request is a goroutine of its own.  Nothing serialises two of them,   *)
(* and nothing a request writes is undone when a later step of it fails.   *)
(***************************************************************************)
EXTENDS AssociationService, Sequences

CONSTANTS
  Acronyms,          \* the values of the form field "association", not empty
  Lower,             \* Lower[a]: acronym a in lower case, which names its database
  ShortNames,        \* ShortNames[d]: short_name in database d, or NoName without a row
  NoName,
  WebHost,           \* WebHost[d]: that short_name in lower case, with ".web"
  RailsTables,       \* RailsTables[d]: the contents table events of d takes over time
  Attempts,          \* how often openURL tries
  MaxConnections     \* MySQL's max_connections

Databases == DOMAIN RailsTables

ASSUME CopyAssumption ==
  /\ Acronyms \subseteq Texts \ {""}
  /\ Lower \in [Acronyms -> Databases]
  /\ ShortNames \in [Databases -> Texts \cup {NoName}]
  /\ WebHost \in [Databases -> Texts]
  /\ \A d \in Databases : RailsTables[d] \subseteq Seq(Texts)
  /\ Attempts \in Nat \ {0}
  /\ MaxConnections \in Nat

Requests == Clients

VARIABLES
  up,                \* the API process runs
  rails,             \* rails[d]: table events of database d, now
  pc,                \* pc[r]: the statement request r is at
  acronym,           \* acronym[r]: the acronym request r posted
  attempt,           \* attempt[r]: tries of the open loop r is in
  railsEvents,       \* railsEvents[r]: what r has read of table events
  created,           \* created[r]: how many of them r has passed to Create
  open,              \* the pools <<r, statement>> that hold a MySQL connection
  response           \* response[r]: what the client of r got

requestVars == <<pc, acronym, attempt, railsEvents, created, response>>

vars == <<dbVars, callVars, up, rails, requestVars, open>>

Init ==
  /\ DBInit
  /\ CallInit
  /\ up = TRUE
  /\ rails \in [Databases -> UNION {RailsTables[d] : d \in Databases}]
  /\ \A d \in Databases : rails[d] \in RailsTables[d]
  /\ pc = [r \in Requests |-> "idle"]
  /\ acronym = [r \in Requests |-> ""]
  /\ attempt = [r \in Requests |-> 0]
  /\ railsEvents = [r \in Requests |-> <<>>]
  /\ created = [r \in Requests |-> 0]
  /\ open = {}
  /\ response = [r \in Requests |-> "none"]

Database(r) == Lower[acronym[r]]

-----------------------------------------------------------------------------
(* The handler, up to the read of the Rails events. *)

\* Mutant: no defer db.Close().
RespondWithoutClose(r, status) ==
  /\ response' = [response EXCEPT ![r] = status]
  /\ pc' = [pc EXCEPT ![r] = "done"]
  /\ UNCHANGED open

\* The request ends: the deferred Close of Copy's own pool runs on every way out of it.
\* The pool that Find opened is not closed by anyone.
Respond(r, status) ==
  /\ response' = [response EXCEPT ![r] = status]
  /\ pc' = [pc EXCEPT ![r] = "done"]
  /\ open' = open \ {<<r, "copy">>}

Step(r, from, to) ==
  /\ pc[r] = from
  /\ pc' = [pc EXCEPT ![r] = to]

Post(r) ==
  /\ up
  /\ \E a \in Acronyms :
       /\ Step(r, "idle", "openCopy")
       /\ acronym' = [acronym EXCEPT ![r] = a]
  /\ UNCHANGED <<dbVars, callVars, up, rails, attempt, railsEvents, created, open, response>>

PostNothing(r) ==
  /\ up
  /\ pc[r] = "idle"
  /\ Respond(r, "400")
  /\ UNCHANGED <<dbVars, callVars, up, rails, acronym, attempt, railsEvents, created>>

\* Databases.For: Copy opens a pool to read the events, Find another one for the
\* racing association.  gorm.Open pings, so a pool that opens holds a connection.
Opening(r) == pc[r] \in {"openCopy", "openFind"}

Pool(r) == IF pc[r] = "openCopy" THEN "copy" ELSE "find"

ServerFull == Cardinality(open) >= MaxConnections

Opens(r) ==
  /\ Opening(r)
  /\ ~ServerFull
  /\ open' = open \cup {<<r, Pool(r)>>}
  /\ attempt' = [attempt EXCEPT ![r] = 0]
  /\ pc' = [pc EXCEPT ![r] = IF Pool(r) = "copy" THEN "readEvents" ELSE "find"]
  /\ UNCHANGED <<dbVars, callVars, up, rails, acronym, railsEvents, created, response>>

\* Mutant: one try too many.
RetryOnceMore(r) ==
  /\ IF attempt[r] + 1 <= Attempts
     THEN /\ attempt' = [attempt EXCEPT ![r] = @ + 1]
          /\ UNCHANGED <<pc, response, open>>
     ELSE /\ attempt' = [attempt EXCEPT ![r] = 0]
          /\ Respond(r, "aborted")
  /\ UNCHANGED <<dbVars, op, where, association, drawn, phase, faulted,
                 up, rails, acronym, railsEvents, created>>

\* Mutant: a loop that never gives up.
RetryForever(r) ==
  /\ UNCHANGED <<pc, response, open, attempt>>
  /\ UNCHANGED <<dbVars, op, where, association, drawn, phase, faulted,
                 up, rails, acronym, railsEvents, created>>

\* The loop sleeps after a failed try and tries again, or panics after its last one.  The
\* panic carries a string, on which raven's RecoveryHandler panics in turn, so net/http
\* drops the connection without a response.
RetryOrPanic(r) ==
  /\ IF attempt[r] + 1 < Attempts
     THEN /\ attempt' = [attempt EXCEPT ![r] = @ + 1]
          /\ UNCHANGED <<pc, response, open>>
     ELSE /\ attempt' = [attempt EXCEPT ![r] = 0]
          /\ Respond(r, "aborted")
  /\ UNCHANGED <<dbVars, op, where, association, drawn, phase, faulted,
                 up, rails, acronym, railsEvents, created>>

OpenRefused(r) ==
  /\ Opening(r)
  /\ ServerFull
  /\ RetryOrPanic(r)
  /\ UNCHANGED faults

OpenFails(r) ==
  /\ Opening(r)
  /\ Fault
  /\ RetryOrPanic(r)

ReadEvents(r) ==
  /\ Step(r, "readEvents", "openFind")
  /\ railsEvents' = [railsEvents EXCEPT ![r] = rails[Database(r)]]
  /\ UNCHANGED <<dbVars, callVars, up, rails, acronym, attempt, created, open, response>>

\* The error is dropped and the events scanned until then stay in the slice.
ReadEventsFails(r) ==
  /\ Step(r, "readEvents", "openFind")
  /\ StatementFails(r)
  /\ \E n \in 0..Len(rails[Database(r)]) :
       railsEvents' = [railsEvents EXCEPT ![r] = SubSeq(rails[Database(r)], 1, n)]
  /\ UNCHANGED <<dbVars, op, where, association, drawn, phase,
                 up, rails, acronym, attempt, created, open, response>>

-----------------------------------------------------------------------------
(* The association: Find in MySQL, FirstOrCreate in Postgres. *)

NewAssociation(r) ==
  [id      |-> 0,
   acronym |-> acronym[r],
   host    |-> {"0.0.0.0", "localhost", WebHost[Database(r)]},
   name    |-> ShortNames[Database(r)]]

Find(r) ==
  /\ Step(r, "find", "firstOrCreate")
  /\ ShortNames[Database(r)] # NoName
  /\ FirstOrCreateOf(r, NewAssociation(r))
  /\ UNCHANGED <<dbVars, faulted, up, rails,
                 acronym, attempt, railsEvents, created, open, response>>

\* Find's error, not found or any other, is the one that Copy returns and the handler
\* panics with; it is an error value, which RecoveryHandler turns into a 500.
FindMisses(r) ==
  /\ pc[r] = "find"
  /\ ShortNames[Database(r)] = NoName
  /\ Respond(r, "500")
  /\ UNCHANGED <<dbVars, callVars, up, rails, acronym, attempt, railsEvents, created>>

FindFails(r) ==
  /\ pc[r] = "find"
  /\ StatementFails(r)
  /\ Respond(r, "500")
  /\ UNCHANGED <<dbVars, op, where, association, drawn, phase,
                 up, rails, acronym, attempt, railsEvents, created>>

InFirstOrCreate(r) ==
  /\ pc[r] = "firstOrCreate"
  /\ UNCHANGED <<up, rails, requestVars, open>>

\* The events are built in memory.  The time zone database is read for each of them.
BuildEvents(r) ==
  /\ Step(r, "firstOrCreate", "create")
  /\ phase[r] = "returned"
  /\ UNCHANGED <<dbVars, callVars, up, rails,
                 acronym, attempt, railsEvents, created, open, response>>

BuildEventsFails(r) ==
  /\ pc[r] = "firstOrCreate"
  /\ phase[r] = "returned"
  /\ railsEvents[r] # <<>>
  /\ StatementFails(r)
  /\ Respond(r, "500")
  /\ UNCHANGED <<dbVars, op, where, association, drawn, phase,
                 up, rails, acronym, attempt, railsEvents, created>>

-----------------------------------------------------------------------------
(* EventService.Create: one INSERT, in a transaction of its own, per event. *)

\* Mutant: the events are read again while they are written.
EventRowOfNow(r) ==
  LET k == created[r] + 1
      t == rails[Database(r)]
  IN [by |-> r, pos |-> k, associationId |-> association[r].id,
      event |-> IF k <= Len(t) THEN t[k] ELSE railsEvents[r][k]]

EventRow(r) ==
  LET k == created[r] + 1
  IN [by |-> r, pos |-> k, associationId |-> association[r].id, event |-> railsEvents[r][k]]

Creating(r) == pc[r] = "create" /\ created[r] < Len(railsEvents[r])

CreateEvent(r) ==
  /\ Creating(r)
  /\ association[r].id # 0
  /\ InsertEvent(EventRow(r))
  /\ created' = [created EXCEPT ![r] = @ + 1]
  /\ UNCHANGED <<callVars, up, rails, pc, acronym, attempt, railsEvents, open, response>>

\* An INSERT that fails is dropped; the loop goes on with the next event.
SkipEvent(r) ==
  /\ Creating(r)
  /\ association[r].id # 0
  /\ created' = [created EXCEPT ![r] = @ + 1]
  /\ UNCHANGED <<dbVars, op, where, association, drawn, phase,
                 up, rails, pc, acronym, attempt, railsEvents, open, response>>

CreateEventOrphan(r) ==
  /\ SkipEvent(r)
  /\ ~ReferencesAssociation(EventRow(r))
  /\ UNCHANGED <<faults, faulted>>

\* Mutant: Create returns the error of an INSERT, and Copy hands it on.
CreateEventFailsLoudly(r) ==
  /\ Creating(r)
  /\ association[r].id # 0
  /\ StatementFails(r)
  /\ Respond(r, "500")
  /\ UNCHANGED <<dbVars, op, where, association, drawn, phase,
                 up, rails, acronym, attempt, railsEvents, created>>

CreateEventFails(r) ==
  /\ SkipEvent(r)
  /\ StatementFails(r)

\* Create refuses events without an association, Copy drops its error, and the handler
\* returns as it does after the last event: 200.
CreateRefuses(r) ==
  /\ Creating(r)
  /\ association[r].id = 0
  /\ Respond(r, "200")
  /\ UNCHANGED <<dbVars, callVars, up, rails, acronym, attempt, railsEvents, created>>

\* Mutant: the loop ends one event early.
CreateReturnsEarly(r) ==
  /\ pc[r] = "create"
  /\ created[r] + 1 >= Len(railsEvents[r])
  /\ Respond(r, "200")
  /\ UNCHANGED <<dbVars, callVars, up, rails, acronym, attempt, railsEvents, created>>

CreateReturns(r) ==
  /\ pc[r] = "create"
  /\ created[r] = Len(railsEvents[r])
  /\ Respond(r, "200")
  /\ UNCHANGED <<dbVars, callVars, up, rails, acronym, attempt, railsEvents, created>>

-----------------------------------------------------------------------------
(* What happens around the requests. *)

RunningRequests == {r \in Requests : pc[r] \notin {"idle", "done"}}

\* The process dies: its clients see their connection closed, Postgres rolls back what
\* was not committed, MySQL frees every connection, the leaked ones too.
Crash ==
  /\ up
  /\ Fault
  /\ up' = FALSE
  /\ Rollback(Requests)
  /\ phase' = [r \in Requests |-> IF r \in RunningRequests THEN "idle" ELSE phase[r]]
  /\ pc' = [r \in Requests |-> IF r \in RunningRequests THEN "done" ELSE pc[r]]
  /\ response' = [r \in Requests |-> IF r \in RunningRequests THEN "lost" ELSE response[r]]
  /\ open' = {}
  /\ UNCHANGED <<op, where, association, drawn, faulted,
                 rails, acronym, attempt, railsEvents, created>>

Restart ==
  /\ ~up
  /\ up' = TRUE
  /\ UNCHANGED <<dbVars, callVars, rails, requestVars, open>>

\* MySQL closes a connection that has been idle for wait_timeout: a leaked one.
IdleTimeout(r) ==
  /\ <<r, "find">> \in open
  /\ pc[r] = "done"
  /\ open' = open \ {<<r, "find">>}
  /\ UNCHANGED <<dbVars, callVars, up, rails, requestVars>>

\* Racing on Rails goes on changing its own events.
RailsChange ==
  /\ \E d \in Databases : \E t \in RailsTables[d] \ {rails[d]} :
       rails' = [rails EXCEPT ![d] = t]
  /\ UNCHANGED <<dbVars, callVars, up, requestVars, open>>

RequestStep(r) ==
  \/ Opens(r) \/ OpenRefused(r)
  \/ ReadEvents(r)
  \/ Find(r) \/ FindMisses(r)
  \/ InFirstOrCreate(r) /\ CallStep(r)
  \/ BuildEvents(r)
  \/ CreateEvent(r) \/ CreateEventOrphan(r) \/ CreateRefuses(r) \/ CreateReturns(r)

RequestFault(r) ==
  \/ OpenFails(r)
  \/ ReadEventsFails(r)
  \/ FindFails(r)
  \/ InFirstOrCreate(r) /\ CallFault(r)
  \/ BuildEventsFails(r)
  \/ CreateEventFails(r)

AllAnswered ==
  /\ \A r \in Requests : pc[r] = "done"
  /\ UNCHANGED vars

Next ==
  \/ \E r \in Requests :
       \/ Post(r) \/ PostNothing(r)
       \/ RequestStep(r)
       \/ RequestFault(r)
       \/ IdleTimeout(r)
  \/ Crash
  \/ Restart
  \/ RailsChange
  \/ AllAnswered

\* A goroutine runs on while its statements are answered.  Nothing obliges a client to
\* post, Rails to change or anything to fail.
Spec ==
  /\ Init
  /\ [][Next]_vars
  /\ \A r \in Requests : WF_vars(RequestStep(r))

-----------------------------------------------------------------------------
(* Properties. *)

PCs == {"idle", "openCopy", "readEvents", "openFind", "find", "firstOrCreate",
        "create", "done"}

\* Every variable holds a value of its kind.
TypeOK ==
  /\ ServiceTypeOK
  /\ up \in BOOLEAN
  /\ rails \in [Databases -> Seq(Texts)]
  /\ \A d \in Databases : rails[d] \in RailsTables[d]
  /\ pc \in [Requests -> PCs]
  /\ acronym \in [Requests -> Acronyms \cup {""}]
  /\ attempt \in [Requests -> 0..(Attempts - 1)]
  /\ railsEvents \in [Requests -> Seq(Texts)]
  /\ created \in [Requests -> Nat]
  /\ \A r \in Requests : created[r] <= Len(railsEvents[r])
  /\ events \subseteq [by : Requests, pos : Nat \ {0}, associationId : Nat, event : Texts]
  /\ open \subseteq Requests \X {"copy", "find"}
  /\ response \in [Requests -> {"none", "200", "400", "500", "aborted", "lost"}]

RowsOf(r) == {e \in events : e.by = r}

Copied(r) == {e.pos : e \in RowsOf(r)}

\* An event that a request copied belongs to the association whose acronym was posted,
\* whichever requests raced for its row and whichever of their statements failed.
NoCrossAssociation ==
  \A e \in events : \E a \in associations :
    a.id = e.associationId /\ a.acronym = acronym[e.by]

\* The rows of a request are rows of one state of the Rails table, in their places, even
\* if the table changes while they are copied.
OneSnapshot ==
  \A r \in Requests : RowsOf(r) # {} =>
    \E t \in RailsTables[Database(r)] : \A e \in RowsOf(r) : e.pos \in DOMAIN t /\ e.event = t[e.pos]

\* Without a failed statement a request has copied the first events of what it read, with
\* no hole, at any time and after a crash: an id that FirstOrCreate came back with has its
\* row, so that the foreign key refuses none of the events.
NoHoles ==
  \A r \in Requests : ~faulted[r] => Copied(r) = 1..created[r]

\* A 200 means that everything read was copied, or nothing was, if no statement failed.
AllOrNothing ==
  \A r \in Requests : response[r] = "200" /\ ~faulted[r] =>
    Copied(r) \in {{}, 1..Len(railsEvents[r])}

\* A request that read events, was answered 200 without a failed statement and copied none
\* has no association because its INSERT was refused: it had looked in vain and drawn an
\* id, and a row that is not its own stands where its row would.  Nobody whose row was
\* found or inserted loses his events in silence.
NothingCopiedOnlyWhenRefused ==
  \A r \in Requests :
    /\ response[r] = "200" /\ ~faulted[r]
    /\ railsEvents[r] # <<>> /\ RowsOf(r) = {}
    => /\ association[r].id = 0 /\ drawn[r] # 0
       /\ \E x \in associations \ {Row(r)} : Conflict(x, Row(r))

\* A request answered with an error has written no event, so that it can be repeated
\* without copying an event twice.
ErrorsWriteNothing ==
  \A r \in Requests : response[r] \in {"400", "500", "aborted"} => RowsOf(r) = {}

\* Of the connections to MySQL, those of Copy itself belong to requests that run; a
\* request that has ended keeps the one of Find at most, and none after a restart.
OnlyFindLeaks ==
  /\ \A r \in Requests : <<r, "copy">> \in open => r \in RunningRequests
  /\ ~up => open = {}

\* A posted request is answered or its connection is lost, whoever else holds MySQL's
\* connections or an uncommitted row.
EveryRequestAnswered ==
  \A r \in Requests : pc[r] = "openCopy" ~> response[r] # "none"

\* What the doc comment says of Copy: it copies the events of the association.
CopyCopies ==
  \A r \in Requests : response[r] = "200" /\ ~faulted[r] =>
    Copied(r) = 1..Len(railsEvents[r])

-----------------------------------------------------------------------------
(* Refinement: a request is one of CopyJob. *)

JobStatus(r) ==
  CASE pc[r] = "idle" -> "idle"
    [] pc[r] = "done" -> response[r]
    [] OTHER -> "running"

Jobs ==
  INSTANCE CopyJob WITH
    Tables <- [a \in Acronyms |-> RailsTables[Lower[a]]],
    status <- [r \in Requests |-> JobStatus(r)],
    read   <- railsEvents,
    passed <- created,
    rows   <- events

\* Through all its connections, retries and lookups, and beside others that do the same, a
\* request keeps the promise of CopyJob: it writes what it has read in order and under its own
\* acronym, loses events to failed statements only, writes nothing once it is answered, and
\* is answered with an error only if it has written nothing, so that it can be repeated.
ImplementsCopyJob == Jobs!Spec

-----------------------------------------------------------------------------
(* What makes the safety properties inductive. *)

\* The call of FirstOrCreate runs inside its request, and the struct it fills is of the
\* acronym posted, from the moment it is built.
CallOfRequest ==
  \A r \in Requests :
    /\ phase[r] # "idle" => pc[r] \in {"firstOrCreate", "create", "done"}
    /\ phase[r] \in {"first", "draw", "insert", "commit"} => pc[r] = "firstOrCreate"
    /\ pc[r] = "create" => phase[r] = "returned"
    /\ pc[r] \in {"firstOrCreate", "create"} => association[r].acronym = acronym[r]
    /\ pc[r] = "firstOrCreate" => /\ op[r] = "FirstOrCreate"
                                  /\ where[r].acronym = acronym[r]
    /\ pc[r] \notin {"idle", "done"} => acronym[r] \in Acronyms

\* Events are written by the last statements of a request only, one for each step of the
\* loop, and only with an association.
WrittenWhileCreating ==
  \A r \in Requests :
    /\ pc[r] \notin {"create", "done"} => created[r] = 0 /\ RowsOf(r) = {}
    /\ pc[r] = "create" /\ association[r].id = 0 => created[r] = 0
    /\ pc[r] # "done" => response[r] = "none"

\* Requests run in the API process.
RunsInProcess == ~up => RunningRequests = {}

CopyInv ==
  /\ TypeOK
  /\ CallInv
  /\ CallOfRequest
  /\ RunsInProcess
  /\ WrittenWhileCreating
  /\ NoCrossAssociation
  /\ NoHoles
  /\ AllOrNothing
  /\ ErrorsWriteNothing
  /\ OnlyFindLeaks

\* What a request has read are the first events of one state of its table, and its rows are
\* what it has read.
AsRead ==
  \A r \in Requests :
    /\ pc[r] \in {"idle", "openCopy", "readEvents"} => railsEvents[r] = <<>>
    /\ railsEvents[r] # <<>> =>
         \E t \in RailsTables[Database(r)] : \A k \in DOMAIN railsEvents[r] :
           k \in DOMAIN t /\ railsEvents[r][k] = t[k]
    /\ \A e \in RowsOf(r) : e.pos \in DOMAIN railsEvents[r] /\ e.event = railsEvents[r][e.pos]

\* Without a failed statement FirstOrCreate comes back without an id only from an INSERT
\* that was refused, and a 200 before the last event only comes from there.
RefusedOnConflict ==
  \A r \in Requests : ~faulted[r] =>
    /\ phase[r] = "returned" /\ association[r].id = 0 => drawn[r] # 0 /\ Violates(Row(r))
    /\ response[r] = "200" =>
         \/ created[r] = Len(railsEvents[r])
         \/ phase[r] = "returned" /\ association[r].id = 0

\* A request calls FirstOrCreate once, and draws an id only after it has looked for the
\* acronym among the rows that were there before the API.
LooksThenDraws ==
  \A r \in Requests :
    /\ phase[r] \in {"first", "draw"} \/ pc[r] \notin {"firstOrCreate", "create", "done"}
         => drawn[r] = 0
    /\ phase[r] = "first" =>
         /\ association[r].id = 0
         /\ where[r] = [Blank EXCEPT !.id = 0, !.acronym = association[r].acronym]
    /\ phase[r] \in {"draw", "insert"} \/ (phase[r] = "returned" /\ association[r].id = 0)
         => faulted[r] \/ \A x \in SeedRows : x.acronym # association[r].acronym

\* The other rows have ids that the sequence gave, each to the request that holds the row.
RowsOfRequests ==
  /\ SeedRows \subseteq associations
  /\ \A x \in associations \ SeedRows :
       x.id < nextId /\ \A r \in Requests : drawn[r] = x.id => association[r] = x

=============================================================================

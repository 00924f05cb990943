--------------------------------- MODULE Root ---------------------------------
(***************************************************************************)
(* GET /index.json beside the copies of RailsCopy: a visitor's App         *)
(* (web/src/App.js) fetches the events, and the handler (http/root.go)     *)
(* finds the association of the host and then, with another statement,     *)
(* its events.  Copies write both, statement by statement, at any time.    *)
(***************************************************************************)
EXTENDS RailsCopy

CONSTANTS
  Visitors,
  Hosts,             \* the hosts that visitors ask for
  Catches,           \* Catches[x]: the hosts that regular expression x matches
  Breaks             \* the texts that Fprintf, given them as its format, makes invalid JSON

ASSUME RootAssumption ==
  /\ Hosts \subseteq Texts
  /\ DOMAIN Catches \subseteq Texts
  /\ Breaks \subseteq Texts

VARIABLES
  visit,             \* visit[v]: the statement of the handler, or how the visit ended
  asked,             \* asked[v]: the host v asked for
  found,             \* found[v]: the id of the association found for it
  shown,             \* shown[v]: the events in the state of v's App
  before,            \* before[v]: associations and events when the visit began (history)
  misread            \* misread[v]: a statement of the visit failed (history)

rootVars == <<visit, asked, found, shown, before, misread>>

allVars == <<vars, rootVars>>

RootInit ==
  /\ Init
  /\ visit = [v \in Visitors |-> "none"]
  /\ asked = [v \in Visitors |-> ""]
  /\ found = [v \in Visitors |-> 0]
  /\ shown = [v \in Visitors |-> {}]
  /\ before = [v \in Visitors |-> [associations |-> {}, events |-> {}]]
  /\ misread = [v \in Visitors |-> FALSE]

-----------------------------------------------------------------------------

\* App begins with no events and fetches them when it is mounted; nginx cannot reach a
\* process that is down.
Visit(v) ==
  /\ visit[v] = "none"
  /\ \E h \in Hosts : asked' = [asked EXCEPT ![v] = h]
  /\ visit' = [visit EXCEPT ![v] = IF up THEN "first" ELSE "error"]
  /\ before' = [before EXCEPT ![v] = [associations |-> associations, events |-> events]]
  /\ UNCHANGED <<vars, found, shown, misread>>

\* ? ~* host: one of the alternatives in the row matches somewhere in the host.
MatchesHost(a, h) == \E x \in a.host \cap DOMAIN Catches : h \in Catches[x]

Matching(rows, h) == {a \in rows : MatchesHost(a, h)}

\* Mutant: the first row is any row.
FirstByHostAny(v) ==
  /\ visit[v] = "first"
  /\ \E a \in Matching(associations, asked[v]) : found' = [found EXCEPT ![v] = a.id]
  /\ visit' = [visit EXCEPT ![v] = "find"]
  /\ UNCHANGED <<vars, asked, shown, before, misread>>

\* First orders by id.
FirstByHostFinds(v) ==
  /\ visit[v] = "first"
  /\ \E a \in Matching(associations, asked[v]) :
       /\ \A b \in Matching(associations, asked[v]) : a.id <= b.id
       /\ found' = [found EXCEPT ![v] = a.id]
  /\ visit' = [visit EXCEPT ![v] = "find"]
  /\ UNCHANGED <<vars, asked, shown, before, misread>>

\* The handler panics with the error, the client gets a page that is not ok, and App
\* throws: its events stay as they are.
FirstByHostMisses(v) ==
  /\ visit[v] = "first"
  /\ Matching(associations, asked[v]) = {}
  /\ visit' = [visit EXCEPT ![v] = "error"]
  /\ UNCHANGED <<vars, asked, found, shown, before, misread>>

Misread(v) ==
  /\ Fault
  /\ misread' = [misread EXCEPT ![v] = TRUE]
  /\ UNCHANGED <<dbVars, op, where, association, drawn, phase, faulted, up, rails, requestVars, open>>

FirstByHostFails(v) ==
  /\ visit[v] = "first"
  /\ Misread(v)
  /\ visit' = [visit EXCEPT ![v] = "error"]
  /\ UNCHANGED <<asked, found, shown, before>>

RowsFound(v) == {e \in events : e.associationId = found[v]}

\* The answer is 200 whatever the text is; App shows what it can parse.
Respond200(v, rows) ==
  IF \E e \in rows : e.event \in Breaks
  THEN visit' = [visit EXCEPT ![v] = "invalid"] /\ UNCHANGED shown
  ELSE visit' = [visit EXCEPT ![v] = "shown"] /\ shown' = [shown EXCEPT ![v] = rows]

\* Mutant: Find without its condition.
FindAllEvents(v) ==
  /\ visit[v] = "find"
  /\ Respond200(v, events)
  /\ UNCHANGED <<vars, asked, found, before, misread>>

\* Mutant: the first event of a copy is left out (an offset that counts from one).
FindEventsOffset(v) ==
  /\ visit[v] = "find"
  /\ Respond200(v, {e \in RowsFound(v) : e.pos > 1})
  /\ UNCHANGED <<vars, asked, found, before, misread>>

FindEvents(v) ==
  /\ visit[v] = "find"
  /\ Respond200(v, RowsFound(v))
  /\ UNCHANGED <<vars, asked, found, before, misread>>

\* Find drops its error, and what was scanned until then is the answer.
FindEventsFails(v) ==
  /\ visit[v] = "find"
  /\ Misread(v)
  /\ \E rows \in SUBSET RowsFound(v) : Respond200(v, rows)
  /\ UNCHANGED <<asked, found, before>>

VisitStep(v) ==
  \/ FirstByHostFinds(v) \/ FirstByHostMisses(v) \/ FirstByHostFails(v)
  \/ FindEvents(v) \/ FindEventsFails(v)

\* A visit is in the process, as a copy is, and ends with it.
EndsWithProcess ==
  IF up /\ ~up'
  THEN /\ visit' = [v \in Visitors |-> IF visit[v] \in {"first", "find"} THEN "error" ELSE visit[v]]
       /\ UNCHANGED <<asked, found, shown, before, misread>>
  ELSE UNCHANGED rootVars

RootNext ==
  \/ Next /\ EndsWithProcess
  \/ \E v \in Visitors : Visit(v) \/ VisitStep(v)

RootSpec == RootInit /\ [][RootNext]_allVars

-----------------------------------------------------------------------------
(* Properties. *)

\* All events that a visitor sees are of one association, whose host is the one he asked
\* for, and they were posted under its acronym.
OneAssociation ==
  \A v \in Visitors : shown[v] # {} =>
    \E a \in Matching(associations, asked[v]) :
      \A e \in shown[v] : e.associationId = a.id /\ acronym[e.by] = a.acronym

\* A visitor sees every event that was there when he came: those of the association that
\* came first for his host, or those of one that has been added since under a smaller id,
\* which its transaction had drawn before.  So what one visit shows a later one does too.
CopiedIsShown ==
  \A v \in Visitors : visit[v] = "shown" /\ ~misread[v] =>
    \A a \in Matching(before[v].associations, asked[v]) :
      /\ found[v] <= a.id
      /\ found[v] = a.id => {e \in before[v].events : e.associationId = a.id} \subseteq shown[v]

\* What he sees of a copy that still runs, or has ended half-way, are its first events:
\* none, before it has written any, but never a later one without those before it.
BeginningOfCopy ==
  \A v \in Visitors : visit[v] = "shown" /\ ~misread[v] =>
    \A r \in Requests : ~faulted[r] =>
      LET seen == {e.pos : e \in {f \in shown[v] : f.by = r}}
      IN seen = 1..Cardinality(seen)

-----------------------------------------------------------------------------
(* What makes them inductive. *)

\* What a visitor asked for and what he was given is of the tables.
RootTypeOK ==
  /\ visit \in [Visitors -> {"none", "first", "find", "shown", "invalid", "error"}]
  /\ asked \in [Visitors -> Texts \cup {""}]
  /\ found \in [Visitors -> Nat]
  /\ shown \in [Visitors -> SUBSET events]
  /\ before \in [Visitors -> [associations : SUBSET associations, events : SUBSET events]]
  /\ misread \in [Visitors -> BOOLEAN]

\* Nothing is seen of a visit that goes on or has failed.
SeenWhenShown ==
  \A v \in Visitors : visit[v] # "shown" => shown[v] = {}

\* The association found is one of the host, and none of those that were there came before it.
FoundFirst ==
  \A v \in Visitors : visit[v] \in {"find", "shown"} =>
    /\ \E a \in Matching(associations, asked[v]) : a.id = found[v]
    /\ \A a \in Matching(before[v].associations, asked[v]) : found[v] <= a.id

RootInv ==
  /\ CopyInv
  /\ RootTypeOK
  /\ SeenWhenShown
  /\ FoundFirst
  /\ OneAssociation
  /\ CopiedIsShown
  /\ BeginningOfCopy

=============================================================================

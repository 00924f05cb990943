---------------------- MODULE AssociationServiceProofs ----------------------
(***************************************************************************)
(* CallInv is an invariant of AssociationService for every set of clients, *)
(* inputs and rows: each statement a call sends preserves it.  The lemmas  *)
(* on single statements speak of the service's variables alone, so that    *)
(* RailsCopyProofs cites them for the calls its requests make.             *)
(* The second part shows that the service implements Registry.             *)
(***************************************************************************)
EXTENDS AssociationService, TLAPS

LEMMA BlankType == Blank \in Struct /\ Blank.id = 0
  BY TextAssumption DEF Blank, Struct

LEMMA NewDefaultType == NewDefault \in Struct /\ NewDefault.id = 0
  BY TextAssumption DEF NewDefault, Struct

LEMMA WithId ==
  ASSUME NEW s \in Struct, NEW n \in Nat
  PROVE  LET t == [s EXCEPT !.id = n] IN
         /\ t \in Struct
         /\ t.id = n /\ t.acronym = s.acronym /\ t.host = s.host /\ t.name = s.name
         /\ [t EXCEPT !.id = n] = t
  BY DEF Struct

\* The invariant holds of the tables as the API finds them, whatever was seeded.
LEMMA CallInvInit == ServiceInit => CallInv
<1> SUFFICES ASSUME ServiceInit PROVE CallInv
  OBVIOUS
<1>1. FirstId \in Nat /\ FirstId > 0 /\ 0 \in 0..MaxFaults
  BY SeedAssumption, InputAssumption
<1>2. \A c \in Clients : /\ association[c] = Blank /\ where[c] = Blank
                         /\ phase[c] = "idle" /\ drawn[c] = 0 /\ tx[c] = {}
  BY DEF ServiceInit, DBInit, CallInit
<1>3. associations = SeedRows /\ nextId = FirstId
  BY DEF ServiceInit, DBInit
<1>4. ServiceTypeOK
  <2>1. association \in [Clients -> Struct] /\ where \in [Clients -> Struct]
    BY BlankType DEF ServiceInit, CallInit
  <2>2. /\ op \in [Clients -> Methods]
        /\ phase \in [Clients -> Phases]
        /\ drawn \in [Clients -> Nat]
        /\ faulted \in [Clients -> BOOLEAN]
        /\ faults \in 0..MaxFaults
    BY <1>1 DEF ServiceInit, CallInit, Methods, Phases
  <2>3. tx = [c \in Clients |-> IF phase[c] = "commit" THEN {Row(c)} ELSE {}]
    BY <1>2 DEF ServiceInit, DBInit
  <2> QED
    BY <1>1, <1>3, <2>1, <2>2, <2>3, SeedAssumption DEF ServiceTypeOK
<1>5. UniqueRows
  BY <1>2, <1>3, SeedAssumption DEF UniqueRows, Uncommitted
<1>6. DrawnOnce
  BY <1>1, <1>2, <1>3 DEF DrawnOnce
<1>7. IdOfPhase
  BY <1>2 DEF IdOfPhase
<1>8. IdHasRowOrNone /\ ReturnedHasRow
  BY <1>2, BlankType DEF IdHasRowOrNone, ReturnedHasRow
<1> QED
  BY <1>4, <1>5, <1>6, <1>7, <1>8 DEF CallInv

-----------------------------------------------------------------------------
(* Preservation. *)

\* A step of c that leaves the tables, the sequence and the ids drawn alone, and gives its
\* struct an id only with the row that has it: a call begins, a lookup, an INSERT that fails.
LEMMA QuietStepInv ==
  ASSUME CallInv, NEW c \in Clients, NEW s \in Struct,
         NEW p \in {"idle", "first", "draw", "returned"},
         UNCHANGED <<associations, nextId, tx, drawn>>,
         association' = [association EXCEPT ![c] = s],
         phase' = [phase EXCEPT ![c] = p],
         phase[c] # "commit",
         s.id = 0 \/ s \in associations,
         p = "draw" => s.id = 0,
         op' \in [Clients -> Methods],
         where' \in [Clients -> Struct],
         faults' \in 0..MaxFaults,
         faulted' \in [Clients -> BOOLEAN],
         \A d \in Clients \ {c} : faulted'[d] = faulted[d]
  PROVE  CallInv'
<1> USE DEF CallInv
<1>1. \A d \in Clients : /\ association'[d] = (IF d = c THEN s ELSE association[d])
                         /\ phase'[d] = (IF d = c THEN p ELSE phase[d])
  BY DEF ServiceTypeOK
<1>2. ServiceTypeOK'
  <2>1. association' \in [Clients -> Struct] /\ phase' \in [Clients -> Phases]
    BY DEF ServiceTypeOK, Phases
  <2>2. tx' = [d \in Clients |-> IF phase'[d] = "commit" THEN {Row(d)'} ELSE {}]
    BY <1>1 DEF ServiceTypeOK, Row
  <2> QED
    BY <2>1, <2>2 DEF ServiceTypeOK
<1>3. UniqueRows'
  BY DEF UniqueRows, Uncommitted
<1>4. DrawnOnce'
  BY DEF DrawnOnce
<1>5. IdOfPhase'
  BY <1>1 DEF IdOfPhase
<1>6. IdHasRowOrNone'
  BY <1>1 DEF IdHasRowOrNone, OwnId
<1>7. ReturnedHasRow'
  BY <1>1 DEF ReturnedHasRow
<1> QED
  BY <1>2, <1>3, <1>4, <1>5, <1>6, <1>7

\* The lookup fills the struct with a row, or leaves it; what is dropped of an error does
\* not give it an id.
LEMMA LookupInv ==
  ASSUME CallInv, NEW c \in Clients,
         FirstFinds(c) \/ FirstMisses(c) \/ FirstFails(c)
  PROVE  CallInv'
<1>1. /\ association[c] \in Struct
      /\ association[c].id = 0 \/ association[c] \in associations
      /\ association = [association EXCEPT ![c] = association[c]]
      /\ phase[c] = "first"
  BY DEF CallInv, ServiceTypeOK, ReturnedHasRow, FirstFinds, FirstMisses, FirstFails
<1>2. CASE FirstFinds(c)
  <2>1. PICK x \in Found(c) : association' = [association EXCEPT ![c] = x]
    BY <1>2 DEF FirstFinds
  <2>2. x \in Struct /\ x \in associations
    BY DEF Found, CallInv, ServiceTypeOK
  <2> QED
    BY <1>1, <1>2, <2>1, <2>2, QuietStepInv
       DEF FirstFinds, Goto, dbVars, CallInv, ServiceTypeOK
<1>3. CASE FirstMisses(c)
  BY <1>1, <1>3, QuietStepInv
     DEF FirstMisses, Goto, NewRecord, dbVars, CallInv, ServiceTypeOK
<1>4. CASE FirstFails(c)
  <2>1. faults' \in 0..MaxFaults
    BY <1>4, InputAssumption DEF FirstFails, StatementFails, Fault, CallInv, ServiceTypeOK
  <2> QED
    BY <1>1, <1>4, <2>1, QuietStepInv
       DEF FirstFails, StatementFails, Fault, Goto, NewRecord, dbVars, CallInv, ServiceTypeOK
<1> QED
  BY <1>2, <1>3, <1>4

\* An INSERT that is refused or fails leaves the struct without an id.
LEMMA FailedInsertInv ==
  ASSUME CallInv, NEW c \in Clients, InsertConflicts(c) \/ InsertFails(c)
  PROVE  CallInv'
<1>1. /\ association[c] \in Struct
      /\ association[c].id = 0
      /\ association = [association EXCEPT ![c] = association[c]]
      /\ phase[c] = "insert"
  BY DEF CallInv, ServiceTypeOK, IdOfPhase, InsertConflicts, InsertFails
<1>2. CASE InsertConflicts(c)
  BY <1>1, <1>2, QuietStepInv DEF InsertConflicts, Goto, dbVars, CallInv, ServiceTypeOK
<1>3. CASE InsertFails(c)
  <2>1. faults' \in 0..MaxFaults
    BY <1>3, InputAssumption DEF InsertFails, StatementFails, Fault, CallInv, ServiceTypeOK
  <2> QED
    BY <1>1, <1>3, <2>1, QuietStepInv
       DEF InsertFails, StatementFails, Fault, Goto, dbVars, CallInv, ServiceTypeOK
<1> QED
  BY <1>2, <1>3

\* nextval gives c an id that no other call has drawn.
LEMMA DrawIdInv ==
  ASSUME CallInv, NEW c \in Clients, DrawId(c)
  PROVE  CallInv'
<1> USE DEF CallInv, DrawId, NextVal, Goto
<1>1. \A d \in Clients : /\ drawn'[d] = (IF d = c THEN nextId ELSE drawn[d])
                         /\ phase'[d] = (IF d = c THEN "insert" ELSE phase[d])
  BY DEF ServiceTypeOK
<1>2. nextId \in Nat /\ nextId > 0 /\ \A d \in Clients : drawn[d] \in Nat
  BY DEF ServiceTypeOK
<1>3. ServiceTypeOK'
  <2>1. /\ nextId' \in Nat \ {0}
        /\ drawn' \in [Clients -> Nat]
        /\ phase' \in [Clients -> Phases]
    BY <1>2 DEF ServiceTypeOK, Phases
  <2>2. tx' = [d \in Clients |-> IF phase'[d] = "commit" THEN {Row(d)'} ELSE {}]
    BY <1>1 DEF ServiceTypeOK, Row
  <2> QED
    BY <2>1, <2>2 DEF ServiceTypeOK
<1>4. UniqueRows'
  BY DEF UniqueRows, Uncommitted
<1>5. DrawnOnce'
  BY <1>1, <1>2 DEF DrawnOnce
<1>6. IdOfPhase'
  BY <1>1, <1>2 DEF IdOfPhase
<1>7. IdHasRowOrNone'
  BY <1>1, <1>2 DEF IdHasRowOrNone, IdOfPhase, OwnId
<1>8. ReturnedHasRow'
  BY <1>1 DEF ReturnedHasRow
<1> QED
  BY <1>3, <1>4, <1>5, <1>6, <1>7, <1>8

\* The row joins no other of the same id, acronym, host or name: none is committed, and
\* for one that is uncommitted the INSERT waits.
LEMMA InsertInv ==
  ASSUME CallInv, NEW c \in Clients, Insert(c)
  PROVE  CallInv'
<1> USE DEF CallInv, Insert, InsertAssociation, Goto
<1>1. \A d \in Clients :
        /\ association'[d] = (IF d = c THEN Row(c) ELSE association[d])
        /\ phase'[d] = (IF d = c THEN "commit" ELSE phase[d])
        /\ tx'[d] = (IF d = c THEN {Row(c)} ELSE tx[d])
  BY DEF ServiceTypeOK, Row
<1>2. /\ Row(c) \in Struct
      /\ Row(c).id = drawn[c] /\ drawn[c] # 0
      /\ Row(c)' = Row(c)
  <2>1. association[c] \in Struct /\ drawn[c] \in Nat /\ drawn[c] # 0
    BY DEF ServiceTypeOK, IdOfPhase
  <2>2. Row(c)' = [Row(c) EXCEPT !.id = drawn[c]]
    BY <1>1 DEF Row
  <2> QED
    BY <2>1, <2>2, WithId DEF Row
<1>3. ServiceTypeOK'
  <2>1. association' \in [Clients -> Struct] /\ phase' \in [Clients -> Phases]
    BY <1>2 DEF ServiceTypeOK, Phases, Row
  <2>2. tx' = [d \in Clients |-> IF phase'[d] = "commit" THEN {Row(d)'} ELSE {}]
    BY <1>1, <1>2 DEF ServiceTypeOK, Row
  <2> QED
    BY <2>1, <2>2 DEF ServiceTypeOK
<1>4. UniqueRows'
  <2>1. \A x \in associations : ~Conflict(Row(c), x)
    BY DEF Violates
  <2>2. \A d \in Clients \ {c} : \A x \in tx[d] : ~Conflict(Row(c), x)
    BY DEF BlockedBy
  <2>3. \A x \in (associations \cup Uncommitted)' :
          \/ x = Row(c)
          \/ x \in associations
          \/ \E d \in Clients \ {c} : x \in tx[d]
    BY <1>1 DEF Uncommitted
  <2>4. \A x, y : Conflict(x, y) <=> Conflict(y, x)
    BY DEF Conflict
  <2> QED
    BY <2>1, <2>2, <2>3, <2>4 DEF UniqueRows, Uncommitted
<1>5. DrawnOnce'
  BY DEF DrawnOnce
<1>6. IdOfPhase'
  BY <1>1, <1>2 DEF IdOfPhase
<1>7. IdHasRowOrNone'
  <2>1. \A x \in associations : x.id # drawn[c]
    BY <1>2 DEF Violates, Conflict
  <2> QED
    BY <1>1, <1>2, <2>1 DEF IdHasRowOrNone, OwnId
<1>8. ReturnedHasRow'
  BY <1>1 DEF ReturnedHasRow
<1> QED
  BY <1>3, <1>4, <1>5, <1>6, <1>7, <1>8

\* The struct's row is committed as it stands in the struct.
LEMMA CommitInsertInv ==
  ASSUME CallInv, NEW c \in Clients, CommitInsert(c)
  PROVE  CallInv'
<1> USE DEF CallInv, CommitInsert, Commit, Goto
<1>1. \A d \in Clients : /\ phase'[d] = (IF d = c THEN "returned" ELSE phase[d])
                         /\ tx'[d] = (IF d = c THEN {} ELSE tx[d])
  BY DEF ServiceTypeOK
<1>2. /\ Row(c) = association[c]
      /\ tx[c] = {association[c]}
      /\ association[c] \in Struct
      /\ association[c].id = drawn[c] /\ drawn[c] # 0
  BY DEF ServiceTypeOK, Row, IdOfPhase, Struct
<1>3. associations' = associations \cup {association[c]}
  BY <1>2
<1>4. ServiceTypeOK'
  <2>1. \A x \in associations' : x \in Struct /\ x.id # 0
    BY <1>2, <1>3 DEF ServiceTypeOK
  <2>2. tx' = [d \in Clients |-> IF phase'[d] = "commit" THEN {Row(d)'} ELSE {}]
    BY <1>1 DEF ServiceTypeOK, Row
  <2>3. phase' \in [Clients -> Phases]
    BY DEF ServiceTypeOK, Phases
  <2> QED
    BY <2>1, <2>2, <2>3 DEF ServiceTypeOK
<1>5. UniqueRows'
  <2>1. (associations \cup Uncommitted)' \subseteq associations \cup Uncommitted
    BY <1>1, <1>2, <1>3 DEF Uncommitted
  <2> QED
    BY <2>1 DEF UniqueRows, Conflict
<1>6. DrawnOnce'
  BY DEF DrawnOnce
<1>7. IdOfPhase'
  BY <1>1 DEF IdOfPhase
<1>8. IdHasRowOrNone'
  <2>1. \A d \in Clients \ {c} : OwnId(d) /\ association[d].id # 0 => OwnId(d)'
    BY <1>2, <1>3 DEF OwnId, DrawnOnce
  <2> QED
    BY <1>3, <2>1 DEF IdHasRowOrNone
<1>9. ReturnedHasRow'
  BY <1>1, <1>3 DEF ReturnedHasRow
<1> QED
  BY <1>4, <1>5, <1>6, <1>7, <1>8, <1>9

\* A lost COMMIT: the struct keeps an id that stays its own.
LEMMA CommitFailsInv ==
  ASSUME CallInv, NEW c \in Clients, CommitFails(c)
  PROVE  CallInv'
<1> USE DEF CallInv, CommitFails, Rollback, StatementFails, Fault, Goto
<1>1. \A d \in Clients : /\ phase'[d] = (IF d = c THEN "returned" ELSE phase[d])
                         /\ tx'[d] = (IF d = c THEN {} ELSE tx[d])
  BY DEF ServiceTypeOK
<1>2. ServiceTypeOK'
  <2>1. /\ faults' \in 0..MaxFaults
        /\ faulted' \in [Clients -> BOOLEAN]
        /\ phase' \in [Clients -> Phases]
    BY InputAssumption DEF ServiceTypeOK, Phases
  <2>2. tx' = [d \in Clients |-> IF phase'[d] = "commit" THEN {Row(d)'} ELSE {}]
    BY <1>1 DEF ServiceTypeOK, Row
  <2> QED
    BY <2>1, <2>2 DEF ServiceTypeOK
<1>3. UniqueRows'
  BY <1>1 DEF UniqueRows, Uncommitted
<1>4. DrawnOnce'
  BY DEF DrawnOnce
<1>5. IdOfPhase'
  BY <1>1 DEF IdOfPhase
<1>6. IdHasRowOrNone'
  BY DEF IdHasRowOrNone, OwnId
<1>7. ReturnedHasRow'
  <2>1. faulted'[c] /\ phase'[c] # "first"
    BY <1>1 DEF ServiceTypeOK
  <2>2. ASSUME NEW d \in Clients \ {c}
        PROVE  phase'[d] = phase[d] /\ (faulted'[d] <=> faulted[d])
    BY <1>1 DEF ServiceTypeOK
  <2> QED
    BY <2>1, <2>2 DEF ReturnedHasRow
<1> QED
  BY <1>2, <1>3, <1>4, <1>5, <1>6, <1>7

LEMMA CallStepInv ==
  ASSUME CallInv, NEW c \in Clients, CallStep(c) \/ CallFault(c)
  PROVE  CallInv'
BY LookupInv, DrawIdInv, InsertInv, FailedInsertInv, CommitInsertInv, CommitFailsInv
   DEF CallStep, CallFault

\* A method is entered with a struct that has no id, or with one whose row is known.
LEMMA EnterInv ==
  ASSUME CallInv, NEW c \in Clients,
         NEW method \in Methods, NEW w \in Struct, NEW s \in Struct,
         NEW p \in {"first", "draw"},
         Enter(c, method, w, s, p),
         phase[c] # "commit",
         s.id = 0 \/ s \in associations,
         p = "draw" => s.id = 0,
         UNCHANGED dbVars,
         faulted' \in [Clients -> BOOLEAN],
         \A d \in Clients \ {c} : faulted'[d] = faulted[d]
  PROVE  CallInv'
<1>1. /\ op' \in [Clients -> Methods]
      /\ where' \in [Clients -> Struct]
      /\ faults' \in 0..MaxFaults
  BY DEF Enter, CallInv, ServiceTypeOK
<1> QED
  BY <1>1, QuietStepInv DEF Enter, dbVars

LEMMA CallBeginsInv ==
  ASSUME CallInv, NEW c \in Clients, Call(c)
  PROVE  CallInv'
<1>1. /\ phase[c] \in {"idle", "returned"}
      /\ UNCHANGED dbVars
      /\ faulted' \in [Clients -> BOOLEAN]
      /\ \A d \in Clients \ {c} : faulted'[d] = faulted[d]
  BY DEF Call, Idle, CallInv, ServiceTypeOK
<1> USE <1>1, BlankType, NewDefaultType, InputAssumption, EnterInv DEF Methods
<1>2. CASE Create(c)
  BY <1>2 DEF Create
<1>3. CASE CreateDefault(c)
  BY <1>3 DEF CreateDefault
<1>4. CASE Default(c)
  <2>1. [Blank EXCEPT !.acronym = "CBRA"] \in Struct
    BY TextAssumption DEF Blank, Struct
  <2> QED
    BY <1>4, <2>1 DEF Default
<1>5. CASE DefaultOrCreateDefault(c)
  BY <1>5 DEF DefaultOrCreateDefault
<1>6. CASE FirstByHost(c)
  <2>1. PICK h \in RequestHosts :
          Enter(c, "FirstByHost", [Blank EXCEPT !.host = {h}], Blank, "first")
    BY <1>6 DEF FirstByHost
  <2>2. [Blank EXCEPT !.host = {h}] \in Struct
    BY DEF Struct
  <2> QED
    BY <2>1, <2>2
<1>7. CASE FirstOrCreate(c)
  <2>1. PICK a \in Inputs \cup Saved(c) : FirstOrCreateOf(c, a)
    BY <1>7 DEF FirstOrCreate
  <2>2. a \in Struct /\ (a.id = 0 \/ a \in associations)
    BY DEF Saved, CallInv, ServiceTypeOK, ReturnedHasRow
  <2>3. [Blank EXCEPT !.id = a.id, !.acronym = a.acronym] \in Struct
    BY <2>2 DEF Struct
  <2> QED
    BY <2>1, <2>2, <2>3 DEF FirstOrCreateOf
<1> QED
  BY <1>2, <1>3, <1>4, <1>5, <1>6, <1>7 DEF Call

LEMMA CallInvNext == CallInv /\ [ServiceNext]_<<dbVars, callVars>> => CallInv'
<1> SUFFICES ASSUME CallInv, [ServiceNext]_<<dbVars, callVars>>
             PROVE  CallInv'
  OBVIOUS
<1>1. ASSUME NEW c \in Clients, Call(c) \/ CallStep(c) \/ CallFault(c)
      PROVE  CallInv'
  BY <1>1, CallBeginsInv, CallStepInv
<1>2. CASE UNCHANGED <<dbVars, callVars>>
  BY <1>2 DEF dbVars, callVars, CallInv, ServiceTypeOK, UniqueRows, Uncommitted, DrawnOnce,
              IdOfPhase, IdHasRowOrNone, OwnId, ReturnedHasRow, Row
<1> QED
  BY <1>1, <1>2 DEF ServiceNext, Terminated

-----------------------------------------------------------------------------
(* The theorems. *)

\* The struct's id cannot be that of another row: rows are unique by id, and an id of the
\* call's own is no row's.
LEMMA IdNamesOneFromInv == CallInv => IdNamesOneAssociation
<1> SUFFICES ASSUME CallInv, NEW c \in Clients, NEW x \in associations,
                    association[c].id = x.id
             PROVE  association[c] = x
  BY DEF IdNamesOneAssociation
<1>1. x.id # 0
  BY DEF CallInv, ServiceTypeOK
<1>2. ~OwnId(c)
  BY DEF OwnId
<1> QED
  BY <1>1, <1>2 DEF CallInv, IdHasRowOrNone, UniqueRows, Conflict

THEOREM ServiceInvariant == ServiceSpec => []CallInv
<1> QED
  BY CallInvInit, CallInvNext, PTL DEF ServiceSpec

\* The association service keeps its types for any number of clients.
THEOREM ServiceTypes == ServiceSpec => []ServiceTypeOK
<1>1. CallInv => ServiceTypeOK
  BY DEF CallInv
<1> QED
  BY <1>1, ServiceInvariant, PTL

\* Concurrent FirstOrCreate calls never leave two rows of one acronym, host or name.
THEOREM ServiceUniqueRows == ServiceSpec => []UniqueRows
<1>1. CallInv => UniqueRows
  BY DEF CallInv
<1> QED
  BY <1>1, ServiceInvariant, PTL

\* The id a call leaves in a struct, by success, conflict or lost COMMIT, never becomes the
\* id of another association.
THEOREM ServiceIdNamesOneAssociation == ServiceSpec => []IdNamesOneAssociation
<1> QED
  BY IdNamesOneFromInv, ServiceInvariant, PTL

-----------------------------------------------------------------------------
(***************************************************************************)
(* AssociationService implements Registry under RegistryOfCalls: every     *)
(* statement of a call maps to the one atomic step of that call or to      *)
(* none.  The theorem holds for every number of callers and faults, if the *)
(* sequence begins after the ids of the seeded rows.                       *)
(***************************************************************************)

SequenceAfterSeed == \A x \in SeedRows : x.id < FirstId

-----------------------------------------------------------------------------
(* A step of one call. *)

\* What the statements of c's call leave to the other clients.
Others(c) ==
  \A d \in Clients \ {c} :
    /\ op'[d] = op[d] /\ where'[d] = where[d] /\ association'[d] = association[d]
    /\ phase'[d] = phase[d] /\ drawn'[d] = drawn[d] /\ faulted'[d] = faulted[d]

LEMMA OthersStay ==
  ASSUME CallInv, NEW c \in Clients, Call(c) \/ CallStep(c) \/ CallFault(c)
  PROVE  Others(c)
<1>1. /\ op \in [Clients -> Methods]
      /\ where \in [Clients -> Struct]
      /\ association \in [Clients -> Struct]
      /\ phase \in [Clients -> Phases]
      /\ drawn \in [Clients -> Nat]
      /\ faulted \in [Clients -> BOOLEAN]
  BY DEF CallInv, ServiceTypeOK
<1>2. CASE Call(c)
  BY <1>1, <1>2 DEF Call, Create, CreateDefault, Default, DefaultOrCreateDefault, FirstByHost,
                    FirstOrCreate, FirstOrCreateOf, Enter, Others
<1>3. CASE CallStep(c)
  BY <1>1, <1>3 DEF CallStep, FirstFinds, FirstMisses, DrawId, Insert, InsertConflicts,
                    CommitInsert, Goto, Others
<1>4. CASE CallFault(c)
  BY <1>1, <1>4 DEF CallFault, FirstFails, InsertFails, CommitFails, StatementFails, Goto, Others
<1> QED
  BY <1>2, <1>3, <1>4

LEMMA OthersCalls ==
  ASSUME NEW c \in Clients, Others(c)
  PROVE  \A d \in Clients \ {c} : RegistryCall(d)' = RegistryCall(d)
BY DEF Others, RegistryCall, RegistryStatus

\* What c's own call becomes, by action.
LEMMA OwnStep ==
  ASSUME CallInv, NEW c \in Clients
  PROVE  /\ FirstFinds(c) =>
              /\ phase[c] = "first" /\ phase'[c] = "returned"
              /\ op'[c] = op[c] /\ where'[c] = where[c] /\ faulted'[c] = faulted[c]
              /\ UNCHANGED <<associations, nextId>>
         /\ FirstMisses(c) =>
              /\ phase[c] = "first"
              /\ phase'[c] = IF CreatesWhenMissing(c) /\ NewRecord(c) THEN "draw" ELSE "returned"
              /\ op'[c] = op[c] /\ where'[c] = where[c] /\ faulted'[c] = faulted[c]
              /\ association'[c] = association[c] /\ UNCHANGED <<associations, nextId>>
              /\ drawn'[c] = drawn[c]
         /\ FirstFails(c) \/ InsertFails(c) \/ CommitFails(c) =>
              /\ phase[c] \in {"first", "insert", "commit"}
              /\ phase'[c] \in {"draw", "returned"}
              /\ faulted'[c]
              /\ op'[c] = op[c] /\ where'[c] = where[c]
              /\ association'[c] = association[c] /\ UNCHANGED <<associations, nextId>>
         /\ DrawId(c) =>
              /\ phase[c] = "draw" /\ phase'[c] = "insert"
              /\ op'[c] = op[c] /\ where'[c] = where[c] /\ faulted'[c] = faulted[c]
              /\ association'[c] = association[c] /\ associations' = associations
              /\ drawn'[c] = nextId /\ nextId' = nextId + 1
         /\ Insert(c) =>
              /\ phase[c] = "insert" /\ phase'[c] = "commit"
              /\ op'[c] = op[c] /\ where'[c] = where[c] /\ faulted'[c] = faulted[c]
              /\ association'[c] = [association[c] EXCEPT !.id = drawn[c]]
              /\ UNCHANGED <<associations, nextId>>
              /\ drawn'[c] = drawn[c]
         /\ InsertConflicts(c) =>
              /\ phase[c] = "insert" /\ phase'[c] = "returned"
              /\ op'[c] = op[c] /\ where'[c] = where[c] /\ faulted'[c] = faulted[c]
              /\ association'[c] = association[c] /\ UNCHANGED <<associations, nextId>>
         /\ CommitInsert(c) =>
              /\ phase[c] = "commit" /\ phase'[c] = "returned"
              /\ op'[c] = op[c] /\ where'[c] = where[c] /\ faulted'[c] = faulted[c]
              /\ association'[c] = association[c]
              /\ associations' = associations \cup {Row(c)} /\ nextId' = nextId
<1>1. /\ association \in [Clients -> Struct]
      /\ phase \in [Clients -> Phases]
      /\ drawn \in [Clients -> Nat]
      /\ faulted \in [Clients -> BOOLEAN]
      /\ phase[c] = "commit" => tx[c] = {Row(c)}
  BY DEF CallInv, ServiceTypeOK
<1> QED
  BY <1>1 DEF FirstFinds, FirstMisses, FirstFails, DrawId, NextVal, Insert, InsertAssociation,
              InsertConflicts, InsertFails, CommitInsert, Commit, CommitFails, Rollback,
              StatementFails, Goto, dbVars

-----------------------------------------------------------------------------
(* What the mapping rests on. *)

LEMMA IdsDrawnInit ==
  ASSUME SequenceAfterSeed, ServiceInit
  PROVE  CallOfMethod /\ IdsDrawn
BY DEF SequenceAfterSeed, ServiceInit, DBInit, CallInit, CallOfMethod, IdsDrawn

\* CallOfMethod, as it is about one client.
MethodOf(c) ==
  /\ phase[c] = "first" =>
       /\ op[c] \in {"Default", "FirstByHost", "DefaultOrCreateDefault", "FirstOrCreate"}
       /\ ~faulted[c]
       /\ op[c] \in {"Default", "FirstByHost"} => association[c] = Blank
       /\ op[c] = "DefaultOrCreateDefault" => association[c].id = 0
       /\ op[c] = "FirstOrCreate" =>
            where[c] = [Blank EXCEPT !.id = association[c].id, !.acronym = association[c].acronym]
  /\ phase[c] \in {"draw", "insert", "commit"} =>
       op[c] \in {"Create", "CreateDefault", "DefaultOrCreateDefault", "FirstOrCreate"}

LEMMA MethodOfOthers ==
  ASSUME CallOfMethod, NEW c \in Clients, Others(c), MethodOf(c)'
  PROVE  CallOfMethod'
<1>1. ASSUME NEW d \in Clients \ {c} PROVE MethodOf(d)'
  <2>1. /\ op'[d] = op[d] /\ where'[d] = where[d] /\ association'[d] = association[d]
        /\ phase'[d] = phase[d] /\ faulted'[d] = faulted[d]
    BY DEF Others
  <2>2. MethodOf(d)
    BY DEF CallOfMethod, MethodOf
  <2> QED
    BY <2>1, <2>2 DEF MethodOf
<1>2. \A d \in Clients : MethodOf(d)'
  BY <1>1
<1> QED
  BY <1>2 DEF CallOfMethod, MethodOf

LEMMA CallOfMethodNext ==
  ASSUME CallInv, CallOfMethod, [ServiceNext]_<<dbVars, callVars>>
  PROVE  CallOfMethod'
<1>1. ASSUME NEW c \in Clients, Call(c)
      PROVE  CallOfMethod'
  <2>1. /\ op \in [Clients -> Methods]
        /\ where \in [Clients -> Struct]
        /\ association \in [Clients -> Struct]
        /\ phase \in [Clients -> Phases]
        /\ faulted \in [Clients -> BOOLEAN]
    BY DEF CallInv, ServiceTypeOK
  <2>2. ~faulted'[c]
    BY <1>1, <2>1 DEF Call
  <2>3. CASE Create(c) \/ CreateDefault(c)
    <3>1. phase'[c] = "draw" /\ op'[c] \in {"Create", "CreateDefault"}
      BY <2>1, <2>3 DEF Create, CreateDefault, Enter
    <3>2. MethodOf(c)'
      BY <3>1 DEF MethodOf
    <3> QED
      BY <1>1, <3>2, OthersStay, MethodOfOthers
  <2>4. CASE Default(c) \/ FirstByHost(c)
    <3>1. /\ phase'[c] = "first" /\ op'[c] \in {"Default", "FirstByHost"}
          /\ association'[c] = Blank
      BY <2>1, <2>4 DEF Default, FirstByHost, Enter
    <3>2. MethodOf(c)'
      BY <2>2, <3>1 DEF MethodOf
    <3> QED
      BY <1>1, <3>2, OthersStay, MethodOfOthers
  <2>5. CASE DefaultOrCreateDefault(c)
    <3>1. /\ phase'[c] = "first" /\ op'[c] = "DefaultOrCreateDefault"
          /\ association'[c] = NewDefault
      BY <2>1, <2>5 DEF DefaultOrCreateDefault, Enter
    <3>2. MethodOf(c)'
      BY <2>2, <3>1, NewDefaultType DEF MethodOf
    <3> QED
      BY <1>1, <3>2, OthersStay, MethodOfOthers
  <2>6. CASE FirstOrCreate(c)
    <3>1. PICK a \in Inputs \cup Saved(c) : FirstOrCreateOf(c, a)
      BY <2>6 DEF FirstOrCreate
    <3>2. /\ phase'[c] = "first" /\ op'[c] = "FirstOrCreate"
          /\ association'[c] = a
          /\ where'[c] = [Blank EXCEPT !.id = a.id, !.acronym = a.acronym]
      BY <2>1, <3>1 DEF FirstOrCreateOf, Enter
    <3>3. MethodOf(c)'
      BY <2>2, <3>2 DEF MethodOf
    <3> QED
      BY <1>1, <3>3, OthersStay, MethodOfOthers
  <2> QED
    BY <1>1, <2>3, <2>4, <2>5, <2>6 DEF Call
<1>2. ASSUME NEW c \in Clients, CallStep(c) \/ CallFault(c)
      PROVE  CallOfMethod'
  <2>1. /\ op'[c] = op[c] /\ phase'[c] # "first"
        /\ phase'[c] \in {"draw", "insert", "commit"} =>
             \/ phase[c] \in {"draw", "insert", "commit"}
             \/ op[c] \in {"DefaultOrCreateDefault", "FirstOrCreate"}
    <3>1. CASE FirstFails(c)
      <4>1. phase' = [phase EXCEPT ![c] = IF op[c] = "FirstOrCreate" /\ NewRecord(c)
                                          THEN "draw" ELSE "returned"]
        BY <3>1 DEF FirstFails, Goto
      <4> QED
        BY <3>1, <4>1, OwnStep DEF CallInv, ServiceTypeOK
    <3>2. CASE ~FirstFails(c)
      <4>1. CASE InsertFails(c) \/ CommitFails(c)
        BY <4>1, OwnStep DEF InsertFails, CommitFails
      <4>2. CASE CallStep(c)
        BY <4>2, OwnStep DEF CallStep, CreatesWhenMissing
      <4> QED
        BY <1>2, <3>2, <4>1, <4>2 DEF CallFault
    <3> QED
      BY <3>1, <3>2
  <2>2. MethodOf(c)
    BY DEF CallOfMethod, MethodOf
  <2>3. MethodOf(c)'
    BY <2>1, <2>2 DEF MethodOf
  <2> QED
    BY <1>2, <2>3, OthersStay, MethodOfOthers
<1>3. CASE UNCHANGED <<dbVars, callVars>>
  BY <1>3 DEF callVars, CallOfMethod
<1> QED
  BY <1>1, <1>2, <1>3 DEF ServiceNext, Terminated

LEMMA IdsDrawnNext ==
  ASSUME CallInv, IdsDrawn, [ServiceNext]_<<dbVars, callVars>>
  PROVE  IdsDrawn'
<1> USE DEF IdsDrawn
<1>1. /\ nextId \in Nat
      /\ \A x \in associations : x.id \in Nat
      /\ \A c \in Clients : drawn[c] \in Nat /\ drawn[c] < nextId
  BY DEF CallInv, ServiceTypeOK, DrawnOnce, Struct
<1>2. ASSUME NEW c \in Clients, Call(c)
      PROVE  IdsDrawn'
  <2>1. /\ UNCHANGED <<associations, nextId, drawn>>
        /\ phase'[c] \in {"first", "draw"}
    BY <1>2 DEF Call, Create, CreateDefault, Default, DefaultOrCreateDefault, FirstByHost,
                FirstOrCreate, FirstOrCreateOf, Enter, dbVars, CallInv, ServiceTypeOK
  <2>2. Others(c)
    BY <1>2, OthersStay
  <2> QED
    BY <2>1, <2>2 DEF Others
<1>3. ASSUME NEW c \in Clients, DrawId(c)
      PROVE  IdsDrawn'
  <2>1. /\ associations' = associations /\ nextId' = nextId + 1
        /\ drawn'[c] = nextId
    BY <1>3, OwnStep
  <2>2. Others(c)
    BY <1>3, OthersStay DEF CallStep
  <2> QED
    BY <1>1, <2>1, <2>2 DEF Others
<1>4. ASSUME NEW c \in Clients, CommitInsert(c)
      PROVE  IdsDrawn'
  <2>1. /\ associations' = associations \cup {Row(c)} /\ nextId' = nextId
        /\ phase[c] = "commit" /\ phase'[c] = "returned"
    BY <1>4, OwnStep
  <2>2. Row(c).id = drawn[c] /\ drawn[c] # 0
    BY <2>1 DEF Row, CallInv, ServiceTypeOK, Struct, IdOfPhase
  <2>3. \A d \in Clients \ {c} : drawn[c] # drawn[d]
    BY <2>2 DEF CallInv, DrawnOnce
  <2>4. Others(c)
    BY <1>4, OthersStay DEF CallStep
  <2> QED
    BY <1>1, <2>1, <2>2, <2>3, <2>4 DEF Others
<1>5. ASSUME NEW c \in Clients, FirstFinds(c) \/ FirstMisses(c) \/ InsertConflicts(c) \/ CallFault(c)
      PROVE  IdsDrawn'
  <2>1. UNCHANGED <<associations, nextId>> /\ phase'[c] \in {"draw", "returned"}
    BY <1>5, OwnStep DEF CallFault
  <2>2. Others(c)
    BY <1>5, OthersStay DEF CallStep
  <2> QED
    BY <2>1, <2>2 DEF Others
<1>6. ASSUME NEW c \in Clients, Insert(c)
      PROVE  IdsDrawn'
  <2>1. /\ UNCHANGED <<associations, nextId>> /\ drawn'[c] = drawn[c]
        /\ phase[c] = "insert"
    BY <1>6, OwnStep
  <2>2. Others(c)
    BY <1>6, OthersStay DEF CallStep
  <2> QED
    BY <2>1, <2>2 DEF Others
<1>7. CASE UNCHANGED <<dbVars, callVars>>
  BY <1>7 DEF callVars, dbVars
<1> QED
  BY <1>2, <1>3, <1>4, <1>5, <1>6, <1>7 DEF ServiceNext, Terminated, CallStep

-----------------------------------------------------------------------------
(* Steps of a call as steps of the register. *)

LEMMA SharesColumnIs ==
  ASSUME NEW x \in Struct, NEW y \in Struct
  PROVE  SharesColumn(x, y) <=> x.acronym = y.acronym \/ x.host = y.host \/ x.name = y.name
BY DEF SharesColumn, Conflict, Struct

LEMMA Stutters ==
  ASSUME NEW c \in Clients, Others(c), RegistryCall(c)' = RegistryCall(c),
         associations' = associations
  PROVE  UNCHANGED RegistryOfCalls!vars
<1>1. \A d \in Clients : RegistryCall(d)' = RegistryCall(d)
  BY OthersCalls
<1> QED
  BY <1>1 DEF RegistryOfCalls!vars

LEMMA Returns ==
  ASSUME NEW c \in Clients, Others(c),
         RegistryStatus(c) = "pending", RegistryStatus(c)' = "done",
         op'[c] = op[c], where'[c] = where[c]
  PROVE  RegistryOfCalls!Return(c, association'[c])
<1>1. \A d \in Clients \ {c} : RegistryCall(d)' = RegistryCall(d)
  BY OthersCalls
<1>2. RegistryCall(c) = [status |-> "pending", method |-> op[c], where |-> where[c],
                         new |-> [association[c] EXCEPT !.id = 0], result |-> Blank]
  BY DEF RegistryCall
<1>3. RegistryCall(c)' = [status |-> "done", method |-> op[c], where |-> where[c],
                          new |-> Blank, result |-> association'[c]]
  BY DEF RegistryCall
<1>4. RegistryCall(c)' = [status |-> "done", method |-> RegistryCall(c).method,
                          where |-> RegistryCall(c).where, new |-> Blank,
                          result |-> association'[c]]
  BY <1>2, <1>3
<1>5. RegistryCall(c).status = "pending"
  BY <1>2
<1> QED
  BY <1>1, <1>4, <1>5 DEF RegistryOfCalls!Return

LEMMA Fails ==
  ASSUME NEW c \in Clients, Others(c),
         RegistryStatus(c) = "pending", RegistryStatus(c)' = "failed",
         op'[c] = op[c], where'[c] = where[c], association'[c] = association[c],
         associations' = associations
  PROVE  RegistryOfCalls!Fail(c)
<1>1. \A d \in Clients \ {c} : RegistryCall(d)' = RegistryCall(d)
  BY OthersCalls
<1>2. RegistryCall(c) = [status |-> "pending", method |-> op[c], where |-> where[c],
                         new |-> [association[c] EXCEPT !.id = 0], result |-> Blank]
  BY DEF RegistryCall
<1>3. RegistryCall(c)' = [status |-> "failed", method |-> op[c], where |-> where[c],
                          new |-> [association[c] EXCEPT !.id = 0], result |-> Blank]
  BY DEF RegistryCall
<1>4. RegistryCall(c)' = [RegistryCall(c) EXCEPT !.status = "failed"]
  BY <1>2, <1>3
<1>5. RegistryCall(c).status = "pending"
  BY <1>2
<1> QED
  BY <1>1, <1>4, <1>5 DEF RegistryOfCalls!Fail

\* A call that starts is pending, whatever the one before it has come to.
LEMMA CallStarts ==
  ASSUME CallInv, NEW c \in Clients, Call(c)
  PROVE  RegistryOfCalls!Start(c)
<1>1. Others(c)
  BY OthersStay
<1>2. \A d \in Clients \ {c} : RegistryCall(d)' = RegistryCall(d)
  BY <1>1, OthersCalls
<1>3. /\ phase[c] \in {"idle", "returned"} /\ phase'[c] \in {"first", "draw"}
      /\ ~faulted'[c]
      /\ associations' = associations
  BY DEF Call, Idle, Create, CreateDefault, Default, DefaultOrCreateDefault, FirstByHost,
         FirstOrCreate, FirstOrCreateOf, Enter, dbVars, CallInv, ServiceTypeOK
<1>4. RegistryStatus(c) # "pending" /\ RegistryStatus(c)' = "pending"
  BY <1>3 DEF RegistryStatus
<1>5. RegistryCall(c).status # "pending" /\ RegistryCall(c)'.status = "pending"
  BY <1>4 DEF RegistryCall
<1> QED
  BY <1>2, <1>3, <1>5 DEF RegistryOfCalls!Start

LEMMA FirstFindsReturns ==
  ASSUME CallInv, CallOfMethod, NEW c \in Clients, FirstFinds(c)
  PROVE  RegistryOfCalls!ReturnFirst(c)
<1>1. PICK x \in Found(c) : /\ \A y \in Found(c) : x.id <= y.id
                            /\ association' = [association EXCEPT ![c] = x]
  BY DEF FirstFinds
<1>2. association'[c] = x
  BY <1>1 DEF CallInv, ServiceTypeOK
<1>3. /\ phase[c] = "first" /\ phase'[c] = "returned"
      /\ op'[c] = op[c] /\ where'[c] = where[c] /\ faulted'[c] = faulted[c]
      /\ associations' = associations
  BY OwnStep
<1>4. /\ ~faulted[c]
      /\ op[c] \in {"Default", "FirstByHost", "DefaultOrCreateDefault", "FirstOrCreate"}
  BY <1>3 DEF CallOfMethod
<1>5. RegistryStatus(c) = "pending" /\ RegistryStatus(c)' = "done"
  BY <1>3, <1>4 DEF RegistryStatus
<1>6. Others(c)
  BY OthersStay DEF CallStep
<1>7. RegistryOfCalls!Return(c, x)
  BY <1>2, <1>3, <1>5, <1>6, Returns
<1>8. RegistryOfCalls!Answering(c) = Found(c)
  BY DEF RegistryOfCalls!Answering, Found, RegistryCall
<1>9. RegistryCall(c).method = op[c]
  BY DEF RegistryCall
<1> QED
  BY <1>1, <1>3, <1>4, <1>7, <1>8, <1>9 DEF RegistryOfCalls!ReturnFirst

\* A lookup that misses ends the call of a method that only looks.  A saved association
\* is never missed: its row is there for good.
LEMMA FirstMissesReturns ==
  ASSUME CallInv, CallOfMethod, NEW c \in Clients, FirstMisses(c)
  PROVE  RegistryOfCalls!ReturnNone(c) \/ UNCHANGED RegistryOfCalls!vars
<1>1. /\ phase[c] = "first"
      /\ phase'[c] = IF CreatesWhenMissing(c) /\ NewRecord(c) THEN "draw" ELSE "returned"
      /\ op'[c] = op[c] /\ where'[c] = where[c] /\ faulted'[c] = faulted[c]
      /\ association'[c] = association[c] /\ associations' = associations
  BY OwnStep
<1>2. Found(c) = {}
  BY DEF FirstMisses
<1>3. /\ ~faulted[c]
      /\ op[c] \in {"Default", "FirstByHost", "DefaultOrCreateDefault", "FirstOrCreate"}
  BY <1>1 DEF CallOfMethod
<1>4. Others(c)
  BY OthersStay DEF CallStep
<1>5. CASE op[c] \in {"Default", "FirstByHost"}
  <2>1. association[c] = Blank
    BY <1>1, <1>5 DEF CallOfMethod
  <2>2. phase'[c] = "returned"
    BY <1>1, <1>5 DEF CreatesWhenMissing
  <2>3. RegistryStatus(c) = "pending" /\ RegistryStatus(c)' = "done"
    BY <1>1, <1>3, <2>2 DEF RegistryStatus
  <2>4. RegistryOfCalls!Return(c, Blank)
    BY <1>1, <1>4, <2>1, <2>3, Returns
  <2>5. RegistryOfCalls!Answering(c) = {}
    BY <1>2 DEF RegistryOfCalls!Answering, Found, RegistryCall
  <2>6. RegistryCall(c).method = op[c]
    BY DEF RegistryCall
  <2> QED
    BY <1>1, <1>5, <2>4, <2>5, <2>6 DEF RegistryOfCalls!ReturnNone
<1>6. CASE op[c] \in {"DefaultOrCreateDefault", "FirstOrCreate"}
  <2>1. NewRecord(c)
    <3>1. CASE op[c] = "DefaultOrCreateDefault"
      BY <1>1, <3>1 DEF CallOfMethod, NewRecord
    <3>2. CASE op[c] = "FirstOrCreate"
      <4> SUFFICES ASSUME association[c].id # 0 PROVE FALSE
        BY DEF NewRecord
      <4>1. association[c] \in associations
        BY <1>1 DEF CallInv, ReturnedHasRow
      <4>2. where[c] = [Blank EXCEPT !.id = association[c].id, !.acronym = association[c].acronym]
        BY <1>1, <3>2 DEF CallOfMethod
      <4>3. /\ where[c].id = association[c].id /\ where[c].acronym = association[c].acronym
            /\ where[c].host = {} /\ where[c].name = ""
        BY <4>2 DEF Blank
      <4>4. Answers(op[c], where[c], association[c])
        BY <3>2, <4>3 DEF Answers
      <4> QED
        BY <1>2, <4>1, <4>4 DEF Found
    <3> QED
      BY <1>6, <3>1, <3>2
  <2>2. phase'[c] = "draw"
    BY <1>1, <1>6, <2>1 DEF CreatesWhenMissing
  <2>3. RegistryCall(c)' = RegistryCall(c)
    BY <1>1, <1>3, <2>2 DEF RegistryCall, RegistryStatus
  <2> QED
    BY <1>1, <1>4, <2>3, Stutters
<1> QED
  BY <1>3, <1>5, <1>6

\* Until its COMMIT an INSERT is nothing to the register.
LEMMA DrawAndInsertStutter ==
  ASSUME CallInv, NEW c \in Clients, DrawId(c) \/ Insert(c)
  PROVE  UNCHANGED RegistryOfCalls!vars
<1>1. /\ phase[c] \in {"draw", "insert"} /\ phase'[c] \in {"insert", "commit"}
      /\ op'[c] = op[c] /\ where'[c] = where[c] /\ faulted'[c] = faulted[c]
      /\ associations' = associations
      /\ association'[c] \in {association[c], [association[c] EXCEPT !.id = drawn[c]]}
  BY OwnStep
<1>2. [association'[c] EXCEPT !.id = 0] = [association[c] EXCEPT !.id = 0]
  BY <1>1 DEF CallInv, ServiceTypeOK, Struct
<1>3. RegistryCall(c)' = RegistryCall(c)
  BY <1>1, <1>2 DEF RegistryCall, RegistryStatus
<1>4. Others(c)
  BY OthersStay DEF CallStep
<1> QED
  BY <1>1, <1>3, <1>4, Stutters

LEMMA InsertConflictsReturns ==
  ASSUME CallInv, CallOfMethod, IdsDrawn, NEW c \in Clients, InsertConflicts(c)
  PROVE  RegistryOfCalls!ReturnConflict(c) \/ UNCHANGED RegistryOfCalls!vars
<1>1. /\ phase[c] = "insert" /\ phase'[c] = "returned"
      /\ op'[c] = op[c] /\ where'[c] = where[c] /\ faulted'[c] = faulted[c]
      /\ association'[c] = association[c] /\ associations' = associations
  BY OwnStep
<1>2. Others(c)
  BY OthersStay DEF CallStep
<1>3. /\ association[c] \in Struct /\ association[c].id = 0
      /\ drawn[c] \in Nat
      /\ faulted[c] \in BOOLEAN
      /\ [association[c] EXCEPT !.id = 0] = association[c]
  BY <1>1 DEF CallInv, ServiceTypeOK, IdOfPhase, Struct
<1>4. CASE faulted[c]
  <2>1. RegistryCall(c)' = RegistryCall(c)
    BY <1>1, <1>4 DEF RegistryCall, RegistryStatus
  <2> QED
    BY <1>1, <1>2, <2>1, Stutters
<1>5. CASE ~faulted[c]
  <2>1. RegistryStatus(c) = "pending" /\ RegistryStatus(c)' = "done"
    BY <1>1, <1>5 DEF RegistryStatus
  <2>2. RegistryOfCalls!Return(c, association[c])
    BY <1>1, <1>2, <2>1, Returns
  <2>3. RegistryCall(c).method = op[c] /\ RegistryCall(c).new = association[c]
    BY <1>3, <2>1 DEF RegistryCall
  <2>4. op[c] \in {"Create", "CreateDefault", "DefaultOrCreateDefault", "FirstOrCreate"}
    BY <1>1 DEF CallOfMethod
  <2>5. PICK y \in associations : Conflict(Row(c), y)
    BY DEF InsertConflicts, Violates
  <2>6. /\ Row(c).id = drawn[c] /\ Row(c).acronym = association[c].acronym
        /\ Row(c).host = association[c].host /\ Row(c).name = association[c].name
    BY <1>3 DEF Row, Struct
  <2>7. y.id # drawn[c] /\ y \in Struct
    BY <1>1 DEF IdsDrawn, CallInv, ServiceTypeOK
  <2>8. SharesColumn(association[c], y)
    BY <1>3, <2>5, <2>6, <2>7, SharesColumnIs DEF Conflict
  <2> QED
    BY <1>1, <2>2, <2>3, <2>4, <2>8 DEF RegistryOfCalls!ReturnConflict
<1> QED
  BY <1>3, <1>4, <1>5

\* A COMMIT adds the row; the call returns with it, unless it had failed before.
LEMMA CommitReturns ==
  ASSUME CallInv, CallOfMethod, IdsDrawn, NEW c \in Clients, CommitInsert(c)
  PROVE  RegistryOfCalls!ReturnNew(c) \/ RegistryOfCalls!FailedAdds(c)
<1>1. /\ phase[c] = "commit" /\ phase'[c] = "returned"
      /\ op'[c] = op[c] /\ where'[c] = where[c] /\ faulted'[c] = faulted[c]
      /\ association'[c] = association[c]
      /\ associations' = associations \cup {Row(c)}
  BY OwnStep
<1>2. Others(c)
  BY OthersStay DEF CallStep
<1>3. /\ association[c] \in Struct /\ association[c].id = drawn[c]
      /\ drawn[c] \in Nat /\ drawn[c] # 0
      /\ faulted[c] \in BOOLEAN
      /\ tx[c] = {Row(c)}
  BY <1>1 DEF CallInv, ServiceTypeOK, IdOfPhase
<1>4. Row(c) = association[c]
  BY <1>3 DEF Row, Struct
<1>5. op[c] \in {"Create", "CreateDefault", "DefaultOrCreateDefault", "FirstOrCreate"}
  BY <1>1 DEF CallOfMethod
<1>6. \A y \in associations : /\ association[c].id # y.id
                              /\ ~SharesColumn(association[c], y)
  <2> SUFFICES ASSUME NEW y \in associations
               PROVE  association[c].id # y.id /\ ~SharesColumn(association[c], y)
    OBVIOUS
  <2>1. y.id # drawn[c] /\ y \in Struct
    BY <1>1 DEF IdsDrawn, CallInv, ServiceTypeOK
  <2>2. association[c] \in Uncommitted
    BY <1>3, <1>4 DEF Uncommitted
  <2>3. ~Conflict(association[c], y)
    BY <1>3, <2>1, <2>2 DEF CallInv, UniqueRows
  <2> QED
    BY <1>3, <2>1, <2>3, SharesColumnIs DEF Conflict
<1>7. RegistryCall(c).method = op[c]
  BY DEF RegistryCall
<1>8. ASSUME RegistryStatus(c) \in {"pending", "failed"}
      PROVE  RegistryOfCalls!Adds(c, association[c])
  <2>1. RegistryCall(c).new = [association[c] EXCEPT !.id = 0]
    BY <1>8 DEF RegistryCall
  <2>2. association[c] = [RegistryCall(c).new EXCEPT !.id = association[c].id]
    BY <1>3, <2>1 DEF Struct
  <2> QED
    BY <1>1, <1>3, <1>4, <1>6, <2>2 DEF RegistryOfCalls!Adds
<1>9. association[c] \in associations'
  BY <1>1, <1>4
<1>10. CASE faulted[c]
  <2>1. RegistryStatus(c) = "failed" /\ RegistryStatus(c)' = "failed"
    BY <1>1, <1>10 DEF RegistryStatus
  <2>2. RegistryCall(c)' = RegistryCall(c)
    BY <1>1, <2>1 DEF RegistryCall
  <2>3. \A d \in Clients : RegistryCall(d)' = RegistryCall(d)
    BY <1>2, <2>2, OthersCalls
  <2>4. RegistryCall(c).status = "failed"
    BY <2>1 DEF RegistryCall
  <2> QED
    BY <1>5, <1>7, <1>8, <1>9, <2>1, <2>3, <2>4 DEF RegistryOfCalls!FailedAdds
<1>11. CASE ~faulted[c]
  <2>1. RegistryStatus(c) = "pending" /\ RegistryStatus(c)' = "done"
    BY <1>1, <1>11 DEF RegistryStatus
  <2>2. RegistryOfCalls!Return(c, association[c])
    BY <1>1, <1>2, <2>1, Returns
  <2> QED
    BY <1>5, <1>7, <1>8, <1>9, <2>1, <2>2 DEF RegistryOfCalls!ReturnNew
<1> QED
  BY <1>3, <1>10, <1>11

LEMMA FaultFails ==
  ASSUME CallInv, NEW c \in Clients, CallFault(c)
  PROVE  RegistryOfCalls!Fail(c) \/ UNCHANGED RegistryOfCalls!vars
<1>1. /\ phase[c] \in {"first", "insert", "commit"}
      /\ phase'[c] \in {"draw", "returned"}
      /\ faulted'[c]
      /\ op'[c] = op[c] /\ where'[c] = where[c]
      /\ association'[c] = association[c] /\ associations' = associations
  BY OwnStep DEF CallFault
<1>2. Others(c)
  BY OthersStay
<1>3. faulted[c] \in BOOLEAN
  BY DEF CallInv, ServiceTypeOK
<1>4. CASE faulted[c]
  <2>1. RegistryCall(c)' = RegistryCall(c)
    BY <1>1, <1>4 DEF RegistryCall, RegistryStatus
  <2> QED
    BY <1>1, <1>2, <2>1, Stutters
<1>5. CASE ~faulted[c]
  <2>1. RegistryStatus(c) = "pending" /\ RegistryStatus(c)' = "failed"
    BY <1>1, <1>5 DEF RegistryStatus
  <2> QED
    BY <1>1, <1>2, <2>1, Fails
<1> QED
  BY <1>3, <1>4, <1>5

-----------------------------------------------------------------------------
(* The refinement. *)

LEMMA InitRefines ==
  ASSUME ServiceInit
  PROVE  RegistryOfCalls!Init
<1>1. associations = SeedRows /\ \A c \in Clients : phase[c] = "idle"
  BY DEF ServiceInit, DBInit, CallInit
<1>2. \A x, y \in associations : SharesColumn(x, y) => x = y
  BY <1>1, SeedAssumption, SharesColumnIs DEF Conflict
<1>3. \A c \in Clients : RegistryCall(c).status = "none"
  BY <1>1 DEF RegistryCall, RegistryStatus
<1> QED
  BY <1>2, <1>3 DEF RegistryOfCalls!Init

LEMMA NextRefines ==
  ASSUME CallInv, CallOfMethod, IdsDrawn, [ServiceNext]_<<dbVars, callVars>>
  PROVE  [RegistryOfCalls!Next]_(RegistryOfCalls!vars)
<1>1. ASSUME NEW c \in Clients, Call(c)
      PROVE  RegistryOfCalls!Next
  BY <1>1, CallStarts DEF RegistryOfCalls!Next
<1>2. ASSUME NEW c \in Clients, CallStep(c)
      PROVE  RegistryOfCalls!Next \/ UNCHANGED RegistryOfCalls!vars
  BY <1>2, FirstFindsReturns, FirstMissesReturns, DrawAndInsertStutter, InsertConflictsReturns,
     CommitReturns DEF CallStep, RegistryOfCalls!Next
<1>3. ASSUME NEW c \in Clients, CallFault(c)
      PROVE  RegistryOfCalls!Next \/ UNCHANGED RegistryOfCalls!vars
  BY <1>3, FaultFails DEF RegistryOfCalls!Next
<1>4. CASE UNCHANGED <<dbVars, callVars>>
  <2>1. \A c \in Clients : RegistryCall(c)' = RegistryCall(c)
    BY <1>4 DEF callVars, RegistryCall, RegistryStatus
  <2> QED
    BY <1>4, <2>1 DEF dbVars, RegistryOfCalls!vars
<1> QED
  BY <1>1, <1>2, <1>3, <1>4 DEF ServiceNext, Terminated

\* Calls that interleave lookups, INSERTs and COMMITs as they may look atomic from outside,
\* if no seeded row has an id that the sequence returns later.
THEOREM ServiceImplementsRegistry ==
  ASSUME SequenceAfterSeed
  PROVE  ServiceSpec => ImplementsRegistry
<1> DEFINE Inv == CallInv /\ CallOfMethod /\ IdsDrawn
<1>1. ServiceInit => Inv
  BY CallInvInit, IdsDrawnInit
<1>2. Inv /\ [ServiceNext]_<<dbVars, callVars>> => Inv'
  BY CallInvNext, CallOfMethodNext, IdsDrawnNext
<1>3. Inv /\ [ServiceNext]_<<dbVars, callVars>> => [RegistryOfCalls!Next]_(RegistryOfCalls!vars)
  BY NextRefines
<1>4. ServiceInit => RegistryOfCalls!Init
  BY InitRefines
<1> QED
  BY <1>1, <1>2, <1>3, <1>4, PTL DEF ServiceSpec, ImplementsRegistry, RegistryOfCalls!Spec

=============================================================================

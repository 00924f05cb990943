--------------------------- MODULE RailsCopyProofs ---------------------------
(***************************************************************************)
(* CopyInv is an invariant of RailsCopy for every set of requests,         *)
(* acronyms, Rails tables, faults and connections.  Calls of FirstOrCreate *)
(* preserve their part of it by the lemmas of AssociationServiceProofs.    *)
(* The second part is about Root, which reads what copies write.           *)
(***************************************************************************)
EXTENDS Root, AssociationServiceProofs, FiniteSetTheorems

\* CallInv does not depend on the faults but for those that have hit a call.
LEMMA CallInvFrame ==
  ASSUME CallInv,
         UNCHANGED <<associations, nextId, tx, op, where, association, drawn, phase>>,
         faults' \in 0..MaxFaults,
         faulted' \in [Clients -> BOOLEAN],
         \A c \in Clients : faulted[c] => faulted'[c]
  PROVE  CallInv'
<1>1. ServiceTypeOK'
  BY DEF CallInv, ServiceTypeOK, Row
<1>2. UniqueRows' /\ DrawnOnce' /\ IdOfPhase' /\ IdHasRowOrNone'
  BY DEF CallInv, UniqueRows, Uncommitted, DrawnOnce, IdOfPhase, IdHasRowOrNone, OwnId
<1>3. ReturnedHasRow'
  BY DEF CallInv, ReturnedHasRow
<1> QED
  BY <1>1, <1>2, <1>3 DEF CallInv

LEMMA FailedStatement ==
  ASSUME CallInv, NEW r \in Requests, StatementFails(r)
  PROVE  /\ faults' \in 0..MaxFaults
         /\ faulted' \in [Clients -> BOOLEAN]
         /\ \A q \in Clients : faulted[q] => faulted'[q]
<1>1. faults' \in 0..MaxFaults
  BY InputAssumption DEF StatementFails, Fault, CallInv, ServiceTypeOK
<1>2. faulted \in [Clients -> BOOLEAN] /\ faulted' = [faulted EXCEPT ![r] = TRUE]
  BY DEF StatementFails, CallInv, ServiceTypeOK
<1> QED
  BY <1>1, <1>2

LEMMA SomeAttempt == Attempts \in Nat \ {0} /\ 0 \in 0..(Attempts - 1)
<1>1. Attempts \in Nat \ {0}
  BY CopyAssumption, Zenon
<1> QED
  BY <1>1

LEMMA CopyInvInit == Init => CopyInv
<1> SUFFICES ASSUME Init PROVE CopyInv
  OBVIOUS
<1>1. CallInv
  BY CallInvInit DEF Init, ServiceInit
<1>2. TypeOK
  <2>2. /\ up \in BOOLEAN
        /\ pc \in [Requests -> PCs]
        /\ acronym \in [Requests -> Acronyms \cup {""}]
        /\ attempt \in [Requests -> 0..(Attempts - 1)]
    BY SomeAttempt DEF Init, PCs
  <2>3. rails \in [Databases -> Seq(Texts)] /\ \A d \in Databases : rails[d] \in RailsTables[d]
    BY CopyAssumption DEF Init
  <2>b. <<>> \in Seq(Texts) /\ Len(<<>>) = 0
    OBVIOUS
  <2>c. /\ railsEvents \in [Requests -> Seq(Texts)]
        /\ created \in [Requests -> Nat]
    BY <2>b DEF Init
  <2>d. \A r \in Requests : created[r] <= Len(railsEvents[r])
    <3>1. \A r \in Requests : created[r] = 0 /\ railsEvents[r] = <<>>
      BY DEF Init
    <3> QED
      BY <3>1
  <2>4. /\ events = {}
        /\ open \subseteq Requests \X {"copy", "find"}
        /\ response \in [Requests -> {"none", "200", "400", "500", "aborted", "lost"}]
    BY DEF Init, DBInit
  <2> QED
    BY <1>1, <2>2, <2>3, <2>4, <2>c, <2>d DEF TypeOK, CallInv
<1>3. events = {} /\ \A r \in Requests : RowsOf(r) = {} /\ Copied(r) = {}
  BY DEF Init, DBInit, RowsOf, Copied
<1>4. CallOfRequest /\ WrittenWhileCreating /\ RunsInProcess
  BY <1>3 DEF Init, CallInit, CallOfRequest, WrittenWhileCreating, RunsInProcess, Requests
<1>5. NoHoles
  <2>1. \A r \in Requests : created[r] = 0 /\ Copied(r) = {}
    BY <1>3 DEF Init
  <2> QED
    BY <2>1 DEF NoHoles
<1>6. NoCrossAssociation /\ AllOrNothing /\ ErrorsWriteNothing /\ OnlyFindLeaks
  BY <1>3 DEF Init, NoCrossAssociation, AllOrNothing, ErrorsWriteNothing, OnlyFindLeaks
<1> QED
  BY <1>1, <1>2, <1>4, <1>5, <1>6 DEF CopyInv

-----------------------------------------------------------------------------
(* Requests that have not begun to write. *)

LEMMA RowsKept ==
  ASSUME events' = events
  PROVE  \A r : RowsOf(r)' = RowsOf(r) /\ Copied(r)' = Copied(r)
  BY DEF RowsOf, Copied

\* What a request does between its POST and its first INSERT of an event concerns the
\* events of no request.
LEMMA EarlyStep ==
  ASSUME CopyInv, NEW r \in Requests, NEW p \in PCs \ {"idle", "done"},
         pc[r] \notin {"create", "done"},
         up \/ pc[r] # "idle",
         pc' = [pc EXCEPT ![r] = p],
         UNCHANGED <<events, created, response, up>>,
         associations \subseteq associations',
         \A q \in Requests \ {r} : /\ acronym'[q] = acronym[q]
                                   /\ association'[q] = association[q]
                                   /\ railsEvents'[q] = railsEvents[q],
         \A q \in Requests : faulted[q] => faulted'[q],
         open' \subseteq open \cup ({r} \X {"copy", "find"})
  PROVE  /\ RunsInProcess' /\ WrittenWhileCreating' /\ NoCrossAssociation'
         /\ NoHoles' /\ AllOrNothing' /\ ErrorsWriteNothing' /\ OnlyFindLeaks'
<1>1. \A q \in Requests : pc'[q] = IF q = r THEN p ELSE pc[q]
  BY DEF CopyInv, TypeOK
<1>2. created[r] = 0 /\ response[r] = "none" /\ RowsOf(r) = {}
  BY DEF CopyInv, WrittenWhileCreating
<1>3. up' /\ RunsInProcess'
  BY DEF CopyInv, RunsInProcess, RunningRequests
<1>4. WrittenWhileCreating'
  BY <1>1, <1>2, RowsKept DEF CopyInv, WrittenWhileCreating
<1>5. NoCrossAssociation'
  <2>1. \A e \in events : e.by \in Requests \ {r}
    BY <1>2 DEF CopyInv, TypeOK, RowsOf
  <2> QED
    BY <2>1 DEF CopyInv, NoCrossAssociation
<1>6. NoHoles'
  BY RowsKept DEF CopyInv, NoHoles
<1>7. AllOrNothing'
  BY <1>2, RowsKept DEF CopyInv, AllOrNothing
<1>8. ErrorsWriteNothing'
  BY RowsKept DEF CopyInv, ErrorsWriteNothing
<1>9. OnlyFindLeaks'
  BY <1>1, <1>3 DEF CopyInv, OnlyFindLeaks, RunningRequests
<1> QED
  BY <1>3, <1>4, <1>5, <1>6, <1>7, <1>8, <1>9

\* So does a request that ends before it has written.
LEMMA EarlyAnswer ==
  ASSUME CopyInv, NEW r \in Requests, NEW status \in {"400", "500", "aborted"},
         pc[r] \notin {"create", "done"},
         Respond(r, status),
         UNCHANGED <<events, created, acronym, associations, association, railsEvents, up>>,
         \A q \in Requests : faulted[q] => faulted'[q]
  PROVE  /\ RunsInProcess' /\ WrittenWhileCreating' /\ NoCrossAssociation'
         /\ NoHoles' /\ AllOrNothing' /\ ErrorsWriteNothing' /\ OnlyFindLeaks'
<1>1. \A q \in Requests : /\ pc'[q] = (IF q = r THEN "done" ELSE pc[q])
                          /\ response'[q] = (IF q = r THEN status ELSE response[q])
  BY DEF CopyInv, TypeOK, Respond
<1>2. RowsOf(r) = {}
  BY DEF CopyInv, WrittenWhileCreating
<1>3. WrittenWhileCreating'
  BY <1>1, RowsKept DEF CopyInv, WrittenWhileCreating
<1>4. NoCrossAssociation'
  BY DEF CopyInv, NoCrossAssociation
<1>5. NoHoles'
  BY RowsKept DEF CopyInv, NoHoles
<1>6. AllOrNothing'
  BY <1>1, RowsKept DEF CopyInv, AllOrNothing
<1>7. ErrorsWriteNothing'
  BY <1>1, <1>2, RowsKept DEF CopyInv, ErrorsWriteNothing
<1>8. RunsInProcess' /\ OnlyFindLeaks'
  BY <1>1 DEF CopyInv, RunsInProcess, OnlyFindLeaks, RunningRequests, Respond
<1> QED
  BY <1>3, <1>4, <1>5, <1>6, <1>7, <1>8

LEMMA PostInv ==
  ASSUME CopyInv, NEW r \in Requests, Post(r)
  PROVE  CopyInv'
<1> USE DEF Post, Step
<1>1. PICK a \in Acronyms : acronym' = [acronym EXCEPT ![r] = a]
  OBVIOUS
<1>2. \A q \in Requests : /\ pc'[q] = (IF q = r THEN "openCopy" ELSE pc[q])
                          /\ acronym'[q] = (IF q = r THEN a ELSE acronym[q])
  BY <1>1 DEF CopyInv, TypeOK
<1>3. CallInv'
  BY CallInvFrame DEF CopyInv, CallInv, ServiceTypeOK, callVars, dbVars
<1>4. TypeOK'
  BY <1>1, <1>3 DEF CopyInv, TypeOK, CallInv, PCs, dbVars
<1>5. CallOfRequest'
  BY <1>2 DEF CopyInv, CallOfRequest, callVars
<1>6. "openCopy" \in PCs \ {"idle", "done"}
  BY DEF PCs
<1> QED
  BY <1>2, <1>3, <1>4, <1>5, <1>6, EarlyStep DEF CopyInv, callVars, dbVars

LEMMA PostNothingInv ==
  ASSUME CopyInv, NEW r \in Requests, PostNothing(r)
  PROVE  CopyInv'
<1> USE DEF PostNothing
<1>1. CallInv'
  BY CallInvFrame DEF CopyInv, CallInv, ServiceTypeOK, callVars, dbVars
<1>2. TypeOK'
  BY <1>1 DEF Respond, CopyInv, TypeOK, CallInv, PCs, dbVars
<1>3. CallOfRequest'
  BY DEF Respond, CopyInv, TypeOK, CallOfRequest, callVars
<1> QED
  BY <1>1, <1>2, <1>3, EarlyAnswer DEF CopyInv, callVars, dbVars

LEMMA OpensInv ==
  ASSUME CopyInv, NEW r \in Requests, Opens(r)
  PROVE  CopyInv'
<1> DEFINE p == IF Pool(r) = "copy" THEN "readEvents" ELSE "find"
<1> USE DEF Opens
<1>1. /\ Pool(r) \in {"copy", "find"}
      /\ p \in {"readEvents", "find"}
      /\ pc[r] \in {"openCopy", "openFind"}
      /\ pc' = [pc EXCEPT ![r] = p]
  BY DEF Pool, Opening
<1> HIDE DEF p
<1>2. CallInv'
  BY CallInvFrame DEF CopyInv, CallInv, ServiceTypeOK, callVars, dbVars
<1>3. TypeOK'
  <2>1. attempt' \in [Requests -> 0..(Attempts - 1)]
    BY SomeAttempt DEF CopyInv, TypeOK
  <2>2. open \subseteq Requests \X {"copy", "find"} /\ open' = open \cup {<<r, Pool(r)>>}
    BY DEF CopyInv, TypeOK
  <2>3. open' \subseteq Requests \X {"copy", "find"}
    BY <1>1, <2>2
  <2>4. pc' \in [Requests -> PCs]
    BY <1>1 DEF CopyInv, TypeOK, PCs
  <2>5. ServiceTypeOK' /\ events' = events
    BY <1>2 DEF CallInv, dbVars
  <2> QED
    BY <2>1, <2>3, <2>4, <2>5 DEF CopyInv, TypeOK
<1>4. CallOfRequest'
  BY <1>1 DEF CopyInv, TypeOK, CallOfRequest, callVars
<1>5. p \in PCs \ {"idle", "done"}
  BY <1>1 DEF PCs
<1>6. open' \subseteq open \cup ({r} \X {"copy", "find"})
  BY <1>1
<1> QED
  BY <1>1, <1>2, <1>3, <1>4, <1>5, <1>6, EarlyStep DEF CopyInv, callVars, dbVars

LEMMA RetryOrPanicInv ==
  ASSUME CopyInv, NEW r \in Requests, OpenRefused(r) \/ OpenFails(r)
  PROVE  CopyInv'
<1>1. /\ pc[r] \in {"openCopy", "openFind"}
      /\ RetryOrPanic(r)
      /\ faults' \in 0..MaxFaults
  BY InputAssumption
     DEF OpenRefused, OpenFails, Opening, Fault, CopyInv, CallInv, ServiceTypeOK
<1> USE DEF RetryOrPanic
<1>2. CallInv'
  BY <1>1, CallInvFrame DEF CopyInv, CallInv, ServiceTypeOK, dbVars
<1>3. CASE attempt[r] + 1 < Attempts
  <2>1. attempt' = [attempt EXCEPT ![r] = @ + 1] /\ UNCHANGED <<pc, response, open>>
    BY <1>1, <1>3
  <2>2. TypeOK'
    <3>1. attempt[r] \in 0..(Attempts - 1)
      BY DEF CopyInv, TypeOK
    <3>2. attempt[r] + 1 \in 0..(Attempts - 1)
      BY <1>3, <3>1, SomeAttempt
    <3>3. attempt' \in [Requests -> 0..(Attempts - 1)]
      BY <2>1, <3>2 DEF CopyInv, TypeOK
    <3> QED
      BY <1>1, <1>2, <2>1, <3>3 DEF CopyInv, TypeOK, CallInv, PCs, dbVars
  <2>3. pc' = [pc EXCEPT ![r] = pc[r]] /\ pc[r] \in PCs \ {"idle", "done"}
    BY <1>1, <2>1 DEF CopyInv, TypeOK, PCs
  <2>4. CallOfRequest'
    BY <1>1, <2>1 DEF CopyInv, CallOfRequest
  <2> QED
    BY <1>1, <1>2, <2>1, <2>2, <2>3, <2>4, EarlyStep DEF CopyInv, dbVars
<1>4. CASE ~(attempt[r] + 1 < Attempts)
  <2>1. attempt' = [attempt EXCEPT ![r] = 0] /\ Respond(r, "aborted")
    BY <1>1, <1>4
  <2>2. TypeOK'
    <3>1. attempt' \in [Requests -> 0..(Attempts - 1)]
      BY <2>1, SomeAttempt DEF CopyInv, TypeOK
    <3> QED
      BY <1>1, <1>2, <2>1, <3>1 DEF Respond, CopyInv, TypeOK, CallInv, PCs, dbVars
  <2>3. CallOfRequest'
    BY <1>1, <2>1 DEF Respond, CopyInv, TypeOK, CallOfRequest
  <2> QED
    BY <1>1, <1>2, <2>1, <2>2, <2>3, EarlyAnswer DEF CopyInv, dbVars
<1> QED
  BY <1>3, <1>4

\* Whatever part of the table was read, it is a sequence of events.
LEMMA ReadEventsInv ==
  ASSUME CopyInv, NEW r \in Requests, ReadEvents(r) \/ ReadEventsFails(r)
  PROVE  CopyInv'
<1>1. PICK s \in Seq(Texts) : railsEvents' = [railsEvents EXCEPT ![r] = s]
  <2>1. Step(r, "readEvents", "openFind")
    BY DEF ReadEvents, ReadEventsFails
  <2>2. acronym[r] \in Acronyms
    BY <2>1 DEF Step, CopyInv, CallOfRequest
  <2>3. Database(r) \in Databases
    BY <2>2, CopyAssumption, Zenon DEF Database
  <2>4. rails[Database(r)] \in Seq(Texts)
    BY <2>3 DEF CopyInv, TypeOK
  <2>5. \A n \in 0..Len(rails[Database(r)]) : SubSeq(rails[Database(r)], 1, n) \in Seq(Texts)
    BY <2>4
  <2> QED
    BY <2>4, <2>5 DEF ReadEvents, ReadEventsFails
<1>2. /\ pc[r] = "readEvents"
      /\ pc' = [pc EXCEPT ![r] = "openFind"]
      /\ UNCHANGED <<dbVars, op, where, association, drawn, phase,
                     up, rails, acronym, attempt, created, open, response>>
  BY DEF ReadEvents, ReadEventsFails, Step, callVars
<1>3. /\ faults' \in 0..MaxFaults
      /\ faulted' \in [Clients -> BOOLEAN]
      /\ \A q \in Clients : faulted[q] => faulted'[q]
  <2>1. CASE ReadEvents(r)
    BY <2>1 DEF ReadEvents, callVars, CopyInv, CallInv, ServiceTypeOK
  <2>2. CASE ReadEventsFails(r)
    BY <2>2, FailedStatement DEF ReadEventsFails, CopyInv
  <2> QED
    BY <2>1, <2>2
<1>4. CallInv'
  BY <1>2, <1>3, CallInvFrame DEF CopyInv, dbVars
<1>5. TypeOK'
  <2>1. railsEvents' \in [Requests -> Seq(Texts)]
    BY <1>1 DEF CopyInv, TypeOK
  <2>2. \A q \in Requests : created'[q] <= Len(railsEvents'[q])
    <3>1. created[r] = 0
      BY <1>2 DEF CopyInv, WrittenWhileCreating
    <3>2. \A q \in Requests : railsEvents'[q] = IF q = r THEN s ELSE railsEvents[q]
      BY <1>1 DEF CopyInv, TypeOK
    <3>3. Len(s) \in Nat
      OBVIOUS
    <3>4. \A q \in Requests : created[q] <= Len(railsEvents[q])
      BY DEF CopyInv, TypeOK
    <3> QED
      BY <1>2, <3>1, <3>2, <3>3, <3>4
  <2>3. pc' \in [Requests -> PCs]
    BY <1>2 DEF CopyInv, TypeOK, PCs
  <2>4. ServiceTypeOK' /\ events' = events
    BY <1>2, <1>4 DEF CallInv, dbVars
  <2> QED
    BY <1>2, <2>1, <2>2, <2>3, <2>4 DEF CopyInv, TypeOK
<1>6. CallOfRequest'
  BY <1>2 DEF CopyInv, TypeOK, CallOfRequest
<1>7. "openFind" \in PCs \ {"idle", "done"}
  BY DEF PCs
<1>8. \A q \in Requests \ {r} : railsEvents'[q] = railsEvents[q]
  BY <1>1 DEF CopyInv, TypeOK
<1>9. \A q \in Requests : faulted[q] => faulted'[q]
  BY <1>3 DEF Requests
<1> QED
  BY <1>2, <1>4, <1>5, <1>6, <1>7, <1>8, <1>9, EarlyStep DEF CopyInv, dbVars

\* FirstOrCreate begins with a struct that has no id yet.
LEMMA FindInv ==
  ASSUME CopyInv, NEW r \in Requests, Find(r)
  PROVE  CopyInv'
<1> DEFINE a == NewAssociation(r)
           w == [Blank EXCEPT !.id = a.id, !.acronym = a.acronym]
<1>1. /\ pc[r] = "find" /\ pc' = [pc EXCEPT ![r] = "firstOrCreate"]
      /\ Enter(r, "FirstOrCreate", w, a, "first")
      /\ UNCHANGED <<dbVars, faulted, up, rails,
                     acronym, attempt, railsEvents, created, open, response>>
  BY DEF Find, Step, FirstOrCreateOf
<1>2. acronym[r] \in Acronyms
  BY <1>1 DEF CopyInv, CallOfRequest
<1>3. a \in Struct /\ a.id = 0 /\ a.acronym = acronym[r]
  <2>1. Database(r) \in Databases
    BY <1>2, CopyAssumption, Zenon DEF Database
  <2>2. acronym[r] \in Texts
    BY <1>2, CopyAssumption, Zenon
  <2>3. ShortNames[Database(r)] \in Texts
    BY <2>1, CopyAssumption, Zenon DEF Find
  <2>4. {"0.0.0.0", "localhost", WebHost[Database(r)]} \in SUBSET Texts
    BY <2>1, CopyAssumption, TextAssumption, Zenon
  <2> HIDE DEF a
  <2>5. a = [id |-> 0, acronym |-> acronym[r],
             host |-> {"0.0.0.0", "localhost", WebHost[Database(r)]},
             name |-> ShortNames[Database(r)]]
    BY DEF a, NewAssociation
  <2> QED
    BY <2>2, <2>3, <2>4, <2>5 DEF Struct
<1> HIDE DEF a
<1>4. w \in Struct /\ w.acronym = acronym[r]
  <2>1. acronym[r] \in Texts
    BY <1>2, CopyAssumption, Zenon
  <2> QED
    BY <1>3, <2>1, BlankType DEF Struct
<1> HIDE DEF w
<1>5. CallInv'
  <2>1. "FirstOrCreate" \in Methods /\ "first" \in {"first", "draw"}
    BY DEF Methods
  <2>2. CallInv /\ phase[r] # "commit"
    BY <1>1 DEF CopyInv, CallOfRequest
  <2>3. faulted' \in [Clients -> BOOLEAN] /\ \A d \in Clients \ {r} : faulted'[d] = faulted[d]
    BY <1>1 DEF CopyInv, CallInv, ServiceTypeOK
  <2> QED
    BY <1>1, <1>3, <1>4, <2>1, <2>2, <2>3, EnterInv DEF Requests
<1>6. \A q \in Requests :
        /\ pc'[q] = (IF q = r THEN "firstOrCreate" ELSE pc[q])
        /\ op'[q] = (IF q = r THEN "FirstOrCreate" ELSE op[q])
        /\ where'[q] = (IF q = r THEN w ELSE where[q])
        /\ association'[q] = (IF q = r THEN a ELSE association[q])
        /\ phase'[q] = (IF q = r THEN "first" ELSE phase[q])
  BY <1>1 DEF Enter, CopyInv, TypeOK, ServiceTypeOK, Requests
<1>7. TypeOK'
  <2>1. pc' \in [Requests -> PCs]
    BY <1>1 DEF CopyInv, TypeOK, PCs
  <2>2. ServiceTypeOK' /\ events' = events
    BY <1>1, <1>5 DEF CallInv, dbVars
  <2> QED
    BY <1>1, <2>1, <2>2 DEF CopyInv, TypeOK
<1>8. CallOfRequest'
  BY <1>1, <1>2, <1>3, <1>4, <1>6 DEF CopyInv, CallOfRequest
<1>9. "firstOrCreate" \in PCs \ {"idle", "done"}
  BY DEF PCs
<1> QED
  BY <1>1, <1>5, <1>6, <1>7, <1>8, <1>9, EarlyStep DEF CopyInv, dbVars

LEMMA FindAnswersInv ==
  ASSUME CopyInv, NEW r \in Requests,
         FindMisses(r) \/ FindFails(r) \/ BuildEventsFails(r)
  PROVE  CopyInv'
<1>1. /\ pc[r] \in {"find", "firstOrCreate"}
      /\ Respond(r, "500")
      /\ phase[r] \notin {"draw", "insert", "commit", "first"}
      /\ UNCHANGED <<dbVars, op, where, association, drawn, phase,
                     up, rails, acronym, attempt, railsEvents, created>>
  BY DEF FindMisses, FindFails, BuildEventsFails, callVars, CopyInv, CallOfRequest
<1>2. /\ faults' \in 0..MaxFaults
      /\ faulted' \in [Clients -> BOOLEAN]
      /\ \A q \in Clients : faulted[q] => faulted'[q]
  <2>1. CASE FindMisses(r)
    BY <2>1 DEF FindMisses, callVars, CopyInv, CallInv, ServiceTypeOK
  <2>2. CASE FindFails(r) \/ BuildEventsFails(r)
    BY <2>2, FailedStatement DEF FindFails, BuildEventsFails, CopyInv
  <2> QED
    BY <2>1, <2>2
<1>3. CallInv'
  BY <1>1, <1>2, CallInvFrame DEF CopyInv, dbVars
<1>4. TypeOK'
  BY <1>1, <1>3 DEF Respond, CopyInv, TypeOK, CallInv, PCs, dbVars
<1>5. CallOfRequest'
  BY <1>1 DEF Respond, CopyInv, TypeOK, CallOfRequest
<1>6. \A q \in Requests : faulted[q] => faulted'[q]
  BY <1>2 DEF Requests
<1> QED
  BY <1>1, <1>3, <1>4, <1>5, <1>6, EarlyAnswer DEF CopyInv, dbVars

\* What a statement of a call leaves alone.
LEMMA CallStepFrame ==
  ASSUME CallInv, NEW r \in Requests, CallStep(r) \/ CallFault(r)
  PROVE  /\ UNCHANGED <<events, op, where>>
         /\ associations \subseteq associations'
         /\ \A q \in Requests \ {r} : association'[q] = association[q] /\ phase'[q] = phase[q]
         /\ \A q \in Requests : faulted[q] => faulted'[q]
<1> USE DEF Requests
<1>1. CASE FirstFinds(r) \/ FirstMisses(r)
  BY <1>1 DEF FirstFinds, FirstMisses, Goto, dbVars, CallInv, ServiceTypeOK
<1>2. CASE DrawId(r) \/ Insert(r) \/ InsertConflicts(r)
  BY <1>2 DEF DrawId, NextVal, Insert, InsertAssociation, InsertConflicts, Goto, dbVars,
              CallInv, ServiceTypeOK
<1>3. CASE CommitInsert(r)
  BY <1>3 DEF CommitInsert, Commit, Goto, CallInv, ServiceTypeOK
<1>4. CASE FirstFails(r) \/ InsertFails(r) \/ CommitFails(r)
  <2>1. StatementFails(r)
    BY <1>4 DEF FirstFails, InsertFails, CommitFails
  <2> QED
    BY <1>4, <2>1, FailedStatement
       DEF FirstFails, InsertFails, CommitFails, Rollback, Goto, dbVars, CallInv, ServiceTypeOK
<1> QED
  BY <1>1, <1>2, <1>3, <1>4 DEF CallStep, CallFault

\* FirstOrCreate comes back with the acronym it was asked for, whether it finds the row,
\* inserts one or does neither.
LEMMA CallKeepsAcronym ==
  ASSUME CopyInv, NEW r \in Requests, pc[r] = "firstOrCreate", CallStep(r) \/ CallFault(r)
  PROVE  association'[r].acronym = acronym[r]
<1>1. /\ association[r].acronym = acronym[r]
      /\ op[r] = "FirstOrCreate" /\ where[r].acronym = acronym[r]
      /\ acronym[r] \in Acronyms
      /\ association \in [Requests -> Struct]
  BY DEF CopyInv, CallOfRequest, CallInv, ServiceTypeOK, Requests
<1>2. acronym[r] # ""
  BY <1>1, CopyAssumption, Zenon
<1>3. CASE FirstFinds(r)
  <2>1. PICK x \in Found(r) : association' = [association EXCEPT ![r] = x]
    BY <1>3 DEF FirstFinds
  <2>2. x.acronym = acronym[r]
    BY <1>1, <1>2 DEF Found, Answers
  <2> QED
    BY <1>1, <2>1, <2>2
<1>4. CASE Insert(r)
  <2>1. association' = [association EXCEPT ![r].id = drawn[r]]
    BY <1>4 DEF Insert
  <2> QED
    BY <1>1, <2>1 DEF Struct
<1>5. CASE UNCHANGED association
  BY <1>1, <1>5
<1> QED
  BY <1>3, <1>4, <1>5
     DEF CallStep, CallFault, FirstMisses, DrawId, InsertConflicts, CommitInsert,
         FirstFails, InsertFails, CommitFails

LEMMA InFirstOrCreateInv ==
  ASSUME CopyInv, NEW r \in Requests, InFirstOrCreate(r), CallStep(r) \/ CallFault(r)
  PROVE  CopyInv'
<1>1. /\ pc[r] = "firstOrCreate"
      /\ UNCHANGED <<up, rails, pc, acronym, attempt, railsEvents, created, response, open>>
  BY DEF InFirstOrCreate, requestVars
<1>2. CallInv'
  BY CallStepInv DEF CopyInv, Requests
<1>3. /\ UNCHANGED <<events, op, where>>
      /\ associations \subseteq associations'
      /\ \A q \in Requests \ {r} : association'[q] = association[q] /\ phase'[q] = phase[q]
      /\ \A q \in Requests : faulted[q] => faulted'[q]
  BY CallStepFrame DEF CopyInv
<1>4. TypeOK'
  BY <1>1, <1>2, <1>3 DEF CopyInv, TypeOK, CallInv
<1>5. CallOfRequest'
  BY <1>1, <1>3, CallKeepsAcronym DEF CopyInv, CallOfRequest
<1>6. pc' = [pc EXCEPT ![r] = "firstOrCreate"] /\ "firstOrCreate" \in PCs \ {"idle", "done"}
  BY <1>1 DEF CopyInv, TypeOK, PCs
<1> QED
  BY <1>1, <1>2, <1>3, <1>4, <1>5, <1>6, EarlyStep DEF CopyInv

LEMMA BuildEventsInv ==
  ASSUME CopyInv, NEW r \in Requests, BuildEvents(r)
  PROVE  CopyInv'
<1> USE DEF BuildEvents, Step
<1>1. CallInv'
  BY CallInvFrame DEF CopyInv, CallInv, ServiceTypeOK, callVars, dbVars
<1>2. TypeOK'
  <2>1. pc' \in [Requests -> PCs]
    BY DEF CopyInv, TypeOK, PCs
  <2>2. ServiceTypeOK' /\ events' = events
    BY <1>1 DEF CallInv, dbVars
  <2> QED
    BY <2>1, <2>2 DEF CopyInv, TypeOK
<1>3. CallOfRequest'
  BY DEF CopyInv, TypeOK, CallOfRequest, callVars
<1>4. "create" \in PCs \ {"idle", "done"}
  BY DEF PCs
<1> QED
  BY <1>1, <1>2, <1>3, <1>4, EarlyStep DEF CopyInv, callVars, dbVars

-----------------------------------------------------------------------------
(* Requests that write. *)

\* The loop of Create goes on by one event and not beyond the last.
LEMMA LoopBounds ==
  ASSUME TypeOK, NEW r \in Requests, created[r] < Len(railsEvents[r]),
         created' = [created EXCEPT ![r] = @ + 1],
         UNCHANGED railsEvents
  PROVE  /\ created' \in [Requests -> Nat]
         /\ \A q \in Requests : created'[q] <= Len(railsEvents'[q])
         /\ \A q \in Requests : created'[q] = IF q = r THEN created[r] + 1 ELSE created[q]
         /\ created[r] \in Nat
         /\ railsEvents[r][created[r] + 1] \in Texts
<1>1. /\ created \in [Requests -> Nat]
      /\ railsEvents \in [Requests -> Seq(Texts)]
      /\ \A q \in Requests : created[q] <= Len(railsEvents[q])
  BY DEF TypeOK
<1>2. \A q \in Requests : railsEvents[q] \in Seq(Texts)
  BY <1>1
<1>3. \A q \in Requests : Len(railsEvents[q]) \in Nat
  BY <1>2
<1>4. created' \in [Requests -> Nat]
  BY <1>1
<1>5. \A q \in Requests : created'[q] = IF q = r THEN created[r] + 1 ELSE created[q]
  BY <1>1
<1>6. \A q \in Requests : created'[q] <= Len(railsEvents'[q])
  BY <1>1, <1>3, <1>5
<1>7. created[r] + 1 \in 1..Len(railsEvents[r])
  BY <1>1, <1>3
<1> QED
  BY <1>1, <1>2, <1>4, <1>5, <1>6, <1>7

LEMMA CreateEventInv ==
  ASSUME CopyInv, NEW r \in Requests, CreateEvent(r)
  PROVE  CopyInv'
<1> DEFINE e == EventRow(r)
<1>1. /\ pc[r] = "create" /\ created[r] < Len(railsEvents[r])
      /\ association[r].id # 0
      /\ ReferencesAssociation(e)
      /\ events' = events \cup {e}
      /\ created' = [created EXCEPT ![r] = @ + 1]
      /\ UNCHANGED <<associations, nextId, tx, callVars, up, rails, pc, acronym, attempt,
                     railsEvents, open, response>>
  BY DEF CreateEvent, Creating, InsertEvent
<1>2. /\ e = [by |-> r, pos |-> created[r] + 1, associationId |-> association[r].id,
              event |-> railsEvents[r][created[r] + 1]]
      /\ e.by = r /\ e.pos = created[r] + 1 /\ e.associationId = association[r].id
  BY DEF EventRow
<1> HIDE DEF e
<1>3. CallInv'
  BY <1>1, CallInvFrame DEF CopyInv, CallInv, ServiceTypeOK, callVars
<1>4. /\ created' \in [Requests -> Nat]
      /\ \A q \in Requests : created'[q] <= Len(railsEvents'[q])
      /\ \A q \in Requests : created'[q] = IF q = r THEN created[r] + 1 ELSE created[q]
      /\ created[r] \in Nat
      /\ railsEvents[r][created[r] + 1] \in Texts
  BY <1>1, LoopBounds DEF CopyInv
<1>5. TypeOK'
  <2>2. e \in [by : Requests, pos : Nat \ {0}, associationId : Nat, event : Texts]
    <3>3. association[r].id \in Nat
      BY DEF CopyInv, CallInv, ServiceTypeOK, Struct, Requests
    <3>4. created[r] + 1 \in Nat \ {0}
      BY <1>4
    <3> QED
      BY <1>2, <1>4, <3>3, <3>4
  <2>3. ServiceTypeOK'
    BY <1>3 DEF CallInv
  <2>4. events' \subseteq [by : Requests, pos : Nat \ {0}, associationId : Nat, event : Texts]
    BY <1>1, <2>2 DEF CopyInv, TypeOK
  <2> QED
    BY <1>1, <1>4, <2>3, <2>4 DEF CopyInv, TypeOK
<1>6. CallOfRequest' /\ RunsInProcess' /\ OnlyFindLeaks'
  BY <1>1 DEF CopyInv, CallOfRequest, RunsInProcess, RunningRequests, OnlyFindLeaks, callVars
<1>7. /\ RowsOf(r)' = RowsOf(r) \cup {e}
      /\ \A q \in Requests \ {r} : RowsOf(q)' = RowsOf(q) /\ Copied(q)' = Copied(q)
  BY <1>1, <1>2 DEF RowsOf, Copied
<1>8. Copied(r)' = Copied(r) \cup {created[r] + 1}
  BY <1>2, <1>7 DEF Copied
<1>9. response[r] = "none"
  BY <1>1 DEF CopyInv, WrittenWhileCreating
<1>10. WrittenWhileCreating'
  BY <1>1, <1>4, <1>7, <1>9 DEF CopyInv, WrittenWhileCreating, callVars
<1>11. NoCrossAssociation'
  <2>1. PICK a \in associations : a.id = association[r].id
    BY <1>1, <1>2 DEF ReferencesAssociation
  <2>2. association[r] = a
    BY <2>1, IdNamesOneFromInv DEF CopyInv, IdNamesOneAssociation, Requests
  <2>3. a.id = e.associationId /\ a.acronym = acronym[e.by]
    BY <1>1, <1>2, <2>1, <2>2 DEF CopyInv, CallOfRequest
  <2> QED
    BY <1>1, <2>3 DEF CopyInv, NoCrossAssociation
<1>12. NoHoles'
  <2>1. ASSUME ~faulted[r] PROVE Copied(r)' = 1..created'[r]
    <3>1. Copied(r) = 1..created[r]
      BY <2>1 DEF CopyInv, NoHoles
    <3> QED
      BY <1>4, <1>8, <3>1
  <2> QED
    BY <1>1, <1>4, <1>7, <2>1 DEF CopyInv, NoHoles, callVars
<1>13. AllOrNothing' /\ ErrorsWriteNothing'
  BY <1>1, <1>7, <1>9 DEF CopyInv, AllOrNothing, ErrorsWriteNothing, callVars
<1> QED
  BY <1>3, <1>5, <1>6, <1>10, <1>11, <1>12, <1>13 DEF CopyInv

\* An event without a row for its association is only met by a request of which a
\* statement has failed.
LEMMA SkipEventFaulted ==
  ASSUME CopyInv, NEW r \in Requests, CreateEventOrphan(r) \/ CreateEventFails(r)
  PROVE  /\ faults' \in 0..MaxFaults
         /\ faulted' \in [Clients -> BOOLEAN]
         /\ \A q \in Clients : faulted[q] => faulted'[q]
         /\ faulted'[r]
<1>1. CASE CreateEventOrphan(r)
  <2>1. ~ReferencesAssociation(EventRow(r)) /\ UNCHANGED <<faults, faulted>>
    BY <1>1 DEF CreateEventOrphan
  <2>2. association[r] \notin associations
    BY <2>1 DEF ReferencesAssociation, EventRow
  <2>3. phase[r] = "returned" /\ association[r].id # 0
    BY <1>1 DEF CreateEventOrphan, SkipEvent, Creating, CopyInv, CallOfRequest
  <2>4. faulted[r]
    BY <2>2, <2>3 DEF CopyInv, CallInv, ReturnedHasRow, Requests
  <2> QED
    BY <2>1, <2>4 DEF CopyInv, CallInv, ServiceTypeOK
<1>2. CASE CreateEventFails(r)
  <2>1. StatementFails(r)
    BY <1>2 DEF CreateEventFails
  <2>2. faulted'[r]
    BY <2>1 DEF StatementFails, CopyInv, CallInv, ServiceTypeOK, Requests
  <2> QED
    BY <2>1, <2>2, FailedStatement DEF CopyInv
<1> QED
  BY <1>1, <1>2

LEMMA SkipEventInv ==
  ASSUME CopyInv, NEW r \in Requests, CreateEventOrphan(r) \/ CreateEventFails(r)
  PROVE  CopyInv'
<1>1. /\ pc[r] = "create" /\ created[r] < Len(railsEvents[r])
      /\ association[r].id # 0
      /\ created' = [created EXCEPT ![r] = @ + 1]
      /\ UNCHANGED <<dbVars, op, where, association, drawn, phase,
                     up, rails, pc, acronym, attempt, railsEvents, open, response>>
  BY DEF CreateEventOrphan, CreateEventFails, SkipEvent, Creating
<1>2. /\ faults' \in 0..MaxFaults
      /\ faulted' \in [Clients -> BOOLEAN]
      /\ \A q \in Clients : faulted[q] => faulted'[q]
      /\ faulted'[r]
  BY SkipEventFaulted
<1>3. CallInv'
  BY <1>1, <1>2, CallInvFrame DEF CopyInv, dbVars
<1>4. /\ created' \in [Requests -> Nat]
      /\ \A q \in Requests : created'[q] <= Len(railsEvents'[q])
      /\ \A q \in Requests : created'[q] = IF q = r THEN created[r] + 1 ELSE created[q]
  BY <1>1, LoopBounds DEF CopyInv
<1>5. TypeOK'
  <2>1. ServiceTypeOK' /\ events' = events
    BY <1>1, <1>3 DEF CallInv, dbVars
  <2> QED
    BY <1>1, <1>4, <2>1 DEF CopyInv, TypeOK
<1>6. CallOfRequest' /\ RunsInProcess' /\ OnlyFindLeaks'
  BY <1>1 DEF CopyInv, CallOfRequest, RunsInProcess, RunningRequests, OnlyFindLeaks
<1>7. \A q \in Requests : RowsOf(q)' = RowsOf(q) /\ Copied(q)' = Copied(q)
  BY <1>1, RowsKept DEF dbVars
<1>8. \A q \in Requests : faulted[q] => faulted'[q]
  BY <1>2 DEF Requests
<1>9. WrittenWhileCreating' /\ NoCrossAssociation'
  BY <1>1, <1>4, <1>7 DEF CopyInv, WrittenWhileCreating, NoCrossAssociation, dbVars
<1>10. NoHoles'
  BY <1>2, <1>4, <1>7, <1>8 DEF CopyInv, NoHoles
<1>11. AllOrNothing' /\ ErrorsWriteNothing'
  BY <1>1, <1>7, <1>8 DEF CopyInv, AllOrNothing, ErrorsWriteNothing
<1> QED
  BY <1>3, <1>5, <1>6, <1>9, <1>10, <1>11 DEF CopyInv

LEMMA CreateAnswersInv ==
  ASSUME CopyInv, NEW r \in Requests, CreateRefuses(r) \/ CreateReturns(r)
  PROVE  CopyInv'
<1>1. /\ pc[r] = "create"
      /\ \/ created[r] < Len(railsEvents[r]) /\ association[r].id = 0
         \/ created[r] = Len(railsEvents[r])
      /\ Respond(r, "200")
      /\ UNCHANGED <<dbVars, callVars, up, rails, acronym, attempt, railsEvents, created>>
  BY DEF CreateRefuses, CreateReturns, Creating
<1>2. CallInv'
  BY <1>1, CallInvFrame DEF CopyInv, CallInv, ServiceTypeOK, callVars, dbVars
<1>3. TypeOK'
  BY <1>1, <1>2 DEF Respond, CopyInv, TypeOK, CallInv, PCs, dbVars
<1>4. phase[r] = "returned"
  BY <1>1 DEF CopyInv, CallOfRequest
<1>5. CallOfRequest'
  BY <1>1, <1>4 DEF Respond, CopyInv, TypeOK, CallOfRequest, callVars
<1>6. \A q \in Requests : /\ pc'[q] = (IF q = r THEN "done" ELSE pc[q])
                          /\ response'[q] = (IF q = r THEN "200" ELSE response[q])
  BY <1>1 DEF CopyInv, TypeOK, Respond
<1>7. \A q \in Requests : RowsOf(q)' = RowsOf(q) /\ Copied(q)' = Copied(q)
  BY <1>1, RowsKept DEF dbVars
<1>8. WrittenWhileCreating' /\ NoCrossAssociation'
  BY <1>1, <1>6, <1>7 DEF CopyInv, WrittenWhileCreating, NoCrossAssociation, dbVars, callVars
<1>9. NoHoles' /\ ErrorsWriteNothing'
  BY <1>1, <1>6, <1>7 DEF CopyInv, NoHoles, ErrorsWriteNothing, callVars
<1>10. AllOrNothing'
  <2>1. ASSUME ~faulted[r] PROVE Copied(r) \in {{}, 1..Len(railsEvents[r])}
    <3>1. Copied(r) = 1..created[r]
      BY <2>1 DEF CopyInv, NoHoles
    <3>2. association[r].id = 0 => created[r] = 0
      BY <1>1 DEF CopyInv, WrittenWhileCreating
    <3> QED
      BY <1>1, <3>1, <3>2
  <2> QED
    BY <1>1, <1>6, <1>7, <2>1 DEF CopyInv, AllOrNothing, callVars
<1>11. RunsInProcess' /\ OnlyFindLeaks'
  BY <1>1, <1>6 DEF CopyInv, RunsInProcess, OnlyFindLeaks, RunningRequests, Respond
<1> QED
  BY <1>2, <1>3, <1>5, <1>8, <1>9, <1>10, <1>11 DEF CopyInv

-----------------------------------------------------------------------------
(* What happens around the requests. *)

\* Every call that a crash cuts short is gone with its row.
LEMMA CrashInv ==
  ASSUME CopyInv, Crash
  PROVE  CopyInv'
<1> USE DEF Crash, Requests
<1>1. \A r \in Requests :
        /\ phase'[r] = (IF r \in RunningRequests THEN "idle" ELSE phase[r])
        /\ pc'[r] = (IF r \in RunningRequests THEN "done" ELSE pc[r])
        /\ response'[r] = (IF r \in RunningRequests THEN "lost" ELSE response[r])
        /\ tx'[r] = {}
  BY DEF Rollback
<1>2. UNCHANGED <<associations, nextId, events>>
  BY DEF Rollback
<1>3. \A r \in Requests : phase'[r] \notin {"first", "draw", "insert", "commit"}
  BY <1>1 DEF CopyInv, CallOfRequest, CallInv, ServiceTypeOK, Phases, RunningRequests
<1>4. CallInv'
  <2>1. /\ faults' \in 0..MaxFaults
        /\ faulted' \in [Clients -> BOOLEAN]
    BY InputAssumption DEF Fault, CopyInv, CallInv, ServiceTypeOK
  <2>2. phase' \in [Clients -> Phases]
    BY <1>1 DEF CopyInv, CallInv, ServiceTypeOK, Phases
  <2>3. tx' = [c \in Clients |-> IF phase'[c] = "commit" THEN {Row(c)'} ELSE {}]
    <3>1. tx' = [c \in Clients |-> {}]
      BY DEF Rollback
    <3> QED
      BY <1>3, <3>1
  <2>4. ServiceTypeOK'
    BY <1>2, <2>1, <2>2, <2>3 DEF CopyInv, CallInv, ServiceTypeOK
  <2>5. Uncommitted' = {}
    BY <1>1 DEF Uncommitted
  <2>6. UniqueRows'
    BY <1>2, <2>5 DEF CopyInv, CallInv, UniqueRows, Uncommitted
  <2>7. DrawnOnce' /\ IdOfPhase' /\ IdHasRowOrNone'
    BY <1>2, <1>3 DEF CopyInv, CallInv, DrawnOnce, IdOfPhase, IdHasRowOrNone, OwnId
  <2>8. ReturnedHasRow'
    BY <1>1, <1>2, <1>3 DEF CopyInv, CallInv, ReturnedHasRow
  <2> QED
    BY <2>4, <2>6, <2>7, <2>8 DEF CallInv
<1>5. TypeOK'
  <2>1. pc' \in [Requests -> PCs]
    BY DEF CopyInv, TypeOK, PCs
  <2>2. response' \in [Requests -> {"none", "200", "400", "500", "aborted", "lost"}]
    BY DEF CopyInv, TypeOK
  <2>3. ServiceTypeOK' /\ events' = events
    BY <1>2, <1>4 DEF CallInv
  <2> QED
    BY <2>1, <2>2, <2>3 DEF CopyInv, TypeOK
<1>6. CallOfRequest'
  BY <1>1, <1>3 DEF CopyInv, CallOfRequest, RunningRequests
<1>7. \A r \in Requests : RowsOf(r)' = RowsOf(r) /\ Copied(r)' = Copied(r)
  BY <1>2, RowsKept
<1>8. WrittenWhileCreating' /\ RunsInProcess' /\ OnlyFindLeaks'
  BY <1>1, <1>7 DEF CopyInv, WrittenWhileCreating, RunsInProcess, OnlyFindLeaks,
                    RunningRequests
<1>9. NoCrossAssociation'
  BY <1>2 DEF CopyInv, NoCrossAssociation
<1>10. NoHoles' /\ AllOrNothing' /\ ErrorsWriteNothing'
  BY <1>1, <1>7 DEF CopyInv, NoHoles, AllOrNothing, ErrorsWriteNothing
<1> QED
  BY <1>4, <1>5, <1>6, <1>8, <1>9, <1>10 DEF CopyInv

\* A step that changes neither the requests nor Postgres.
LEMMA OutsideInv ==
  ASSUME CopyInv,
         UNCHANGED <<dbVars, callVars, requestVars>>,
         rails' \in [Databases -> Seq(Texts)],
         \A d \in Databases : rails'[d] \in RailsTables[d],
         open' \subseteq open,
         up' \/ up' = up,
         up' \in BOOLEAN
  PROVE  CopyInv'
<1> USE DEF dbVars, callVars, requestVars
<1>1. CallInv'
  BY CallInvFrame DEF CopyInv, CallInv, ServiceTypeOK
<1>2. TypeOK'
  BY <1>1 DEF CopyInv, TypeOK, CallInv
<1>3. CallOfRequest'
  BY DEF CopyInv, CallOfRequest
<1>4. RunsInProcess' /\ OnlyFindLeaks'
  BY DEF CopyInv, RunsInProcess, OnlyFindLeaks, RunningRequests
<1>5. \A r \in Requests : RowsOf(r)' = RowsOf(r) /\ Copied(r)' = Copied(r)
  BY RowsKept
<1>6. WrittenWhileCreating' /\ NoCrossAssociation'
  BY <1>5 DEF CopyInv, WrittenWhileCreating, NoCrossAssociation
<1>7. NoHoles' /\ AllOrNothing' /\ ErrorsWriteNothing'
  BY <1>5 DEF CopyInv, NoHoles, AllOrNothing, ErrorsWriteNothing
<1> QED
  BY <1>1, <1>2, <1>3, <1>4, <1>6, <1>7 DEF CopyInv

LEMMA RailsChangeInv ==
  ASSUME CopyInv, RailsChange
  PROVE  CopyInv'
<1>1. PICK d \in Databases : \E t \in RailsTables[d] : rails' = [rails EXCEPT ![d] = t]
  BY DEF RailsChange
<1>2. PICK t \in RailsTables[d] : rails' = [rails EXCEPT ![d] = t]
  BY <1>1
<1>3. t \in Seq(Texts)
  BY CopyAssumption, Zenon
<1>4. /\ rails' \in [Databases -> Seq(Texts)]
      /\ \A e \in Databases : rails'[e] \in RailsTables[e]
  BY <1>2, <1>3 DEF CopyInv, TypeOK
<1> QED
  BY <1>4, OutsideInv DEF RailsChange, CopyInv, TypeOK

LEMMA CopyInvNext == CopyInv /\ [Next]_vars => CopyInv'
<1> SUFFICES ASSUME CopyInv, [Next]_vars PROVE CopyInv'
  OBVIOUS
<1>1. /\ up \in BOOLEAN
      /\ rails \in [Databases -> Seq(Texts)]
      /\ \A d \in Databases : rails[d] \in RailsTables[d]
  BY DEF CopyInv, TypeOK
<1>2. ASSUME NEW r \in Requests, Post(r) \/ PostNothing(r)
      PROVE  CopyInv'
  BY <1>2, PostInv, PostNothingInv
<1>3. ASSUME NEW r \in Requests, RequestStep(r)
      PROVE  CopyInv'
  BY <1>3, OpensInv, RetryOrPanicInv, ReadEventsInv, FindInv, FindAnswersInv,
     InFirstOrCreateInv, BuildEventsInv, CreateEventInv, SkipEventInv, CreateAnswersInv
     DEF RequestStep
<1>4. ASSUME NEW r \in Requests, RequestFault(r)
      PROVE  CopyInv'
  BY <1>4, RetryOrPanicInv, ReadEventsInv, FindAnswersInv, InFirstOrCreateInv, SkipEventInv
     DEF RequestFault
<1>5. ASSUME NEW r \in Requests, IdleTimeout(r)
      PROVE  CopyInv'
  BY <1>1, <1>5, OutsideInv DEF IdleTimeout
<1>6. CASE Crash
  BY <1>6, CrashInv
<1>7. CASE Restart
  BY <1>1, <1>7, OutsideInv DEF Restart
<1>8. CASE RailsChange
  BY <1>8, RailsChangeInv
<1>9. CASE AllAnswered \/ UNCHANGED vars
  BY <1>1, <1>9, OutsideInv DEF AllAnswered, vars
<1> QED
  BY <1>2, <1>3, <1>4, <1>5, <1>6, <1>7, <1>8, <1>9 DEF Next

\* CopyInv holds of every state that concurrent copies, failures and crashes reach.
THEOREM CopyInvariant == Spec => []CopyInv
<1> QED
  BY CopyInvInit, CopyInvNext, PTL DEF Spec

\* Every variable of RailsCopy keeps its type.
THEOREM CopyTypes == Spec => []TypeOK
<1>1. CopyInv => TypeOK
  BY DEF CopyInv
<1> QED
  BY <1>1, CopyInvariant, PTL

\* An event is only ever copied to the association whose acronym its request posted.
THEOREM CopyNoCrossAssociation == Spec => []NoCrossAssociation
<1>1. CopyInv => NoCrossAssociation
  BY DEF CopyInv
<1> QED
  BY <1>1, CopyInvariant, PTL

\* Without a failed statement the copied events are the first ones of what was read.
THEOREM CopyNoHoles == Spec => []NoHoles
<1>1. CopyInv => NoHoles
  BY DEF CopyInv
<1> QED
  BY <1>1, CopyInvariant, PTL

\* A 200 without a failed statement stands for all the events read, or for none.
THEOREM CopyAllOrNothing == Spec => []AllOrNothing
<1>1. CopyInv => AllOrNothing
  BY DEF CopyInv
<1> QED
  BY <1>1, CopyInvariant, PTL

\* An error answer leaves no event behind, so the request can be repeated.
THEOREM CopyErrorsWriteNothing == Spec => []ErrorsWriteNothing
<1>1. CopyInv => ErrorsWriteNothing
  BY DEF CopyInv
<1> QED
  BY <1>1, CopyInvariant, PTL

\* Only connections opened by Find outlive their request, and none outlives the process.
THEOREM CopyOnlyFindLeaks == Spec => []OnlyFindLeaks
<1>1. CopyInv => OnlyFindLeaks
  BY DEF CopyInv
<1> QED
  BY <1>1, CopyInvariant, PTL

-----------------------------------------------------------------------------
(* What else copies keep. *)

\* Rows are only added, and the acronym of a request that has written one is fixed.
Grows ==
  /\ associations \subseteq associations'
  /\ events \subseteq events'
  /\ \A e \in events : acronym'[e.by] = acronym[e.by]
  /\ \A r \in Requests : faulted[r] => faulted'[r]

LEMMA CopyGrows == CopyInv /\ [Next]_vars => Grows
<1> SUFFICES ASSUME CopyInv, [Next]_vars PROVE Grows
  OBVIOUS
<1>1. /\ faulted \in [Clients -> BOOLEAN]
      /\ acronym \in [Requests -> Acronyms \cup {""}]
      /\ \A e \in events : e.by \in Requests
  BY DEF CopyInv, CallInv, ServiceTypeOK, TypeOK
<1>2. ASSUME NEW r \in Requests, Post(r)
      PROVE  Grows
  <2>1. RowsOf(r) = {}
    BY <1>2 DEF Post, Step, CopyInv, WrittenWhileCreating
  <2>2. \A e \in events : e.by # r
    BY <2>1 DEF RowsOf
  <2>3. \A q \in Requests \ {r} : acronym'[q] = acronym[q]
    BY <1>1, <1>2 DEF Post
  <2> QED
    BY <1>1, <1>2, <2>2, <2>3 DEF Post, Grows, dbVars, callVars
<1>3. ASSUME NEW r \in Requests, PostNothing(r) \/ IdleTimeout(r)
      PROVE  Grows
  BY <1>3 DEF PostNothing, IdleTimeout, Grows, dbVars, callVars, requestVars
<1>4. ASSUME NEW r \in Requests, RequestStep(r) \/ RequestFault(r)
      PROVE  Grows
  <2>1. CASE InFirstOrCreate(r) /\ (CallStep(r) \/ CallFault(r))
    BY <2>1, CallStepFrame DEF InFirstOrCreate, requestVars, CopyInv, Grows
  <2>2. CASE Opens(r) \/ OpenRefused(r) \/ ReadEvents(r) \/ OpenFails(r)
    BY <2>2 DEF Opens, OpenRefused, ReadEvents, OpenFails, RetryOrPanic, Grows, dbVars, callVars
  <2>3. CASE Find(r) \/ FindMisses(r) \/ BuildEvents(r)
    BY <2>3 DEF Find, FindMisses, BuildEvents, Grows, dbVars, callVars
  <2>4. CASE ReadEventsFails(r) \/ FindFails(r) \/ BuildEventsFails(r)
    BY <1>1, <2>4 DEF ReadEventsFails, FindFails, BuildEventsFails, StatementFails, Grows, dbVars,
                      Requests
  <2>5. CASE CreateEvent(r) \/ CreateRefuses(r) \/ CreateReturns(r)
    BY <2>5 DEF CreateEvent, CreateRefuses, CreateReturns, InsertEvent, Grows, dbVars, callVars
  <2>6. CASE CreateEventOrphan(r) \/ CreateEventFails(r)
    BY <1>1, <2>6 DEF CreateEventOrphan, CreateEventFails, SkipEvent, StatementFails, Grows,
                      dbVars, Requests
  <2> QED
    BY <1>4, <2>1, <2>2, <2>3, <2>4, <2>5, <2>6 DEF RequestStep, RequestFault
<1>5. CASE Crash
  BY <1>5 DEF Crash, Rollback, Grows
<1>6. CASE Restart \/ RailsChange
  BY <1>6 DEF Restart, RailsChange, Grows, dbVars, callVars, requestVars
<1>7. CASE AllAnswered \/ UNCHANGED vars
  BY <1>7 DEF AllAnswered, vars, Grows, dbVars, callVars, requestVars
<1> QED
  BY <1>2, <1>3, <1>4, <1>5, <1>6, <1>7 DEF Next

\* A step that reads nothing from Rails and writes no event keeps what has been read.
LEMMA AsReadKept ==
  ASSUME AsRead,
         UNCHANGED <<acronym, railsEvents, events>>,
         \A q \in Requests : pc'[q] \in {"idle", "openCopy", "readEvents"}
                            => pc[q] \in {"idle", "openCopy", "readEvents"}
  PROVE  AsRead'
BY DEF AsRead, RowsOf, Database

LEMMA AsReadInit == Init => AsRead
BY DEF Init, DBInit, AsRead, RowsOf

\* What is read is one state of the table, or its beginning.
LEMMA ReadEventsAsRead ==
  ASSUME CopyInv, AsRead, NEW r \in Requests, ReadEvents(r) \/ ReadEventsFails(r)
  PROVE  AsRead'
<1> DEFINE t == rails[Database(r)]
<1>1. /\ pc[r] = "readEvents" /\ pc' = [pc EXCEPT ![r] = "openFind"]
      /\ UNCHANGED <<acronym, events>>
  BY DEF ReadEvents, ReadEventsFails, Step, dbVars
<1>2. acronym[r] \in Acronyms
  BY <1>1 DEF CopyInv, CallOfRequest
<1>3. Database(r) \in Databases
  BY <1>2, CopyAssumption, Zenon DEF Database
<1>4. t \in RailsTables[Database(r)] /\ t \in Seq(Texts)
  BY <1>3 DEF CopyInv, TypeOK
<1> HIDE DEF t
<1>5. PICK s : /\ railsEvents' = [railsEvents EXCEPT ![r] = s]
               /\ \A k \in DOMAIN s : k \in DOMAIN t /\ s[k] = t[k]
  <2>1. CASE ReadEvents(r)
    BY <2>1 DEF ReadEvents, t
  <2>2. CASE ReadEventsFails(r)
    <3>1. PICK n \in 0..Len(t) : railsEvents' = [railsEvents EXCEPT ![r] = SubSeq(t, 1, n)]
      BY <2>2 DEF ReadEventsFails, t
    <3>2. \A k \in DOMAIN SubSeq(t, 1, n) : k \in DOMAIN t /\ SubSeq(t, 1, n)[k] = t[k]
      BY <1>4
    <3> QED
      BY <3>1, <3>2
  <2> QED
    BY <2>1, <2>2
<1>6. RowsOf(r) = {}
  BY <1>1 DEF CopyInv, WrittenWhileCreating
<1>7. \A q \in Requests : /\ railsEvents'[q] = (IF q = r THEN s ELSE railsEvents[q])
                          /\ pc'[q] = (IF q = r THEN "openFind" ELSE pc[q])
  BY <1>1, <1>5 DEF CopyInv, TypeOK
<1>8. \A q \in Requests : RowsOf(q)' = RowsOf(q) /\ Database(q)' = Database(q)
  BY <1>1 DEF RowsOf, Database
<1> QED
  BY <1>4, <1>5, <1>6, <1>7, <1>8 DEF AsRead

LEMMA CreateEventAsRead ==
  ASSUME CopyInv, AsRead, NEW r \in Requests, CreateEvent(r)
  PROVE  AsRead'
<1> DEFINE k == created[r] + 1
<1>1. /\ pc[r] = "create" /\ created[r] < Len(railsEvents[r])
      /\ events' = events \cup {EventRow(r)}
      /\ UNCHANGED <<pc, acronym, railsEvents>>
  BY DEF CreateEvent, Creating, InsertEvent
<1>2. EventRow(r).by = r /\ EventRow(r).pos = k /\ EventRow(r).event = railsEvents[r][k]
  BY DEF EventRow
<1>3. created[r] \in Nat /\ railsEvents[r] \in Seq(Texts)
  BY DEF CopyInv, TypeOK
<1>4. k \in DOMAIN railsEvents[r]
  BY <1>1, <1>3
<1>5. RowsOf(r)' = RowsOf(r) \cup {EventRow(r)} /\ \A q \in Requests \ {r} : RowsOf(q)' = RowsOf(q)
  BY <1>1, <1>2 DEF RowsOf
<1>6. \A q \in Requests : Database(q)' = Database(q)
  BY <1>1 DEF Database
<1> HIDE DEF k
<1>7. \A e \in RowsOf(r)' : e.pos \in DOMAIN railsEvents[r] /\ e.event = railsEvents[r][e.pos]
  BY <1>2, <1>4, <1>5 DEF AsRead
<1> QED
  BY <1>1, <1>5, <1>6, <1>7 DEF AsRead

LEMMA AsReadNext == CopyInv /\ AsRead /\ [Next]_vars => AsRead'
<1> SUFFICES ASSUME CopyInv, AsRead, [Next]_vars PROVE AsRead'
  OBVIOUS
<1>1. pc \in [Requests -> PCs] /\ acronym \in [Requests -> Acronyms \cup {""}]
  BY DEF CopyInv, TypeOK
<1>2. ASSUME NEW r \in Requests, Post(r)
      PROVE  AsRead'
  <2>1. RowsOf(r) = {} /\ railsEvents[r] = <<>>
    BY <1>2 DEF Post, Step, CopyInv, WrittenWhileCreating, AsRead
  <2>2. \A q \in Requests \ {r} : acronym'[q] = acronym[q] /\ pc'[q] = pc[q]
    BY <1>1, <1>2 DEF Post, Step
  <2>3. \A q \in Requests \ {r} : Database(q)' = Database(q)
    BY <2>2 DEF Database
  <2>4. UNCHANGED railsEvents /\ \A q \in Requests : RowsOf(q)' = RowsOf(q)
    BY <1>2 DEF Post, RowsOf, dbVars
  <2> QED
    BY <2>1, <2>2, <2>3, <2>4 DEF AsRead
<1>3. ASSUME NEW r \in Requests, PostNothing(r) \/ IdleTimeout(r)
      PROVE  AsRead'
  BY <1>1, <1>3, AsReadKept DEF PostNothing, IdleTimeout, Respond, dbVars, requestVars
<1>4. ASSUME NEW r \in Requests, RequestStep(r) \/ RequestFault(r)
      PROVE  AsRead'
  <2>1. CASE InFirstOrCreate(r) /\ (CallStep(r) \/ CallFault(r))
    BY <2>1, CallStepFrame, AsReadKept DEF InFirstOrCreate, requestVars, CopyInv
  <2>2. CASE Opens(r) \/ OpenRefused(r) \/ OpenFails(r)
    <3>1. UNCHANGED <<acronym, railsEvents, events>>
      BY <2>2 DEF Opens, OpenRefused, OpenFails, RetryOrPanic, dbVars
    <3>2. CASE Opens(r)
      <4>1. pc[r] \in {"openCopy", "openFind"}
            /\ pc' = [pc EXCEPT ![r] = IF pc[r] = "openCopy" THEN "readEvents" ELSE "find"]
        BY <3>2 DEF Opens, Opening, Pool
      <4> QED
        BY <1>1, <3>1, <4>1, AsReadKept
    <3>3. CASE OpenRefused(r) \/ OpenFails(r)
      <4>1. pc' \in {pc, [pc EXCEPT ![r] = "done"]}
        BY <3>3 DEF OpenRefused, OpenFails, RetryOrPanic, Respond
      <4> QED
        BY <1>1, <3>1, <4>1, AsReadKept
    <3> QED
      BY <2>2, <3>2, <3>3
  <2>3. CASE Find(r) \/ FindMisses(r) \/ FindFails(r) \/ BuildEvents(r) \/ BuildEventsFails(r)
    BY <1>1, <2>3, AsReadKept
       DEF Find, FindMisses, FindFails, BuildEvents, BuildEventsFails, Step, Respond, dbVars
  <2>4. CASE ReadEvents(r) \/ ReadEventsFails(r)
    BY <2>4, ReadEventsAsRead
  <2>5. CASE CreateEvent(r)
    BY <2>5, CreateEventAsRead
  <2>6. CASE CreateEventOrphan(r) \/ CreateEventFails(r) \/ CreateRefuses(r) \/ CreateReturns(r)
    BY <1>1, <2>6, AsReadKept
       DEF CreateEventOrphan, CreateEventFails, SkipEvent, CreateRefuses, CreateReturns, Respond,
           dbVars
  <2> QED
    BY <1>4, <2>1, <2>2, <2>3, <2>4, <2>5, <2>6 DEF RequestStep, RequestFault
<1>5. CASE Crash
  BY <1>1, <1>5, AsReadKept DEF Crash, Rollback
<1>6. CASE Restart \/ RailsChange
  BY <1>6, AsReadKept DEF Restart, RailsChange, dbVars, requestVars
<1>7. CASE AllAnswered \/ UNCHANGED vars
  BY <1>7, AsReadKept DEF AllAnswered, vars, dbVars, requestVars
<1> QED
  BY <1>2, <1>3, <1>4, <1>5, <1>6, <1>7 DEF Next

\* A step after which every call that has come back without an id had come back before, and
\* every 200 had been sent.
LEMMA RefusedKept ==
  ASSUME RefusedOnConflict, associations \subseteq associations',
         \A q \in Requests :
           /\ faulted[q] => faulted'[q]
           /\ phase'[q] = "returned" /\ association'[q].id = 0 =>
                \/ faulted'[q]
                \/ phase[q] = "returned" /\ association'[q] = association[q] /\ drawn'[q] = drawn[q]
           /\ response'[q] = "200" =>
                /\ response[q] = "200" /\ phase'[q] = phase[q] /\ association'[q] = association[q]
                /\ created'[q] = created[q] /\ railsEvents'[q] = railsEvents[q]
  PROVE  RefusedOnConflict'
<1> SUFFICES ASSUME NEW r \in Requests, ~faulted'[r]
             PROVE  /\ phase'[r] = "returned" /\ association'[r].id = 0 =>
                         drawn'[r] # 0 /\ Violates(Row(r))'
                    /\ response'[r] = "200" =>
                         \/ created'[r] = Len(railsEvents'[r])
                         \/ phase'[r] = "returned" /\ association'[r].id = 0
  BY DEF RefusedOnConflict
<1>1. ~faulted[r]
  OBVIOUS
<1>2. ASSUME phase'[r] = "returned", association'[r].id = 0
      PROVE  drawn'[r] # 0 /\ Violates(Row(r))'
  <2>1. phase[r] = "returned" /\ association'[r] = association[r] /\ drawn'[r] = drawn[r]
    BY <1>2
  <2>2. Row(r)' = Row(r)
    BY <2>1 DEF Row
  <2>3. drawn[r] # 0 /\ Violates(Row(r))
    BY <1>1, <1>2, <2>1 DEF RefusedOnConflict
  <2> QED
    BY <2>1, <2>2, <2>3 DEF Violates
<1> QED
  BY <1>1, <1>2 DEF RefusedOnConflict

LEMMA RefusedInit == Init => RefusedOnConflict
BY DEF Init, CallInit, RefusedOnConflict, Requests

\* FirstOrCreate misses a row, inserts and is refused; in all other ways it has an id.
LEMMA RefusedCall ==
  ASSUME CopyInv, RefusedOnConflict, NEW r \in Requests, InFirstOrCreate(r),
         CallStep(r) \/ CallFault(r)
  PROVE  RefusedOnConflict'
<1> USE DEF Requests
<1>1. /\ pc[r] = "firstOrCreate" /\ op[r] = "FirstOrCreate"
      /\ response[r] = "none"
      /\ UNCHANGED <<created, railsEvents, response>>
  BY DEF InFirstOrCreate, requestVars, CopyInv, CallOfRequest, WrittenWhileCreating
<1>2. /\ associations \subseteq associations'
      /\ \A q \in Requests \ {r} : association'[q] = association[q] /\ phase'[q] = phase[q]
      /\ \A q \in Requests : faulted[q] => faulted'[q]
  BY CallStepFrame DEF CopyInv
<1>3. /\ association \in [Clients -> Struct]
      /\ phase \in [Clients -> Phases]
      /\ drawn \in [Clients -> Nat]
      /\ faulted \in [Clients -> BOOLEAN]
      /\ \A x \in associations : x.id # 0
  BY DEF CopyInv, CallInv, ServiceTypeOK
<1>4. \A q \in Requests \ {r} : drawn'[q] = drawn[q]
  BY <1>3 DEF CallStep, CallFault, FirstFinds, FirstMisses, FirstFails, DrawId, Insert,
              InsertConflicts, InsertFails, CommitInsert, CommitFails
<1>5. CASE InsertConflicts(r)
  <2>1. /\ Violates(Row(r)) /\ phase' = [phase EXCEPT ![r] = "returned"]
        /\ drawn[r] # 0
        /\ UNCHANGED <<dbVars, association, drawn, faulted>>
    BY <1>5 DEF InsertConflicts, Goto, CopyInv, CallInv, IdOfPhase
  <2>2. Violates(Row(r))'
    BY <2>1 DEF Violates, Row, dbVars
  <2>3. \A q \in Requests \ {r} : Violates(Row(q)) => Violates(Row(q))'
    BY <2>1 DEF Violates, Row, dbVars
  <2> QED
    BY <1>1, <1>2, <2>1, <2>2, <2>3 DEF RefusedOnConflict
<1>6. ASSUME ~InsertConflicts(r)
      PROVE  phase'[r] = "returned" => association'[r].id # 0 \/ faulted'[r]
  <2>1. CASE FirstFinds(r)
    BY <1>3, <2>1 DEF FirstFinds, Found
  <2>2. CASE FirstMisses(r)
    BY <1>1, <1>3, <2>2 DEF FirstMisses, Goto, CreatesWhenMissing, NewRecord
  <2>3. CASE DrawId(r) \/ Insert(r)
    BY <1>3, <2>3 DEF DrawId, Insert, Goto
  <2>4. CASE CommitInsert(r)
    <3>1. association[r].id # 0
      BY <2>4 DEF CommitInsert, CopyInv, CallInv, IdOfPhase
    <3> QED
      BY <2>4, <3>1 DEF CommitInsert
  <2>5. CASE FirstFails(r) \/ InsertFails(r) \/ CommitFails(r)
    BY <1>3, <2>5 DEF FirstFails, InsertFails, CommitFails, StatementFails
  <2> QED
    BY <1>6, <2>1, <2>2, <2>3, <2>4, <2>5 DEF CallStep, CallFault
<1>7. CASE ~InsertConflicts(r)
  BY <1>1, <1>2, <1>4, <1>6, <1>7, RefusedKept
<1> QED
  BY <1>5, <1>7

LEMMA RefusedNext == CopyInv /\ RefusedOnConflict /\ [Next]_vars => RefusedOnConflict'
<1> SUFFICES ASSUME CopyInv, RefusedOnConflict, [Next]_vars PROVE RefusedOnConflict'
  OBVIOUS
<1>1. /\ association \in [Requests -> Struct]
      /\ phase \in [Requests -> Phases]
      /\ faulted \in [Requests -> BOOLEAN]
      /\ response \in [Requests -> {"none", "200", "400", "500", "aborted", "lost"}]
      /\ created \in [Requests -> Nat]
      /\ railsEvents \in [Requests -> Seq(Texts)]
  BY DEF CopyInv, CallInv, ServiceTypeOK, TypeOK, Requests
<1>2. Grows
  BY CopyGrows
<1>3. \A q \in Requests : pc[q] # "done" => response[q] = "none"
  BY DEF CopyInv, WrittenWhileCreating
<1>4. ASSUME NEW r \in Requests, Post(r) \/ PostNothing(r) \/ IdleTimeout(r)
      PROVE  RefusedOnConflict'
  BY <1>1, <1>2, <1>4, RefusedKept
     DEF Post, PostNothing, IdleTimeout, Respond, callVars, requestVars, Grows
<1>5. ASSUME NEW r \in Requests, RequestStep(r) \/ RequestFault(r)
      PROVE  RefusedOnConflict'
  <2>1. CASE InFirstOrCreate(r) /\ (CallStep(r) \/ CallFault(r))
    BY <2>1, RefusedCall
  <2>2. CASE Opens(r) \/ OpenRefused(r) \/ OpenFails(r)
    BY <1>1, <1>2, <2>2, RefusedKept
       DEF Opens, OpenRefused, OpenFails, RetryOrPanic, Respond, callVars, Grows
  <2>3. CASE ReadEvents(r) \/ ReadEventsFails(r)
    BY <1>1, <1>2, <1>3, <2>3, RefusedKept DEF ReadEvents, ReadEventsFails, Step, callVars, Grows
  <2>4. CASE Find(r)
    <3>1. phase'[r] = "first" /\ \A q \in Requests \ {r} : /\ phase'[q] = phase[q]
                                                         /\ association'[q] = association[q]
      BY <1>1, <2>4 DEF Find, FirstOrCreateOf, Enter
    <3>2. response[r] = "none" /\ UNCHANGED <<drawn, faulted, created, railsEvents, response>>
      BY <1>3, <2>4 DEF Find, Step, FirstOrCreateOf, Enter
    <3> QED
      BY <1>2, <3>1, <3>2, RefusedKept DEF Grows
  <2>5. CASE FindMisses(r) \/ FindFails(r) \/ BuildEvents(r) \/ BuildEventsFails(r)
    BY <1>1, <1>2, <2>5, RefusedKept
       DEF FindMisses, FindFails, BuildEvents, BuildEventsFails, Respond, callVars, Grows
  <2>6. CASE CreateEvent(r) \/ CreateEventOrphan(r) \/ CreateEventFails(r)
    BY <1>1, <1>2, <1>3, <2>6, RefusedKept
       DEF CreateEvent, CreateEventOrphan, CreateEventFails, SkipEvent, Creating, callVars, Grows
  <2>7. CASE CreateRefuses(r) \/ CreateReturns(r)
    <3>1. /\ pc[r] = "create"
          /\ association[r].id = 0 \/ created[r] = Len(railsEvents[r])
          /\ response' = [response EXCEPT ![r] = "200"]
          /\ UNCHANGED <<dbVars, callVars, created, railsEvents>>
      BY <2>7 DEF CreateRefuses, CreateReturns, Creating, Respond
    <3>2. phase[r] = "returned"
      BY <3>1 DEF CopyInv, CallOfRequest
    <3>3. \A q \in Requests \ {r} : response'[q] = response[q]
      BY <1>1, <3>1
    <3>4. \A q \in Requests : Violates(Row(q))' = Violates(Row(q))
      BY <3>1 DEF Violates, Row, dbVars, callVars
    <3> QED
      BY <3>1, <3>2, <3>3, <3>4 DEF RefusedOnConflict, callVars
  <2> QED
    BY <1>5, <2>1, <2>2, <2>3, <2>4, <2>5, <2>6, <2>7 DEF RequestStep, RequestFault
<1>6. CASE Crash
  BY <1>1, <1>2, <1>6, RefusedKept DEF Crash, Grows
<1>7. CASE Restart \/ RailsChange
  BY <1>2, <1>7, RefusedKept DEF Restart, RailsChange, callVars, requestVars, Grows
<1>8. CASE AllAnswered \/ UNCHANGED vars
  BY <1>2, <1>8, RefusedKept DEF AllAnswered, vars, callVars, requestVars, Grows
<1> QED
  BY <1>4, <1>5, <1>6, <1>7, <1>8 DEF Next

-----------------------------------------------------------------------------
(* Whose row refused an INSERT. *)

LEMMA LooksInit == Init => LooksThenDraws /\ RowsOfRequests
<1> SUFFICES ASSUME Init PROVE LooksThenDraws /\ RowsOfRequests
  OBVIOUS
<1>1. \A r \in Requests : phase[r] = "idle" /\ drawn[r] = 0
  BY DEF Init, CallInit, Requests
<1>2. LooksThenDraws
  BY <1>1 DEF LooksThenDraws
<1>3. RowsOfRequests
  BY DEF Init, DBInit, RowsOfRequests
<1> QED
  BY <1>2, <1>3

\* A step outside FirstOrCreate looks for nothing, draws nothing and inserts no association.
LEMMA LooksKept ==
  ASSUME LooksThenDraws, RowsOfRequests,
         UNCHANGED <<associations, nextId, where, association, drawn>>,
         \A q \in Requests :
           /\ phase'[q] \in {phase[q], "idle"}
           /\ pc'[q] \in {pc[q], "firstOrCreate", "create", "done"} \/ drawn[q] = 0
           /\ faulted[q] => faulted'[q]
  PROVE  LooksThenDraws' /\ RowsOfRequests'
<1>1. RowsOfRequests'
  BY DEF RowsOfRequests
<1>2. LooksThenDraws'
  BY DEF LooksThenDraws
<1> QED
  BY <1>1, <1>2

\* A lookup in vain has seen the rows that were there before the API; an id is drawn after it.
LEMMA CallLooks ==
  ASSUME CopyInv, LooksThenDraws, RowsOfRequests, NEW r \in Requests, InFirstOrCreate(r),
         CallStep(r) \/ CallFault(r)
  PROVE  LooksThenDraws'
<1> USE DEF Requests
<1>1. /\ pc[r] = "firstOrCreate" /\ op[r] = "FirstOrCreate" /\ UNCHANGED pc
      /\ association \in [Clients -> Struct]
      /\ phase \in [Clients -> Phases]
      /\ drawn \in [Clients -> Nat]
      /\ faulted \in [Clients -> BOOLEAN]
      /\ \A x \in associations : x.id # 0
  BY DEF InFirstOrCreate, requestVars, CopyInv, CallOfRequest, CallInv, ServiceTypeOK
<1>2. /\ UNCHANGED where
      /\ \A q \in Requests \ {r} : association'[q] = association[q] /\ phase'[q] = phase[q]
      /\ \A q \in Requests : faulted[q] => faulted'[q]
  BY CallStepFrame DEF CopyInv
<1>3. \A q \in Requests \ {r} : drawn'[q] = drawn[q]
  BY <1>1 DEF CallStep, CallFault, FirstFinds, FirstMisses, FirstFails, DrawId, Insert,
              InsertConflicts, InsertFails, CommitInsert, CommitFails
<1> DEFINE OfRequest(q) ==
      /\ phase[q] \in {"first", "draw"} \/ pc[q] \notin {"firstOrCreate", "create", "done"}
           => drawn[q] = 0
      /\ phase[q] = "first" =>
           /\ association[q].id = 0
           /\ where[q] = [Blank EXCEPT !.id = 0, !.acronym = association[q].acronym]
      /\ phase[q] \in {"draw", "insert"} \/ (phase[q] = "returned" /\ association[q].id = 0)
           => faulted[q] \/ \A x \in SeedRows : x.acronym # association[q].acronym
<1>4. \A q \in Requests : OfRequest(q)
  BY DEF LooksThenDraws
<1>5. ASSUME NEW q \in Requests \ {r}
      PROVE  OfRequest(q)'
  <2>1. /\ phase'[q] = phase[q] /\ pc'[q] = pc[q] /\ where'[q] = where[q]
        /\ drawn'[q] = drawn[q] /\ association'[q] = association[q]
        /\ faulted[q] => faulted'[q]
    BY <1>1, <1>2, <1>3
  <2>2. OfRequest(q)
    BY <1>4
  <2> QED
    BY <2>1, <2>2
<1>6. OfRequest(r)'
  <2>1. CASE FirstFinds(r)
    BY <1>1, <2>1 DEF FirstFinds, Found, Goto
  <2>2. CASE FirstMisses(r)
    <3>1. phase[r] = "first" /\ Found(r) = {} /\ UNCHANGED <<association, drawn, faulted>>
          /\ phase' = [phase EXCEPT ![r] = IF CreatesWhenMissing(r) /\ NewRecord(r)
                                           THEN "draw" ELSE "returned"]
      BY <2>2 DEF FirstMisses, Goto
    <3>2. where[r] = [Blank EXCEPT !.id = 0, !.acronym = association[r].acronym] /\ drawn[r] = 0
      BY <1>4, <3>1
    <3>3. ASSUME NEW x \in SeedRows
          PROVE  x.acronym # association[r].acronym
      <4>1. ~Answers("FirstOrCreate", where[r], x)
        BY <1>1, <3>1 DEF RowsOfRequests, Found
      <4> QED
        BY <3>2, <4>1 DEF Answers, Blank
    <3> QED
      BY <1>1, <3>1, <3>2, <3>3
  <2>3. CASE DrawId(r)
    BY <1>1, <1>4, <2>3 DEF DrawId, Goto
  <2>4. CASE Insert(r)
    BY <1>1, <2>4 DEF Insert, Goto
  <2>5. CASE InsertConflicts(r)
    BY <1>1, <1>4, <2>5 DEF InsertConflicts, Goto
  <2>6. CASE CommitInsert(r)
    <3>1. association[r].id # 0
      BY <2>6 DEF CommitInsert, CopyInv, CallInv, IdOfPhase
    <3> QED
      BY <1>1, <2>6, <3>1 DEF CommitInsert, Goto
  <2>7. CASE FirstFails(r)
    BY <1>1, <1>4, <2>7 DEF FirstFails, StatementFails, Goto
  <2>8. CASE InsertFails(r) \/ CommitFails(r)
    BY <1>1, <2>8 DEF InsertFails, CommitFails, StatementFails, Goto
  <2> QED
    BY <2>1, <2>2, <2>3, <2>4, <2>5, <2>6, <2>7, <2>8 DEF CallStep, CallFault
<1> QED
  BY <1>5, <1>6 DEF LooksThenDraws

\* A row comes from the COMMIT of the one request that drew its id, and that request keeps it.
LEMMA CallKeepsRows ==
  ASSUME CopyInv, LooksThenDraws, RowsOfRequests, NEW r \in Requests,
         CallStep(r) \/ CallFault(r)
  PROVE  RowsOfRequests'
<1> USE DEF Requests
<1>1. /\ association \in [Clients -> Struct]
      /\ drawn \in [Clients -> Nat]
      /\ nextId \in Nat
      /\ \A x \in associations : x \in Struct /\ x.id # 0
      /\ tx = [c \in Clients |-> IF phase[c] = "commit" THEN {Row(c)} ELSE {}]
  BY DEF CopyInv, CallInv, ServiceTypeOK
<1>2. SeedRows \subseteq associations'
  BY CallStepFrame DEF CopyInv, RowsOfRequests
<1>3. CASE FirstFinds(r)
  <2>1. /\ UNCHANGED <<associations, nextId, drawn>> /\ drawn[r] = 0
        /\ \A q \in Requests \ {r} : association'[q] = association[q]
    BY <1>1, <1>3 DEF FirstFinds, dbVars, LooksThenDraws
  <2> QED
    BY <1>1, <2>1 DEF RowsOfRequests
<1>4. CASE DrawId(r)
  <2>1. UNCHANGED <<associations, association>> /\ nextId' = nextId + 1
        /\ drawn' = [drawn EXCEPT ![r] = nextId]
    BY <1>4 DEF DrawId, NextVal
  <2>2. \A x \in associations \ SeedRows : x.id \in Nat /\ x.id < nextId
    BY <1>1 DEF RowsOfRequests, Struct
  <2>3. \A x \in associations \ SeedRows : x.id < nextId' /\ drawn'[r] # x.id
    BY <1>1, <2>1, <2>2
  <2> QED
    BY <1>1, <1>2, <2>1, <2>3 DEF RowsOfRequests
<1>5. CASE Insert(r)
  <2>1. UNCHANGED <<associations, nextId, drawn>>
        /\ association' = [association EXCEPT ![r].id = drawn[r]]
    BY <1>5 DEF Insert, InsertAssociation
  <2>2. association[r].id = 0
    BY <1>5 DEF Insert, CopyInv, CallInv, IdOfPhase
  <2>3. \A x \in associations \ SeedRows : drawn[r] # x.id
    BY <1>1, <2>2 DEF RowsOfRequests
  <2> QED
    BY <1>1, <2>1, <2>3 DEF RowsOfRequests
<1>6. CASE CommitInsert(r)
  <2>1. /\ associations' = associations \cup {Row(r)}
        /\ UNCHANGED <<nextId, association, drawn>>
    BY <1>1, <1>6 DEF CommitInsert, Commit
  <2>2. association[r].id = drawn[r] /\ drawn[r] # 0
    BY <1>6 DEF CommitInsert, CopyInv, CallInv, IdOfPhase
  <2>3. Row(r) = association[r] /\ Row(r).id = drawn[r]
    BY <1>1, <2>2 DEF Row, Struct
  <2>4. drawn[r] < nextId /\ \A q \in Clients \ {r} : drawn[q] # drawn[r]
    BY <2>2 DEF CopyInv, CallInv, DrawnOnce
  <2> QED
    BY <1>2, <2>1, <2>3, <2>4 DEF RowsOfRequests
<1>7. CASE UNCHANGED <<associations, nextId, association, drawn>>
  BY <1>7 DEF RowsOfRequests
<1> QED
  BY <1>3, <1>4, <1>5, <1>6, <1>7
     DEF CallStep, CallFault, FirstMisses, InsertConflicts, FirstFails, InsertFails, CommitFails,
         Rollback, dbVars

LEMMA LooksNext ==
  CopyInv /\ LooksThenDraws /\ RowsOfRequests /\ [Next]_vars => LooksThenDraws' /\ RowsOfRequests'
<1> SUFFICES ASSUME CopyInv, LooksThenDraws, RowsOfRequests, [Next]_vars
             PROVE  LooksThenDraws' /\ RowsOfRequests'
  OBVIOUS
<1>1. /\ pc \in [Requests -> PCs]
      /\ phase \in [Requests -> Phases]
      /\ association \in [Requests -> Struct]
      /\ where \in [Requests -> Struct]
  BY DEF CopyInv, TypeOK, CallInv, ServiceTypeOK, Requests
<1>2. \A q \in Requests : faulted[q] => faulted'[q]
  BY CopyGrows DEF Grows
<1>3. \A q \in Requests : pc[q] \notin {"firstOrCreate", "create", "done"} => drawn[q] = 0
  BY DEF LooksThenDraws
<1>4. ASSUME NEW r \in Requests, Post(r) \/ PostNothing(r) \/ IdleTimeout(r)
      PROVE  LooksThenDraws' /\ RowsOfRequests'
  BY <1>1, <1>2, <1>3, <1>4, LooksKept
     DEF Post, PostNothing, IdleTimeout, Step, Respond, dbVars, callVars, requestVars
<1>5. ASSUME NEW r \in Requests, RequestStep(r) \/ RequestFault(r)
      PROVE  LooksThenDraws' /\ RowsOfRequests'
  <2>1. CASE InFirstOrCreate(r) /\ (CallStep(r) \/ CallFault(r))
    BY <2>1, CallLooks, CallKeepsRows
  <2>2. CASE Opens(r) \/ OpenRefused(r) \/ OpenFails(r)
    BY <1>1, <1>2, <1>3, <2>2, LooksKept
       DEF Opens, OpenRefused, OpenFails, Opening, RetryOrPanic, Respond, dbVars, callVars
  <2>3. CASE ReadEvents(r) \/ ReadEventsFails(r)
    BY <1>1, <1>2, <1>3, <2>3, LooksKept DEF ReadEvents, ReadEventsFails, Step, dbVars, callVars
  <2>4. CASE Find(r)
    <3>1. /\ pc[r] = "find" /\ pc' = [pc EXCEPT ![r] = "firstOrCreate"]
          /\ UNCHANGED <<associations, nextId, drawn, faulted>>
          /\ phase' = [phase EXCEPT ![r] = "first"]
          /\ association' = [association EXCEPT ![r] = NewAssociation(r)]
          /\ where' = [where EXCEPT ![r] = [Blank EXCEPT !.id = NewAssociation(r).id,
                                                         !.acronym = NewAssociation(r).acronym]]
      BY <2>4 DEF Find, Step, FirstOrCreateOf, Enter, dbVars
    <3>2. drawn[r] = 0 /\ NewAssociation(r).id = 0
      BY <1>3, <3>1 DEF NewAssociation
    <3>3. \A x \in associations \ SeedRows : drawn[r] # x.id
      BY <3>2 DEF CopyInv, CallInv, ServiceTypeOK
    <3>4. RowsOfRequests'
      BY <1>1, <3>1, <3>3 DEF RowsOfRequests
    <3>5. where'[r] = [Blank EXCEPT !.id = 0, !.acronym = association'[r].acronym]
      BY <1>1, <3>1, <3>2
    <3>6. LooksThenDraws'
      BY <1>1, <3>1, <3>2, <3>5 DEF LooksThenDraws
    <3> QED
      BY <3>4, <3>6
  <2>5. CASE FindMisses(r) \/ FindFails(r) \/ BuildEvents(r) \/ BuildEventsFails(r)
    BY <1>1, <1>2, <2>5, LooksKept
       DEF FindMisses, FindFails, BuildEvents, BuildEventsFails, Step, Respond, dbVars, callVars
  <2>6. CASE CreateEvent(r) \/ CreateEventOrphan(r) \/ CreateEventFails(r)
    BY <1>2, <2>6, LooksKept
       DEF CreateEvent, CreateEventOrphan, CreateEventFails, SkipEvent, InsertEvent, dbVars, callVars
  <2>7. CASE CreateRefuses(r) \/ CreateReturns(r)
    BY <1>1, <1>2, <2>7, LooksKept DEF CreateRefuses, CreateReturns, Respond, dbVars, callVars
  <2> QED
    BY <1>5, <2>1, <2>2, <2>3, <2>4, <2>5, <2>6, <2>7 DEF RequestStep, RequestFault
<1>6. CASE Crash
  BY <1>1, <1>2, <1>6, LooksKept DEF Crash, Rollback
<1>7. CASE Restart \/ RailsChange
  BY <1>2, <1>7, LooksKept DEF Restart, RailsChange, dbVars, callVars, requestVars
<1>8. CASE AllAnswered \/ UNCHANGED vars
  BY <1>2, <1>8, LooksKept DEF AllAnswered, vars, dbVars, callVars, requestVars
<1> QED
  BY <1>4, <1>5, <1>6, <1>7, <1>8 DEF Next

-----------------------------------------------------------------------------

\* The rows of a request are of one state of its Rails table, however it changes meanwhile.
THEOREM CopyOneSnapshot == Spec => []OneSnapshot
<1>1. Init => CopyInv /\ AsRead
  BY CopyInvInit, AsReadInit
<1>2. CopyInv /\ AsRead /\ [Next]_vars => (CopyInv /\ AsRead)'
  BY CopyInvNext, AsReadNext
<1>3. AsRead => OneSnapshot
  <2> SUFFICES ASSUME AsRead, NEW r \in Requests, RowsOf(r) # {}
               PROVE  \E t \in RailsTables[Database(r)] : \A e \in RowsOf(r) :
                        e.pos \in DOMAIN t /\ e.event = t[e.pos]
    BY DEF OneSnapshot
  <2>1. PICK e \in RowsOf(r) : e.pos \in DOMAIN railsEvents[r]
    BY DEF AsRead
  <2>2. railsEvents[r] # <<>>
    BY <2>1
  <2> QED
    BY <2>2 DEF AsRead
<1> QED
  BY <1>1, <1>2, <1>3, PTL DEF Spec

\* A 200 that stands for nothing copied, though there were events and no statement failed,
\* comes of an INSERT that was refused beside a row of somebody else's.
THEOREM CopyNothingCopiedOnlyWhenRefused == Spec => []NothingCopiedOnlyWhenRefused
<1> DEFINE Inv == CopyInv /\ RefusedOnConflict /\ LooksThenDraws /\ RowsOfRequests
<1>1. Init => Inv
  BY CopyInvInit, RefusedInit, LooksInit
<1>2. Inv /\ [Next]_vars => Inv'
  BY CopyInvNext, RefusedNext, LooksNext
<1>3. Inv => NothingCopiedOnlyWhenRefused
  <2> SUFFICES ASSUME Inv, NEW r \in Requests,
                      response[r] = "200", ~faulted[r], railsEvents[r] # <<>>, RowsOf(r) = {}
               PROVE  /\ association[r].id = 0 /\ drawn[r] # 0
                      /\ \E x \in associations \ {Row(r)} : Conflict(x, Row(r))
    BY DEF NothingCopiedOnlyWhenRefused
  <2>1. Copied(r) = {}
    BY DEF Copied
  <2>2. Copied(r) = 1..created[r] /\ created[r] \in Nat
    BY DEF CopyInv, NoHoles, TypeOK
  <2>3. created[r] = 0
    BY <2>1, <2>2
  <2>4. railsEvents[r] \in Seq(Texts)
    BY DEF CopyInv, TypeOK
  <2>5. Len(railsEvents[r]) # 0
    BY <2>4
  <2>6. phase[r] = "returned" /\ association[r].id = 0
    BY <2>3, <2>5 DEF RefusedOnConflict
  <2>7. drawn[r] # 0 /\ Violates(Row(r))
    BY <2>6 DEF RefusedOnConflict
  <2>8. Row(r) \notin associations
    <3>1. association[r] \in Struct /\ drawn[r] \in Nat
      BY DEF CopyInv, CallInv, ServiceTypeOK, Requests
    <3>2. Row(r).id = drawn[r] /\ Row(r).acronym = association[r].acronym
      BY <3>1 DEF Row, Struct
    <3>3. Row(r) \notin SeedRows
      BY <2>6, <3>2 DEF LooksThenDraws
    <3>4. Row(r) # association[r]
      BY <2>6, <2>7, <3>2
    <3> QED
      BY <3>2, <3>3, <3>4 DEF RowsOfRequests
  <2> QED
    BY <2>6, <2>7, <2>8 DEF Violates, Conflict
<1> QED
  BY <1>1, <1>2, <1>3, PTL DEF Spec

-----------------------------------------------------------------------------
(* Requests as jobs of CopyJob. *)

LEMMA JobInit == Init => Jobs!Init
<1> SUFFICES ASSUME Init PROVE Jobs!Init
  OBVIOUS
<1>1. \A r \in Requests : JobStatus(r) = "idle"
  BY DEF Init, JobStatus
<1>2. /\ acronym = [r \in Requests |-> ""] /\ railsEvents = [r \in Requests |-> <<>>]
      /\ created = [r \in Requests |-> 0]
  BY DEF Init
<1>3. events = {} /\ faulted = [r \in Requests |-> FALSE]
  BY DEF Init, DBInit, CallInit, Requests
<1> QED
  BY <1>1, <1>2, <1>3 DEF Jobs!Init

\* A step of one request changes the status of no other.
LEMMA StatusOfOthers ==
  ASSUME NEW r \in Requests,
         \A q \in Requests \ {r} : pc'[q] = pc[q] /\ response'[q] = response[q]
  PROVE  [q \in Requests |-> JobStatus(q)']
           = [[q \in Requests |-> JobStatus(q)] EXCEPT ![r] = JobStatus(r)']
<1>1. \A q \in Requests \ {r} : JobStatus(q)' = JobStatus(q)
  BY DEF JobStatus
<1> QED
  BY <1>1

\* A step that leaves every status alone.
LEMMA StatusKept ==
  ASSUME NEW r \in Requests,
         \A q \in Requests \ {r} : pc'[q] = pc[q] /\ response'[q] = response[q],
         pc[r] \notin {"idle", "done"}, pc'[r] \notin {"idle", "done"}
  PROVE  [q \in Requests |-> JobStatus(q)'] = [q \in Requests |-> JobStatus(q)]
<1>1. \A q \in Requests : JobStatus(q)' = JobStatus(q)
  BY DEF JobStatus
<1> QED
  BY <1>1

LEMMA MayFaultOfStep ==
  ASSUME NEW r \in Requests, UNCHANGED faulted \/ StatementFails(r)
  PROVE  Jobs!MayFault(r)
BY DEF StatementFails, Jobs!MayFault

LEMMA CallMayFault ==
  ASSUME NEW r \in Requests, CallStep(r) \/ CallFault(r)
  PROVE  Jobs!MayFault(r)
BY MayFaultOfStep
   DEF CallStep, FirstFinds, FirstMisses, DrawId, Insert, InsertConflicts, CommitInsert,
       CallFault, FirstFails, InsertFails, CommitFails

\* Before the first event a request may be answered with an error.
LEMMA FailOfStep ==
  ASSUME CopyInv, NEW r \in Requests, NEW a \in {"500", "aborted"},
         pc[r] \notin {"idle", "create", "done"}, Respond(r, a),
         UNCHANGED <<acronym, railsEvents, created, events, associations>>,
         UNCHANGED faulted \/ StatementFails(r)
  PROVE  Jobs!Fail(r)
<1>1. pc \in [Requests -> PCs] /\ DOMAIN response = Requests
  BY DEF CopyInv, TypeOK
<1>2. /\ \A q \in Requests \ {r} : pc'[q] = pc[q] /\ response'[q] = response[q]
      /\ pc'[r] = "done" /\ response'[r] = a
  BY <1>1 DEF Respond
<1>3. JobStatus(r) = "running" /\ JobStatus(r)' = a
  BY <1>2 DEF JobStatus
<1>4. created[r] = 0
  BY DEF CopyInv, WrittenWhileCreating
<1>5. Jobs!Answer(r, a)
  BY <1>2, <1>3, StatusOfOthers DEF Jobs!Answer
<1> QED
  BY <1>3, <1>4, <1>5, MayFaultOfStep DEF Jobs!Fail

LEMMA SucceedOfStep ==
  ASSUME CopyInv, NEW r \in Requests, CreateRefuses(r) \/ CreateReturns(r)
  PROVE  Jobs!Succeed(r)
<1>1. pc \in [Requests -> PCs] /\ DOMAIN response = Requests
  BY DEF CopyInv, TypeOK
<1>2. /\ pc[r] = "create" /\ Respond(r, "200")
      /\ UNCHANGED <<acronym, railsEvents, created, events, associations, faulted>>
  BY DEF CreateRefuses, CreateReturns, Creating, dbVars, callVars
<1>3. /\ \A q \in Requests \ {r} : pc'[q] = pc[q] /\ response'[q] = response[q]
      /\ pc'[r] = "done" /\ response'[r] = "200"
  BY <1>1, <1>2 DEF Respond
<1>4. JobStatus(r) = "running" /\ JobStatus(r)' = "200"
  BY <1>2, <1>3 DEF JobStatus
<1>5. created[r] \in {0, Len(railsEvents[r])}
  BY <1>2 DEF CreateRefuses, CreateReturns, CopyInv, WrittenWhileCreating
<1>6. Jobs!Answer(r, "200")
  BY <1>3, <1>4, StatusOfOthers DEF Jobs!Answer
<1> QED
  BY <1>2, <1>4, <1>5, <1>6 DEF Jobs!Succeed

LEMMA ReadOfStep ==
  ASSUME CopyInv, AsRead, NEW r \in Requests, ReadEvents(r) \/ ReadEventsFails(r)
  PROVE  Jobs!Read(r)
<1> DEFINE t == rails[Database(r)]
<1>1. /\ pc[r] = "readEvents" /\ pc' = [pc EXCEPT ![r] = "openFind"]
      /\ UNCHANGED <<acronym, created, response, events, associations>>
  BY DEF ReadEvents, ReadEventsFails, Step, dbVars
<1>2. acronym[r] \in Acronyms
  BY <1>1 DEF CopyInv, CallOfRequest
<1>3. Database(r) \in Databases
  BY <1>2, CopyAssumption, Zenon DEF Database
<1>4. t \in [a \in Acronyms |-> RailsTables[Lower[a]]][acronym[r]]
  BY <1>2, <1>3 DEF CopyInv, TypeOK, Database
<1>5. \A q \in Requests \ {r} : pc'[q] = pc[q] /\ response'[q] = response[q]
  BY <1>1 DEF CopyInv, TypeOK
<1>6. pc'[r] = "openFind"
  BY <1>1 DEF CopyInv, TypeOK
<1>7. JobStatus(r) = "running"
  BY <1>1 DEF JobStatus
<1>8. [q \in Requests |-> JobStatus(q)'] = [q \in Requests |-> JobStatus(q)]
  BY <1>1, <1>5, <1>6, StatusKept
<1>9. railsEvents[r] = <<>> /\ created[r] = 0
  BY <1>1 DEF AsRead, CopyInv, WrittenWhileCreating
<1>10. \/ railsEvents' = [railsEvents EXCEPT ![r] = t]
       \/ /\ faulted'[r]
          /\ \E n \in 0..Len(t) : railsEvents' = [railsEvents EXCEPT ![r] = SubSeq(t, 1, n)]
  <2>1. CASE ReadEvents(r)
    BY <2>1 DEF ReadEvents
  <2>2. CASE ReadEventsFails(r)
    <3>1. faulted'[r]
      BY <2>2 DEF ReadEventsFails, StatementFails, CopyInv, CallInv, ServiceTypeOK, Requests
    <3> QED
      BY <2>2, <3>1 DEF ReadEventsFails
  <2> QED
    BY <2>1, <2>2
<1>11. Jobs!MayFault(r)
  BY MayFaultOfStep DEF ReadEvents, ReadEventsFails, callVars
<1> HIDE DEF t
<1> QED
  BY <1>1, <1>4, <1>7, <1>8, <1>9, <1>10, <1>11 DEF Jobs!Read

LEMMA FindAssociationOfStep ==
  ASSUME CopyInv, NEW r \in Requests, InFirstOrCreate(r), CallStep(r) \/ CallFault(r)
  PROVE  Jobs!FindAssociation(r)
<1>1. /\ pc[r] = "firstOrCreate" /\ UNCHANGED <<acronym, railsEvents, created, pc, response>>
      /\ UNCHANGED events /\ associations \subseteq associations'
  BY CallStepFrame DEF InFirstOrCreate, requestVars, CopyInv
<1>2. created[r] = 0
  BY <1>1 DEF CopyInv, WrittenWhileCreating
<1>3. JobStatus(r) = "running" /\ [q \in Requests |-> JobStatus(q)'] = [q \in Requests |-> JobStatus(q)]
  BY <1>1 DEF JobStatus
<1> QED
  BY <1>1, <1>2, <1>3, CallMayFault DEF Jobs!FindAssociation

LEMMA WriteOfStep ==
  ASSUME CopyInv, NEW r \in Requests, CreateEvent(r)
  PROVE  Jobs!Write(r)
<1>1. /\ pc[r] = "create" /\ created[r] < Len(railsEvents[r])
      /\ association[r].id # 0
      /\ ReferencesAssociation(EventRow(r))
      /\ events' = events \cup {EventRow(r)}
      /\ created' = [created EXCEPT ![r] = @ + 1]
      /\ UNCHANGED <<associations, faulted, pc, acronym, railsEvents, response>>
  BY DEF CreateEvent, Creating, InsertEvent, callVars
<1>2. JobStatus(r) = "running" /\ [q \in Requests |-> JobStatus(q)'] = [q \in Requests |-> JobStatus(q)]
  BY <1>1 DEF JobStatus
<1>3. PICK a \in associations : a.id = association[r].id
  BY <1>1 DEF ReferencesAssociation, EventRow
<1>4. association[r] = a
  BY <1>1, <1>3, IdNamesOneFromInv DEF CopyInv, IdNamesOneAssociation, Requests
<1>5. a.acronym = acronym[r]
  BY <1>1, <1>4 DEF CopyInv, CallOfRequest
<1>6. EventRow(r) = [by |-> r, pos |-> created[r] + 1, associationId |-> a.id,
                     event |-> railsEvents[r][created[r] + 1]]
  BY <1>3 DEF EventRow
<1> QED
  BY <1>1, <1>2, <1>5, <1>6 DEF Jobs!Write

LEMMA LoseOfStep ==
  ASSUME CopyInv, NEW r \in Requests, CreateEventOrphan(r) \/ CreateEventFails(r)
  PROVE  Jobs!Lose(r)
<1>1. /\ pc[r] = "create" /\ created[r] < Len(railsEvents[r])
      /\ association[r].id # 0
      /\ created' = [created EXCEPT ![r] = @ + 1]
      /\ UNCHANGED <<associations, events, pc, acronym, railsEvents, response>>
  BY DEF CreateEventOrphan, CreateEventFails, SkipEvent, Creating, dbVars
<1>2. JobStatus(r) = "running" /\ [q \in Requests |-> JobStatus(q)'] = [q \in Requests |-> JobStatus(q)]
  BY <1>1 DEF JobStatus
<1>3. faulted'[r]
  BY SkipEventFaulted
<1>4. Jobs!MayFault(r)
  BY MayFaultOfStep DEF CreateEventOrphan, CreateEventFails
<1> QED
  BY <1>1, <1>2, <1>3, <1>4 DEF Jobs!Lose

LEMMA DieOfStep ==
  ASSUME CopyInv, Crash
  PROVE  Jobs!Die
<1>1. /\ pc' = [r \in Requests |-> IF r \in RunningRequests THEN "done" ELSE pc[r]]
      /\ response' = [r \in Requests |-> IF r \in RunningRequests THEN "lost" ELSE response[r]]
      /\ UNCHANGED <<acronym, railsEvents, created, events, associations, faulted>>
  BY DEF Crash, Rollback
<1>2. \A r \in Requests : response[r] # "running"
  BY DEF CopyInv, TypeOK
<1>3. \A r \in Requests : JobStatus(r)' = IF JobStatus(r) = "running" THEN "lost" ELSE JobStatus(r)
  BY <1>1, <1>2 DEF JobStatus, RunningRequests
<1> QED
  BY <1>1, <1>3 DEF Jobs!Die

LEMMA JobNext ==
  ASSUME CopyInv, AsRead, [Next]_vars
  PROVE  [Jobs!Next]_(Jobs!vars)
<1>1. /\ pc \in [Requests -> PCs] /\ DOMAIN response = Requests
      /\ acronym \in [Requests -> Acronyms \cup {""}]
  BY DEF CopyInv, TypeOK
<1>2. ASSUME NEW r \in Requests, Post(r)
      PROVE  Jobs!Begin(r)
  <2>1. /\ pc[r] = "idle" /\ pc' = [pc EXCEPT ![r] = "openCopy"]
        /\ \E a \in Acronyms : acronym' = [acronym EXCEPT ![r] = a]
        /\ UNCHANGED <<railsEvents, created, response, events, associations, faulted>>
    BY <1>2 DEF Post, Step, dbVars, callVars
  <2>2. \A q \in Requests \ {r} : pc'[q] = pc[q] /\ response'[q] = response[q]
    BY <1>1, <2>1
  <2>3. JobStatus(r) = "idle" /\ JobStatus(r)' = "running"
    BY <1>1, <2>1 DEF JobStatus
  <2> QED
    BY <2>1, <2>2, <2>3, StatusOfOthers DEF Jobs!Begin
<1>3. ASSUME NEW r \in Requests, PostNothing(r)
      PROVE  Jobs!Refuse(r)
  <2>1. /\ pc[r] = "idle" /\ Respond(r, "400")
        /\ UNCHANGED <<acronym, railsEvents, created, events, associations, faulted>>
    BY <1>3 DEF PostNothing, dbVars, callVars
  <2>2. /\ \A q \in Requests \ {r} : pc'[q] = pc[q] /\ response'[q] = response[q]
        /\ pc'[r] = "done" /\ response'[r] = "400"
    BY <1>1, <2>1 DEF Respond
  <2>3. JobStatus(r) = "idle" /\ JobStatus(r)' = "400"
    BY <2>1, <2>2 DEF JobStatus
  <2> QED
    BY <2>1, <2>2, <2>3, StatusOfOthers DEF Jobs!Refuse, Jobs!Answer
<1>4. ASSUME NEW r \in Requests, RequestStep(r) \/ RequestFault(r)
      PROVE  [Jobs!Next]_(Jobs!vars)
  <2>1. CASE InFirstOrCreate(r) /\ (CallStep(r) \/ CallFault(r))
    BY <2>1, FindAssociationOfStep DEF Jobs!Next
  <2>2. CASE OpenRefused(r) \/ OpenFails(r)
    <3>1. /\ pc[r] \in {"openCopy", "openFind"}
          /\ UNCHANGED <<acronym, railsEvents, created, events, associations, faulted>>
      BY <2>2 DEF OpenRefused, OpenFails, Opening, RetryOrPanic, dbVars
    <3>2. Respond(r, "aborted") \/ UNCHANGED <<pc, response>>
      BY <2>2 DEF OpenRefused, OpenFails, RetryOrPanic
    <3>3. CASE Respond(r, "aborted")
      BY <3>1, <3>3, FailOfStep DEF Jobs!Next
    <3>4. CASE UNCHANGED <<pc, response>>
      BY <3>1, <3>4 DEF Jobs!vars, JobStatus
    <3> QED
      BY <3>2, <3>3, <3>4
  <2>3. CASE Opens(r) \/ Find(r) \/ BuildEvents(r)
    <3>1. /\ UNCHANGED <<acronym, railsEvents, created, response, events, associations, faulted>>
          /\ pc[r] \notin {"idle", "done"}
          /\ \E l \in {"readEvents", "find", "firstOrCreate", "create"} :
               pc' = [pc EXCEPT ![r] = l]
      BY <2>3 DEF Opens, Opening, Find, BuildEvents, Step, dbVars, callVars
    <3>2. /\ \A q \in Requests \ {r} : pc'[q] = pc[q] /\ response'[q] = response[q]
          /\ pc'[r] \notin {"idle", "done"}
      BY <1>1, <3>1
    <3> QED
      BY <3>1, <3>2, StatusKept DEF Jobs!vars
  <2>4. CASE FindMisses(r) \/ FindFails(r) \/ BuildEventsFails(r)
    <3>1. /\ pc[r] \notin {"idle", "create", "done"} /\ Respond(r, "500")
          /\ UNCHANGED <<acronym, railsEvents, created, events, associations>>
          /\ UNCHANGED faulted \/ StatementFails(r)
      BY <2>4 DEF FindMisses, FindFails, BuildEventsFails, dbVars, callVars
    <3> QED
      BY <3>1, FailOfStep DEF Jobs!Next
  <2>5. CASE ReadEvents(r) \/ ReadEventsFails(r)
    BY <2>5, ReadOfStep DEF Jobs!Next
  <2>6. CASE CreateEvent(r)
    BY <2>6, WriteOfStep DEF Jobs!Next
  <2>7. CASE CreateEventOrphan(r) \/ CreateEventFails(r)
    BY <2>7, LoseOfStep DEF Jobs!Next
  <2>8. CASE CreateRefuses(r) \/ CreateReturns(r)
    BY <2>8, SucceedOfStep DEF Jobs!Next
  <2> QED
    BY <1>4, <2>1, <2>2, <2>3, <2>4, <2>5, <2>6, <2>7, <2>8 DEF RequestStep, RequestFault
<1>5. CASE Crash
  BY <1>5, DieOfStep DEF Jobs!Next
<1>6. ASSUME Restart \/ RailsChange \/ AllAnswered \/ UNCHANGED vars
             \/ \E r \in Requests : IdleTimeout(r)
      PROVE  UNCHANGED Jobs!vars
  <2>1. UNCHANGED <<pc, response, acronym, railsEvents, created, events, associations, faulted>>
    BY <1>6 DEF Restart, RailsChange, AllAnswered, IdleTimeout, vars, dbVars, callVars, requestVars
  <2> QED
    BY <2>1 DEF Jobs!vars, JobStatus
<1> QED
  BY <1>2, <1>3, <1>4, <1>5, <1>6 DEF Next, Jobs!Next

\* Every request keeps the promise of CopyJob, whatever connections, retries, lookups and
\* other requests it meets.
THEOREM CopyImplementsJob == Spec => ImplementsCopyJob
<1>1. CopyInv /\ AsRead /\ [Next]_vars => [Jobs!Next]_(Jobs!vars)
  BY JobNext
<1>2. Spec => []CopyInv
  BY CopyInvariant
<1>3. Spec => []AsRead
  BY AsReadInit, AsReadNext, CopyInvariant, PTL DEF Spec
<1> QED
  BY JobInit, <1>1, <1>2, <1>3, PTL DEF Spec, ImplementsCopyJob, Jobs!Spec

-----------------------------------------------------------------------------
(***************************************************************************)
(* RootInv is an invariant of Root for every set of visitors, hosts,       *)
(* regular expressions and copies.  A visitor keeps what he has found      *)
(* because the tables only grow, and what he sees is of one association    *)
(* because CopyInv says so of every event and every row.                   *)
(***************************************************************************)

\* RootInv, as it is about one visitor.
VisitorInv(v) ==
  /\ visit[v] # "shown" => shown[v] = {}
  /\ visit[v] \in {"find", "shown"} =>
       /\ \E a \in Matching(associations, asked[v]) : a.id = found[v]
       /\ \A a \in Matching(before[v].associations, asked[v]) : found[v] <= a.id
  /\ shown[v] # {} =>
       \E a \in Matching(associations, asked[v]) :
         \A e \in shown[v] : e.associationId = a.id /\ acronym[e.by] = a.acronym
  /\ visit[v] = "shown" /\ ~misread[v] =>
       /\ \A a \in Matching(before[v].associations, asked[v]) :
            /\ found[v] <= a.id
            /\ found[v] = a.id => {e \in before[v].events : e.associationId = a.id} \subseteq shown[v]
       /\ \A r \in Requests : ~faulted[r] =>
            LET seen == {e.pos : e \in {f \in shown[v] : f.by = r}}
            IN seen = 1..Cardinality(seen)

LEMMA InvOfVisitors ==
  RootInv <=> CopyInv /\ RootTypeOK /\ \A v \in Visitors : VisitorInv(v)
BY DEF RootInv, SeenWhenShown, FoundFirst, OneAssociation, CopiedIsShown, BeginningOfCopy,
       VisitorInv

LEMMA InvOfVisitorsNext ==
  RootInv' <=> CopyInv' /\ RootTypeOK' /\ \A v \in Visitors : VisitorInv(v)'
BY DEF RootInv, SeenWhenShown, FoundFirst, OneAssociation, CopiedIsShown, BeginningOfCopy,
       VisitorInv

-----------------------------------------------------------------------------
(* What copies do to what visitors have seen. *)

\* A statement of a visit that fails changes nothing of the copies.
LEMMA MisreadCopyInv ==
  ASSUME CopyInv, NEW v \in Visitors, Misread(v)
  PROVE  CopyInv' /\ Grows
<1>1. /\ faults' \in 0..MaxFaults
      /\ UNCHANGED <<dbVars, op, where, association, drawn, phase, faulted, up, rails,
                     requestVars, open>>
  BY InputAssumption DEF Misread, Fault, CopyInv, CallInv, ServiceTypeOK
<1> USE DEF dbVars, requestVars
<1>2. CallInv'
  BY <1>1, CallInvFrame DEF CopyInv, CallInv, ServiceTypeOK
<1>3. TypeOK'
  BY <1>1, <1>2 DEF CopyInv, TypeOK, CallInv
<1>4. CallOfRequest'
  BY <1>1 DEF CopyInv, CallOfRequest
<1>5. RunsInProcess' /\ OnlyFindLeaks'
  BY <1>1 DEF CopyInv, RunsInProcess, OnlyFindLeaks, RunningRequests
<1>6. \A r \in Requests : RowsOf(r)' = RowsOf(r) /\ Copied(r)' = Copied(r)
  BY <1>1, RowsKept
<1>7. WrittenWhileCreating' /\ NoCrossAssociation'
  BY <1>1, <1>6 DEF CopyInv, WrittenWhileCreating, NoCrossAssociation
<1>8. NoHoles' /\ AllOrNothing' /\ ErrorsWriteNothing'
  BY <1>1, <1>6 DEF CopyInv, NoHoles, AllOrNothing, ErrorsWriteNothing
<1>9. Grows
  BY <1>1 DEF Grows
<1> QED
  BY <1>2, <1>3, <1>4, <1>5, <1>7, <1>8, <1>9 DEF CopyInv

LEMMA QuietCopyInv ==
  ASSUME CopyInv, UNCHANGED vars
  PROVE  CopyInv' /\ Grows
BY CopyInvNext, CopyGrows

\* A visitor who waits, or whose visit ends with the process, loses nothing.
LEMMA VisitorWaits ==
  ASSUME RootTypeOK, Grows, NEW v \in Visitors, VisitorInv(v),
         /\ visit'[v] = visit[v] \/ (visit[v] \in {"first", "find"} /\ visit'[v] = "error")
         /\ asked'[v] = asked[v]
         /\ found'[v] = found[v]
         /\ shown'[v] = shown[v]
         /\ before'[v] = before[v]
         /\ misread'[v] = misread[v]
  PROVE  VisitorInv(v)'
<1>1. shown[v] \subseteq events
  BY DEF RootTypeOK
<1>2. \A a \in Matching(associations, asked[v]) : a \in Matching(associations', asked[v])
  BY DEF Matching, MatchesHost, Grows
<1>3. visit'[v] # "shown" => shown'[v] = {}
  BY DEF VisitorInv
<1>4. visit'[v] \in {"find", "shown"} =>
        /\ \E a \in Matching(associations', asked'[v]) : a.id = found'[v]
        /\ \A a \in Matching(before'[v].associations, asked'[v]) : found'[v] <= a.id
  BY <1>2 DEF VisitorInv
<1>5. shown'[v] # {} =>
        \E a \in Matching(associations', asked'[v]) :
          \A e \in shown'[v] : e.associationId = a.id /\ acronym'[e.by] = a.acronym
  BY <1>1, <1>2 DEF VisitorInv, Grows
<1>6. visit'[v] = "shown" /\ ~misread'[v] =>
        \A a \in Matching(before'[v].associations, asked'[v]) :
          /\ found'[v] <= a.id
          /\ found'[v] = a.id => {e \in before'[v].events : e.associationId = a.id} \subseteq shown'[v]
  BY DEF VisitorInv
<1>7. visit'[v] = "shown" /\ ~misread'[v] =>
        \A r \in Requests : ~faulted'[r] =>
          LET seen == {e.pos : e \in {f \in shown'[v] : f.by = r}}
          IN seen = 1..Cardinality(seen)
  BY DEF VisitorInv, Grows
<1> QED
  BY <1>3, <1>4, <1>5, <1>6, <1>7 DEF VisitorInv, Matching, MatchesHost

-----------------------------------------------------------------------------
(* What a visit finds. *)

\* An event is filed under the one row of its acronym.
LEMMA RowOfEvent ==
  ASSUME CopyInv, NEW a \in associations, NEW e \in events, e.associationId = a.id
  PROVE  acronym[e.by] = a.acronym
<1>1. PICK b \in associations : b.id = e.associationId /\ b.acronym = acronym[e.by]
  BY DEF CopyInv, NoCrossAssociation
<1>2. a = b
  BY <1>1 DEF CopyInv, CallInv, UniqueRows, Conflict
<1> QED
  BY <1>1, <1>2

\* The events of one association that a request has written are all it has written or none,
\* and without a failed statement they have no hole.
LEMMA PrefixOfCopy ==
  ASSUME CopyInv, NEW n, NEW r \in Requests, ~faulted[r]
  PROVE  LET rows == {e \in events : e.associationId = n}
             seen == {e.pos : e \in {f \in rows : f.by = r}}
         IN seen = 1..Cardinality(seen)
<1> DEFINE rows == {e \in events : e.associationId = n}
           seen == {e.pos : e \in {f \in rows : f.by = r}}
<1>1. CASE \E e \in RowsOf(r) : e.associationId = n
  <2>1. \A e, f \in RowsOf(r) : e.associationId = f.associationId
    <3> SUFFICES ASSUME NEW e \in RowsOf(r), NEW f \in RowsOf(r)
                 PROVE  e.associationId = f.associationId
      OBVIOUS
    <3>1. PICK a \in associations : a.id = e.associationId /\ a.acronym = acronym[r]
      BY DEF CopyInv, NoCrossAssociation, RowsOf
    <3>2. PICK b \in associations : b.id = f.associationId /\ b.acronym = acronym[r]
      BY DEF CopyInv, NoCrossAssociation, RowsOf
    <3>3. a = b
      BY <3>1, <3>2 DEF CopyInv, CallInv, UniqueRows, Conflict
    <3> QED
      BY <3>1, <3>2, <3>3
  <2>2. seen = Copied(r)
    BY <1>1, <2>1 DEF RowsOf, Copied
  <2>3. Copied(r) = 1..created[r] /\ created[r] \in Nat
    BY DEF CopyInv, NoHoles, TypeOK
  <2>4. Cardinality(1..created[r]) = created[r]
    BY <2>3, FS_Interval
  <2> QED
    BY <2>2, <2>3, <2>4
<1>2. CASE \A e \in RowsOf(r) : e.associationId # n
  <2>1. seen = {}
    BY <1>2 DEF RowsOf
  <2>2. Cardinality(seen) = 0
    BY <2>1, FS_EmptySet
  <2> QED
    BY <2>1, <2>2
<1> QED
  BY <1>1, <1>2

\* The tables as they are when a visit begins are all it has to answer for.
LEMMA VisitInv ==
  ASSUME CopyInv, RootTypeOK, NEW v \in Visitors, VisitorInv(v), Visit(v)
  PROVE  VisitorInv(v)'
<1>1. /\ visit[v] = "none"
      /\ visit'[v] \in {"first", "error"}
      /\ shown'[v] = shown[v]
  BY DEF Visit, RootTypeOK
<1>2. shown[v] = {}
  BY <1>1 DEF VisitorInv
<1> QED
  BY <1>1, <1>2 DEF VisitorInv

LEMMA FirstByHostInv ==
  ASSUME CopyInv, RootTypeOK, NEW v \in Visitors, VisitorInv(v), FirstByHostFinds(v)
  PROVE  VisitorInv(v)' /\ found' \in [Visitors -> Nat]
<1>1. PICK a \in Matching(associations, asked[v]) :
        /\ \A b \in Matching(associations, asked[v]) : a.id <= b.id
        /\ found' = [found EXCEPT ![v] = a.id]
  BY DEF FirstByHostFinds
<1>2. /\ visit[v] = "first"
      /\ visit' = [visit EXCEPT ![v] = "find"]
      /\ UNCHANGED <<vars, asked, shown, before, misread>>
  BY DEF FirstByHostFinds
<1>3. /\ visit'[v] = "find" /\ found'[v] = a.id
      /\ associations' = associations
  BY <1>1, <1>2 DEF RootTypeOK, vars, dbVars
<1>4. a.id \in Nat
  BY DEF CopyInv, CallInv, ServiceTypeOK, Struct, Matching
<1>5. shown[v] = {}
  BY <1>2 DEF VisitorInv
<1>6. before[v].associations \subseteq associations
  BY DEF RootTypeOK
<1>7. \A b \in Matching(before[v].associations, asked[v]) : found'[v] <= b.id
  BY <1>1, <1>3, <1>6 DEF Matching, MatchesHost
<1>8. VisitorInv(v)'
  BY <1>1, <1>2, <1>3, <1>5, <1>7 DEF VisitorInv, Matching, MatchesHost
<1>9. found' \in [Visitors -> Nat]
  BY <1>1, <1>4 DEF RootTypeOK
<1> QED
  BY <1>8, <1>9

\* An answer is a part of the rows found, and all of them if no statement has failed.
LEMMA RespondInv ==
  ASSUME CopyInv, RootTypeOK, NEW v \in Visitors, VisitorInv(v), visit[v] = "find",
         NEW rows \in SUBSET RowsFound(v), Respond200(v, rows),
         UNCHANGED <<dbVars, acronym, faulted, asked, found, before>>,
         misread' \in [Visitors -> BOOLEAN],
         ~misread'[v] => rows = RowsFound(v)
  PROVE  /\ VisitorInv(v)'
         /\ shown' \in [Visitors -> SUBSET events]
         /\ visit' \in [Visitors -> {"none", "first", "find", "shown", "invalid", "error"}]
         /\ \A w \in Visitors \ {v} : visit'[w] = visit[w] /\ shown'[w] = shown[w]
<1>1. rows \subseteq events /\ \A e \in rows : e.associationId = found[v]
  BY DEF RowsFound
<1>2. \/ visit' = [visit EXCEPT ![v] = "invalid"] /\ shown' = shown
      \/ visit' = [visit EXCEPT ![v] = "shown"] /\ shown' = [shown EXCEPT ![v] = rows]
  BY DEF Respond200
<1>3. /\ shown' \in [Visitors -> SUBSET events]
      /\ visit' \in [Visitors -> {"none", "first", "find", "shown", "invalid", "error"}]
      /\ \A w \in Visitors \ {v} : visit'[w] = visit[w] /\ shown'[w] = shown[w]
  BY <1>1, <1>2 DEF RootTypeOK
<1>4. \/ visit'[v] = "invalid" /\ shown'[v] = {}
      \/ visit'[v] = "shown" /\ shown'[v] = rows
  BY <1>2 DEF RootTypeOK, VisitorInv
<1>5. PICK a \in Matching(associations, asked[v]) : a.id = found[v]
  BY DEF VisitorInv
<1>6. a \in associations
  BY DEF Matching
<1>7. \A e \in rows : e.associationId = a.id /\ acronym[e.by] = a.acronym
  BY <1>1, <1>5, <1>6, RowOfEvent
<1>8. \A b \in Matching(before[v].associations, asked[v]) : found[v] <= b.id
  BY DEF VisitorInv
<1>9. before[v].events \subseteq events
  BY DEF RootTypeOK
<1>10. ~misread'[v] =>
         /\ \A b \in Matching(before[v].associations, asked[v]) :
              found[v] = b.id => {e \in before[v].events : e.associationId = b.id} \subseteq rows
         /\ \A r \in Requests : ~faulted[r] =>
              LET seen == {e.pos : e \in {f \in rows : f.by = r}}
              IN seen = 1..Cardinality(seen)
  BY <1>9, PrefixOfCopy DEF RowsFound
<1>11. UNCHANGED <<associations, acronym, faulted>> /\ UNCHANGED <<asked, found, before>>
  BY DEF dbVars
<1>12. /\ Matching(associations, asked[v])' = Matching(associations, asked[v])
       /\ Matching(before[v].associations, asked[v])' = Matching(before[v].associations, asked[v])
  BY <1>11 DEF Matching, MatchesHost
<1>13. ASSUME visit'[v] = "invalid", shown'[v] = {}
       PROVE  VisitorInv(v)'
  BY <1>13 DEF VisitorInv
<1>14. ASSUME visit'[v] = "shown", shown'[v] = rows
       PROVE  VisitorInv(v)'
  <2>1. \A e \in shown'[v] : e.associationId = a.id /\ acronym'[e.by] = a.acronym
    BY <1>7, <1>11, <1>14
  <2>2. ~misread'[v] =>
          \A b \in Matching(before[v].associations, asked[v]) :
            /\ found'[v] <= b.id
            /\ found'[v] = b.id => {e \in before'[v].events : e.associationId = b.id} \subseteq shown'[v]
    BY <1>8, <1>10, <1>11, <1>14
  <2>3. ~misread'[v] =>
          \A r \in Requests : ~faulted'[r] =>
            LET seen == {e.pos : e \in {f \in shown'[v] : f.by = r}}
            IN seen = 1..Cardinality(seen)
    BY <1>10, <1>11, <1>14
  <2> QED
    BY <1>5, <1>8, <1>11, <1>12, <1>14, <2>1, <2>2, <2>3 DEF VisitorInv
<1>15. VisitorInv(v)'
  BY <1>4, <1>13, <1>14
<1> QED
  BY <1>3, <1>15

-----------------------------------------------------------------------------
(* The invariant. *)

LEMMA RootInvInit == RootInit => RootInv
<1> SUFFICES ASSUME RootInit PROVE RootInv
  OBVIOUS
<1>1. CopyInv
  BY CopyInvInit DEF RootInit
<1>2. RootTypeOK
  <2>1. /\ visit = [v \in Visitors |-> "none"]
        /\ asked = [v \in Visitors |-> ""]
        /\ found = [v \in Visitors |-> 0]
        /\ shown = [v \in Visitors |-> {}]
        /\ before = [v \in Visitors |-> [associations |-> {}, events |-> {}]]
        /\ misread = [v \in Visitors |-> FALSE]
    BY DEF RootInit
  <2>2. [associations |-> {}, events |-> {}] \in [associations : SUBSET associations,
                                                events : SUBSET events]
    OBVIOUS
  <2> QED
    BY <2>1, <2>2 DEF RootTypeOK
<1>3. \A v \in Visitors : VisitorInv(v)
  BY DEF RootInit, VisitorInv
<1> QED
  BY <1>1, <1>2, <1>3, InvOfVisitors

\* A copy goes on beside the visitors, or ends with the process, as their visits do.
LEMMA CopyBesideVisits ==
  ASSUME RootInv, Next, EndsWithProcess
  PROVE  RootInv'
<1>1. CopyInv /\ RootTypeOK /\ \A v \in Visitors : VisitorInv(v)
  BY InvOfVisitors
<1>2. CopyInv' /\ Grows
  BY <1>1, CopyInvNext, CopyGrows
<1>3. UNCHANGED <<asked, found, shown, before, misread>>
  BY DEF EndsWithProcess, rootVars
<1>4. /\ visit' \in [Visitors -> {"none", "first", "find", "shown", "invalid", "error"}]
      /\ \A v \in Visitors : \/ visit'[v] = visit[v]
                             \/ visit[v] \in {"first", "find"} /\ visit'[v] = "error"
  <2>1. CASE up /\ ~up'
    <3>1. visit' = [v \in Visitors |-> IF visit[v] \in {"first", "find"} THEN "error" ELSE visit[v]]
      BY <2>1 DEF EndsWithProcess
    <3>2. \A v \in Visitors :
            visit'[v] = IF visit[v] \in {"first", "find"} THEN "error" ELSE visit[v]
      BY <3>1
    <3> QED
      BY <1>1, <3>1, <3>2 DEF RootTypeOK
  <2>2. CASE ~(up /\ ~up')
    BY <1>1, <2>2 DEF EndsWithProcess, rootVars, RootTypeOK
  <2> QED
    BY <2>1, <2>2
<1>5. RootTypeOK'
  BY <1>1, <1>2, <1>3, <1>4 DEF RootTypeOK, Grows
<1>6. \A v \in Visitors : VisitorInv(v)'
  BY <1>1, <1>2, <1>3, <1>4, VisitorWaits
<1> QED
  BY <1>2, <1>5, <1>6, InvOfVisitorsNext

LEMMA VisitorStepInv ==
  ASSUME RootInv, NEW v \in Visitors, Visit(v) \/ VisitStep(v)
  PROVE  RootInv'
<1>1. CopyInv /\ RootTypeOK /\ \A w \in Visitors : VisitorInv(w)
  BY InvOfVisitors
<1>2. CopyInv' /\ Grows /\ UNCHANGED <<dbVars, acronym, faulted>>
  <2>1. CASE UNCHANGED vars
    BY <1>1, <2>1, QuietCopyInv DEF vars, callVars, requestVars
  <2>2. CASE Misread(v)
    BY <1>1, <2>2, MisreadCopyInv DEF Misread, requestVars
  <2> QED
    BY <2>1, <2>2 DEF Visit, VisitStep, FirstByHostFinds, FirstByHostMisses, FirstByHostFails,
                      FindEvents, FindEventsFails
<1>3. UNCHANGED <<associations, events>>
  BY <1>2 DEF dbVars
<1> DEFINE Rest == \A w \in Visitors \ {v} :
                     /\ visit'[w] = visit[w] /\ asked'[w] = asked[w] /\ found'[w] = found[w]
                     /\ shown'[w] = shown[w] /\ before'[w] = before[w] /\ misread'[w] = misread[w]
<1>4. RootTypeOK' /\ VisitorInv(v)' /\ Rest
  <2>1. CASE Visit(v)
    <3>1. \A h \in Hosts : h \in Texts
      BY RootAssumption
    <3>2. RootTypeOK' /\ Rest
      BY <1>1, <1>3, <2>1, <3>1 DEF Visit, RootTypeOK
    <3> QED
      BY <1>1, <2>1, <3>2, VisitInv
  <2>2. CASE FirstByHostFinds(v)
    <3>1. VisitorInv(v)' /\ found' \in [Visitors -> Nat]
      BY <1>1, <2>2, FirstByHostInv
    <3>2. RootTypeOK' /\ Rest
      BY <1>1, <1>3, <2>2, <3>1 DEF FirstByHostFinds, RootTypeOK
    <3> QED
      BY <3>1, <3>2
  <2>3. CASE FirstByHostMisses(v) \/ FirstByHostFails(v)
    <3>1. /\ visit[v] = "first" /\ visit' = [visit EXCEPT ![v] = "error"]
          /\ UNCHANGED <<asked, found, shown, before>>
          /\ misread' \in [Visitors -> BOOLEAN]
          /\ \A w \in Visitors \ {v} : misread'[w] = misread[w]
      BY <1>1, <2>3 DEF FirstByHostMisses, FirstByHostFails, Misread, RootTypeOK
    <3>2. RootTypeOK' /\ Rest
      BY <1>1, <1>3, <3>1 DEF RootTypeOK
    <3>3. visit'[v] = "error" /\ shown'[v] = {}
      BY <1>1, <3>1 DEF RootTypeOK, VisitorInv
    <3>4. VisitorInv(v)'
      BY <3>3 DEF VisitorInv
    <3> QED
      BY <3>2, <3>4
  <2>4. CASE FindEvents(v) \/ FindEventsFails(v)
    <3>1. PICK rows \in SUBSET RowsFound(v) :
            /\ Respond200(v, rows)
            /\ ~misread'[v] => rows = RowsFound(v)
            /\ misread' \in [Visitors -> BOOLEAN]
            /\ \A w \in Visitors \ {v} : misread'[w] = misread[w]
      BY <1>1, <2>4 DEF FindEvents, FindEventsFails, Misread, RootTypeOK
    <3>2. visit[v] = "find" /\ UNCHANGED <<asked, found, before>>
      BY <2>4 DEF FindEvents, FindEventsFails
    <3>3. /\ VisitorInv(v)'
          /\ shown' \in [Visitors -> SUBSET events]
          /\ visit' \in [Visitors -> {"none", "first", "find", "shown", "invalid", "error"}]
          /\ \A w \in Visitors \ {v} : visit'[w] = visit[w] /\ shown'[w] = shown[w]
      BY <1>1, <1>2, <3>1, <3>2, RespondInv
    <3>4. RootTypeOK' /\ Rest
      BY <1>1, <1>3, <3>1, <3>2, <3>3 DEF RootTypeOK
    <3> QED
      BY <3>3, <3>4
  <2> QED
    BY <2>1, <2>2, <2>3, <2>4 DEF VisitStep
<1>5. \A w \in Visitors : VisitorInv(w)'
  BY <1>1, <1>2, <1>4, VisitorWaits
<1> QED
  BY <1>2, <1>4, <1>5, InvOfVisitorsNext

LEMMA RootInvNext == RootInv /\ [RootNext]_allVars => RootInv'
<1> SUFFICES ASSUME RootInv, [RootNext]_allVars PROVE RootInv'
  OBVIOUS
<1>1. CASE Next /\ EndsWithProcess
  BY <1>1, CopyBesideVisits
<1>2. ASSUME NEW v \in Visitors, Visit(v) \/ VisitStep(v)
      PROVE  RootInv'
  BY <1>2, VisitorStepInv
<1>3. CASE UNCHANGED allVars
  <2>1. CopyInv /\ RootTypeOK /\ \A v \in Visitors : VisitorInv(v)
    BY InvOfVisitors
  <2>2. UNCHANGED vars /\ UNCHANGED rootVars
    BY <1>3 DEF allVars
  <2>3. CopyInv' /\ Grows
    BY <2>1, <2>2, QuietCopyInv
  <2>4. RootTypeOK'
    BY <2>1, <2>2, <2>3 DEF RootTypeOK, rootVars, Grows
  <2>5. \A v \in Visitors : VisitorInv(v)'
    BY <2>1, <2>2, <2>3, VisitorWaits DEF rootVars
  <2> QED
    BY <2>3, <2>4, <2>5, InvOfVisitorsNext
<1> QED
  BY <1>1, <1>2, <1>3 DEF RootNext

\* RootInv holds of every state that visits beside copies, failures and crashes reach.
THEOREM RootInvariant == RootSpec => []RootInv
<1> QED
  BY RootInvInit, RootInvNext, PTL DEF RootSpec

\* A visitor never sees events of two associations, or of one that is not of his host.
THEOREM RootOneAssociation == RootSpec => []OneAssociation
<1>1. RootInv => OneAssociation
  BY DEF RootInv
<1> QED
  BY <1>1, RootInvariant, PTL

\* A visitor sees all that had been copied for his host when he came.
THEOREM RootCopiedIsShown == RootSpec => []CopiedIsShown
<1>1. RootInv => CopiedIsShown
  BY DEF RootInv
<1> QED
  BY <1>1, RootInvariant, PTL

\* A visitor who comes while a copy runs sees its first events, and no later one without them.
THEOREM RootBeginningOfCopy == RootSpec => []BeginningOfCopy
<1>1. RootInv => BeginningOfCopy
  BY DEF RootInv
<1> QED
  BY <1>1, RootInvariant, PTL

=============================================================================

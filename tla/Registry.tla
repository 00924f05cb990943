------------------------------ MODULE Registry ------------------------------
(***************************************************************************)
(* What AssociationService promises: a register of associations to which   *)
(* rows are only ever added, and calls that each take effect in one step   *)
(* between their start and their return.  A lookup returns the first row   *)
(* that answers it.  A call that creates returns a row it has added, or no *)
(* row when the register holds one that has a column of its own.  Of a     *)
(* call the database has failed nothing is promised, but that the register *)
(* stays as it is or gains the row the call was for.                       *)
(***************************************************************************)
EXTENDS Integers

CONSTANTS
  Clients,
  Lookups,           \* the methods that look for a row
  Creations,         \* the methods that create one, always or when they find none
  Answers(_, _, _),  \* Answers(m, w, x): x is a row method m looks for, with conditions w
  SharesColumn(_, _),\* two rows that cannot both be registered, whatever their ids
  Unsaved            \* what a call that has no row returns

VARIABLES
  rows,              \* the register
  call               \* call[c]: status, method, conditions, the row to create, the result

vars == <<rows, call>>

Answering(c) == {x \in rows : Answers(call[c].method, call[c].where, x)}

Init ==
  /\ \A x, y \in rows : SharesColumn(x, y) => x = y
  /\ \A c \in Clients : call[c].status = "none"

Start(c) ==
  /\ call[c].status # "pending"
  /\ call'[c].status = "pending"
  /\ call' = [call EXCEPT ![c] = call'[c]]
  /\ UNCHANGED rows

Return(c, x) ==
  /\ call[c].status = "pending"
  /\ call' = [call EXCEPT ![c] = [status |-> "done", method |-> @.method, where |-> @.where,
                                  new |-> Unsaved, result |-> x]]

ReturnFirst(c) ==
  \E x \in Answering(c) :
    /\ call[c].method \in Lookups
    /\ \A y \in Answering(c) : x.id <= y.id
    /\ Return(c, x)
    /\ UNCHANGED rows

ReturnNone(c) ==
  /\ call[c].method \in Lookups \ Creations
  /\ Answering(c) = {}
  /\ Return(c, Unsaved)
  /\ UNCHANGED rows

Adds(c, x) ==
  /\ x = [call[c].new EXCEPT !.id = x.id]
  /\ x.id # 0
  /\ \A y \in rows : x.id # y.id /\ ~SharesColumn(x, y)
  /\ rows' = rows \cup {x}

ReturnNew(c) ==
  /\ call[c].method \in Creations
  /\ \E x \in rows' : Adds(c, x) /\ Return(c, x)

ReturnConflict(c) ==
  /\ call[c].method \in Creations
  /\ \E y \in rows : SharesColumn(call[c].new, y)
  /\ Return(c, call[c].new)
  /\ UNCHANGED rows

Fail(c) ==
  /\ call[c].status = "pending"
  /\ call' = [call EXCEPT ![c].status = "failed"]
  /\ UNCHANGED rows

FailedAdds(c) ==
  /\ call[c].status = "failed"
  /\ call[c].method \in Creations
  /\ \E x \in rows' : Adds(c, x)
  /\ UNCHANGED call

Next ==
  \E c \in Clients :
    \/ Start(c)
    \/ ReturnFirst(c)
    \/ ReturnNone(c)
    \/ ReturnNew(c)
    \/ ReturnConflict(c)
    \/ Fail(c)
    \/ FailedAdds(c)

Spec == Init /\ [][Next]_vars
=============================================================================

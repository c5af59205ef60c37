-------------------------- MODULE DepartmentMove --------------------------
(***************************************************************************)
(* reassign_department_data: all documents of one department go to         *)
(* another.  Their points are hidden one by one, one SQL transaction       *)
(* rewrites the rows, and then every point gets its new departments and    *)
(* the visibility that its row had when the move began.  Any call to       *)
(* Qdrant may fail, with or without effect, and a move may die anywhere.   *)
(* Moves overlap with each other and with withdrawals of documents.        *)
(*                                                                         *)
(* Left out: the owning department (it is one of those the document is     *)
(* shared with), jobs and members of the department, which the same        *)
(* transaction rewrites, and cached answers (module Answers).              *)
(***************************************************************************)
EXTENDS Naturals

CONSTANTS
  Files,         \* documents
  Offices,       \* departments
  Movers,        \* slots for moves in flight
  MaxMoves,      \* bound: moves begun
  MaxMoveFaults  \* bound: failed calls, failed transactions and crashes

ASSUME MoveAssumptions == MaxMoves \in Nat /\ MaxMoveFaults \in Nat

VARIABLES
  fileRow,     \* TaiLieu.Servable and the rows of PhongBanChiaSe
  filePoint,   \* the payload: servable and phong_ban_quyen
  office,      \* Departments.Status
  mover,       \* the moves in flight
  withdrawal,  \* documents whose points were hidden and whose row is to follow
  moves,       \* moves begun
  moveFaults,  \* faults so far
  stale        \* history: documents that two moves had in hand at once, that were
               \* withdrawn while a move had them, or that were moved again although an
               \* unfinished move had left their point with the old departments

moveVars == <<fileRow, filePoint, office, mover, withdrawal, moves, moveFaults, stale>>

-----------------------------------------------------------------------------
(* Data *)

Filing == [offices : SUBSET Offices, servable : BOOLEAN]

\* todo: documents that the present step has not reached; read: their rows, as read at
\* the start and, for the departments, as written by the transaction.
Move == [step : {"hide", "undo", "show"}, from : Offices, to : Offices,
         todo : SUBSET Files, hidden : SUBSET Files, failed : SUBSET Files,
         read : [Files -> Filing]]
NoMove == [step |-> "idle"]

MoveInit ==
  /\ fileRow \in [Files -> [offices : {{o} : o \in Offices}, servable : {TRUE}]]
  /\ filePoint = fileRow
  /\ office = [o \in Offices |-> "active"]
  /\ mover = [m \in Movers |-> NoMove]
  /\ withdrawal = {}
  /\ moves = 0
  /\ moveFaults = 0
  /\ stale = {}

Under(step, m) == mover[m].step = step

InMove(f, m) == mover[m] # NoMove /\ f \in mover[m].todo \cup mover[m].hidden

\* An earlier move wrote the row but not the point.
LeftBehind(f) == filePoint[f].offices # fileRow[f].offices

MoveFault == moveFaults < MaxMoveFaults /\ moveFaults' = moveFaults + 1

\* A request to Qdrant that fails may have been carried out.
PointFails(f, payload) ==
  /\ MoveFault
  /\ filePoint' \in {filePoint, [filePoint EXCEPT ![f] = payload]}

Hidden(f) == [filePoint[f] EXCEPT !.servable = FALSE]

-----------------------------------------------------------------------------
(* reassign_department_data *)

BeginMove(m, from, to) ==
  LET todo == {f \in Files : from \in fileRow[f].offices} IN
  /\ mover[m] = NoMove
  /\ moves < MaxMoves
  /\ from # to
  /\ office[to] = "active" /\ office[from] # "archived"
  /\ mover' = [mover EXCEPT ![m] =
       [step |-> "hide", from |-> from, to |-> to, todo |-> todo, hidden |-> {},
        failed |-> {}, read |-> fileRow]]
  /\ moves' = moves + 1
  /\ stale' = stale \cup {f \in todo : (\E n \in Movers : InMove(f, n)) \/ LeftBehind(f)}
  /\ UNCHANGED <<fileRow, filePoint, office, withdrawal, moveFaults>>

\* Mutant of HidePoint: the point is only noted as hidden.
HidePointLater(m, f) ==
  /\ Under("hide", m) /\ f \in mover[m].todo
  /\ mover' = [mover EXCEPT ![m].todo = @ \ {f}, ![m].hidden = @ \cup {f}]
  /\ UNCHANGED <<fileRow, filePoint, office, withdrawal, moves, moveFaults, stale>>

HidePoint(m, f) ==
  /\ Under("hide", m) /\ f \in mover[m].todo
  /\ filePoint' = [filePoint EXCEPT ![f] = Hidden(f)]
  /\ mover' = [mover EXCEPT ![m].todo = @ \ {f}, ![m].hidden = @ \cup {f}]
  /\ UNCHANGED <<fileRow, office, withdrawal, moves, moveFaults, stale>>

\* One failure gives the move up; the document it concerns is not among those restored.
HideFails(m, f) ==
  /\ Under("hide", m) /\ f \in mover[m].todo
  /\ PointFails(f, Hidden(f))
  /\ mover' = [mover EXCEPT ![m].step = "undo", ![m].todo = mover[m].hidden]
  /\ UNCHANGED <<fileRow, office, withdrawal, moves, stale>>

Refiled(f, m) == (fileRow[f].offices \ {mover[m].from}) \cup {mover[m].to}

CommitMove(m) ==
  LET x == mover[m] IN
  /\ Under("hide", m) /\ x.todo = {}
  /\ fileRow' = [f \in Files |-> IF f \in x.hidden
                   THEN [fileRow[f] EXCEPT !.offices = Refiled(f, m)] ELSE fileRow[f]]
  /\ mover' = [mover EXCEPT ![m].step = "show", ![m].todo = x.hidden,
       ![m].read = [f \in Files |-> IF f \in x.hidden
                      THEN [x.read[f] EXCEPT !.offices = Refiled(f, m)] ELSE x.read[f]]]
  /\ UNCHANGED <<filePoint, office, withdrawal, moves, moveFaults, stale>>

CommitFails(m) ==
  /\ Under("hide", m) /\ mover[m].todo = {}
  /\ MoveFault
  /\ mover' = [mover EXCEPT ![m].step = "undo", ![m].todo = mover[m].hidden]
  /\ UNCHANGED <<fileRow, filePoint, office, withdrawal, moves, stale>>

\* Best effort: the visibility that was read is written back.
Unhidden(f, m) == [filePoint[f] EXCEPT !.servable = mover[m].read[f].servable]

UndoHide(m, f) ==
  /\ Under("undo", m) /\ f \in mover[m].todo
  /\ \/ filePoint' = [filePoint EXCEPT ![f] = Unhidden(f, m)] /\ UNCHANGED moveFaults
     \/ PointFails(f, Unhidden(f, m))
  /\ mover' = [mover EXCEPT ![m].todo = @ \ {f}]
  /\ UNCHANGED <<fileRow, office, withdrawal, moves, stale>>

\* The payload after the transaction: the new departments, the visibility read at first.
Shown(f, m) == mover[m].read[f]

\* Mutant of ShowPoint: the point stays hidden.
ShowPointHidden(m, f) ==
  /\ Under("show", m) /\ f \in mover[m].todo
  /\ filePoint' = [filePoint EXCEPT ![f] = [Shown(f, m) EXCEPT !.servable = FALSE]]
  /\ mover' = [mover EXCEPT ![m].todo = @ \ {f}]
  /\ UNCHANGED <<fileRow, office, withdrawal, moves, moveFaults, stale>>

ShowPoint(m, f) ==
  /\ Under("show", m) /\ f \in mover[m].todo
  /\ filePoint' = [filePoint EXCEPT ![f] = Shown(f, m)]
  /\ mover' = [mover EXCEPT ![m].todo = @ \ {f}]
  /\ UNCHANGED <<fileRow, office, withdrawal, moves, moveFaults, stale>>

ShowFails(m, f) ==
  /\ Under("show", m) /\ f \in mover[m].todo
  /\ PointFails(f, Shown(f, m))
  /\ mover' = [mover EXCEPT ![m].todo = @ \ {f}, ![m].failed = @ \cup {f}]
  /\ UNCHANGED <<fileRow, office, withdrawal, moves, stale>>

\* The source is switched off if every point was written.
EndMove(m) ==
  /\ mover[m] # NoMove /\ mover[m].step # "hide" /\ mover[m].todo = {}
  /\ office' = IF Under("show", m) /\ mover[m].failed = {}
                 THEN [office EXCEPT ![mover[m].from] = "disabled"] ELSE office
  /\ mover' = [mover EXCEPT ![m] = NoMove]
  /\ UNCHANGED <<fileRow, filePoint, withdrawal, moves, moveFaults, stale>>

CrashMove(m) ==
  /\ mover[m] # NoMove
  /\ MoveFault
  /\ mover' = [mover EXCEPT ![m] = NoMove]
  /\ UNCHANGED <<fileRow, filePoint, office, withdrawal, moves, stale>>

-----------------------------------------------------------------------------
(* Others *)

\* archive_document and reject_document hide the point first, then the row.
WithdrawPoint(f) ==
  /\ fileRow[f].servable /\ f \notin withdrawal
  /\ filePoint' = [filePoint EXCEPT ![f] = Hidden(f)]
  /\ withdrawal' = withdrawal \cup {f}
  /\ UNCHANGED <<fileRow, office, mover, moves, moveFaults, stale>>

WithdrawRow(f) ==
  /\ f \in withdrawal
  /\ fileRow' = [fileRow EXCEPT ![f].servable = FALSE]
  /\ withdrawal' = withdrawal \ {f}
  /\ stale' = IF filePoint[f].servable \/ \E m \in Movers : InMove(f, m)
                THEN stale \cup {f} ELSE stale
  /\ UNCHANGED <<filePoint, office, mover, moves, moveFaults>>

\* set_department_status
SwitchOffice(o, status) ==
  /\ office[o] # status
  /\ office' = [office EXCEPT ![o] = status]
  /\ UNCHANGED <<fileRow, filePoint, mover, withdrawal, moves, moveFaults, stale>>

-----------------------------------------------------------------------------
MoveNext ==
  \/ \E m \in Movers, from, to \in Offices : BeginMove(m, from, to)
  \/ \E m \in Movers, f \in Files :
       \/ HidePoint(m, f) \/ HideFails(m, f) \/ UndoHide(m, f)
       \/ ShowPoint(m, f) \/ ShowFails(m, f)
  \/ \E m \in Movers : CommitMove(m) \/ CommitFails(m) \/ EndMove(m) \/ CrashMove(m)
  \/ \E f \in Files : WithdrawPoint(f) \/ WithdrawRow(f)
  \/ \E o \in Offices, status \in {"active", "disabled", "archived"} : SwitchOffice(o, status)

MoveSpec == MoveInit /\ [][MoveNext]_moveVars

-----------------------------------------------------------------------------
(* Properties *)

\* Types of the variables.
MoveTypeOK ==
  /\ fileRow \in [Files -> Filing] /\ filePoint \in [Files -> Filing]
  /\ office \in [Offices -> {"active", "disabled", "archived"}]
  /\ mover \in [Movers -> Move \cup {NoMove}]
  /\ withdrawal \subseteq Files /\ stale \subseteq Files
  /\ moves \in 0..MaxMoves /\ moveFaults \in 0..MaxMoveFaults

\* A point that can be retrieved agrees with its row: the members of the old department
\* lose it before those of the new one get it, and no move shows a document that had
\* been withdrawn, whatever fails in between, unless two moves had the document in hand
\* at once, it was withdrawn under way, or a move was begun on top of an unfinished one.
ShownAsFiled ==
  \A f \in Files : filePoint[f].servable => filePoint[f] = fileRow[f] \/ f \in stale

\* Without a fault a move leaves nothing hidden, and row and point agree.
QuietMovesAgree ==
  (moveFaults = 0 /\ withdrawal = {} /\ \A m \in Movers : mover[m] = NoMove)
     => \A f \in Files : filePoint[f] = fileRow[f] \/ f \in stale
=============================================================================

------------------------ MODULE ActionRequestsProofs ------------------------
(***************************************************************************)
(* Theorems about what the requests of ScheduledActions achieve: with any  *)
(* number of handlers, faults and crashes, of the deletions of an action   *)
(* one succeeds; with one handler at a time, an answer of success is true  *)
(* of pg-boss; and where in addition no call fails, rows, schedules and    *)
(* workers agree between requests.                                         *)
(***************************************************************************)
EXTENDS ScheduledActionsProofs

----------------------------------------------------------------------------
\* How a handler moves: it keeps what it was asked, the others are left alone.

Keeps(r) ==
    /\ \A t \in Requests \ {r} : req'[t] = req[t]
    /\ req'[r].op = req[r].op /\ req'[r].id = req[r].id /\ req'[r].new = req[r].new

Moves(r, pc, result) ==
    /\ Keeps(r) /\ req'[r].old = req[r].old
    /\ req'[r].pc = pc /\ req'[r].result = result

AfterFail(r) == IF req[r].op = "import" THEN "audit" ELSE "answer"

LEMMA GotoMoves ==
    ASSUME ReqOK, NEW r \in Requests, NEW pc, Goto(r, pc)
    PROVE  Moves(r, pc, req[r].result)
BY DEF ReqOK, Request, Goto, Moves, Keeps

LEMMA FailMoves ==
    ASSUME ReqOK, NEW r \in Requests, Fail(r)
    PROVE  Moves(r, AfterFail(r), "error")
<1>1. req' = [req EXCEPT ![r].pc = AfterFail(r), ![r].result = "error"]
  BY DEF Fail, AfterFail
<1> QED  BY <1>1 DEF ReqOK, Request, Moves, Keeps

\* The ends of the catch blocks, and of cancelJob.
LEMMA FailuresMove ==
    ASSUME ReqOK, NEW r \in Requests
    PROVE  /\ ScheduleFailed(r) =>
                IF req[r].op \in {"create", "import"}
                  THEN Moves(r, "cleanup", req[r].result)
                  ELSE Moves(r, "answer", "error")
           /\ CancelFailed(r) =>
                IF req[r].op = "update" /\ ~req[r].new.enabled
                  THEN Moves(r, "audit", req[r].result)
                  ELSE Moves(r, AfterFail(r), "error")
           /\ AfterCancel(r) =>
                Moves(r, IF req[r].op = "delete" THEN "remove"
                         ELSE IF req[r].new.enabled THEN "checkSchedule" ELSE "audit",
                      req[r].result)
<1>1. ScheduleFailed(r) => IF req[r].op \in {"create", "import"}
                             THEN Moves(r, "cleanup", req[r].result)
                             ELSE Moves(r, "answer", "error")
  <2>1. CASE req[r].op \in {"create", "import"}
    BY <2>1, GotoMoves DEF ScheduleFailed
  <2>2. CASE req[r].op \notin {"create", "import"}
    BY <2>2, FailMoves DEF ScheduleFailed, AfterFail
  <2> QED  BY <2>1, <2>2
<1>2. CancelFailed(r) => IF req[r].op = "update" /\ ~req[r].new.enabled
                           THEN Moves(r, "audit", req[r].result)
                           ELSE Moves(r, AfterFail(r), "error")
  BY GotoMoves, FailMoves DEF CancelFailed
<1>3. AfterCancel(r) =>
        Moves(r, IF req[r].op = "delete" THEN "remove"
                 ELSE IF req[r].new.enabled THEN "checkSchedule" ELSE "audit",
              req[r].result)
  BY GotoMoves DEF AfterCancel
<1> QED  BY <1>1, <1>2, <1>3

\* The reading of the row.
LEMMA ReadMoves ==
    ASSUME ReqOK, NEW r \in Requests, Read(r)
    PROVE  \/ /\ row[req[r].id] = NoRow
              /\ Moves(r, "answer", "not_found")
           \/ /\ row[req[r].id] # NoRow
              /\ Keeps(r) /\ req'[r].old = row[req[r].id]
              /\ req'[r].result = req[r].result
              /\ req'[r].pc = IF req[r].op = "update" THEN "write"
                              ELSE IF IsScheduled(row[req[r].id]) /\ row[req[r].id].jobId
                                     THEN "checkCancel" ELSE "remove"
           \/ Fault /\ Moves(r, AfterFail(r), "error")
<1> DEFINE old == row[req[r].id]
           next == IF req[r].op = "update" THEN "write"
                   ELSE IF IsScheduled(old) /\ old.jobId THEN "checkCancel"
                   ELSE "remove"
<1>1. \/ old = NoRow /\ req' = [req EXCEPT ![r].pc = "answer", ![r].result = "not_found"]
      \/ old # NoRow /\ req' = [req EXCEPT ![r].old = old, ![r].pc = next]
      \/ Fault /\ Fail(r)
  BY DEF Read
<1>2. ASSUME req' = [req EXCEPT ![r].pc = "answer", ![r].result = "not_found"]
      PROVE  Moves(r, "answer", "not_found")
  BY <1>2 DEF ReqOK, Request, Moves, Keeps
<1>3. ASSUME req' = [req EXCEPT ![r].old = old, ![r].pc = next]
      PROVE  Keeps(r) /\ req'[r].old = old /\ req'[r].result = req[r].result
             /\ req'[r].pc = next
  <2> HIDE DEF old, next
  <2> QED  BY <1>3 DEF ReqOK, Request, Keeps
<1> QED  BY <1>1, <1>2, <1>3, FailMoves

\* The audit log, when the process goes on.
LEMMA AuditMoves ==
    ASSUME ReqOK, NEW r \in Requests, Audit(r)
    PROVE  \/ /\ Moves(r, "answer", IF req[r].result = "none" THEN "ok" ELSE req[r].result)
              /\ UNCHANGED <<jobs, process>>
           \/ Fault /\ Moves(r, "answer", "error") /\ UNCHANGED <<jobs, process>>
           \/ Fault /\ ProcessEnds
<1> DEFINE result == IF req[r].result = "none" THEN "ok" ELSE req[r].result
<1>1. ASSUME req' = [req EXCEPT ![r].pc = "answer", ![r].result = result]
      PROVE  Moves(r, "answer", result)
  <2> HIDE DEF result
  <2> QED  BY <1>1 DEF ReqOK, Request, Moves, Keeps
<1>2. req[r].op # "import" /\ Fail(r) => Moves(r, "answer", "error")
  BY FailMoves DEF AfterFail
<1> QED  BY <1>1, <1>2 DEF Audit

LEMMA AnswerMoves ==
    ASSUME ReqOK, NEW r \in Requests, Answer(r)
    PROVE  (\A t \in Requests \ {r} : req'[t] = req[t]) /\ req'[r] = IdleRequest
BY DEF ReqOK, Answer
----------------------------------------------------------------------------
\* OneDeletionSucceeds, however handlers interleave, fail and die.  It needs that
\* a deletion which got past its reading of the row finds it gone for good once it
\* is gone: nobody is about to insert it.

DeletePcs == {"read", "checkCancel", "unschedule", "offWork", "remove", "audit", "answer"}

\* The deletion has removed the row.
Removed(r) ==
    req[r].op = "delete" /\ (At(r, "audit") \/ (At(r, "answer") /\ req[r].result = "ok"))

\* It has found the row.
FoundRow(r) ==
    \/ req[r].op = "delete" /\ req[r].pc \in {"checkCancel", "unschedule", "offWork", "remove"}
    \/ Removed(r)

RowsAreUsed == \A a \in Actions : row[a] # NoRow => a \in used
DeletionsCourse == \A r \in Requests : req[r].op = "delete" => req[r].pc \in DeletePcs
InsertionsFresh ==
    \A r \in Requests : At(r, "insert") =>
        /\ row[req[r].id] = NoRow /\ req[r].id \in used
        /\ \A t \in Requests \ {r} :
             req[t].id = req[r].id => ~At(t, "insert") /\ ~FoundRow(t)
FoundWereUsed == \A r \in Requests : FoundRow(r) => req[r].id \in used
RemovedRowsGone == \A r \in Requests : Removed(r) => row[req[r].id] = NoRow
RemovedOnce ==
    \A r, t \in Requests : Removed(r) /\ Removed(t) /\ req[r].id = req[t].id => r = t

DeleteInv ==
    /\ RowsAreUsed /\ DeletionsCourse /\ InsertionsFresh /\ FoundWereUsed
    /\ RemovedRowsGone /\ RemovedOnce

\* A step of handler r that inserts no row and gets no further with a deletion.
LEMMA QuietDelete ==
    ASSUME TypeOK, DeleteInv, NEW r \in Requests,
           \A t \in Requests \ {r} : req'[t] = req[t],
           UNCHANGED used, \A a \in Actions : row[a] = NoRow => row'[a] = NoRow,
           req'[r].pc # "insert",
           req'[r].op = "delete" => req'[r].pc \in DeletePcs,
           Removed(r)' => Removed(r), FoundRow(r)' => FoundRow(r) /\ req'[r].id = req[r].id
    PROVE  DeleteInv'
<1>1. RowsAreUsed' /\ DeletionsCourse' /\ FoundWereUsed'
  BY DEF DeleteInv, RowsAreUsed, DeletionsCourse, FoundWereUsed, FoundRow, Removed, At
<1>2. \A t \in Requests : req'[t].id \in Actions \/ req'[t] # req[t]
  BY DEF TypeOK, Request
<1>3. \A t \in Requests : /\ FoundRow(t)' => FoundRow(t) /\ req'[t].id = req[t].id
                          /\ Removed(t)' => Removed(t) /\ req'[t].id = req[t].id
                          /\ At(t, "insert")' => At(t, "insert") /\ req'[t].id = req[t].id
  BY DEF FoundRow, Removed, At
<1>4. \A t \in Requests : req[t].id \in Actions
  BY DEF TypeOK, Request
<1>5. InsertionsFresh'
  <2> SUFFICES ASSUME NEW q \in Requests, At(q, "insert")'
               PROVE  /\ row'[req'[q].id] = NoRow /\ req'[q].id \in used'
                      /\ \A t \in Requests \ {q} : req'[t].id = req'[q].id =>
                           ~At(t, "insert")' /\ ~FoundRow(t)'
    BY DEF InsertionsFresh
  <2>1. At(q, "insert") /\ req'[q].id = req[q].id
    BY <1>3
  <2> QED  BY <1>3, <1>4, <2>1 DEF DeleteInv, InsertionsFresh
<1>6. RemovedRowsGone' /\ RemovedOnce'
  BY <1>3, <1>4 DEF DeleteInv, RemovedRowsGone, RemovedOnce
<1> QED  BY <1>1, <1>5, <1>6 DEF DeleteInv

\* No step but an insertion fills a row.
LEMMA RowsStay ==
    ASSUME TypeOK, NEW r \in Requests,
           Cleanup(r) \/ Write(r) \/ Remove(r) \/ SaveJobId(r), NEW a \in Actions, row[a] = NoRow
    PROVE  row'[a] = NoRow
<1>1. SUFFICES ASSUME row'[a] # NoRow PROVE FALSE
  OBVIOUS
<1>2. [Next]_vars
  BY DEF Next, HandlerStep
<1>3. row' # row
  BY <1>1
<1>4. row \in [Actions -> Row \cup {NoRow}] /\ req[r].id \in Actions
  BY TypeParts, RowLemma DEF RowsOK
<1>5. CASE Cleanup(r) \/ Remove(r)
  BY <1>1, <1>4, <1>5 DEF Cleanup, Remove
<1>6. CASE Write(r)
  <2>1. \/ row' = row
        \/ row[req[r].id] # NoRow /\ row' = [row EXCEPT ![req[r].id] = req[r].new]
        \/ row' = [row EXCEPT ![req[r].id] = IF @ = NoRow THEN @ ELSE req[r].new]
    BY <1>6 DEF Write
  <2> QED  BY <1>1, <1>4, <2>1
<1>7. CASE SaveJobId(r)
  <2> DEFINE named == [row[req[r].id] EXCEPT !.jobId = TRUE]
  <2>1. \/ row' = row
        \/ row[req[r].id] # NoRow /\ row' = [row EXCEPT ![req[r].id] = named]
        \/ row' = [row EXCEPT ![req[r].id] = IF row[req[r].id] = NoRow
                                               THEN row[req[r].id] ELSE named]
    BY <1>7 DEF SaveJobId
  <2> HIDE DEF named
  <2> QED  BY <1>1, <1>4, <2>1
<1> QED  BY <1>5, <1>6, <1>7

LEMMA NewRequestDelete ==
    ASSUME TypeOK, DeleteInv, NEW r \in Requests, NewRequest(r)
    PROVE  DeleteInv'
<1>0. ReqOK
  BY TypeParts
<1>1. ASSUME NEW op \in {"import", "update", "delete"}, NEW a \in Actions,
             NEW pc \in {"audit", "read"}, NEW new, op = "delete" => pc = "read",
             Start(r, op, a, pc, new), UNCHANGED <<row, used>>
      PROVE  DeleteInv'
  <2>1. /\ \A t \in Requests \ {r} : req'[t] = req[t]
        /\ req'[r].op = op /\ req'[r].pc = pc
    BY <1>0, <1>1 DEF Start, ReqOK
  <2>2. ~FoundRow(r)' /\ ~Removed(r)' /\ pc # "insert" /\ (op = "delete" => pc \in DeletePcs)
    BY <1>1, <2>1 DEF FoundRow, Removed, At, DeletePcs
  <2> QED  BY <1>1, <2>1, <2>2, QuietDelete
<1>2. CASE StartCreate(r)
  <2>1. PICK a \in Actions \ used, op \in {"create", "import"}, new \in Row :
           Start(r, op, a, "insert", new) /\ used' = used \cup {a}
    BY <1>2 DEF StartCreate, Row
  <2>2. /\ \A t \in Requests \ {r} : req'[t] = req[t]
        /\ req'[r].op = op /\ req'[r].pc = "insert" /\ req'[r].id = a
    BY <1>0, <2>1 DEF Start, ReqOK
  <2>3. UNCHANGED row
    BY <1>2 DEF StartCreate
  <2>4. \A t \in Requests \ {r} : At(t, "insert") \/ FoundRow(t) => req[t].id # a
    BY <2>1 DEF DeleteInv, InsertionsFresh, FoundWereUsed
  <2>5. ~FoundRow(r)' /\ ~Removed(r)'
    BY <2>2 DEF FoundRow, Removed, At
  <2>6. \A t \in Requests \ {r} : /\ FoundRow(t)' <=> FoundRow(t)
                                  /\ Removed(t)' <=> Removed(t)
                                  /\ At(t, "insert")' <=> At(t, "insert")
    BY <2>2 DEF FoundRow, Removed, At
  <2>7. row[a] = NoRow
    BY <2>1 DEF DeleteInv, RowsAreUsed
  <2>8. RowsAreUsed' /\ DeletionsCourse' /\ FoundWereUsed'
    BY <2>1, <2>2, <2>3, <2>5, <2>6
       DEF DeleteInv, RowsAreUsed, DeletionsCourse, FoundWereUsed
  <2>9. InsertionsFresh'
    BY <2>1, <2>2, <2>3, <2>4, <2>5, <2>6, <2>7 DEF DeleteInv, InsertionsFresh
  <2>10. RemovedRowsGone' /\ RemovedOnce'
    BY <2>2, <2>3, <2>5, <2>6 DEF DeleteInv, RemovedRowsGone, RemovedOnce
  <2> QED  BY <2>8, <2>9, <2>10 DEF DeleteInv
<1>3. CASE StartSkippedImport(r)
  <2>1. PICK a \in Actions : Start(r, "import", a, "audit", NoPayload)
    BY <1>3 DEF StartSkippedImport, TypeOK
  <2> QED  BY <1>1, <1>3, <2>1 DEF StartSkippedImport, database
<1>4. CASE StartUpdate(r)
  <2>1. PICK a \in Actions, new \in Row : Start(r, "update", a, "read", new)
    BY <1>4 DEF StartUpdate, TypeOK, Row
  <2> QED  BY <1>1, <1>4, <2>1 DEF StartUpdate, database
<1>5. CASE StartDelete(r)
  <2>1. PICK a \in Actions : Start(r, "delete", a, "read", NoPayload)
    BY <1>5 DEF StartDelete, TypeOK
  <2> QED  BY <1>1, <1>5, <2>1 DEF StartDelete, database
<1> QED  BY <1>2, <1>3, <1>4, <1>5 DEF NewRequest
LEMMA InsertDelete ==
    ASSUME TypeOK, DeleteInv, NEW r \in Requests, Insert(r)
    PROVE  DeleteInv'
<1> DEFINE a == req[r].id
<1>0. ReqOK /\ row \in [Actions -> Row \cup {NoRow}] /\ a \in Actions /\ req[r].new \in Row
  BY TypeParts, RowLemma DEF RowsOK
<1>1. /\ a \in used /\ req[r].op # "delete" /\ UNCHANGED used /\ At(r, "insert")
      /\ \A t \in Requests \ {r} : req[t].id = a => ~At(t, "insert") /\ ~FoundRow(t)
  BY DEF Insert, DeleteInv, InsertionsFresh, DeletionsCourse, DeletePcs, At
<1>2. /\ Keeps(r) /\ req'[r].pc # "insert"
      /\ row' \in {row, [row EXCEPT ![a] = req[r].new]}
  <2>1. CASE Goto(r, IF Active(req[r].new) THEN "checkSchedule" ELSE "audit")
             /\ row' = [row EXCEPT ![a] = req[r].new]
    BY <1>0, <2>1, GotoMoves DEF Moves
  <2>2. CASE Fail(r) /\ row' \in {row, [row EXCEPT ![a] = req[r].new]}
    BY <1>0, <2>2, FailMoves DEF Moves, AfterFail
  <2> QED  BY <2>1, <2>2 DEF Insert
<1>3. \A t \in Requests : req'[t].id = req[t].id /\ req'[t].op = req[t].op
  BY <1>2 DEF Keeps
<1>4. ~FoundRow(r)' /\ ~Removed(r)' /\ ~FoundRow(r) /\ ~Removed(r)
  BY <1>1, <1>3 DEF FoundRow, Removed
<1>5. \A t \in Requests \ {r} : /\ FoundRow(t)' <=> FoundRow(t)
                                /\ Removed(t)' <=> Removed(t)
                                /\ At(t, "insert")' <=> At(t, "insert")
  BY <1>2 DEF Keeps, FoundRow, Removed, At
<1>6. \A b \in Actions : b # a => row'[b] = row[b]
  BY <1>0, <1>2
<1>7. RowsAreUsed' /\ FoundWereUsed'
  BY <1>1, <1>3, <1>4, <1>5, <1>6 DEF DeleteInv, RowsAreUsed, FoundWereUsed
<1>8. DeletionsCourse'
  BY <1>1, <1>2, <1>3 DEF DeleteInv, DeletionsCourse, Keeps
<1>9. InsertionsFresh'
  <2> SUFFICES ASSUME NEW q \in Requests, At(q, "insert")'
               PROVE  /\ row'[req'[q].id] = NoRow /\ req'[q].id \in used'
                      /\ \A t \in Requests \ {q} : req'[t].id = req'[q].id =>
                           ~At(t, "insert")' /\ ~FoundRow(t)'
    BY DEF InsertionsFresh
  <2>1. q # r /\ At(q, "insert") /\ req[q].id # a /\ req[q].id \in Actions
    BY <1>0, <1>1, <1>2, <1>5 DEF At, ReqOK, Request
  <2> QED  BY <1>1, <1>2, <1>3, <1>4, <1>5, <1>6, <2>1
           DEF DeleteInv, InsertionsFresh, At
<1>10. RemovedRowsGone' /\ RemovedOnce'
  <2>1. \A t \in Requests : Removed(t)' =>
           Removed(t) /\ t # r /\ req[t].id # a /\ req[t].id \in Actions
    BY <1>0, <1>1, <1>4, <1>5 DEF FoundRow, ReqOK, Request
  <2> QED  BY <1>3, <1>6, <2>1 DEF DeleteInv, RemovedRowsGone, RemovedOnce
<1> QED  BY <1>7, <1>8, <1>9, <1>10 DEF DeleteInv

\* The steps of a deletion that find the row and remove it.
LEMMA FindDelete ==
    ASSUME TypeOK, DeleteInv, NEW r \in Requests, Read(r)
    PROVE  DeleteInv'
<1> DEFINE a == req[r].id
<1>0. ReqOK /\ row \in [Actions -> Row \cup {NoRow}] /\ a \in Actions
  BY TypeParts, RowLemma DEF RowsOK
<1>1. UNCHANGED <<row, used>> /\ At(r, "read") /\ ~FoundRow(r) /\ ~Removed(r)
  BY DEF Read, database, FoundRow, Removed, At
<1>2. CASE row[a] = NoRow /\ Moves(r, "answer", "not_found")
  <2>1. ~FoundRow(r)' /\ ~Removed(r)' /\ req'[r].pc = "answer"
    BY <1>2 DEF Moves, Keeps, FoundRow, Removed, At
  <2> QED  BY <1>1, <1>2, <2>1, QuietDelete DEF Moves, Keeps, DeletePcs
<1>3. CASE Moves(r, AfterFail(r), "error")
  <2>1. req[r].op = "delete" => AfterFail(r) = "answer"
    BY DEF AfterFail
  <2>2. ~FoundRow(r)' /\ ~Removed(r)' /\ req'[r].pc # "insert"
    BY <1>3, <2>1 DEF Moves, Keeps, FoundRow, Removed, At, AfterFail
  <2> QED  BY <1>1, <1>3, <2>1, <2>2, QuietDelete DEF Moves, Keeps, DeletePcs
<1>4. CASE /\ row[a] # NoRow
           /\ Keeps(r)
           /\ req'[r].pc \in {"write", "checkCancel", "remove"}
           /\ req'[r].pc = "write" <=> req[r].op = "update"
  <2>1. \A t \in Requests : req'[t].id = req[t].id /\ req'[t].op = req[t].op
    BY <1>4 DEF Keeps
  <2>2. \A t \in Requests \ {r} : /\ FoundRow(t)' <=> FoundRow(t)
                                  /\ Removed(t)' <=> Removed(t)
                                  /\ At(t, "insert")' <=> At(t, "insert")
    BY <1>4 DEF Keeps, FoundRow, Removed, At
  <2>3. ~Removed(r)' /\ ~At(r, "insert")'
    BY <1>4 DEF Removed, At
  <2>4. a \in used /\ \A t \in Requests : At(t, "insert") => req[t].id # a
    BY <1>0, <1>4 DEF DeleteInv, RowsAreUsed, InsertionsFresh
  <2>5. RowsAreUsed' /\ FoundWereUsed'
    BY <1>1, <2>1, <2>2, <2>4 DEF DeleteInv, RowsAreUsed, FoundWereUsed
  <2>6. DeletionsCourse'
    BY <1>4, <2>1 DEF DeleteInv, DeletionsCourse, Keeps, DeletePcs
  <2>7. InsertionsFresh'
    BY <1>1, <2>1, <2>2, <2>3, <2>4 DEF DeleteInv, InsertionsFresh
  <2>8. RemovedRowsGone' /\ RemovedOnce'
    BY <1>1, <2>1, <2>2, <2>3 DEF DeleteInv, RemovedRowsGone, RemovedOnce
  <2> QED  BY <2>5, <2>6, <2>7, <2>8 DEF DeleteInv
<1> QED  BY <1>0, <1>2, <1>3, <1>4, ReadMoves

LEMMA RemoveDelete ==
    ASSUME TypeOK, DeleteInv, NEW r \in Requests, Remove(r)
    PROVE  DeleteInv'
<1> DEFINE a == req[r].id
<1>0. ReqOK /\ row \in [Actions -> Row \cup {NoRow}] /\ a \in Actions
  BY TypeParts, RowLemma DEF RowsOK
<1>1. UNCHANGED used /\ At(r, "remove") /\ \A b \in Actions : row[b] = NoRow => row'[b] = NoRow
  BY RowsStay DEF Remove
<1>2. CASE Fail(r)
  <2>1. Moves(r, AfterFail(r), "error")
    BY <1>0, <1>2, FailMoves
  <2>2. req[r].op = "delete" => AfterFail(r) = "answer"
    BY DEF AfterFail
  <2>3. ~FoundRow(r)' /\ ~Removed(r)' /\ req'[r].pc # "insert"
    BY <2>1, <2>2 DEF Moves, Keeps, FoundRow, Removed, At, AfterFail
  <2> QED  BY <1>1, <2>1, <2>2, <2>3, QuietDelete DEF Moves, Keeps, DeletePcs
<1>3. CASE row[a] # NoRow /\ row' = [row EXCEPT ![a] = NoRow] /\ Goto(r, "audit")
  <2>1. Moves(r, "audit", req[r].result)
    BY <1>0, <1>3, GotoMoves
  <2>2. \A t \in Requests : req'[t].id = req[t].id /\ req'[t].op = req[t].op
                            /\ (t # r => req'[t] = req[t])
    BY <2>1 DEF Moves, Keeps
  <2>3. \A t \in Requests \ {r} : /\ FoundRow(t)' <=> FoundRow(t)
                                  /\ Removed(t)' <=> Removed(t)
                                  /\ At(t, "insert")' <=> At(t, "insert")
    BY <2>2 DEF FoundRow, Removed, At
  <2>4. (FoundRow(r)' => FoundRow(r)) /\ ~At(r, "insert")'
    BY <1>1, <2>1 DEF FoundRow, Removed, At, Moves, Keeps
  <2>5. \A t \in Requests : Removed(t) => req[t].id # a
    BY <1>3 DEF DeleteInv, RemovedRowsGone
  <2>6. row'[a] = NoRow
    BY <1>0, <1>3
  <2>7. \A t \in Requests : req[t].id \in Actions
    BY <1>0 DEF ReqOK, Request
  <2>8. RowsAreUsed' /\ FoundWereUsed'
    BY <1>1, <2>2, <2>3, <2>4 DEF DeleteInv, RowsAreUsed, FoundWereUsed
  <2>9. DeletionsCourse'
    BY <2>1, <2>2 DEF DeleteInv, DeletionsCourse, Moves, DeletePcs
  <2>10. InsertionsFresh'
    BY <1>1, <2>2, <2>3, <2>4, <2>7 DEF DeleteInv, InsertionsFresh
  <2>11. RemovedRowsGone' /\ RemovedOnce'
    BY <1>1, <2>2, <2>3, <2>5, <2>6, <2>7 DEF DeleteInv, RemovedRowsGone, RemovedOnce
  <2> QED  BY <2>8, <2>9, <2>10, <2>11 DEF DeleteInv
<1> QED  BY <1>2, <1>3 DEF Remove

\* The steps of handlers that a deletion never takes, and those of cancelJob.
LEMMA OtherStepsMove ==
    ASSUME ReqOK, NEW r \in Requests,
           \/ Cleanup(r) \/ Write(r) \/ CheckSchedule(r) \/ CreateQueue(r)
           \/ Work(r) \/ Schedule(r) \/ SaveJobId(r)
    PROVE  /\ \E pc \in Steps \ {"insert"} : \E result : Moves(r, pc, result)
           /\ req[r].pc \notin DeletePcs
<1>1. ASSUME NEW pc \in Steps \ {"insert"}, Goto(r, pc)
      PROVE  \E p \in Steps \ {"insert"} : \E result : Moves(r, p, result)
  BY <1>1, GotoMoves
<1>2. ASSUME Fail(r)
      PROVE  \E p \in Steps \ {"insert"} : \E result : Moves(r, p, result)
  <2>1. AfterFail(r) \in Steps \ {"insert"}
    BY DEF AfterFail, Steps
  <2> QED  BY <1>2, <2>1, FailMoves
<1>3. ASSUME ScheduleFailed(r)
      PROVE  \E p \in Steps \ {"insert"} : \E result : Moves(r, p, result)
  <2>1. "cleanup" \in Steps \ {"insert"}
    BY DEF Steps
  <2> QED  BY <1>1, <1>2, <1>3, <2>1 DEF ScheduleFailed
<1>4. {"createQueue", "work", "schedule", "saveJobId", "audit", "checkSchedule",
       "checkCancel"} \subseteq Steps \ {"insert"}
  BY DEF Steps
<1>5. UpdateCase(req[r].old, req[r].new) \in Steps \ {"insert"}
  BY <1>4 DEF UpdateCase
<1>6. \E p \in Steps \ {"insert"} : \E result : Moves(r, p, result)
  BY <1>1, <1>2, <1>3, <1>4, <1>5
     DEF Cleanup, Write, CheckSchedule, CreateQueue, Work, Schedule, SaveJobId
<1>7. req[r].pc \notin DeletePcs
  BY DEF Cleanup, Write, CheckSchedule, CreateQueue, Work, Schedule, SaveJobId, At, DeletePcs
<1> QED  BY <1>6, <1>7

LEMMA OtherStepsDelete ==
    ASSUME TypeOK, DeleteInv, NEW r \in Requests,
           \/ Cleanup(r) \/ Write(r) \/ CheckSchedule(r) \/ CreateQueue(r)
           \/ Work(r) \/ Schedule(r) \/ SaveJobId(r)
    PROVE  DeleteInv'
<1>1. PICK pc \in Steps \ {"insert"} : \E result : Moves(r, pc, result)
  BY OtherStepsMove, TypeParts
<1>2. req[r].op # "delete"
  BY OtherStepsMove, TypeParts DEF DeleteInv, DeletionsCourse
<1>3. UNCHANGED used
  BY DEF Cleanup, Write, CheckSchedule, CreateQueue, Work, Schedule, SaveJobId, database
<1>4. \A a \in Actions : row[a] = NoRow => row'[a] = NoRow
  BY RowsStay DEF Cleanup, Write, CheckSchedule, CreateQueue, Work, Schedule, SaveJobId, database
<1>5. ~Removed(r)' /\ ~FoundRow(r)'
  BY <1>1, <1>2 DEF Moves, Keeps, Removed, FoundRow
<1> QED  BY <1>1, <1>2, <1>3, <1>4, <1>5, QuietDelete DEF Moves, Keeps

LEMMA CancelDelete ==
    ASSUME TypeOK, DeleteInv, NEW r \in Requests,
           CheckCancel(r) \/ Unschedule(r) \/ OffWork(r)
    PROVE  DeleteInv'
<1>0. ReqOK /\ UNCHANGED <<row, used>>
  BY TypeParts DEF CheckCancel, Unschedule, OffWork, database
<1>1. CASE Moves(r, "unschedule", req[r].result) /\ At(r, "checkCancel")
  BY <1>0, <1>1, QuietDelete DEF Moves, Keeps, FoundRow, Removed, At, DeletePcs
<1>2. CASE Moves(r, "offWork", req[r].result) /\ At(r, "unschedule")
  BY <1>0, <1>2, QuietDelete DEF Moves, Keeps, FoundRow, Removed, At, DeletePcs
<1>3. CASE CancelFailed(r)
  <2>1. /\ req[r].op = "delete" => Moves(r, "answer", "error")
        /\ req[r].op # "delete" =>
             \/ Moves(r, "audit", req[r].result) \/ Moves(r, AfterFail(r), "error")
    BY <1>0, <1>3, FailuresMove DEF AfterFail
  <2>2. CASE req[r].op = "delete"
    BY <1>0, <2>1, <2>2, QuietDelete DEF Moves, Keeps, FoundRow, Removed, At, DeletePcs
  <2>3. CASE req[r].op # "delete"
    BY <1>0, <2>1, <2>3, QuietDelete DEF Moves, Keeps, FoundRow, Removed, At, AfterFail
  <2> QED  BY <2>2, <2>3
<1>4. CASE AfterCancel(r) /\ At(r, "offWork")
  <2>1. Moves(r, IF req[r].op = "delete" THEN "remove"
                 ELSE IF req[r].new.enabled THEN "checkSchedule" ELSE "audit",
              req[r].result)
    BY <1>0, <1>4, FailuresMove
  <2> QED  BY <1>0, <1>4, <2>1, QuietDelete DEF Moves, Keeps, FoundRow, Removed, At, DeletePcs
<1> QED  BY <1>0, <1>1, <1>2, <1>3, <1>4, GotoMoves DEF CheckCancel, Unschedule, OffWork

\* No deletion is in progress when the process ends.
LEMMA ProcessEndsDelete ==
    ASSUME TypeOK, DeleteInv, ProcessEnds, UNCHANGED <<row, used>>
    PROVE  DeleteInv'
<1>1. \A r \in Requests : req'[r].op = "none" /\ req'[r].pc = "idle"
  BY DEF ProcessEnds, IdleRequest
<1>2. \A r \in Requests : ~Removed(r)' /\ ~FoundRow(r)' /\ ~At(r, "insert")'
  BY <1>1 DEF Removed, FoundRow, At
<1> QED  BY <1>1, <1>2 DEF DeleteInv, RowsAreUsed, DeletionsCourse, InsertionsFresh,
            FoundWereUsed, RemovedRowsGone, RemovedOnce

LEMMA EndDelete ==
    ASSUME TypeOK, DeleteInv, NEW r \in Requests, Audit(r) \/ Answer(r)
    PROVE  DeleteInv'
<1>0. ReqOK /\ UNCHANGED <<row, used>>
  BY TypeParts DEF Audit, Answer, database
<1>1. CASE Answer(r)
  <2>1. (\A t \in Requests \ {r} : req'[t] = req[t]) /\ req'[r] = IdleRequest
    BY <1>0, <1>1, AnswerMoves
  <2>2. req'[r].op = "none" /\ req'[r].pc = "idle"
    BY <2>1 DEF IdleRequest
  <2> QED  BY <1>0, <2>1, <2>2, QuietDelete DEF FoundRow, Removed
<1>2. CASE Audit(r) /\ ~ProcessEnds
  <2>1. \E result : Moves(r, "answer", result)
    BY <1>0, <1>2, AuditMoves
  <2>2. At(r, "audit")
    BY <1>2 DEF Audit
  <2> QED  BY <1>0, <2>1, <2>2, QuietDelete DEF Moves, Keeps, FoundRow, Removed, At, DeletePcs
<1> QED  BY <1>0, <1>1, <1>2, ProcessEndsDelete

LEMMA DeleteInvariant == Spec => []DeleteInv
<1>1. Init => DeleteInv
  <2>1. IdleRequest.op = "none" /\ IdleRequest.pc = "idle"
    BY DEF IdleRequest
  <2>2. Init => \A r \in Requests : ~Removed(r) /\ ~FoundRow(r) /\ ~At(r, "insert")
    BY <2>1 DEF Init, Removed, FoundRow, At
  <2> QED  BY <2>1, <2>2 DEF Init, DeleteInv, RowsAreUsed, DeletionsCourse,
              InsertionsFresh, FoundWereUsed, RemovedRowsGone, RemovedOnce
<1>2. TypeOK /\ DeleteInv /\ [Next]_vars => DeleteInv'
  <2> SUFFICES ASSUME TypeOK, DeleteInv, [Next]_vars PROVE DeleteInv'
    OBVIOUS
  <2>1. CASE UNCHANGED <<row, used, req>>
    BY <2>1 DEF DeleteInv, RowsAreUsed, DeletionsCourse, InsertionsFresh, FoundWereUsed,
       RemovedRowsGone, RemovedOnce, Removed, FoundRow, At
  <2>2. ASSUME NEW r \in Requests, NewRequest(r) \/ HandlerStep(r)
        PROVE  DeleteInv'
    BY <2>2, NewRequestDelete, InsertDelete, FindDelete, RemoveDelete, OtherStepsDelete,
       CancelDelete, EndDelete DEF HandlerStep
  <2>3. CASE \/ \E a \in Actions : CronTick(a)
             \/ \E x \in Runs : WorkerStep(x)
             \/ ProcessStart \/ Crash
    <3>1. UNCHANGED <<row, used>> /\ (UNCHANGED req \/ ProcessEnds)
      BY <2>3 DEF CronTick, WorkerStep, TakeJob, ReadAction, Execute, ProcessStart, Listen,
         StartBoss, FetchSchedules, Register, Crash, database
    <3> QED  BY <2>1, <3>1, ProcessEndsDelete
  <2> QED  BY <2>1, <2>2, <2>3 DEF Next, vars, database
<1> QED  BY <1>1, <1>2, TypeCorrect, PTL DEF Spec

\* With any number of handlers, whatever fails and whenever the process stops, of
\* the deletions of an action one is answered with success, at most.
THEOREM DeletionSucceedsOnce == Spec => []OneDeletionSucceeds
<1>1. DeleteInv => OneDeletionSucceeds
  BY DEF DeleteInv, RemovedOnce, Removed, OneDeletionSucceeds
<1> QED  BY <1>1, DeleteInvariant, PTL

----------------------------------------------------------------------------
\* One handler at a time: what an answer of success says.

OneAtATime == \A r, t \in Requests : r = t

HasWorker(a) ==
    polling[a] > 0 \/ \E x \in Runs : run[x] # NoRun /\ run[x].id = a /\ run[x].attached

\* The row is the one this handler wrote, jobId included if it was sent.
Written(x) == row[x.id] # NoRow /\ (x.new.jobId => row[x.id].jobId)

Scheduling == {"checkSchedule", "createQueue", "work", "schedule", "saveJobId"}
Cancelling == {"checkCancel", "unschedule", "offWork"}

\* The work of a handler is done, and nothing has failed.
Worked(x) == (x.pc = "audit" /\ x.result = "none") \/ (x.pc = "answer" /\ x.result = "ok")

CourseOK(x) ==
    /\ x.op = "none" => x.pc = "idle"
    /\ x.op \in {"create", "import"} =>
         /\ x.pc \in {"insert", "cleanup", "audit", "answer"} \cup Scheduling
         /\ x.old = NoRow
    /\ x.op = "update" =>
         x.pc \in {"read", "write", "audit", "answer"} \cup Scheduling \cup Cancelling
    /\ x.op = "delete" => x.pc \in DeletePcs /\ x.new = NoPayload
    /\ x.pc \in {"createQueue", "work", "schedule", "saveJobId"} => IsScheduled(x.new)
    /\ x.pc # "answer" => x.result \in {"none", "error"}

\* On the way to a schedule.
ScheduleOK(x) ==
    /\ \/ x.pc \in Scheduling
       \/ x.pc \in Cancelling /\ x.op = "update"
       \/ Worked(x) /\ Active(x.new)
       => Written(x)
    /\ \/ x.pc \in {"schedule", "saveJobId"}
       \/ Worked(x) /\ Active(x.new)
       => HasWorker(x.id)
    /\ x.pc = "saveJobId" \/ (Worked(x) /\ Active(x.new)) => x.id \in schedule
    /\ Worked(x) /\ Active(x.new) => row[x.id].jobId

\* On the way to a deletion.
UnscheduleOK(x) ==
    /\ x.op = "delete" /\ IsScheduled(x.old) /\ x.old.jobId
    /\ x.pc \in {"offWork", "remove"} \/ Worked(x)
    => x.id \notin schedule

SuccessInv ==
    \A r \in Requests : CourseOK(req[r]) /\ ScheduleOK(req[r]) /\ UnscheduleOK(req[r])

\* With one handler, the invariant is about that handler.
LEMMA SuccessParts ==
    ASSUME OneAtATime, NEW r \in Requests
    PROVE  /\ SuccessInv <=> CourseOK(req[r]) /\ ScheduleOK(req[r]) /\ UnscheduleOK(req[r])
           /\ SuccessInv' <=> CourseOK(req[r])' /\ ScheduleOK(req[r])' /\ UnscheduleOK(req[r])'
BY DEF OneAtATime, SuccessInv

\* Whatever a call that fails has done, no success is claimed.
LEMMA FailedSuccess ==
    ASSUME ReqOK, OneAtATime, SuccessInv, NEW r \in Requests,
           ~At(r, "idle"), ~At(r, "answer"),
           Fail(r) \/ ScheduleFailed(r) \/ (CancelFailed(r) /\ req[r].pc \in Cancelling)
    PROVE  SuccessInv'
<1>1. CourseOK(req[r])
  BY SuccessParts
<1>2. \E pc \in {"audit", "answer", "cleanup"} :
         /\ \/ Moves(r, pc, "error")
            \/ /\ Moves(r, pc, req[r].result)
               /\ \/ pc = "cleanup"
                  \/ pc = "audit" /\ req[r].op = "update" /\ ~req[r].new.enabled
         /\ pc = "cleanup" => req[r].op \in {"create", "import"}
  <2>1. AfterFail(r) \in {"audit", "answer"}
    BY DEF AfterFail
  <2> QED  BY <2>1, FailMoves, FailuresMove
<1>3. CourseOK(req[r])'
  BY <1>1, <1>2 DEF CourseOK, Moves, Keeps, At, DeletePcs
<1>4. ScheduleOK(req[r])' /\ UnscheduleOK(req[r])'
  BY <1>2 DEF ScheduleOK, UnscheduleOK, Worked, Active, Moves, Keeps, Scheduling, Cancelling
<1> QED  BY <1>3, <1>4, SuccessParts

\* A queue keeps its workers, unless offWork stops them or the process ends.
LEMMA WorkersStay ==
    ASSUME TypeOK, NEW a \in Actions, HasWorker(a),
           \/ UNCHANGED <<polling, run>>
           \/ \E b \in Actions : polling' = AddWorker(b) /\ UNCHANGED run
           \/ \E x \in Runs : WorkerStep(x)
    PROVE  HasWorker(a)'
<1>0. PollingOK /\ RunOK
  BY TypeParts
<1>1. CASE UNCHANGED <<polling, run>>
  BY <1>1 DEF HasWorker
<1>2. ASSUME NEW b \in Actions, polling' = AddWorker(b)
      PROVE  /\ \A c \in Actions : polling[c] > 0 => polling'[c] > 0
             /\ polling'[b] > 0
  BY <1>0, <1>2, BoundsAssumption DEF AddWorker, PollingOK
<1>3. CASE \E b \in Actions : polling' = AddWorker(b) /\ UNCHANGED run
  BY <1>2, <1>3 DEF HasWorker
<1>4. ASSUME NEW b \in Actions, NEW x \in Runs, TakeJob(b, x)
      PROVE  HasWorker(a)'
  <2>1. run'[x] # NoRun /\ run'[x].id = b /\ run'[x].attached
    <3>1. run'[x] = [id |-> b, attached |-> TRUE, pc |-> "read"]
      BY <1>0, <1>4 DEF TakeJob, RunOK
    <3>2. [id |-> b, attached |-> TRUE, pc |-> "read"] \in Run
      BY DEF Run
    <3>3. run'[x].id = b /\ run'[x].attached = TRUE
      BY <3>1
    <3>4. run'[x] # NoRun
      BY <3>1, <3>2, NoneAssumption
    <3> QED  BY <3>3, <3>4
  <2>2. /\ \A y \in Runs \ {x} : run'[y] = run[y]
        /\ run[x] = NoRun
        /\ \A c \in Actions \ {b} : polling'[c] = polling[c]
    BY <1>0, <1>4 DEF TakeJob, RunOK, PollingOK
  <2> QED  BY <2>1, <2>2 DEF HasWorker
<1>5. ASSUME NEW x \in Runs, run[x] # NoRun, NEW retried \in BOOLEAN, EndRun(x, retried)
      PROVE  HasWorker(a)'
  <2>1. run[x].id \in Actions
    BY <1>0, <1>5 DEF RunOK, Run
  <2>2. \A y \in Runs \ {x} : run'[y] = run[y]
    BY <1>0, <1>5 DEF EndRun, RunOK
  <2>3. CASE run[x].attached
    BY <1>2, <1>5, <2>1, <2>2, <2>3 DEF EndRun, HasWorker
  <2>4. CASE ~run[x].attached
    BY <1>5, <2>2, <2>4 DEF EndRun, HasWorker
  <2> QED  BY <2>3, <2>4
<1>6. ASSUME NEW x \in Runs, run[x] # NoRun, run' = [run EXCEPT ![x].pc = "execute"],
             UNCHANGED polling
      PROVE  HasWorker(a)'
  <2>1. run[x] \in Run
    BY <1>0, <1>6 DEF RunOK
  <2>2. run'[x] = [run[x] EXCEPT !.pc = "execute"]
    BY <1>0, <1>6 DEF RunOK
  <2>3. run'[x] \in Run
    BY <2>1, <2>2 DEF Run
  <2>4. /\ run'[x] # NoRun /\ run'[x].id = run[x].id /\ run'[x].attached = run[x].attached
        /\ \A y \in Runs \ {x} : run'[y] = run[y]
    BY <1>0, <1>6, <2>1, <2>2, <2>3, NoneAssumption DEF RunOK, Run
  <2> QED  BY <1>6, <2>4 DEF HasWorker
<1> QED  BY <1>1, <1>3, <1>4, <1>5, <1>6 DEF WorkerStep, ReadAction, Execute

LEMMA NewRequestSuccess ==
    ASSUME TypeOK, OneAtATime, SuccessInv, NEW r \in Requests, NewRequest(r)
    PROVE  SuccessInv'
<1>0. ReqOK
  BY TypeParts
<1>1. ASSUME NEW op, NEW a, NEW pc, NEW new, Start(r, op, a, pc, new),
             \/ op \in {"create", "import"} /\ pc = "insert"
             \/ op = "import" /\ pc = "audit" /\ new = NoPayload
             \/ op = "update" /\ pc = "read"
             \/ op = "delete" /\ pc = "read" /\ new = NoPayload
      PROVE  SuccessInv'
  <2>1. /\ req'[r].op = op /\ req'[r].id = a /\ req'[r].pc = pc /\ req'[r].new = new
        /\ req'[r].old = NoRow /\ req'[r].result = "none"
    BY <1>0, <1>1 DEF Start, ReqOK
  <2>2. CourseOK(req[r])'
    BY <1>1, <2>1 DEF CourseOK, DeletePcs
  <2>3. ~Active(NoPayload)
    BY DEF Active, IsScheduled, NoPayload
  <2>4. ScheduleOK(req[r])' /\ UnscheduleOK(req[r])'
    BY <1>1, <2>1, <2>3 DEF ScheduleOK, UnscheduleOK, Worked, Scheduling, Cancelling
  <2> QED  BY <2>2, <2>4, SuccessParts
<1> QED  BY <1>1 DEF NewRequest, StartCreate, StartSkippedImport, StartUpdate, StartDelete

\* The steps that only write the row, or read it.
LEMMA RowStepsSuccess ==
    ASSUME TypeOK, OneAtATime, SuccessInv, NEW r \in Requests,
           Insert(r) \/ Cleanup(r) \/ Read(r) \/ Write(r) \/ Remove(r)
    PROVE  SuccessInv'
<1>0. ReqOK /\ row \in [Actions -> Row \cup {NoRow}] /\ req[r].id \in Actions
      /\ req[r].new \in Row /\ req[r].new # NoRow
  BY TypeParts, RowLemma, NoneAssumption DEF RowsOK
<1>1. CourseOK(req[r]) /\ ScheduleOK(req[r]) /\ UnscheduleOK(req[r])
      /\ ~At(r, "idle") /\ ~At(r, "answer")
      /\ UNCHANGED schedule
  BY SuccessParts DEF Insert, Cleanup, Read, Write, Remove, At, boss
<1>2. CASE Fail(r)
  BY <1>0, <1>1, <1>2, FailedSuccess
<1>3. CASE Insert(r) /\ ~Fail(r)
  <2> DEFINE pc == IF Active(req[r].new) THEN "checkSchedule" ELSE "audit"
  <2>1. row'[req[r].id] = req[r].new /\ Moves(r, pc, req[r].result) /\ At(r, "insert")
    BY <1>0, <1>3, GotoMoves DEF Insert
  <2>2. CourseOK(req[r])'
    BY <1>1, <2>1 DEF CourseOK, Moves, Keeps, At, DeletePcs, Scheduling, Cancelling
  <2>3. req[r].op # "delete"
    BY <1>1, <2>1 DEF CourseOK, At, DeletePcs
  <2>4. ScheduleOK(req[r])' /\ UnscheduleOK(req[r])'
    BY <1>0, <2>1, <2>3 DEF ScheduleOK, UnscheduleOK, Worked, Written, Moves, Keeps,
       Scheduling, Cancelling
  <2> QED  BY <2>2, <2>4, SuccessParts
<1>4. CASE Read(r) /\ ~Fail(r)
  <2> DEFINE old == row[req[r].id]
  <2>1. At(r, "read") /\ req[r].op \in {"update", "delete"}
    BY <1>0, <1>1, <1>4 DEF Read, CourseOK, At, ReqOK, Request, Scheduling
  <2>2. CASE Moves(r, "answer", "not_found")
    <3>1. CourseOK(req[r])'
      BY <1>1, <2>1, <2>2 DEF CourseOK, Moves, Keeps, At, DeletePcs
    <3>2. ScheduleOK(req[r])' /\ UnscheduleOK(req[r])'
      BY <2>2 DEF ScheduleOK, UnscheduleOK, Worked, Moves, Keeps, Scheduling, Cancelling
    <3> QED  BY <3>1, <3>2, SuccessParts
  <2>3. CASE /\ Keeps(r) /\ req'[r].old = old
             /\ req'[r].result = req[r].result
             /\ req'[r].pc = IF req[r].op = "update" THEN "write"
                             ELSE IF IsScheduled(old) /\ old.jobId
                                    THEN "checkCancel" ELSE "remove"
    <3>1. CourseOK(req[r])'
      BY <1>1, <2>1, <2>3 DEF CourseOK, Keeps, At, DeletePcs, Scheduling, Cancelling
    <3>2. ScheduleOK(req[r])' /\ UnscheduleOK(req[r])'
      BY <2>1, <2>3 DEF ScheduleOK, UnscheduleOK, Worked, Keeps, Scheduling, Cancelling
    <3> QED  BY <3>1, <3>2, SuccessParts
  <2>4. CASE Moves(r, AfterFail(r), "error")
    <3>1. CourseOK(req[r])'
      BY <1>1, <2>1, <2>4 DEF CourseOK, Moves, Keeps, At, DeletePcs, AfterFail
    <3>2. ScheduleOK(req[r])' /\ UnscheduleOK(req[r])'
      BY <2>4 DEF ScheduleOK, UnscheduleOK, Worked, Moves, Keeps, Scheduling, Cancelling,
         AfterFail
    <3> QED  BY <3>1, <3>2, SuccessParts
  <2> QED  BY <1>0, <1>4, <2>2, <2>3, <2>4, ReadMoves
<1>5. CASE Write(r) /\ ~Fail(r)
  <2> DEFINE pc == UpdateCase(req[r].old, req[r].new)
  <2>1. row'[req[r].id] = req[r].new /\ Moves(r, pc, req[r].result) /\ At(r, "write")
    BY <1>0, <1>5, GotoMoves DEF Write
  <2>2. req[r].op = "update"
    BY <1>0, <1>1, <2>1 DEF CourseOK, At, DeletePcs, ReqOK, Request, Scheduling
  <2>3. pc \in {"checkCancel", "checkSchedule", "audit"} /\ (pc = "audit" => ~Active(req[r].new))
    BY DEF UpdateCase, Active
  <2> HIDE DEF pc
  <2>4. CourseOK(req[r])'
    BY <1>1, <2>1, <2>2, <2>3 DEF CourseOK, Moves, Keeps, At, Scheduling, Cancelling
  <2>5. ScheduleOK(req[r])' /\ UnscheduleOK(req[r])'
    BY <1>0, <2>1, <2>2, <2>3 DEF ScheduleOK, UnscheduleOK, Worked, Written, Moves, Keeps,
       Scheduling, Cancelling
  <2> QED  BY <2>4, <2>5, SuccessParts
<1>6. CASE Remove(r) /\ ~Fail(r)
  <2>1. Moves(r, "audit", req[r].result) /\ At(r, "remove")
    BY <1>0, <1>6, GotoMoves DEF Remove
  <2>2. req[r].op = "delete" /\ req[r].new = NoPayload
    BY <1>0, <1>1, <2>1 DEF CourseOK, At, ReqOK, Request, Scheduling, Cancelling
  <2>3. CourseOK(req[r])'
    BY <1>1, <2>1, <2>2 DEF CourseOK, Moves, Keeps, At, DeletePcs
  <2>4. ScheduleOK(req[r])' /\ UnscheduleOK(req[r])'
    BY <1>1, <2>1, <2>2 DEF ScheduleOK, UnscheduleOK, Worked, Moves, Keeps, At, Active,
       IsScheduled, NoPayload, Scheduling, Cancelling
  <2> QED  BY <2>3, <2>4, SuccessParts
<1> QED  BY <1>2, <1>3, <1>4, <1>5, <1>6 DEF Cleanup

LEMMA CancelSuccess ==
    ASSUME TypeOK, OneAtATime, SuccessInv, NEW r \in Requests,
           CheckCancel(r) \/ Unschedule(r) \/ OffWork(r)
    PROVE  SuccessInv'
<1>0. ReqOK
  BY TypeParts
<1>1. CourseOK(req[r]) /\ ScheduleOK(req[r]) /\ UnscheduleOK(req[r])
      /\ ~At(r, "idle") /\ ~At(r, "answer")
      /\ UNCHANGED row /\ req[r].pc \in Cancelling
  BY SuccessParts DEF CheckCancel, Unschedule, OffWork, At, database, Cancelling
<1>2. req[r].op \in {"update", "delete"} /\ (req[r].op = "update" => Written(req[r]))
      /\ (req[r].op = "delete" => req[r].new = NoPayload)
  BY <1>0, <1>1 DEF CourseOK, ScheduleOK, Cancelling, Scheduling, ReqOK, Request
<1>3. CASE CancelFailed(r)
  BY <1>0, <1>1, <1>3, FailedSuccess
<1>4. ASSUME NEW pc, Moves(r, pc, req[r].result),
             \/ pc = "unschedule"
             \/ pc = "offWork" /\ req[r].id \notin schedule'
             \/ pc = "remove" /\ req[r].op = "delete" /\ At(r, "offWork") /\ UNCHANGED schedule
             \/ pc = "checkSchedule" /\ req[r].op = "update"
             \/ pc = "audit" /\ req[r].op = "update" /\ ~req[r].new.enabled
      PROVE  SuccessInv'
  <2>1. CourseOK(req[r])'
    BY <1>1, <1>2, <1>4 DEF CourseOK, Moves, Keeps, At, DeletePcs, Scheduling, Cancelling
  <2>2. Written(req[r])' <=> Written(req[r])
    BY <1>1, <1>4 DEF Written, Moves, Keeps
  <2>3. ScheduleOK(req[r])'
    BY <1>2, <1>4, <2>2 DEF ScheduleOK, Worked, Active, Moves, Keeps, Scheduling, Cancelling
  <2>4. UnscheduleOK(req[r])'
    BY <1>1, <1>4 DEF UnscheduleOK, Worked, Moves, Keeps, At
  <2> QED  BY <2>1, <2>3, <2>4, SuccessParts
<1>5. CASE CheckCancel(r) /\ ~CancelFailed(r)
  BY <1>0, <1>4, <1>5, GotoMoves DEF CheckCancel
<1>6. CASE Unschedule(r) /\ ~CancelFailed(r)
  <2>1. Moves(r, "offWork", req[r].result) /\ req[r].id \notin schedule'
    BY <1>0, <1>6, GotoMoves DEF Unschedule
  <2> QED  BY <1>4, <2>1
<1>7. CASE OffWork(r)
  <2>1. Moves(r, IF req[r].op = "delete" THEN "remove"
                 ELSE IF req[r].new.enabled THEN "checkSchedule" ELSE "audit",
              req[r].result)
    BY <1>0, <1>7, FailuresMove DEF OffWork
  <2>2. At(r, "offWork") /\ UNCHANGED schedule
    BY <1>7 DEF OffWork, boss
  <2> QED  BY <1>2, <1>4, <2>1, <2>2
<1> QED  BY <1>3, <1>5, <1>6, <1>7

LEMMA ScheduleSuccess ==
    ASSUME TypeOK, OneAtATime, SuccessInv, NEW r \in Requests,
           \/ CheckSchedule(r) \/ CreateQueue(r) \/ Work(r) \/ Schedule(r) \/ SaveJobId(r)
    PROVE  SuccessInv'
<1> DEFINE a == req[r].id
<1>0. ReqOK /\ row \in [Actions -> Row \cup {NoRow}] /\ a \in Actions
  BY TypeParts, RowLemma DEF RowsOK
<1>1. CourseOK(req[r]) /\ ScheduleOK(req[r]) /\ req[r].pc \in Scheduling
      /\ ~At(r, "idle") /\ ~At(r, "answer")
  BY SuccessParts DEF CheckSchedule, CreateQueue, Work, Schedule, SaveJobId, At, Scheduling
<1>2. req[r].op \in {"create", "import", "update"} /\ Written(req[r])
  BY <1>0, <1>1 DEF CourseOK, ScheduleOK, Scheduling, DeletePcs, ReqOK, Request
<1>3. CASE ScheduleFailed(r)
  BY <1>0, <1>1, <1>3, FailedSuccess
<1>4. ASSUME NEW pc \in {"createQueue", "work", "schedule", "saveJobId", "audit"},
             Moves(r, pc, req[r].result), IsScheduled(req[r].new),
             row'[a] # NoRow, row[a].jobId => row'[a].jobId,
             pc \in {"schedule", "saveJobId", "audit"} => HasWorker(a)',
             pc \in {"saveJobId", "audit"} => a \in schedule',
             pc = "audit" => row'[a].jobId
      PROVE  SuccessInv'
  <2>1. CourseOK(req[r])'
    BY <1>1, <1>2, <1>4 DEF CourseOK, Moves, Keeps, At, DeletePcs, Scheduling, Cancelling
  <2>2. Written(req[r])'
    BY <1>2, <1>4 DEF Written, Moves, Keeps
  <2>3. HasWorker(a)' => HasWorker(req[r].id)'
    BY <1>4 DEF HasWorker, Moves, Keeps
  <2>4. ScheduleOK(req[r])' /\ UnscheduleOK(req[r])'
    BY <1>2, <1>4, <2>2, <2>3
       DEF ScheduleOK, UnscheduleOK, Worked, Moves, Keeps, Scheduling, Cancelling
  <2> QED  BY <2>1, <2>4, SuccessParts
<1>5. CASE CheckSchedule(r) /\ ~ScheduleFailed(r)
  BY <1>0, <1>2, <1>4, <1>5, GotoMoves DEF CheckSchedule, Written, database
<1>6. CASE CreateQueue(r) /\ ~ScheduleFailed(r)
  <2>1. IsScheduled(req[r].new)
    BY <1>1, <1>6 DEF CreateQueue, CourseOK, At
  <2> QED  BY <1>0, <1>2, <1>4, <1>6, <2>1, GotoMoves DEF CreateQueue, Written, database
<1>7. CASE Work(r)
  <2>1. IsScheduled(req[r].new)
    BY <1>1, <1>7 DEF Work, CourseOK, At
  <2>2. polling'[a] > 0
    BY <1>0, <1>7, TypeParts, BoundsAssumption DEF Work, AddWorker, PollingOK
  <2>3. HasWorker(a)'
    BY <1>0, <1>7, <2>2, GotoMoves DEF Work, HasWorker, Moves, Keeps
  <2> QED  BY <1>0, <1>2, <1>4, <1>7, <2>1, <2>3, GotoMoves DEF Work, Written, database
<1>8. CASE Schedule(r) /\ ~ScheduleFailed(r)
  <2> DEFINE pc == IF req[r].op = "create" \/ ~IsScheduled(req[r].old) \/ ~req[r].new.jobId
                     THEN "saveJobId" ELSE "audit"
  <2>1. IsScheduled(req[r].new) /\ HasWorker(a)
    BY <1>1, <1>8 DEF Schedule, CourseOK, ScheduleOK, At
  <2>2. Moves(r, pc, req[r].result) /\ a \in schedule' /\ UNCHANGED <<row, process>>
    BY <1>0, <1>8, GotoMoves DEF Schedule, database
  <2>3. HasWorker(a)'
    BY <1>0, <2>1, <2>2, WorkersStay DEF process, HasWorker, Moves, Keeps
  <2>4. pc = "audit" => row'[a].jobId
    BY <1>2, <2>2 DEF Written
  <2> QED  BY <1>2, <1>4, <2>1, <2>2, <2>3, <2>4 DEF Written
<1>9. CASE SaveJobId(r) /\ ~ScheduleFailed(r)
  <2>1. /\ row[a] # NoRow /\ row' = [row EXCEPT ![a].jobId = TRUE]
        /\ Moves(r, "audit", req[r].result) /\ UNCHANGED <<schedule, process>>
    BY <1>0, <1>9, GotoMoves DEF SaveJobId, boss
  <2>2. IsScheduled(req[r].new) /\ HasWorker(a) /\ a \in schedule
    BY <1>1, <1>9 DEF SaveJobId, CourseOK, ScheduleOK, At
  <2>3. HasWorker(a)'
    BY <2>1, <2>2 DEF process, HasWorker, Moves, Keeps
  <2>4. row'[a] \in Row /\ row'[a].jobId
    <3>1. row[a] \in Row /\ row'[a] = [row[a] EXCEPT !.jobId = TRUE]
      BY <1>0, <2>1
    <3> QED  BY <3>1 DEF Row
  <2> QED  BY <1>4, <2>1, <2>2, <2>3, <2>4, NoneAssumption
<1> QED  BY <1>3, <1>5, <1>6, <1>7, <1>8, <1>9

\* A handler that has ended claims nothing.
LEMMA IdleSuccess ==
    ASSUME OneAtATime, NEW r \in Requests, req'[r] = IdleRequest
    PROVE  SuccessInv'
<1>1. req'[r].op = "none" /\ req'[r].pc = "idle"
  BY DEF IdleRequest
<1>2. req'[r].result = "none"
  BY DEF IdleRequest
<1> QED  BY <1>1, <1>2, SuccessParts DEF CourseOK, ScheduleOK, UnscheduleOK, Worked,
            Scheduling, Cancelling

LEMMA EndSuccess ==
    ASSUME TypeOK, OneAtATime, SuccessInv, NEW r \in Requests, Audit(r) \/ Answer(r)
    PROVE  SuccessInv'
<1>0. ReqOK
  BY TypeParts
<1>1. CASE Answer(r) \/ ProcessEnds
  BY <1>0, <1>1, AnswerMoves, IdleSuccess DEF ProcessEnds
<1>2. CASE Audit(r) /\ ~ProcessEnds
  <2>1. CourseOK(req[r]) /\ ScheduleOK(req[r]) /\ UnscheduleOK(req[r]) /\ At(r, "audit")
    BY <1>2, SuccessParts DEF Audit
  <2>2. UNCHANGED <<row, schedule, process>>
    BY <1>0, <1>2, AuditMoves DEF Audit, database
  <2>3. Moves(r, "answer", IF req[r].result = "none" THEN "ok" ELSE req[r].result)
        \/ Moves(r, "answer", "error")
    BY <1>0, <1>2, AuditMoves
  <2>4. CourseOK(req[r])'
    BY <2>1, <2>3 DEF CourseOK, Moves, Keeps, At, DeletePcs
  <2>5. Written(req[r])' <=> Written(req[r])
    BY <2>2, <2>3 DEF Written, Moves, Keeps
  <2>6. HasWorker(req[r].id)' <=> HasWorker(req[r].id)
    BY <2>2, <2>3 DEF HasWorker, Moves, Keeps, process
  <2>7. req'[r].pc = "answer" /\ (Worked(req[r])' => Worked(req[r]))
    BY <2>1, <2>3 DEF CourseOK, Worked, Moves, At
  <2>8. ScheduleOK(req[r])' /\ UnscheduleOK(req[r])'
    BY <2>1, <2>2, <2>3, <2>5, <2>6, <2>7
       DEF ScheduleOK, UnscheduleOK, Moves, Keeps, Scheduling, Cancelling
  <2> QED  BY <2>4, <2>8, SuccessParts
<1> QED  BY <1>1, <1>2

LEMMA SystemSuccess ==
    ASSUME TypeOK, OneAtATime, SuccessInv,
           \/ \E a \in Actions : CronTick(a)
           \/ \E x \in Runs : WorkerStep(x)
           \/ ProcessStart \/ Crash \/ UNCHANGED vars
    PROVE  SuccessInv'
<1>1. CASE ProcessEnds
  BY <1>1, IdleSuccess DEF ProcessEnds, SuccessInv
<1>2. CASE ~ProcessEnds
  <2>1. /\ UNCHANGED <<row, schedule, req>>
        /\ \/ UNCHANGED <<polling, run>>
           \/ \E b \in Actions : polling' = AddWorker(b) /\ UNCHANGED run
           \/ \E x \in Runs : WorkerStep(x)
    <3>1. unregistered \subseteq Actions
      BY DEF TypeOK
    <3> QED  BY <1>2, <3>1 DEF CronTick, WorkerStep, TakeJob, ReadAction, Execute,
                ProcessStart, Listen, StartBoss, FetchSchedules, Register, Crash,
                database, process, boss, vars
  <2>2. \A a \in Actions : HasWorker(a) => HasWorker(a)'
    BY <2>1, WorkersStay
  <2>3. SUFFICES ASSUME NEW r \in Requests
                 PROVE  CourseOK(req[r])' /\ ScheduleOK(req[r])' /\ UnscheduleOK(req[r])'
    BY DEF SuccessInv
  <2>4. CourseOK(req[r]) /\ ScheduleOK(req[r]) /\ UnscheduleOK(req[r]) /\ req[r].id \in Actions
    BY TypeParts, RowLemma DEF SuccessInv
  <2>5. HasWorker(req[r].id) => HasWorker(req[r].id)'
    BY <2>1, <2>2, <2>4 DEF HasWorker
  <2>6. Worked(req[r])' = Worked(req[r]) /\ Written(req[r])' = Written(req[r])
    BY <2>1 DEF Worked, Written
  <2> QED  BY <2>1, <2>4, <2>5, <2>6 DEF CourseOK, ScheduleOK, UnscheduleOK
<1> QED  BY <1>1, <1>2

\* The pool of executions counts a worker that is processing a job.
LEMMA WorkersCount ==
    ASSUME TypeOK, NEW a \in Actions
    PROVE  HasWorker(a) <=> Workers(a) > 0
<1>1. IsFiniteSet(AttachedRuns(a))
  BY PoolAssumption, FS_Subset DEF AttachedRuns
<1>2. Cardinality(AttachedRuns(a)) \in Nat /\ (Cardinality(AttachedRuns(a)) = 0 <=> AttachedRuns(a) = {})
  BY <1>1, FS_CardinalityType, FS_EmptySet
<1>3. polling[a] \in Nat
  BY BoundsAssumption DEF TypeOK
<1>4. AttachedRuns(a) # {} <=> \E x \in Runs : run[x] # NoRun /\ run[x].id = a /\ run[x].attached
  BY DEF AttachedRuns
<1>5. Workers(a) > 0 <=> polling[a] > 0 \/ AttachedRuns(a) # {}
  BY <1>2, <1>3 DEF Workers
<1> QED  BY <1>4, <1>5 DEF HasWorker

LEMMA SuccessInvariant ==
    ASSUME OneAtATime
    PROVE  Spec => []SuccessInv
<1>1. Init => SuccessInv
  <2>1. SUFFICES ASSUME Init, NEW r \in Requests
                 PROVE  CourseOK(req[r]) /\ ScheduleOK(req[r]) /\ UnscheduleOK(req[r])
    BY DEF SuccessInv
  <2>2. req[r].op = "none" /\ req[r].pc = "idle" /\ req[r].result = "none"
    BY <2>1 DEF Init, IdleRequest
  <2> QED  BY <2>2 DEF CourseOK, ScheduleOK, UnscheduleOK, Worked, Scheduling, Cancelling
<1>2. TypeOK /\ SuccessInv /\ [Next]_vars => SuccessInv'
  <2> SUFFICES ASSUME TypeOK, SuccessInv, [Next]_vars PROVE SuccessInv'
    OBVIOUS
  <2>1. ASSUME NEW r \in Requests, NewRequest(r) \/ HandlerStep(r)
        PROVE  SuccessInv'
    BY <2>1, NewRequestSuccess, RowStepsSuccess, CancelSuccess, ScheduleSuccess, EndSuccess
       DEF HandlerStep
  <2> QED  BY <2>1, SystemSuccess DEF Next
<1> QED  BY <1>1, <1>2, TypeCorrect, PTL DEF Spec

\* Where one request runs at a time, whatever fails and whenever the process stops:
\* an answer of success to a request that makes the action active is true, pg-boss
\* has the schedule, the queue has a worker and the row knows its jobId.
THEOREM SuccessIsScheduled ==
    ASSUME OneAtATime
    PROVE  Spec => []SuccessMeansScheduled
<1>1. TypeOK /\ SuccessInv => SuccessMeansScheduled
  <2>1. SUFFICES ASSUME TypeOK, SuccessInv, NEW r \in Requests, req[r].pc = "answer",
                        req[r].result = "ok", Active(req[r].new)
                 PROVE  /\ req[r].id \in schedule /\ Workers(req[r].id) > 0
                        /\ row[req[r].id].jobId
    BY DEF SuccessMeansScheduled
  <2> QED  BY <2>1, WorkersCount, TypeParts, RowLemma DEF SuccessInv, ScheduleOK, Worked
<1> QED  BY <1>1, SuccessInvariant, TypeCorrect, PTL

\* Where one request runs at a time: a deletion that is answered with success has
\* stopped the schedule of the row it read, if that row knew its jobId.
THEOREM DeletionStopsSchedule ==
    ASSUME OneAtATime
    PROVE  Spec => []DeletionUnschedules
<1>1. SuccessInv => DeletionUnschedules
  BY DEF SuccessInv, UnscheduleOK, Worked, DeletionUnschedules
<1> QED  BY <1>1, SuccessInvariant, PTL

----------------------------------------------------------------------------
\* One handler at a time, where no call fails and the process stops only between
\* requests: rows, schedules and workers agree between requests.

Attached(x, a) == run[x] # NoRun /\ run[x].id = a /\ run[x].attached

OneWorker(a) ==
    \/ polling[a] = 1 /\ \A x \in Runs : ~Attached(x, a)
    \/ /\ polling[a] = 0
       /\ \E x \in Runs : Attached(x, a) /\ \A y \in Runs : Attached(y, a) => y = x

Matches(a) ==
    /\ a \in schedule <=> Active(row[a])
    /\ a \in schedule => row[a].jobId

Staffed(a) == IF a \in schedule THEN OneWorker(a) ELSE ~HasWorker(a)

Settled(a) == Matches(a) /\ Staffed(a)

\* A handler works on the action.
Busy(a) == \E r \in Requests : ~At(r, "idle") /\ req[r].id = a

\* What holds of the action `a` of the handler `x`, by the call that is next.
PlaceOK(x, a) ==
    /\ x.pc # "cleanup"
    /\ x.pc \in {"insert", "read", "write", "audit", "answer"} => Settled(a)
    /\ x.pc = "insert" => row[a] = NoRow
    /\ x.pc = "write" => row[a] = x.old /\ x.old # NoRow
    /\ x.op = "update" /\ x.pc \in Cancelling => row[a] = x.new
    /\ x.pc = "offWork" => a \notin schedule
    /\ x.pc = "remove" => a \notin schedule /\ ~HasWorker(a)
    /\ x.pc \in Scheduling => row[a] = x.new /\ x.new.enabled
    /\ x.pc = "checkSchedule" /\ x.op # "update" => IsScheduled(x.new)
    /\ x.pc \in {"checkSchedule", "createQueue", "work"} =>
         a \notin schedule /\ ~HasWorker(a)
    /\ x.pc \in {"schedule", "saveJobId"} => OneWorker(a)
    /\ x.pc = "schedule" => a \notin schedule
    /\ x.pc = "saveJobId" => a \in schedule

\* The workers of the schedules read at start, while they are registered.
StartOK ==
    /\ server \in {"down", "listening", "started"} => \A a \in Actions : ~HasWorker(a)
    /\ server = "registering" =>
         /\ unregistered \subseteq schedule
         /\ \A a \in Actions : IF a \in schedule \ unregistered
                                 THEN OneWorker(a) ELSE ~HasWorker(a)

CalmInv ==
    /\ \A a \in Actions : ~Busy(a) => Matches(a) /\ (Initialized => Staffed(a))
    /\ \A r \in Requests : ~At(r, "idle") => Initialized /\ PlaceOK(req[r], req[r].id)
    /\ StartOK

Undisturbed == OneAtATime /\ MaxFaults = 0 /\ Calm

LEMMA NoFaults ==
    ASSUME TypeOK, Undisturbed
    PROVE  ~Fault
BY DEF Undisturbed, TypeOK, Fault

\* A step that leaves an action alone.
Same(b) ==
    /\ row'[b] = row[b] /\ (b \in schedule' <=> b \in schedule)
    /\ polling'[b] = polling[b]
    /\ \A x \in Runs : Attached(x, b)' <=> Attached(x, b)

LEMMA SameWorkers ==
    ASSUME NEW b, polling'[b] = polling[b],
           \A x \in Runs : Attached(x, b)' <=> Attached(x, b)
    PROVE  (HasWorker(b)' <=> HasWorker(b)) /\ (OneWorker(b)' <=> OneWorker(b))
<1>1. HasWorker(b) <=> polling[b] > 0 \/ \E x \in Runs : Attached(x, b)
  BY DEF HasWorker, Attached
<1>2. HasWorker(b)' <=> polling'[b] > 0 \/ \E x \in Runs : Attached(x, b)'
  BY DEF HasWorker, Attached
<1> QED  BY <1>1, <1>2 DEF OneWorker

LEMMA SameSettled ==
    ASSUME NEW b, Same(b)
    PROVE  /\ HasWorker(b)' <=> HasWorker(b)
           /\ OneWorker(b)' <=> OneWorker(b)
           /\ Matches(b)' <=> Matches(b)
           /\ Staffed(b)' <=> Staffed(b)
           /\ Settled(b)' <=> Settled(b)
<1>1. (HasWorker(b)' <=> HasWorker(b)) /\ (OneWorker(b)' <=> OneWorker(b))
  BY SameWorkers DEF Same
<1>2. Staffed(b)' <=> Staffed(b)
  BY <1>1 DEF Same, Staffed
<1>3. Matches(b)' <=> Matches(b)
  BY DEF Same, Matches, Active, IsScheduled
<1> QED  BY <1>1, <1>2, <1>3 DEF Settled

LEMMA PlaceFor ==
    ASSUME NEW r \in Requests, NEW a
    PROVE  /\ req[r].id = a =>
                (PlaceOK(req[r], req[r].id) <=> PlaceOK(req[r], a))
           /\ req'[r].id = a =>
                (PlaceOK(req[r], req[r].id)' <=> PlaceOK(req[r], a)')
BY DEF PlaceOK, Settled, Matches, Staffed, OneWorker, HasWorker, Attached

\* A step of the one handler, which goes on.
LEMMA StepCalm ==
    ASSUME TypeOK, OneAtATime, CalmInv, NEW r \in Requests, NEW a, req'[r].id = a,
           req[r].id = a \/ At(r, "idle"),
           Initialized, UNCHANGED server, \A b \in Actions \ {a} : Same(b),
           ~At(r, "idle")', PlaceOK(req[r], a)'
    PROVE  CalmInv'
<1>1. StartOK'
  BY DEF StartOK, Initialized
<1>2. \A t \in Requests : ~At(t, "idle")' => Initialized' /\ PlaceOK(req[t], req[t].id)'
  <2>1. PlaceOK(req[r], req[r].id)'
    BY PlaceFor
  <2> QED  BY <2>1 DEF OneAtATime, Initialized
<1>3. ASSUME NEW b \in Actions, ~Busy(b)'
      PROVE  Matches(b)' /\ Staffed(b)'
  <2>1. b # a
    BY <1>3 DEF Busy
  <2>2. ~Busy(b)
    BY <2>1 DEF OneAtATime, Busy
  <2> QED  BY <2>1, <2>2, SameSettled DEF CalmInv
<1> QED  BY <1>1, <1>2, <1>3 DEF CalmInv

\* The handler has answered.
LEMMA AnswerCalm ==
    ASSUME TypeOK, OneAtATime, CalmInv, NEW r \in Requests, Answer(r)
    PROVE  CalmInv'
<1>1. At(r, "answer") /\ req'[r].pc = "idle" /\ UNCHANGED <<database, boss, process>>
  <2>1. req'[r] = IdleRequest
    BY AnswerMoves, TypeParts
  <2>2. req'[r].pc = "idle"
    BY <2>1 DEF IdleRequest
  <2> QED  BY <2>2 DEF Answer
<1>2. PICK a \in Actions : req[r].id = a
  BY TypeParts, RowLemma
<1>3. Initialized /\ PlaceOK(req[r], a)
  BY <1>1, <1>2, PlaceFor DEF CalmInv, At
<1>4. StartOK'
  BY <1>1, <1>3 DEF StartOK, Initialized, process
<1>5. \A t \in Requests : At(t, "idle")'
  BY <1>1 DEF OneAtATime, At
<1>6. \A b \in Actions : Matches(b) /\ Staffed(b)
  <2>1. Settled(a)
    BY <1>1, <1>3 DEF PlaceOK, At
  <2>2. \A b \in Actions : Busy(b) => b = a
    BY <1>2 DEF OneAtATime, Busy
  <2> QED  BY <1>3, <2>1, <2>2 DEF CalmInv, Settled
<1>7. \A b \in Actions : Same(b)
  BY <1>1 DEF Same, Attached, database, boss, process
<1> QED  BY <1>4, <1>5, <1>6, <1>7, SameSettled DEF CalmInv

LEMMA NewRequestCalm ==
    ASSUME TypeOK, Undisturbed, SuccessInv, DeleteInv, CalmInv,
           NEW r \in Requests, NewRequest(r)
    PROVE  CalmInv'
<1>0. ReqOK /\ OneAtATime
  BY TypeParts DEF Undisturbed
<1>1. ASSUME NEW op, NEW a \in Actions, NEW pc \in {"insert", "audit", "read"}, NEW new,
             Start(r, op, a, pc, new), UNCHANGED <<row, boss, process>>,
             pc = "insert" => a \notin used
      PROVE  CalmInv'
  <2>1. req'[r].id = a /\ req'[r].pc = pc /\ req[r].op = "none" /\ Initialized
    BY <1>0, <1>1 DEF Start, ReqOK, Undisturbed, Serving
  <2>2. At(r, "idle")
    BY <2>1, <1>0 DEF SuccessInv, CourseOK, At
  <2>3. Settled(a)
    BY <2>1, <2>2, <1>0 DEF CalmInv, OneAtATime, Busy, Settled
  <2>4. \A b : Same(b)
    BY <1>1 DEF Same, Attached, boss, process
  <2>5. pc = "insert" => row'[a] = NoRow
    BY <1>1 DEF DeleteInv, RowsAreUsed
  <2>6. PlaceOK(req[r], a)'
    BY <2>1, <2>3, <2>4, <2>5, SameSettled DEF PlaceOK, Cancelling, Scheduling
  <2>7. ~At(r, "idle")' /\ UNCHANGED server
    BY <1>1, <2>1 DEF At, process
  <2> QED  BY <1>0, <2>1, <2>2, <2>4, <2>6, <2>7, StepCalm
<1>2. used \subseteq Actions
  BY DEF TypeOK
<1> QED  BY <1>1, <1>2 DEF NewRequest, StartCreate, StartSkippedImport, StartUpdate,
            StartDelete, database

\* The steps of handlers that only write the row, or read it.
LEMMA RowStepsCalm ==
    ASSUME TypeOK, Undisturbed, SuccessInv, CalmInv, NEW r \in Requests,
           Insert(r) \/ Cleanup(r) \/ Read(r) \/ Write(r) \/ Remove(r)
    PROVE  CalmInv'
<1>0. ReqOK /\ row \in [Actions -> Row \cup {NoRow}]
      /\ req[r].new \in Row /\ req[r].new # NoRow
  BY TypeParts, RowLemma, NoneAssumption DEF RowsOK
<1>a. PICK a \in Actions : req[r].id = a
  BY TypeParts, RowLemma
<1>1. ~Fault /\ OneAtATime /\ UNCHANGED <<boss, process>> /\ ~At(r, "idle")
  BY NoFaults DEF Insert, Cleanup, Read, Write, Remove, Undisturbed, At
<1>2. Initialized /\ PlaceOK(req[r], a) /\ CourseOK(req[r])
  BY <1>1, <1>a, PlaceFor DEF CalmInv, SuccessInv
<1>3. (HasWorker(a)' <=> HasWorker(a)) /\ (OneWorker(a)' <=> OneWorker(a))
      /\ (Staffed(a)' <=> Staffed(a))
  <2>1. polling'[a] = polling[a] /\ \A x \in Runs : Attached(x, a)' <=> Attached(x, a)
    BY <1>1 DEF Attached, process
  <2> QED  BY <1>1, <2>1, SameWorkers DEF Staffed, boss
<1>4. ASSUME \A b \in Actions \ {a} : row'[b] = row[b], NEW pc, Keeps(r),
             req'[r].pc = pc, pc # "idle", PlaceOK(req[r], a)'
      PROVE  CalmInv'
  <2>1. \A b \in Actions \ {a} : Same(b)
    BY <1>1, <1>4 DEF Same, Attached, boss, process
  <2> QED  BY <1>1, <1>2, <1>4, <1>a, <2>1, StepCalm DEF Keeps, At, process
<1>5. CASE Insert(r)
  <2> DEFINE pc == IF Active(req[r].new) THEN "checkSchedule" ELSE "audit"
  <2>1. row' = [row EXCEPT ![a] = req[r].new] /\ Moves(r, pc, req[r].result) /\ At(r, "insert")
    BY <1>0, <1>1, <1>5, <1>a, GotoMoves DEF Insert
  <2>2. row'[a] = req[r].new /\ \A b \in Actions \ {a} : row'[b] = row[b]
    BY <1>0, <2>1
  <2>3. Settled(a) /\ row[a] = NoRow
    BY <1>2, <2>1 DEF PlaceOK, At
  <2>4. a \notin schedule /\ ~HasWorker(a)
    BY <2>3 DEF Settled, Matches, Staffed, Active, IsScheduled
  <2>5. ~Active(req[r].new) => Settled(a)'
    BY <1>1, <1>3, <2>2, <2>3, <2>4 DEF Settled, Matches, boss
  <2>6. PlaceOK(req[r], a)'
    BY <1>1, <1>3, <2>1, <2>2, <2>4, <2>5
       DEF PlaceOK, Moves, Keeps, Cancelling, Scheduling, Active, boss
  <2> QED  BY <1>4, <2>1, <2>2, <2>6 DEF Moves
<1>6. CASE Cleanup(r)
  BY <1>2, <1>6 DEF Cleanup, At, PlaceOK
<1>7. CASE Read(r)
  <2> DEFINE old == row[a]
  <2>1. At(r, "read") /\ req[r].op \in {"update", "delete"} /\ UNCHANGED row
    BY <1>0, <1>2, <1>7 DEF Read, CourseOK, At, ReqOK, Request, Scheduling, database
  <2>2. Settled(a)
    BY <1>2, <2>1 DEF PlaceOK, At
  <2>3. Same(a)
    BY <1>1, <2>1 DEF Same, Attached, boss, process
  <2>4. CASE Moves(r, "answer", "not_found")
    <3>1. PlaceOK(req[r], a)'
      BY <2>2, <2>3, <2>4, SameSettled DEF PlaceOK, Moves, Cancelling, Scheduling
    <3> QED  BY <1>4, <2>1, <2>4, <3>1 DEF Moves
  <2>5. CASE /\ old # NoRow
             /\ Keeps(r) /\ req'[r].old = old
             /\ req'[r].pc = IF req[r].op = "update" THEN "write"
                             ELSE IF IsScheduled(old) /\ old.jobId
                                    THEN "checkCancel" ELSE "remove"
    <3>1. ~(IsScheduled(old) /\ old.jobId) => a \notin schedule /\ ~HasWorker(a)
      BY <2>2 DEF Settled, Matches, Staffed, Active
    <3>2. PlaceOK(req[r], a)'
      BY <2>1, <2>2, <2>3, <2>5, <3>1, SameSettled
         DEF PlaceOK, Keeps, Cancelling, Scheduling, Same
    <3> QED  BY <1>4, <2>1, <2>5, <3>2
  <2> QED  BY <1>0, <1>1, <1>7, <1>a, <2>4, <2>5, ReadMoves
<1>8. CASE Write(r)
  <2> DEFINE old == req[r].old
             new == req[r].new
             pc == UpdateCase(old, new)
  <2>1. At(r, "write") /\ Settled(a) /\ row[a] = old /\ old # NoRow
    BY <1>2, <1>8 DEF Write, At, PlaceOK
  <2>2. row' = [row EXCEPT ![a] = new] /\ Moves(r, pc, req[r].result)
    BY <1>0, <1>1, <1>8, <1>a, <2>1, GotoMoves DEF Write
  <2>3. row'[a] = new /\ \A b \in Actions \ {a} : row'[b] = row[b]
    BY <1>0, <2>2
  <2>4. req[r].op = "update"
    BY <1>0, <1>2, <2>1 DEF CourseOK, At, DeletePcs, ReqOK, Request, Scheduling
  <2>5. /\ pc \in {"checkCancel", "checkSchedule", "audit"}
        /\ pc = "checkSchedule" => new.enabled /\ a \notin schedule
        /\ pc = "audit" => ~Active(new) /\ a \notin schedule
    BY <2>1 DEF UpdateCase, Settled, Matches, Active
  <2> HIDE DEF pc
  <2>6. a \notin schedule => ~HasWorker(a)
    BY <2>1 DEF Settled, Staffed
  <2>7. pc = "audit" => Settled(a)'
    BY <1>1, <1>3, <2>1, <2>3, <2>5 DEF Settled, Matches, boss
  <2>8. PlaceOK(req[r], a)'
    BY <1>1, <1>3, <2>2, <2>3, <2>4, <2>5, <2>6, <2>7
       DEF PlaceOK, Moves, Keeps, Cancelling, Scheduling, boss
  <2> QED  BY <1>4, <2>2, <2>3, <2>5, <2>8 DEF Moves
<1>9. CASE Remove(r)
  <2>1. At(r, "remove") /\ a \notin schedule /\ ~HasWorker(a)
    BY <1>2, <1>9 DEF Remove, At, PlaceOK
  <2>2. row' \in {row, [row EXCEPT ![a] = NoRow]} /\ row'[a] = NoRow
    BY <1>0, <1>1, <1>9, <1>a DEF Remove
  <2>3. \E pc \in {"audit", "answer"}, result \in {req[r].result, "error"} : Moves(r, pc, result)
    BY <1>0, <1>1, <1>9, GotoMoves, FailMoves DEF Remove, AfterFail
  <2>4. Settled(a)'
    BY <1>1, <1>3, <2>1, <2>2 DEF Settled, Matches, Staffed, Active, IsScheduled, boss
  <2>5. PlaceOK(req[r], a)'
    BY <2>3, <2>4 DEF PlaceOK, Moves, Cancelling, Scheduling
  <2>6. \A b \in Actions \ {a} : row'[b] = row[b]
    BY <1>0, <2>2
  <2> QED  BY <1>4, <2>3, <2>5, <2>6 DEF Moves
<1> QED  BY <1>5, <1>6, <1>7, <1>8, <1>9

LEMMA CancelCalm ==
    ASSUME TypeOK, Undisturbed, SuccessInv, CalmInv, NEW r \in Requests,
           CheckCancel(r) \/ Unschedule(r) \/ OffWork(r)
    PROVE  CalmInv'
<1>0. ReqOK /\ PollingOK /\ RunOK
  BY TypeParts
<1>a. PICK a \in Actions : req[r].id = a
  BY TypeParts, RowLemma
<1>1. ~Fault /\ OneAtATime /\ UNCHANGED <<row, server>> /\ ~At(r, "idle")
      /\ req[r].pc \in Cancelling
  BY NoFaults DEF CheckCancel, Unschedule, OffWork, Undisturbed, At, database, process,
     Cancelling
<1>2. Initialized /\ PlaceOK(req[r], a) /\ CourseOK(req[r])
  BY <1>1, <1>a, PlaceFor DEF CalmInv, SuccessInv
<1>3. req[r].op \in {"update", "delete"} /\ (req[r].op = "update" => row[a] = req[r].new)
  BY <1>0, <1>1, <1>2 DEF CourseOK, PlaceOK, Cancelling, Scheduling, ReqOK, Request
<1>4. ASSUME \A b \in Actions \ {a} : Same(b), NEW pc, Moves(r, pc, req[r].result),
             pc # "idle", PlaceOK(req[r], a)'
      PROVE  CalmInv'
  BY <1>1, <1>2, <1>4, <1>a, StepCalm DEF Moves, Keeps, At
<1>5. CASE CheckCancel(r)
  <2>1. Moves(r, "unschedule", req[r].result) /\ UNCHANGED <<boss, process>>
    BY <1>0, <1>1, <1>2, <1>5, GotoMoves DEF CheckCancel, Installed, Initialized
  <2>2. \A b : Same(b)
    BY <1>1, <2>1 DEF Same, Attached, boss, process
  <2>3. PlaceOK(req[r], a)'
    BY <1>1, <1>3, <2>1 DEF PlaceOK, Moves, Keeps, Cancelling, Scheduling
  <2> QED  BY <1>4, <2>1, <2>2, <2>3
<1>6. CASE Unschedule(r)
  <2>1. Moves(r, "offWork", req[r].result) /\ UNCHANGED process /\ schedule' = schedule \ {a}
    BY <1>0, <1>1, <1>6, <1>a, GotoMoves DEF Unschedule
  <2>2. \A b \in Actions \ {a} : Same(b)
    BY <1>1, <2>1 DEF Same, Attached, process
  <2>3. PlaceOK(req[r], a)'
    BY <1>1, <1>3, <2>1 DEF PlaceOK, Moves, Keeps, Cancelling, Scheduling
  <2> QED  BY <1>4, <2>1, <2>2, <2>3
<1>7. CASE OffWork(r)
  <2> DEFINE pc == IF req[r].op = "delete" THEN "remove"
                   ELSE IF req[r].new.enabled THEN "checkSchedule" ELSE "audit"
  <2>1. Moves(r, pc, req[r].result)
    BY <1>0, <1>7, FailuresMove DEF OffWork
  <2>2. a \notin schedule /\ UNCHANGED schedule
    BY <1>2, <1>7 DEF OffWork, PlaceOK, At, boss
  <2>3. /\ polling' = [polling EXCEPT ![a] = 0]
        /\ \A x \in Runs : run'[x] = IF x \in AttachedRuns(a)
                                       THEN [run[x] EXCEPT !.attached = FALSE] ELSE run[x]
    BY <1>7, <1>a DEF OffWork
  <2>4. \A x \in Runs : /\ ~Attached(x, a)'
                        /\ \A b \in Actions \ {a} : Attached(x, b)' <=> Attached(x, b)
    <3> SUFFICES ASSUME NEW x \in Runs
                 PROVE  /\ ~Attached(x, a)'
                        /\ \A b \in Actions \ {a} : Attached(x, b)' <=> Attached(x, b)
      OBVIOUS
    <3>1. CASE x \in AttachedRuns(a)
      <4>1. run[x] \in Run /\ run[x].id = a
        BY <1>0, <3>1 DEF AttachedRuns, RunOK
      <4>2. run'[x].id = a /\ ~run'[x].attached
        BY <2>3, <3>1, <4>1 DEF Run
      <4> QED  BY <4>1, <4>2 DEF Attached
    <3>2. CASE x \notin AttachedRuns(a)
      BY <2>3, <3>2 DEF Attached, AttachedRuns
    <3> QED  BY <3>1, <3>2
  <2>5. \A b \in Actions \ {a} : Same(b)
    BY <1>0, <1>1, <2>2, <2>3, <2>4 DEF Same, PollingOK
  <2>6. ~HasWorker(a)'
    <3>1. polling'[a] = 0
      BY <1>0, <2>3 DEF PollingOK
    <3> QED  BY <2>4, <3>1 DEF HasWorker, Attached
  <2>7. req[r].op = "update" /\ ~req[r].new.enabled => Settled(a)'
    BY <1>1, <1>3, <2>2, <2>6 DEF Settled, Matches, Staffed, Active
  <2>8. PlaceOK(req[r], a)'
    BY <1>1, <1>3, <2>1, <2>2, <2>6, <2>7 DEF PlaceOK, Moves, Keeps, Cancelling, Scheduling
  <2> QED  BY <1>4, <2>1, <2>5, <2>8
<1> QED  BY <1>5, <1>6, <1>7

LEMMA ScheduleCalm ==
    ASSUME TypeOK, Undisturbed, SuccessInv, CalmInv, NEW r \in Requests,
           \/ CheckSchedule(r) \/ CreateQueue(r) \/ Work(r) \/ Schedule(r) \/ SaveJobId(r)
    PROVE  CalmInv'
<1>0. ReqOK /\ PollingOK /\ row \in [Actions -> Row \cup {NoRow}]
      /\ req[r].new \in Row /\ req[r].new # NoRow
  BY TypeParts, RowLemma, NoneAssumption DEF RowsOK
<1>a. PICK a \in Actions : req[r].id = a
  BY TypeParts, RowLemma
<1>1. ~Fault /\ OneAtATime /\ UNCHANGED <<run, server>> /\ ~At(r, "idle")
      /\ req[r].pc \in Scheduling
  BY NoFaults DEF CheckSchedule, CreateQueue, Work, Schedule, SaveJobId, Undisturbed, At,
     process, Scheduling
<1>2. Initialized /\ PlaceOK(req[r], a) /\ CourseOK(req[r])
  BY <1>1, <1>a, PlaceFor DEF CalmInv, SuccessInv
<1>3. row[a] = req[r].new /\ req[r].new.enabled
  BY <1>1, <1>2 DEF PlaceOK
<1>4. ASSUME UNCHANGED row, \A b \in Actions \ {a} : Same(b), NEW pc, NEW result,
             Moves(r, pc, result), pc # "idle", PlaceOK(req[r], a)'
      PROVE  CalmInv'
  BY <1>1, <1>2, <1>4, <1>a, StepCalm DEF Moves, Keeps, At
<1>5. CASE CheckSchedule(r)
  <2>1. UNCHANGED <<row, boss, process>>
    BY <1>5 DEF CheckSchedule, database
  <2>2. \A b : Same(b)
    BY <2>1 DEF Same, Attached, boss, process
  <2>3. a \notin schedule /\ ~HasWorker(a) /\ (req[r].op # "update" => IsScheduled(req[r].new))
    BY <1>2, <1>5 DEF CheckSchedule, PlaceOK, At
  <2>4. CASE IsScheduled(req[r].new) /\ Moves(r, "createQueue", req[r].result)
    <3>1. PlaceOK(req[r], a)'
      BY <1>3, <2>1, <2>2, <2>3, <2>4, SameSettled
         DEF PlaceOK, Moves, Keeps, Cancelling, Scheduling, boss
    <3> QED  BY <1>4, <2>1, <2>2, <2>4, <3>1
  <2>5. CASE ~IsScheduled(req[r].new) /\ Moves(r, "answer", "error")
    <3>1. Settled(a)
      BY <1>3, <2>3, <2>5 DEF Settled, Matches, Staffed, Active
    <3>2. PlaceOK(req[r], a)'
      BY <2>2, <2>5, <3>1, SameSettled DEF PlaceOK, Moves, Keeps, Cancelling, Scheduling
    <3> QED  BY <1>4, <2>1, <2>2, <2>5, <3>2
  <2>6. ~IsScheduled(req[r].new) => req[r].op \notin {"create", "import"}
    BY <2>3
  <2> QED  BY <1>0, <1>1, <1>2, <1>5, <2>4, <2>5, <2>6, GotoMoves, FailuresMove
           DEF CheckSchedule, Installed, Initialized
<1>6. CASE CreateQueue(r)
  <2>1. Moves(r, "work", req[r].result) /\ UNCHANGED <<row, schedule, process>>
    BY <1>0, <1>1, <1>6, GotoMoves DEF CreateQueue, database
  <2>2. \A b : Same(b)
    BY <2>1 DEF Same, Attached, process
  <2>3. a \notin schedule /\ ~HasWorker(a)
    BY <1>2, <1>6 DEF CreateQueue, PlaceOK, At
  <2>4. PlaceOK(req[r], a)'
    BY <1>3, <2>1, <2>2, <2>3, SameSettled DEF PlaceOK, Moves, Keeps, Cancelling, Scheduling
  <2> QED  BY <1>4, <2>1, <2>2, <2>4
<1>7. CASE Work(r)
  <2>1. Moves(r, "schedule", req[r].result) /\ polling' = AddWorker(a)
        /\ UNCHANGED <<row, schedule>>
    BY <1>0, <1>7, <1>a, GotoMoves DEF Work, database, boss
  <2>2. \A b \in Actions \ {a} : Same(b)
    BY <1>0, <1>1, <2>1 DEF Same, Attached, AddWorker, PollingOK
  <2>3. a \notin schedule /\ ~HasWorker(a)
    BY <1>2, <1>7 DEF Work, PlaceOK, At
  <2>4. polling[a] = 0 /\ \A x \in Runs : ~Attached(x, a)
    BY <1>0, <2>3, BoundsAssumption DEF HasWorker, Attached, PollingOK
  <2>5. polling'[a] = 1
    BY <1>0, <2>1, <2>4, BoundsAssumption DEF AddWorker, PollingOK
  <2>6. OneWorker(a)'
    BY <1>1, <2>4, <2>5 DEF OneWorker, Attached
  <2>7. PlaceOK(req[r], a)'
    BY <1>3, <2>1, <2>3, <2>6 DEF PlaceOK, Moves, Keeps, Cancelling, Scheduling
  <2> QED  BY <1>4, <2>1, <2>2, <2>7
<1>8. CASE Schedule(r)
  <2> DEFINE pc == IF req[r].op = "create" \/ ~IsScheduled(req[r].old) \/ ~req[r].new.jobId
                     THEN "saveJobId" ELSE "audit"
  <2>1. Moves(r, pc, req[r].result) /\ schedule' = schedule \cup {a} /\ UNCHANGED <<row, process>>
    BY <1>0, <1>1, <1>8, <1>a, GotoMoves DEF Schedule, database
  <2>2. \A b \in Actions \ {a} : Same(b)
    BY <2>1 DEF Same, Attached, process
  <2>3. OneWorker(a) /\ IsScheduled(req[r].new)
    BY <1>2, <1>8 DEF Schedule, PlaceOK, CourseOK, At
  <2>4. OneWorker(a)'
    BY <2>1, <2>3, SameWorkers DEF Attached, process
  <2>5. pc = "audit" => Settled(a)'
    BY <1>3, <2>1, <2>3, <2>4 DEF Settled, Matches, Staffed, Active
  <2>6. PlaceOK(req[r], a)'
    BY <1>3, <2>1, <2>4, <2>5 DEF PlaceOK, Moves, Keeps, Cancelling, Scheduling
  <2> QED  BY <1>4, <2>1, <2>2, <2>6
<1>9. CASE SaveJobId(r)
  <2>1. a \in schedule /\ OneWorker(a) /\ IsScheduled(req[r].new)
    BY <1>2, <1>9 DEF SaveJobId, PlaceOK, CourseOK, At
  <2>2. /\ row' = [row EXCEPT ![a].jobId = TRUE]
        /\ Moves(r, "audit", req[r].result) /\ UNCHANGED <<schedule, process>>
    BY <1>0, <1>1, <1>3, <1>9, <1>a, GotoMoves DEF SaveJobId, boss
  <2>3. /\ row'[a] \in Row /\ row'[a].jobId /\ Active(row'[a])
        /\ \A b \in Actions \ {a} : row'[b] = row[b]
    <3>1. row[a] \in Row /\ row'[a] = [row[a] EXCEPT !.jobId = TRUE]
          /\ \A b \in Actions \ {a} : row'[b] = row[b]
      BY <1>0, <1>3, <2>2
    <3>2. row'[a] \in Row /\ row'[a].jobId /\ row'[a].trigger = row[a].trigger
          /\ row'[a].enabled = row[a].enabled
      BY <3>1 DEF Row
    <3> QED  BY <1>3, <2>1, <3>1, <3>2, NoneAssumption DEF Active, IsScheduled
  <2>4. \A b \in Actions \ {a} : Same(b)
    BY <2>2, <2>3 DEF Same, Attached, process
  <2>5. OneWorker(a)'
    BY <2>1, <2>2, SameWorkers DEF Attached, process
  <2>6. Settled(a)'
    BY <2>1, <2>2, <2>3, <2>5 DEF Settled, Matches, Staffed, Active, IsScheduled
  <2>7. PlaceOK(req[r], a)'
    BY <2>2, <2>6 DEF PlaceOK, Moves, Cancelling, Scheduling
  <2> QED  BY <1>1, <1>2, <1>a, <2>2, <2>4, <2>7, StepCalm DEF Moves, Keeps, At
<1> QED  BY <1>5, <1>6, <1>7, <1>8, <1>9

LEMMA AuditCalm ==
    ASSUME TypeOK, Undisturbed, CalmInv, NEW r \in Requests, Audit(r)
    PROVE  CalmInv'
<1>a. PICK a \in Actions : req[r].id = a
  BY TypeParts, RowLemma
<1>1. At(r, "audit") /\ OneAtATime /\ UNCHANGED <<row, schedule, process>>
      /\ \E result : Moves(r, "answer", result)
  BY NoFaults, AuditMoves, TypeParts DEF Audit, Undisturbed, database
<1>2. Initialized /\ PlaceOK(req[r], a)
  BY <1>1, <1>a, PlaceFor DEF CalmInv, At
<1>3. \A b : Same(b)
  BY <1>1 DEF Same, Attached, process
<1>4. Settled(a)'
  BY <1>1, <1>2, <1>3, SameSettled DEF PlaceOK, At
<1>5. PlaceOK(req[r], a)'
  BY <1>1, <1>4 DEF PlaceOK, Moves, Cancelling, Scheduling
<1> QED  BY <1>1, <1>2, <1>3, <1>5, <1>a, StepCalm DEF Moves, Keeps, At, process

\* Taking a job and ending it keep the number of workers.
LEMMA WorkerStepCounts ==
    ASSUME TypeOK, NEW x \in Runs, WorkerStep(x), NEW a \in Actions
    PROVE  (HasWorker(a)' <=> HasWorker(a)) /\ (OneWorker(a) => OneWorker(a)')
<1>0. PollingOK /\ RunOK
  BY TypeParts
<1>1. HasWorker(a) <=> polling[a] > 0 \/ \E y \in Runs : Attached(y, a)
  BY DEF HasWorker, Attached
<1>2. HasWorker(a)' <=> polling'[a] > 0 \/ \E y \in Runs : Attached(y, a)'
  BY DEF HasWorker, Attached
<1>3. ASSUME NEW b \in Actions, TakeJob(b, x)
      PROVE  (HasWorker(a)' <=> HasWorker(a)) /\ (OneWorker(a) => OneWorker(a)')
  <2>1. /\ run'[x] = [id |-> b, attached |-> TRUE, pc |-> "read"]
        /\ run[x] = NoRun /\ polling[b] > 0
        /\ \A y \in Runs \ {x} : run'[y] = run[y]
        /\ polling' = [polling EXCEPT ![b] = @ - 1]
    BY <1>0, <1>3 DEF TakeJob, RunOK
  <2>2. run'[x].id = b /\ run'[x].attached = TRUE /\ run'[x] \in Run
    BY <2>1 DEF Run
  <2>3. (\A y \in Runs \ {x} : Attached(y, a)' <=> Attached(y, a)) /\ ~Attached(x, a)
        /\ (Attached(x, a)' <=> a = b)
    BY <2>1, <2>2, NoneAssumption DEF Attached
  <2>4. polling'[a] = IF a = b THEN polling[a] - 1 ELSE polling[a]
    BY <1>0, <2>1 DEF PollingOK
  <2>5. polling[a] \in Nat
    BY <1>0, BoundsAssumption DEF PollingOK
  <2> QED  BY <1>1, <1>2, <2>1, <2>3, <2>4, <2>5 DEF OneWorker
<1>4. ASSUME run[x] # NoRun, NEW retried \in BOOLEAN, EndRun(x, retried)
      PROVE  (HasWorker(a)' <=> HasWorker(a)) /\ (OneWorker(a) => OneWorker(a)')
  <2>1. /\ run'[x] = NoRun /\ \A y \in Runs \ {x} : run'[y] = run[y]
        /\ polling' = IF run[x].attached THEN AddWorker(run[x].id) ELSE polling
        /\ run[x].id \in Actions
    BY <1>0, <1>4 DEF EndRun, RunOK, Run
  <2>2. (\A y \in Runs \ {x} : Attached(y, a)' <=> Attached(y, a)) /\ ~Attached(x, a)'
    BY <2>1 DEF Attached
  <2>3. Attached(x, a) <=> run[x].attached /\ run[x].id = a
    BY <1>4 DEF Attached
  <2>4. polling'[a] = IF Attached(x, a) /\ polling[a] < MaxWorkers
                        THEN polling[a] + 1 ELSE polling[a]
    BY <1>0, <2>1, <2>3 DEF AddWorker, PollingOK
  <2>5. polling[a] \in Nat /\ MaxWorkers \in Nat \ {0}
    BY <1>0, BoundsAssumption DEF PollingOK
  <2> QED  BY <1>1, <1>2, <2>2, <2>4, <2>5 DEF OneWorker
<1>5. ASSUME run[x] # NoRun, run' = [run EXCEPT ![x].pc = "execute"], UNCHANGED polling
      PROVE  (HasWorker(a)' <=> HasWorker(a)) /\ (OneWorker(a) => OneWorker(a)')
  <2>1. run[x] \in Run /\ run'[x] = [run[x] EXCEPT !.pc = "execute"]
        /\ \A y \in Runs \ {x} : run'[y] = run[y]
    BY <1>0, <1>5 DEF RunOK
  <2>2. run'[x] \in Run /\ run'[x].id = run[x].id /\ run'[x].attached = run[x].attached
    BY <2>1 DEF Run
  <2>3. \A y \in Runs : Attached(y, a)' <=> Attached(y, a)
    BY <1>5, <2>1, <2>2, NoneAssumption DEF Attached
  <2> QED  BY <1>5, <2>3, SameWorkers
<1> QED  BY <1>3, <1>4, <1>5 DEF WorkerStep, ReadAction, Execute

\* A step that leaves rows, schedules and handlers alone and keeps the workers.
LEMMA WorkersCalm ==
    ASSUME TypeOK, CalmInv, UNCHANGED <<row, schedule, req, server, unregistered>>,
           \A a \in Actions : (HasWorker(a)' <=> HasWorker(a)) /\ (OneWorker(a) => OneWorker(a)')
    PROVE  CalmInv'
<1>1. \A a \in Actions :
        /\ Matches(a)' <=> Matches(a)
        /\ Staffed(a) => Staffed(a)'
        /\ Settled(a) => Settled(a)'
  BY DEF Matches, Staffed, Settled
<1>2. \A a \in Actions : Busy(a)' <=> Busy(a)
  BY DEF Busy, At
<1>3. StartOK'
  BY DEF CalmInv, StartOK
<1>4. ASSUME NEW r \in Requests, ~At(r, "idle")'
      PROVE  PlaceOK(req[r], req[r].id)'
  <2>1. PICK a \in Actions : req[r].id = a
    BY TypeParts, RowLemma
  <2>2. PlaceOK(req[r], a)
    BY <1>4, <2>1, PlaceFor DEF CalmInv, At
  <2>3. PlaceOK(req[r], a)'
    BY <1>1, <2>2 DEF PlaceOK
  <2> QED  BY <2>1, <2>3, PlaceFor
<1> QED  BY <1>1, <1>2, <1>3, <1>4 DEF CalmInv, At, Initialized

LEMMA ProcessCalm ==
    ASSUME TypeOK, Undisturbed, CalmInv, ProcessStart \/ Crash
    PROVE  CalmInv'
<1>0. ~Fault /\ PollingOK
  BY NoFaults, TypeParts
<1>1. \A r \in Requests : At(r, "idle")
  <2>1. CASE ~Initialized
    BY <2>1 DEF CalmInv
  <2>2. CASE Initialized
    BY <2>2 DEF Crash, ProcessStart, Listen, StartBoss, FetchSchedules, Register,
       Initialized, Undisturbed
  <2> QED  BY <2>1, <2>2
<1>2. \A a \in Actions : Matches(a)
  BY <1>1 DEF CalmInv, Busy
<1>3. UNCHANGED <<row, schedule>> /\ \A r \in Requests : At(r, "idle")'
  BY <1>0, <1>1 DEF Crash, ProcessEnds, IdleRequest, ProcessStart, Listen, StartBoss,
     FetchSchedules, Register, database, boss, At
<1>4. ASSUME StartOK', Initialized' => \A a \in Actions : Staffed(a)'
      PROVE  CalmInv'
  BY <1>2, <1>3, <1>4 DEF CalmInv, Matches
<1>5. CASE Crash
  <2>1. \A a \in Actions : ~HasWorker(a)'
    BY <1>5 DEF Crash, ProcessEnds, HasWorker
  <2> QED  BY <1>4, <1>5, <2>1 DEF Crash, ProcessEnds, StartOK, Initialized
<1>6. CASE Listen \/ StartBoss \/ FetchSchedules
  <2>1. /\ server \in {"down", "listening", "started"}
        /\ server' \in {"listening", "started", "registering"}
        /\ UNCHANGED <<polling, run>>
        /\ server' = "registering" => unregistered' = schedule
    BY <1>0, <1>6 DEF Listen, StartBoss, FetchSchedules
  <2>2. \A a \in Actions : ~HasWorker(a)'
    BY <2>1 DEF CalmInv, StartOK, HasWorker
  <2> QED  BY <1>3, <1>4, <2>1, <2>2 DEF StartOK, Initialized
<1>7. CASE Register
  <2>1. /\ server = "registering" /\ unregistered \subseteq schedule
        /\ \A a \in Actions : IF a \in schedule \ unregistered
                                THEN OneWorker(a) ELSE ~HasWorker(a)
    BY <1>7 DEF Register, CalmInv, StartOK
  <2>2. ASSUME NEW a \in unregistered, polling' = AddWorker(a),
               unregistered' = unregistered \ {a}, UNCHANGED <<server, run>>
        PROVE  CalmInv'
    <3>1. a \in Actions /\ ~HasWorker(a) /\ a \in schedule
      BY <2>1, <2>2 DEF TypeOK
    <3>2. polling[a] = 0 /\ \A x \in Runs : ~Attached(x, a)
      BY <1>0, <3>1, BoundsAssumption DEF HasWorker, Attached, PollingOK
    <3>3. polling'[a] = 1
      BY <1>0, <2>2, <3>1, <3>2, BoundsAssumption DEF AddWorker, PollingOK
    <3>4. OneWorker(a)'
      BY <2>2, <3>2, <3>3 DEF OneWorker, Attached
    <3>5. \A b \in Actions \ {a} : (HasWorker(b)' <=> HasWorker(b))
                                    /\ (OneWorker(b)' <=> OneWorker(b))
      <4> SUFFICES ASSUME NEW b \in Actions \ {a}
                   PROVE  polling'[b] = polling[b]
                          /\ \A x \in Runs : Attached(x, b)' <=> Attached(x, b)
        BY SameWorkers
      <4> QED  BY <1>0, <2>2, <3>1 DEF AddWorker, PollingOK, Attached
    <3>6. StartOK'
      BY <1>3, <2>1, <2>2, <3>1, <3>4, <3>5 DEF StartOK
    <3> QED  BY <1>4, <2>1, <2>2, <3>6 DEF Initialized
  <2>3. CASE unregistered = {} /\ server' = "ready" /\ UNCHANGED <<polling, run>>
    <3>1. \A a \in Actions : Staffed(a)
      BY <2>1, <2>3 DEF Staffed
    <3>2. \A a \in Actions : Staffed(a)'
      BY <1>3, <2>3, <3>1, SameWorkers DEF Staffed, Attached
    <3> QED  BY <1>4, <2>3, <3>2 DEF StartOK
  <2> QED  BY <1>0, <1>7, <2>2, <2>3 DEF Register
<1> QED  BY <1>5, <1>6, <1>7 DEF ProcessStart

LEMMA CalmInvariant ==
    ASSUME Undisturbed
    PROVE  Spec => []CalmInv
<1> USE DEF Undisturbed
<1>0. OneAtATime
  OBVIOUS
<1>1. Init => CalmInv
  <2>1. SUFFICES ASSUME Init PROVE CalmInv
    OBVIOUS
  <2>2. \A r \in Requests : At(r, "idle")
    BY <2>1 DEF Init, At, IdleRequest
  <2>3. \A a \in Actions : Matches(a) /\ ~HasWorker(a)
    BY <2>1 DEF Init, Matches, Active, IsScheduled, HasWorker
  <2> QED  BY <2>1, <2>2, <2>3 DEF Init, CalmInv, StartOK, Initialized
<1>2. TypeOK /\ SuccessInv /\ DeleteInv /\ CalmInv /\ [Next]_vars => CalmInv'
  <2> SUFFICES ASSUME TypeOK, SuccessInv, DeleteInv, CalmInv, [Next]_vars PROVE CalmInv'
    OBVIOUS
  <2>1. ASSUME NEW r \in Requests, NewRequest(r) \/ HandlerStep(r)
        PROVE  CalmInv'
    BY <1>0, <2>1, NewRequestCalm, RowStepsCalm, CancelCalm, ScheduleCalm, AuditCalm,
       AnswerCalm DEF HandlerStep
  <2>2. ASSUME NEW x \in Runs, WorkerStep(x)
        PROVE  CalmInv'
    <3>1. UNCHANGED <<row, schedule, req, server, unregistered>>
      BY <2>2 DEF WorkerStep, TakeJob, ReadAction, Execute, database
    <3> QED  BY <2>2, <3>1, WorkerStepCounts, WorkersCalm
  <2>3. CASE (\E a \in Actions : CronTick(a)) \/ UNCHANGED vars
    <3>1. UNCHANGED <<row, schedule, req, process>>
      BY <2>3 DEF CronTick, vars, database, boss
    <3>2. \A a : (HasWorker(a)' <=> HasWorker(a)) /\ (OneWorker(a)' <=> OneWorker(a))
      BY <3>1, SameWorkers DEF Attached, process
    <3> QED  BY <3>1, <3>2, WorkersCalm DEF process
  <2> QED  BY <2>1, <2>2, <2>3, ProcessCalm DEF Next
<1> QED  BY <1>0, <1>1, <1>2, TypeCorrect, SuccessInvariant, DeleteInvariant, PTL DEF Spec

\* Where one request runs at a time, no call fails and the process stops between
\* requests only: after each request pg-boss schedules exactly the enabled actions
\* with the trigger scheduled_job, and their rows know the jobId.
THEOREM SchedulesFollowRows ==
    ASSUME Undisturbed
    PROVE  Spec => []ScheduleMatchesRow
<1>1. CalmInv => ScheduleMatchesRow
  BY DEF CalmInv, Busy, Matches, ScheduleMatchesRow, Quiet
<1> QED  BY <1>1, CalmInvariant, PTL

\* Under the same conditions: after each request every schedule has one worker that
\* polls its queue, and no other queue has any, restarts included.
THEOREM SchedulesHaveOneWorker ==
    ASSUME Undisturbed
    PROVE  Spec => []OneWorkerPerSchedule
<1>1. ASSUME TypeOK, NEW a \in Actions, OneWorker(a)
      PROVE  Workers(a) = 1
  <2>1. CASE polling[a] = 1 /\ \A x \in Runs : ~Attached(x, a)
    <3>1. AttachedRuns(a) = {}
      BY <2>1 DEF AttachedRuns, Attached
    <3> QED  BY <2>1, <3>1, FS_EmptySet DEF Workers
  <2>2. CASE polling[a] = 0 /\ \E x \in Runs : /\ Attached(x, a)
                                              /\ \A y \in Runs : Attached(y, a) => y = x
    <3>1. PICK x \in Runs : AttachedRuns(a) = {x}
      BY <2>2 DEF AttachedRuns, Attached
    <3>2. Cardinality({x}) = 1
      BY FS_Singleton
    <3> QED  BY <2>2, <3>1, <3>2 DEF Workers
  <2> QED  BY <1>1, <2>1, <2>2 DEF OneWorker
<1>2. ASSUME TypeOK, NEW a \in Actions, ~HasWorker(a)
      PROVE  Workers(a) = 0
  <2>1. AttachedRuns(a) = {}
    BY <1>2 DEF HasWorker, AttachedRuns
  <2>2. polling[a] = 0
    BY <1>2, BoundsAssumption DEF HasWorker, TypeOK
  <2> QED  BY <2>1, <2>2, FS_EmptySet DEF Workers
<1>3. TypeOK /\ CalmInv => OneWorkerPerSchedule
  BY <1>1, <1>2 DEF CalmInv, Busy, Staffed, OneWorkerPerSchedule, Quiet
<1> QED  BY <1>3, CalmInvariant, TypeCorrect, PTL
=============================================================================

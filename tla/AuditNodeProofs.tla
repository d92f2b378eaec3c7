--------------------------- MODULE AuditNodeProofs ---------------------------
(* Proofs that AuditNode keeps its ownership invariant, and what follows.   *)
EXTENDS AuditNodeInvariant, TLAPS

(* Appending a statement keeps the ones before it where they are.           *)
LEMMA AppendFacts ==
    ASSUME NEW S, NEW q \in Seq(S), NEW s \in S
    PROVE  /\ Append(q, s) \in Seq(S)
           /\ DOMAIN q \subseteq DOMAIN Append(q, s)
           /\ DOMAIN q \subseteq Nat
           /\ Len(q) + 1 \in Nat
           /\ DOMAIN Append(q, s) = DOMAIN q \cup {Len(q) + 1}
           /\ Len(q) + 1 \notin DOMAIN q
           /\ \A i \in DOMAIN q : i < Len(q) + 1
           /\ \A i \in DOMAIN q : Append(q, s)[i] = q[i]
           /\ Append(q, s)[Len(q) + 1] = s
  OBVIOUS

(* Taking the first statement moves every other one a place forward.        *)
LEMMA TailFacts ==
    ASSUME NEW S, NEW q \in Seq(S), q # <<>>
    PROVE  /\ Tail(q) \in Seq(S)
           /\ 1 \in DOMAIN q /\ q[1] = Head(q) /\ Head(q) \in S
           /\ DOMAIN q \subseteq Nat
           /\ \A i \in DOMAIN Tail(q) :
                i \in Nat /\ i >= 1 /\ i + 1 \in DOMAIN q /\ Tail(q)[i] = q[i + 1]
  OBVIOUS

(* The queue, and the invariant, do not depend on anything else.            *)
LEMMA Frame ==
    ASSUME Ownership, UNCHANGED <<rows, sql_queue, pc, todo, now, scan>>, TypeOK'
    PROVE  Ownership'
<1> USE DEF Ownership, Queued, HasRow
<1>1. RowsInv'
  BY DEF RowsInv, OneRowPerRequest
<1>2. ThreadsInv'
  BY DEF ThreadsInv
<1>3. HeldInv'
  BY DEF HeldInv, HeldEventsAreCurrent, Handles
<1>4. QueuedInv'
  <2>1. WritesFindTheirRows' /\ (\A i \in Queued : MayPut(sql_queue[i]))'
    BY DEF QueuedInv, WritesFindTheirRows, MayPut
  <2>2. QED
    BY <2>1 DEF QueuedInv
<1>5. SelectsInv'
  <2>1. SelectsInv
    OBVIOUS
  <2> HIDE DEF Ownership
  <2>2. QED
    BY <2>1, ZenonT(60) DEF SelectsInv, Handles
<1>6. NewInv'
  BY DEF NewInv
<1>7. QED
  BY <1>1, <1>2, <1>3, <1>4, <1>5, <1>6

(* What a selecting thread works on is a status of a saved event.           *)
LEMMA HandlesSaved ==
    ASSUME TypeOK, NEW t \in Selectors
    PROVE  Handles(t) \in {"AS", "TS", "SB"}
  BY DEF TypeOK, ScanType, Selectors, Handles

(* main never runs together with another thread, and the others work on     *)
(* different statuses.                                                      *)
LEMMA HandlesDistinct ==
    ASSUME Ownership, NEW t \in Selectors, NEW u \in Selectors, t # u,
           pc[t] \in {"loop", "select"}, pc[u] \in {"loop", "select"}
    PROVE  Handles(t) # Handles(u)
<1>1. t # "main" /\ u # "main"
  BY DEF Ownership, ThreadsInv, Selectors, Threads
<1>2. QED
  BY <1>1 DEF Selectors, Handles

(* A held event belongs to a selecting thread in its loop, which also means *)
(* that main is not off.                                                    *)
LEMMA HolderLoops ==
    ASSUME Ownership, NEW t \in Threads, NEW e \in todo[t]
    PROVE  /\ t \in Selectors /\ pc[t] = "loop" /\ pc["main"] # "off"
           /\ e \in Event /\ Key(e) \in Keys /\ rows[Key(e)] = e
           /\ e.fk_status = Handles(t) /\ e.fk_status \in {"AS", "TS", "SB"}
<1>1. t \in Selectors /\ pc[t] = "loop" /\ pc["main"] # "off"
  BY DEF Ownership, ThreadsInv, Threads, Selectors
<1>2. e \in Event
  BY DEF Ownership, TypeOK
<1>3. Key(e) \in Keys
  BY <1>2 DEF Event, Key, Keys
<1>4. rows[Key(e)] = e /\ e.fk_status = Handles(t)
  BY DEF Ownership, HeldInv, HeldEventsAreCurrent
<1>5. QED
  BY <1>1, <1>2, <1>3, <1>4, HandlesSaved DEF Ownership

(* Two held events of one request are one event, held by one thread.        *)
LEMMA HeldOnce ==
    ASSUME Ownership, NEW t \in Threads, NEW u \in Threads,
           NEW e \in todo[t], NEW f \in todo[u], e.request_id = f.request_id
    PROVE  t = u /\ e = f
<1>1. e \in Event /\ f \in Event /\ rows[Key(e)] = e /\ rows[Key(f)] = f
      /\ e.fk_status # "NA" /\ f.fk_status # "NA"
  BY HolderLoops
<1>2. Key(e) = Key(f)
  BY <1>1 DEF Ownership, RowsInv, OneRowPerRequest, Event, Key, Types
<1>3. e = f
  BY <1>1, <1>2
<1>4. t = u
  BY <1>3, HolderLoops, HandlesDistinct
<1>5. QED
  BY <1>3, <1>4

-----------------------------------------------------------------------------
(* The ways in which an action changes the node.                            *)

(* A thread is through with an event and leaves its row as it is.           *)
LEMMA LeavesAloneKeeps ==
    ASSUME Ownership, NEW t \in Threads, NEW e \in todo[t], LeavesAlone(t, e)
    PROVE  Ownership'
<1> USE DEF LeavesAlone, Leaves, poolVars, chainVars, localVars, countVars
<1>1. t \in Selectors /\ pc[t] = "loop"
  BY HolderLoops
<1>2. /\ \A u \in Threads : todo'[u] \subseteq todo[u]
      /\ \A u \in Threads : u # t => todo'[u] = todo[u] /\ now'[u] = now[u]
      /\ now'[t] = None
  BY DEF Ownership, TypeOK
<1>3. TypeOK'
  BY DEF Ownership, TypeOK
<1>4. RowsInv'
  BY DEF Ownership, RowsInv, OneRowPerRequest
<1>5. ThreadsInv'
  BY <1>1, <1>2 DEF Ownership, ThreadsInv, Threads, Selectors
<1>6. HeldInv'
  <2>1. HeldEventsAreCurrent'
    BY <1>2 DEF Ownership, HeldInv, HeldEventsAreCurrent, Queued
  <2>2. \A u \in Threads : Handles(u)' = Handles(u)
    BY DEF Handles
  <2>3. QED
    BY <1>2, <2>1, <2>2 DEF Ownership, HeldInv
<1>7. QueuedInv'
  BY DEF Ownership, QueuedInv, WritesFindTheirRows, MayPut, Queued, HasRow
<1>8. SelectsInv'
  <2>1. \A u \in Selectors : Handles(u)' = Handles(u)
    BY DEF Handles
  <2>2. now'["poll"] = now["poll"] /\ Queued' = Queued
    BY <1>1, <1>2 DEF Queued, Selectors, Threads
  <2>3. QED
    BY <2>1, <2>2 DEF Ownership, SelectsInv
<1>9. NewInv'
  BY <1>1, <1>2 DEF Ownership, NewInv, HasRow, Queued, Selectors, Threads
<1>10. QED
  BY <1>3, <1>4, <1>5, <1>6, <1>7, <1>8, <1>9 DEF Ownership

(* A thread ends its handling of an event with an update.                   *)
LEMMA LeavesWithKeeps ==
    ASSUME Ownership, NEW t \in Threads, NEW e \in todo[t],
           NEW op \in Updates \ {"add"}, NEW evt \in Event,
           Key(evt) = Key(e), evt.fk_status = e.fk_status,
           MayPut([op |-> op, evt |-> evt]), LeavesWith(t, e, op, evt)
    PROVE  Ownership'
<1> DEFINE s == [op |-> op, evt |-> evt]
           n == Len(sql_queue) + 1
<1> USE DEF LeavesWith, Leaves, PutWrite, chainVars, localVars, countVars
<1>1. /\ t \in Selectors /\ pc[t] = "loop" /\ pc["main"] # "off"
      /\ e \in Event /\ rows[Key(e)] = e /\ e.fk_status = Handles(t)
      /\ e.fk_status \in {"AS", "TS", "SB"} /\ evt.request_id = e.request_id
  BY HolderLoops DEF Key
<1>2. s \in Statement /\ IsWrite(s) /\ ~IsSelection(s) /\ ~IsLookup(s)
      /\ s.evt = evt /\ s.op = op
  BY DEF Statement, Write, IsWrite, IsSelection, IsLookup, Updates
<1>3. /\ \A u \in Threads : todo'[u] \subseteq todo[u]
      /\ \A u \in Threads : u # t => todo'[u] = todo[u] /\ now'[u] = now[u]
      /\ now'[t] = None /\ e \notin todo'[t]
  BY DEF Ownership, TypeOK
<1>4. /\ sql_queue' \in Seq(Statement)
      /\ DOMAIN sql_queue' = DOMAIN sql_queue \cup {n} /\ n \notin DOMAIN sql_queue
      /\ \A i \in DOMAIN sql_queue : sql_queue'[i] = sql_queue[i] /\ i < n
      /\ DOMAIN sql_queue \subseteq Nat /\ n \in Nat
      /\ sql_queue' [n] = s
  BY <1>2, AppendFacts DEF Ownership, TypeOK
<1>5. Queued' = Queued \cup {n}
  BY <1>2, <1>4 DEF Queued
<1> HIDE DEF s, n, PutWrite
<1>6. TypeOK'
  BY <1>4 DEF Ownership, TypeOK
<1>7. RowsInv'
  BY DEF Ownership, RowsInv, OneRowPerRequest
<1>8. ThreadsInv'
  BY <1>1, <1>3 DEF Ownership, ThreadsInv, Threads, Selectors
<1>9. HeldInv'
  <2>1. \A u \in Threads : \A f \in todo'[u] : f.request_id # evt.request_id
    BY <1>1, <1>3, HeldOnce
  <2>2. HeldEventsAreCurrent'
    BY <1>2, <1>3, <1>4, <1>5, <2>1
       DEF Ownership, HeldInv, HeldEventsAreCurrent, Queued
  <2>3. \A u \in Threads : Handles(u)' = Handles(u)
    BY DEF Handles
  <2>4. QED
    BY <1>3, <2>2, <2>3 DEF Ownership, HeldInv
<1>10. QueuedInv'
  <2>1. \A i \in Queued : sql_queue[i].evt.request_id # evt.request_id
    BY <1>1 DEF Ownership, HeldInv, HeldEventsAreCurrent
  <2>2. \A i \in Queued : i \in DOMAIN sql_queue
    BY DEF Queued
  <2>3. WritesFindTheirRows'
    <3>1. \A i \in Queued' :
            rows'[Key(sql_queue'[i].evt)].fk_status = sql_queue'[i].evt.fk_status
      BY <1>1, <1>2, <1>4, <1>5, <2>2 DEF Ownership, QueuedInv, WritesFindTheirRows
    <3>2. \A i, j \in Queued' :
            i # j => sql_queue'[i].evt.request_id # sql_queue'[j].evt.request_id
      BY <1>2, <1>4, <1>5, <2>1, <2>2 DEF Ownership, QueuedInv, WritesFindTheirRows
    <3>3. QED
      BY <3>1, <3>2 DEF WritesFindTheirRows, Key
  <2>4. (\A i \in Queued : MayPut(sql_queue[i]))'
    BY <1>4, <1>5, <2>2 DEF Ownership, QueuedInv, MayPut, s
  <2>5. (\A i \in Queued : sql_queue[i].op = "add" => ~HasRow(sql_queue[i].evt.request_id))'
    BY <1>2, <1>4, <1>5, <2>2 DEF Ownership, QueuedInv, HasRow
  <2>6. QED
    BY <2>3, <2>4, <2>5 DEF QueuedInv
<1>11. SelectsInv'
  <2>1. \A i \in DOMAIN sql_queue : IsSelection(sql_queue[i]) =>
            sql_queue[i].status # evt.fk_status
    BY <1>1, HandlesDistinct DEF Ownership, SelectsInv
  <2>2. QED
    BY <1>1, <1>2, <1>3, <1>4, <1>5, <2>1
       DEF Ownership, SelectsInv, Handles, Queued, Selectors, Threads
<1>12. NewInv'
  BY <1>1, <1>2, <1>3, <1>4, <1>5 DEF Ownership, NewInv, HasRow, Queued, Selectors, Threads
<1>13. QED
  BY <1>6, <1>7, <1>8, <1>9, <1>10, <1>11, <1>12 DEF Ownership

(* A thread puts a select on the queue and waits.                           *)
LEMMA SelectKeeps ==
    ASSUME Ownership, NEW t \in Selectors, todo[t] = {},
           pc[t] = "loop" \/ (pc[t] = "off" /\ t = "main"),
           scan' \in ScanType, t # "main" => scan' = scan,
           pc' = [pc EXCEPT ![t] = "select"], PutSelect(t, Handles(t)'),
           UNCHANGED <<rows, todo, now>>,
           UNCHANGED <<chainVars, isFinished, lastBlock, isPolice, countVars>>
    PROVE  Ownership'
<1> DEFINE s == [op |-> "select", by |-> t, status |-> Handles(t)']
           n == Len(sql_queue) + 1
<1> USE DEF PutSelect, chainVars, countVars
<1>1. t \in Threads /\ Handles(t)' \in {"AS", "TS", "SB"}
  BY DEF Selectors, Threads, Handles, ScanType
<1>2. s \in Statement /\ ~IsWrite(s) /\ IsSelection(s) /\ ~IsLookup(s)
      /\ s.by = t /\ s.status = Handles(t)'
  BY <1>1 DEF Statement, Selection, Status, IsWrite, IsSelection, IsLookup, Updates
<1>3. /\ pc'[t] = "select" /\ \A u \in Threads : u # t => pc'[u] = pc[u]
      /\ t = "main" => \A u \in Threads : u # "main" => pc[u] = "off"
      /\ t # "main" => pc["main"] = "watch"
  BY <1>1 DEF Ownership, TypeOK, ThreadsInv
<1>4. \A u \in Threads : u # t => Handles(u)' = Handles(u)
  BY DEF Handles
<1>5. /\ sql_queue' \in Seq(Statement)
      /\ DOMAIN sql_queue' = DOMAIN sql_queue \cup {n} /\ n \notin DOMAIN sql_queue
      /\ \A i \in DOMAIN sql_queue : sql_queue'[i] = sql_queue[i] /\ i < n
      /\ DOMAIN sql_queue \subseteq Nat /\ n \in Nat
      /\ sql_queue' [n] = s
  BY <1>2, AppendFacts DEF Ownership, TypeOK
<1>6. Queued' = Queued /\ Queued \subseteq DOMAIN sql_queue
  BY <1>2, <1>5 DEF Queued
<1> HIDE DEF s, n, PutSelect
<1>7. TypeOK'
  BY <1>5 DEF Ownership, TypeOK
<1>8. RowsInv'
  BY DEF Ownership, RowsInv, OneRowPerRequest
<1>9. ThreadsInv'
  BY <1>1, <1>3 DEF Ownership, ThreadsInv, Selectors, Threads
<1>10. HeldInv'
  <2>1. HeldEventsAreCurrent'
    BY <1>5, <1>6 DEF Ownership, HeldInv, HeldEventsAreCurrent
  <2>2. QED
    BY <1>4, <2>1 DEF Ownership, HeldInv
<1>11. QueuedInv'
  <2>1. \A i \in Queued' : i \in Queued /\ sql_queue'[i] = sql_queue[i]
    BY <1>5, <1>6
  <2>2. WritesFindTheirRows'
    BY <2>1 DEF Ownership, QueuedInv, WritesFindTheirRows
  <2>3. (\A i \in Queued : MayPut(sql_queue[i]))'
    BY <2>1 DEF Ownership, QueuedInv, MayPut
  <2>4. (\A i \in Queued : sql_queue[i].op = "add" => ~HasRow(sql_queue[i].evt.request_id))'
    BY <2>1 DEF Ownership, QueuedInv, HasRow
  <2>5. QED
    BY <2>2, <2>3, <2>4 DEF QueuedInv
<1>12. SelectsInv'
  <2>1. \A i \in DOMAIN sql_queue : IsSelection(sql_queue[i]) => sql_queue[i].by # t
    BY DEF Ownership, SelectsInv
  <2>2. (\A i \in DOMAIN sql_queue : IsSelection(sql_queue[i]) =>
            /\ sql_queue[i].by \in Selectors
            /\ pc[sql_queue[i].by] = "select"
            /\ sql_queue[i].status = Handles(sql_queue[i].by))'
    <3>1. Selectors \subseteq Threads
      BY DEF Selectors, Threads
    <3>2. \A i \in DOMAIN sql_queue : IsSelection(sql_queue[i]) =>
            /\ sql_queue[i].by \in Selectors
            /\ pc[sql_queue[i].by] = "select"
            /\ sql_queue[i].status = Handles(sql_queue[i].by)
      BY DEF Ownership, SelectsInv
    <3>3. QED
      BY <1>1, <1>2, <1>3, <1>4, <1>5, <2>1, <3>1, <3>2
  <2>3. (\A i \in DOMAIN sql_queue : IsSelection(sql_queue[i]) =>
            \A j \in DOMAIN sql_queue :
                /\ IsSelection(sql_queue[j]) /\ i # j => sql_queue[i].by # sql_queue[j].by
                /\ i < j /\ j \in Queued => sql_queue[j].evt.fk_status # sql_queue[i].status)'
    BY <1>2, <1>5, <1>6, <2>1 DEF Ownership, SelectsInv
  <2>4. (\A i \in DOMAIN sql_queue : IsLookup(sql_queue[i]) =>
            /\ pc["poll"] = "select"
            /\ sql_queue[i].evt = now["poll"]
            /\ \A j \in DOMAIN sql_queue :
                /\ IsLookup(sql_queue[j]) => i = j
                /\ i < j /\ j \in Queued => sql_queue[j].evt.fk_status # "NA")'
    <3>1. "poll" \in Threads /\ t # "poll"
      BY DEF Selectors, Threads
    <3>2. \A i \in DOMAIN sql_queue : IsLookup(sql_queue[i]) =>
            /\ pc["poll"] = "select"
            /\ sql_queue[i].evt = now["poll"]
            /\ \A j \in DOMAIN sql_queue :
                /\ IsLookup(sql_queue[j]) => i = j
                /\ i < j /\ j \in Queued => sql_queue[j].evt.fk_status # "NA"
      BY DEF Ownership, SelectsInv
    <3>3. QED
      BY <1>2, <1>3, <1>5, <1>6, <3>1, <3>2
  <2>5. QED
    BY <2>2, <2>3, <2>4 DEF SelectsInv
<1>13. NewInv'
  <2>1. t # "poll"
    BY DEF Selectors
  <2>2. QED
    BY <1>3, <1>5, <1>6, <2>1 DEF Ownership, NewInv, HasRow, Threads
<1>14. QED
  BY <1>7, <1>8, <1>9, <1>10, <1>11, <1>12, <1>13 DEF Ownership

(* The first statement leaves the queue.                                    *)
LEMMA QueueTail ==
    ASSUME Ownership, sql_queue # <<>>, sql_queue' = Tail(sql_queue)
    PROVE  /\ sql_queue' \in Seq(Statement)
           /\ 1 \in DOMAIN sql_queue /\ sql_queue[1] = Head(sql_queue)
           /\ Head(sql_queue) \in Statement
           /\ \A i \in DOMAIN sql_queue' :
                /\ i + 1 \in DOMAIN sql_queue /\ i + 1 # 1
                /\ sql_queue'[i] = sql_queue[i + 1]
           /\ \A i \in Queued' :
                /\ i \in DOMAIN sql_queue' /\ i + 1 \in Queued /\ i + 1 # 1
                /\ sql_queue'[i] = sql_queue[i + 1]
           /\ \A i, j \in DOMAIN sql_queue' : (i = j <=> i + 1 = j + 1) /\ (i < j <=> i + 1 < j + 1)
<1>1. /\ sql_queue' \in Seq(Statement)
      /\ 1 \in DOMAIN sql_queue /\ sql_queue[1] = Head(sql_queue)
      /\ Head(sql_queue) \in Statement
      /\ \A i \in DOMAIN sql_queue' :
            i \in Nat /\ i >= 1 /\ i + 1 \in DOMAIN sql_queue /\ sql_queue'[i] = sql_queue[i + 1]
  BY TailFacts DEF Ownership, TypeOK
<1>2. \A i \in DOMAIN sql_queue' : i + 1 # 1
  BY <1>1
<1>3. \A i \in Queued' : i \in DOMAIN sql_queue' /\ i + 1 \in Queued
  BY <1>1 DEF Queued
<1>4. \A i, j \in DOMAIN sql_queue' : (i = j <=> i + 1 = j + 1) /\ (i < j <=> i + 1 < j + 1)
  BY <1>1
<1>5. QED
  BY <1>1, <1>2, <1>3, <1>4

(* The selects behind the first statement still wait.                       *)
LEMMA TailKeepsSelects ==
    ASSUME Ownership, sql_queue # <<>>, sql_queue' = Tail(sql_queue), scan' = scan,
           \A i \in DOMAIN sql_queue : i # 1 =>
                /\ IsSelection(sql_queue[i]) => pc'[sql_queue[i].by] = "select"
                /\ IsLookup(sql_queue[i]) => pc'["poll"] = "select" /\ now'["poll"] = now["poll"]
    PROVE  SelectsInv'
<1>1. \A u \in Selectors : Handles(u)' = Handles(u)
  BY DEF Handles
<1>2. (\A i \in DOMAIN sql_queue : IsSelection(sql_queue[i]) =>
            /\ sql_queue[i].by \in Selectors
            /\ pc[sql_queue[i].by] = "select"
            /\ sql_queue[i].status = Handles(sql_queue[i].by))'
  BY <1>1, QueueTail DEF Ownership, SelectsInv
<1>3. (\A i \in DOMAIN sql_queue : IsSelection(sql_queue[i]) =>
            \A j \in DOMAIN sql_queue :
                /\ IsSelection(sql_queue[j]) /\ i # j => sql_queue[i].by # sql_queue[j].by
                /\ i < j /\ j \in Queued => sql_queue[j].evt.fk_status # sql_queue[i].status)'
  BY QueueTail DEF Ownership, SelectsInv
<1>4. (\A i \in DOMAIN sql_queue : IsLookup(sql_queue[i]) =>
            /\ pc["poll"] = "select"
            /\ sql_queue[i].evt = now["poll"]
            /\ \A j \in DOMAIN sql_queue :
                /\ IsLookup(sql_queue[j]) => i = j
                /\ i < j /\ j \in Queued => sql_queue[j].evt.fk_status # "NA")'
  BY QueueTail DEF Ownership, SelectsInv
<1>5. QED
  BY <1>2, <1>3, <1>4 DEF SelectsInv

(* The rows that the statements make are rows of the same key.              *)
LEMMA RowKeeps ==
    ASSUME NEW e \in Event, NEW st \in Status, NEW n \in Nat, NEW b \in Nat
    PROVE  Row(e, st, n, b) \in Event /\ Key(Row(e, st, n, b)) = Key(e)
  BY DEF Event, Row, Key

LEMMA StatusFacts ==
    ASSUME NEW e \in Event, NEW st \in Status
    PROVE  /\ [e EXCEPT !.fk_status = st] = Row(e, st, e.submission_attempts, e.submission_block_nbr)
           /\ e.submission_attempts \in Nat /\ e.submission_block_nbr \in Nat
  BY DEF Event, Row

(* What the database thread does to the rows when it executes a write.      *)
LEMMA WriteEffect ==
    ASSUME Ownership, ExecuteWrite,
           NEW s, s = Head(sql_queue), NEW k, k = Key(s.evt)
    PROVE  /\ sql_queue # <<>> /\ 1 \in Queued /\ sql_queue[1] = s /\ MayPut(s)
           /\ s.op \in Updates /\ s.evt \in Event /\ k \in Keys
           /\ rows[k].fk_status = s.evt.fk_status
           /\ \A x \in Keys : x # k => rows'[x] = rows[x]
           /\ rows' \in [Keys -> Event] /\ Key(rows'[k]) = k
           /\ s.op = "add" => ~HasRow(k[1]) /\ rows'[k] = Row(s.evt, "AS", 0, 0)
           /\ s.op = "to_be_submitted" =>
                rows'[k] = Row(rows[k], "TS", rows[k].submission_attempts + 1,
                               s.evt.submission_block_nbr)
           /\ s.op \notin {"add", "to_be_submitted"} =>
                \E st \in {"SB", "DN", "ER"} :
                    /\ rows'[k] = Row(rows[k], st, rows[k].submission_attempts,
                                       rows[k].submission_block_nbr)
                    /\ st = "SB" <=> s.op = "submitted"
                    /\ st = "DN" <=> s.op = "done"
                    /\ st = "ER" <=> s.op = "error"
<1>1. /\ sql_queue # <<>> /\ 1 \in DOMAIN sql_queue /\ sql_queue[1] = s
      /\ s \in Statement /\ IsWrite(s)
  BY TailFacts DEF Ownership, TypeOK, ExecuteWrite
<1>2. 1 \in Queued
  BY <1>1 DEF Queued
<1>3. /\ s.op \in Updates /\ s.evt \in Event
  BY <1>1 DEF Statement, Write, Selection, Lookup, IsWrite, Updates
<1>4. k \in Keys /\ k = <<s.evt.request_id, s.evt.fk_type>> /\ k[1] = s.evt.request_id
  BY <1>3 DEF Keys, Key, Event
<1>5. rows[k].fk_status = s.evt.fk_status
  BY <1>1, <1>2, <1>4 DEF Ownership, QueuedInv, WritesFindTheirRows
<1>p. MayPut(s) /\ (s.op = "add" => ~HasRow(k[1]))
  BY <1>1, <1>2, <1>4 DEF Ownership, QueuedInv
<1>q. /\ s.op = "add" => rows[k].fk_status = "NA"
      /\ s.op = "to_be_submitted" => rows[k].fk_status \in {"AS", "SB"}
      /\ s.op = "submitted" => rows[k].fk_status = "TS"
      /\ s.op = "done" => rows[k].fk_status = "SB"
      /\ s.op = "error" => rows[k].fk_status \in {"AS", "TS", "SB"}
  BY <1>5, <1>p DEF MayPut
<1>6. rows \in [Keys -> Event] /\ rows[k] \in Event /\ Key(rows[k]) = k
  BY <1>4 DEF Ownership, TypeOK, RowsInv
<1>7. rows' = [x \in Keys |-> IF Addresses(s, x) THEN After(rows[x], s) ELSE rows[x]]
  BY DEF ExecuteWrite
<1>8. \A x \in Keys : x # k => rows'[x] = rows[x]
  <2>1. CASE s.op = "add"
    BY <1>4, <1>7, <2>1 DEF Addresses
  <2>2. CASE s.op # "add"
    <3>1. rows[k].fk_status # "NA"
      BY <1>3, <1>q, <2>2 DEF Updates
    <3>2. SUFFICES ASSUME NEW x \in Keys, x # k, x[1] = k[1] PROVE After(rows[x], s) = rows[x]
      BY <1>4, <1>7, <2>2 DEF Addresses
    <3>3. rows[x].fk_status = "NA"
      BY <1>4, <3>1, <3>2 DEF Ownership, RowsInv, OneRowPerRequest, Keys, Types
    <3>4. QED
      BY <1>3, <2>2, <3>3 DEF After, Updates, set_evt_status_to_be_submitted,
            set_evt_status_to_submitted, set_evt_status_to_done, set_evt_status_to_error
  <2>3. QED
    BY <2>1, <2>2
<1>9. rows'[k] = After(rows[k], s)
  BY <1>4, <1>7 DEF Addresses
<1>10. /\ s.op = "add" => rows'[k] = Row(s.evt, "AS", 0, 0)
       /\ s.op = "to_be_submitted" =>
            rows'[k] = Row(rows[k], "TS", rows[k].submission_attempts + 1,
                           s.evt.submission_block_nbr)
  <2>1. CASE s.op = "add"
    BY <1>9, <1>q, <2>1 DEF After, add_evt_to_be_assigned
  <2>2. CASE s.op = "to_be_submitted"
    BY <1>9, <1>q, <2>2 DEF After, set_evt_status_to_be_submitted
  <2>3. QED
    BY <2>1, <2>2
<1>11. s.op \notin {"add", "to_be_submitted"} =>
            \E st \in {"SB", "DN", "ER"} :
                /\ rows'[k] = Row(rows[k], st, rows[k].submission_attempts,
                                   rows[k].submission_block_nbr)
                /\ st = "SB" <=> s.op = "submitted"
                /\ st = "DN" <=> s.op = "done"
                /\ st = "ER" <=> s.op = "error"
  <2>1. "SB" \in Status /\ "DN" \in Status /\ "ER" \in Status
    BY DEF Status
  <2>2. CASE s.op = "submitted"
    <3>1. rows'[k] = [rows[k] EXCEPT !.fk_status = "SB"]
      BY <1>9, <1>q, <2>2 DEF After, set_evt_status_to_submitted
    <3>2. QED
      BY <1>6, <2>1, <2>2, <3>1, StatusFacts
  <2>3. CASE s.op = "done"
    <3>1. rows'[k] = [rows[k] EXCEPT !.fk_status = "DN"]
      BY <1>9, <1>q, <2>3 DEF After, set_evt_status_to_done
    <3>2. QED
      BY <1>6, <2>1, <2>3, <3>1, StatusFacts
  <2>4. CASE s.op = "error"
    <3>1. rows'[k] = [rows[k] EXCEPT !.fk_status = "ER"]
      BY <1>9, <1>q, <2>4 DEF After, set_evt_status_to_error
    <3>2. QED
      BY <1>6, <2>1, <2>4, <3>1, StatusFacts
  <2>5. QED
    BY <1>3, <2>2, <2>3, <2>4 DEF Updates
<1>13. rows'[k] \in Event /\ Key(rows'[k]) = k
  <2>1. {"AS", "TS", "SB", "DN", "ER"} \subseteq Status
    BY DEF Status
  <2>2. /\ s.evt.submission_block_nbr \in Nat /\ rows[k].submission_block_nbr \in Nat
        /\ rows[k].submission_attempts \in Nat
        /\ rows[k].submission_attempts + 1 \in Nat
    BY <1>3, <1>6 DEF Event
  <2>3. CASE s.op = "add"
    <3>1. Row(s.evt, "AS", 0, 0) \in Event /\ Key(Row(s.evt, "AS", 0, 0)) = Key(s.evt)
      <4>1. "AS" \in Status /\ 0 \in Nat
        BY <2>1
      <4>2. QED
        BY <1>3, <4>1, RowKeeps
    <3>2. rows'[k] = Row(s.evt, "AS", 0, 0)
      BY <1>10, <2>3
    <3>3. Key(rows'[k]) = Key(s.evt)
      BY <3>1, <3>2, Zenon
    <3>4. QED
      BY <3>1, <3>2, <3>3, Zenon
  <2>4. CASE s.op = "to_be_submitted"
    <3> DEFINE n == rows[k].submission_attempts + 1
               b == s.evt.submission_block_nbr
    <3>1. Row(rows[k], "TS", n, b) \in Event /\ Key(Row(rows[k], "TS", n, b)) = Key(rows[k])
      <4>1. "TS" \in Status /\ n \in Nat /\ b \in Nat
        BY <2>1, <2>2
      <4> HIDE DEF n, b
      <4>2. QED
        BY <1>6, <4>1, RowKeeps
    <3>2. rows'[k] = Row(rows[k], "TS", n, b)
      BY <1>10, <2>4
    <3> HIDE DEF n, b
    <3>3. Key(rows'[k]) = Key(rows[k])
      BY <3>1, <3>2, Zenon
    <3>4. QED
      BY <1>6, <3>1, <3>2, <3>3, Zenon
  <2>5. CASE s.op \notin {"add", "to_be_submitted"}
    <3> DEFINE n == rows[k].submission_attempts
               b == rows[k].submission_block_nbr
    <3>1. PICK fin \in {"SB", "DN", "ER"} : rows'[k] = Row(rows[k], fin, n, b)
      BY <1>11, <2>5
    <3>2. Row(rows[k], fin, n, b) \in Event /\ Key(Row(rows[k], fin, n, b)) = Key(rows[k])
      <4>1. fin \in Status /\ n \in Nat /\ b \in Nat
        BY <2>1, <2>2
      <4> HIDE DEF n, b
      <4>2. QED
        BY <1>6, <4>1 DEF Event, Row, Key
    <3> HIDE DEF n, b
    <3>3. Key(rows'[k]) = Key(rows[k])
      BY <3>1, <3>2, Zenon
    <3>4. QED
      BY <1>6, <3>1, <3>2, <3>3, Zenon
  <2>6. QED
    BY <2>3, <2>4, <2>5
<1>12. rows' \in [Keys -> Event]
  BY <1>4, <1>6, <1>7, <1>8, <1>13
<1>14. QED
  BY <1>1, <1>2, <1>3, <1>4, <1>5, <1>p, <1>8, <1>10, <1>11, <1>12, <1>13

(* A request that a write is not about keeps its rows.                      *)
LEMMA WriteElsewhere ==
    ASSUME Ownership, ExecuteWrite, NEW s, s = Head(sql_queue)
    PROVE  /\ \A e \in Event : e.request_id # s.evt.request_id => rows'[Key(e)] = rows[Key(e)]
           /\ \A r \in Requests : r # s.evt.request_id => (HasRow(r)' <=> HasRow(r))
           /\ s.op # "add" => HasRow(s.evt.request_id)
<1> DEFINE k == Key(s.evt)
<1>1. /\ s.op \in Updates /\ s.evt \in Event /\ k \in Keys /\ MayPut(s)
      /\ rows[k].fk_status = s.evt.fk_status
      /\ \A x \in Keys : x # k => rows'[x] = rows[x]
  BY WriteEffect
<1>2. k = <<s.evt.request_id, s.evt.fk_type>> /\ s.evt.fk_type \in Types
  BY <1>1 DEF Key, Event
<1>3. \A r \in Requests : \A type \in Types :
        <<r, type>> \in Keys /\ (r # s.evt.request_id => rows'[<<r, type>>] = rows[<<r, type>>])
  BY <1>1, <1>2 DEF Keys
<1>4. \A e \in Event : e.request_id # s.evt.request_id => rows'[Key(e)] = rows[Key(e)]
  BY <1>3 DEF Key, Event
<1>5. \A r \in Requests : r # s.evt.request_id => (HasRow(r)' <=> HasRow(r))
  BY <1>3 DEF HasRow
<1>6. s.op # "add" => HasRow(s.evt.request_id)
  <2>1. s.op # "add" => s.evt.fk_status # "NA"
    BY <1>1 DEF MayPut, Updates
  <2>2. QED
    BY <1>1, <1>2, <2>1 DEF HasRow
<1>7. QED
  BY <1>4, <1>5, <1>6

(* Executing a write keeps the rows sound.                                  *)
LEMMA WriteKeepsRows ==
    ASSUME Ownership, ExecuteWrite
    PROVE  RowsInv'
<1> DEFINE s == Head(sql_queue)
           k == Key(s.evt)
<1>1. /\ MayPut(s) /\ s.op \in Updates /\ s.evt \in Event /\ k \in Keys
      /\ rows[k].fk_status = s.evt.fk_status
      /\ \A x \in Keys : x # k => rows'[x] = rows[x]
      /\ rows' \in [Keys -> Event] /\ Key(rows'[k]) = k
      /\ s.op = "add" => ~HasRow(k[1]) /\ rows'[k] = Row(s.evt, "AS", 0, 0)
      /\ s.op = "to_be_submitted" =>
            rows'[k] = Row(rows[k], "TS", rows[k].submission_attempts + 1,
                           s.evt.submission_block_nbr)
      /\ s.op \notin {"add", "to_be_submitted"} =>
            \E st \in {"SB", "DN", "ER"} :
                rows'[k] = Row(rows[k], st, rows[k].submission_attempts,
                               rows[k].submission_block_nbr)
  BY WriteEffect
<1>2. rows[k] \in Event /\ rows[k].submission_attempts \in Nat
      /\ (rows[k].fk_status \in {"NA", "AS"} => rows[k].submission_attempts = 0)
      /\ rows[k].submission_attempts <= MaxSubmissionAttempts
  BY <1>1 DEF Ownership, TypeOK, RowsInv, Event
<1>3. /\ rows'[k].fk_status \in {"NA", "AS"} => rows'[k].submission_attempts = 0
      /\ rows'[k].submission_attempts <= MaxSubmissionAttempts
  <2>1. CASE s.op = "add"
    BY <1>1, <2>1, ConstantsAssumption DEF Row
  <2>2. CASE s.op = "to_be_submitted"
    <3>1. rows[k].submission_attempts + 1 <= MaxSubmissionAttempts
      BY <1>1, <1>2, <2>2, ConstantsAssumption DEF MayPut
    <3>2. QED
      BY <1>1, <2>2, <3>1 DEF Row
  <2>3. CASE s.op \notin {"add", "to_be_submitted"}
    BY <1>1, <1>2, <2>3 DEF Row
  <2>4. QED
    BY <2>1, <2>2, <2>3
<1>4. OneRowPerRequest'
  <2>1. k[1] \in Requests /\ k[2] \in Types /\ k = <<k[1], k[2]>>
    BY <1>1 DEF Keys
  <2>2. \A type \in Types : type # k[2] => rows[<<k[1], type>>].fk_status = "NA"
    <3>1. CASE s.op = "add"
      BY <1>1, <3>1 DEF HasRow
    <3>2. CASE s.op # "add"
      <4>1. rows[k].fk_status # "NA"
        BY <1>1, <3>2 DEF MayPut, Updates
      <4>2. QED
        BY <2>1, <4>1 DEF Ownership, RowsInv, OneRowPerRequest, Types
    <3>3. QED
      BY <3>1, <3>2
  <2>3. \A r \in Requests : \A type \in Types :
            <<r, type>> \in Keys /\ (<<r, type>> # k => rows'[<<r, type>>] = rows[<<r, type>>])
    BY <1>1 DEF Keys
  <2>4. \A r \in Requests : r # k[1] =>
            rows'[<<r, "AU">>].fk_status = "NA" \/ rows'[<<r, "PC">>].fk_status = "NA"
    <3>1. \A r \in Requests : r # k[1] =>
            rows'[<<r, "AU">>] = rows[<<r, "AU">>] /\ rows'[<<r, "PC">>] = rows[<<r, "PC">>]
      BY <2>1, <2>3 DEF Types
    <3>2. QED
      BY <3>1 DEF Ownership, RowsInv, OneRowPerRequest
  <2>5. \A type \in Types : type # k[2] => rows'[<<k[1], type>>].fk_status = "NA"
    BY <2>1, <2>2, <2>3
  <2>6. QED
    BY <2>1, <2>4, <2>5 DEF OneRowPerRequest, Types
<1>5. QED
  BY <1>1, <1>3, <1>4 DEF Ownership, RowsInv

(* The database thread executes a write.                                    *)
LEMMA WritesKeeps ==
    ASSUME Ownership, Writes
    PROVE  Ownership'
<1> DEFINE s == Head(sql_queue)
<1> USE DEF chainVars, threadVars, localVars, countVars
<1>1. ExecuteWrite /\ sql_queue # <<>> /\ sql_queue' = Tail(sql_queue)
      /\ UNCHANGED <<pc, todo, now, scan>>
  BY DEF Writes, ExecuteWrite
<1>2. /\ 1 \in Queued /\ sql_queue[1] = s /\ s.op \in Updates /\ s.evt \in Event
      /\ rows' \in [Keys -> Event]
  BY <1>1, WriteEffect
<1> HIDE DEF s
<1>3. TypeOK'
  BY <1>1, <1>2, QueueTail DEF Ownership, TypeOK, Writes
<1>4. RowsInv'
  BY <1>1, WriteKeepsRows
<1>5. ThreadsInv'
  BY <1>1 DEF Ownership, ThreadsInv
<1>6. /\ \A e \in Event : e.request_id # s.evt.request_id => rows'[Key(e)] = rows[Key(e)]
      /\ \A r \in Requests : r # s.evt.request_id => (HasRow(r)' <=> HasRow(r))
      /\ s.op # "add" => HasRow(s.evt.request_id)
  BY <1>1, WriteElsewhere DEF s
<1>7. \A i \in Queued' :
        /\ i + 1 \in Queued /\ i + 1 # 1 /\ sql_queue'[i] = sql_queue[i + 1]
        /\ sql_queue'[i].evt \in Event /\ sql_queue'[i].evt.request_id \in Requests
        /\ sql_queue'[i].evt.request_id # s.evt.request_id
  <2>1. \A i \in Queued : sql_queue[i].evt \in Event /\ sql_queue[i].evt.request_id \in Requests
    BY DEF Ownership, TypeOK, Queued, IsWrite, Statement, Write, Selection, Lookup, Updates, Event
  <2>2. \A i \in Queued : i # 1 => sql_queue[i].evt.request_id # s.evt.request_id
    BY <1>2 DEF Ownership, QueuedInv, WritesFindTheirRows
  <2>3. QED
    BY <1>1, <2>1, <2>2, QueueTail
<1>8. HeldInv'
  <2>1. \A t \in Threads : \A e \in todo[t] : e \in Event /\ e.request_id # s.evt.request_id
    BY <1>2, HolderLoops DEF Ownership, HeldInv, HeldEventsAreCurrent
  <2>2. HeldEventsAreCurrent'
    <3>1. \A t \in Threads : \A e \in todo[t] :
            /\ rows[Key(e)] = e
            /\ \A i \in Queued : sql_queue[i].evt.request_id # e.request_id
      BY DEF Ownership, HeldInv, HeldEventsAreCurrent
    <3>2. \A t \in Threads : \A e \in todo[t] : rows'[Key(e)] = e
      BY <1>6, <2>1, <3>1
    <3>3. \A t \in Threads : \A e \in todo[t] :
            \A i \in Queued' : sql_queue'[i].evt.request_id # e.request_id
      BY <1>7, <3>1
    <3>4. QED
      BY <1>1, <3>2, <3>3 DEF HeldEventsAreCurrent, Key
  <2>3. \A t \in Threads : Handles(t)' = Handles(t)
    BY <1>1 DEF Handles
  <2>4. QED
    BY <1>1, <2>2, <2>3 DEF Ownership, HeldInv
<1>9. QueuedInv'
  <2>1. \A i \in Queued' : rows'[Key(sql_queue'[i].evt)] = rows[Key(sql_queue[i + 1].evt)]
    BY <1>6, <1>7
  <2>2. WritesFindTheirRows'
    <3>1. \A i \in Queued' :
            rows'[Key(sql_queue'[i].evt)].fk_status = sql_queue'[i].evt.fk_status
      BY <1>7, <2>1 DEF Ownership, QueuedInv, WritesFindTheirRows
    <3>2. \A i, j \in Queued' : i # j => i + 1 # j + 1
      BY <1>1, QueueTail
    <3>3. \A i, j \in Queued' :
            i # j => sql_queue'[i].evt.request_id # sql_queue'[j].evt.request_id
      BY <1>7, <3>2 DEF Ownership, QueuedInv, WritesFindTheirRows
    <3>4. QED
      BY <3>1, <3>3 DEF WritesFindTheirRows, Key
  <2>3. (\A i \in Queued : MayPut(sql_queue[i]))'
    BY <1>7, <2>1 DEF Ownership, QueuedInv, MayPut
  <2>4. (\A i \in Queued : sql_queue[i].op = "add" => ~HasRow(sql_queue[i].evt.request_id))'
    BY <1>6, <1>7 DEF Ownership, QueuedInv
  <2>5. QED
    BY <2>2, <2>3, <2>4 DEF QueuedInv
<1>10. SelectsInv'
  BY <1>1, TailKeepsSelects DEF Ownership, SelectsInv
<1>11. NewInv'
  <2>1. SUFFICES ASSUME pc["poll"] = "new"
                 PROVE  /\ ~HasRow(now["poll"].request_id)'
                        /\ \A i \in Queued' : sql_queue'[i].evt.fk_status # "NA"
    BY <1>1 DEF NewInv
  <2>2. /\ now["poll"].request_id \in Requests /\ ~HasRow(now["poll"].request_id)
        /\ \A i \in Queued : sql_queue[i].evt.fk_status # "NA"
    BY <2>1 DEF Ownership, NewInv, ThreadsInv, Event
  <2>3. s.op # "add"
    BY <1>2, <2>2 DEF Ownership, QueuedInv, MayPut
  <2>4. ~HasRow(now["poll"].request_id)'
    BY <1>1, <1>6, <2>2, <2>3
  <2>5. QED
    BY <1>7, <2>2, <2>4
<1>12. QED
  BY <1>3, <1>4, <1>5, <1>8, <1>9, <1>10, <1>11 DEF Ownership

(* The waiting updates behind the first statement, when the rows stay.      *)
LEMMA TailKeepsQueued ==
    ASSUME Ownership, sql_queue # <<>>, sql_queue' = Tail(sql_queue), rows' = rows
    PROVE  QueuedInv'
<1>1. \A i \in Queued' :
        i \in DOMAIN sql_queue' /\ i + 1 \in Queued /\ sql_queue'[i] = sql_queue[i + 1]
  BY QueueTail
<1>2. \A i, j \in Queued' : i # j => i + 1 # j + 1
  BY <1>1, QueueTail
<1>3. WritesFindTheirRows'
  <2>1. \A i \in Queued' :
            rows'[Key(sql_queue'[i].evt)].fk_status = sql_queue'[i].evt.fk_status
    BY <1>1 DEF Ownership, QueuedInv, WritesFindTheirRows
  <2>2. \A i, j \in Queued' :
            i # j => sql_queue'[i].evt.request_id # sql_queue'[j].evt.request_id
    BY <1>1, <1>2 DEF Ownership, QueuedInv, WritesFindTheirRows
  <2>3. QED
    BY <2>1, <2>2 DEF WritesFindTheirRows, Key
<1>4. (\A i \in Queued : MayPut(sql_queue[i]))'
  BY <1>1 DEF Ownership, QueuedInv, MayPut
<1>5. (\A i \in Queued : sql_queue[i].op = "add" => ~HasRow(sql_queue[i].evt.request_id))'
  BY <1>1 DEF Ownership, QueuedInv, HasRow
<1>6. QED
  BY <1>3, <1>4, <1>5 DEF QueuedInv

(* So do the held events.                                                   *)
LEMMA TailKeepsHeld ==
    ASSUME Ownership, sql_queue # <<>>, sql_queue' = Tail(sql_queue), rows' = rows
    PROVE  \A t \in Threads : \A e \in todo[t] :
                /\ rows'[Key(e)] = e
                /\ \A i \in Queued' : sql_queue'[i].evt.request_id # e.request_id
<1>1. \A i \in Queued' : i + 1 \in Queued /\ sql_queue'[i] = sql_queue[i + 1]
  BY QueueTail
<1>2. \A t \in Threads : \A e \in todo[t] :
        /\ rows[Key(e)] = e
        /\ \A i \in Queued : sql_queue[i].evt.request_id # e.request_id
  BY DEF Ownership, HeldInv, HeldEventsAreCurrent
<1> TAKE t \in Threads
<1> TAKE e \in todo[t]
<1>4. rows'[Key(e)] = e
  BY <1>2
<1>5. \A i \in Queued' : sql_queue'[i].evt.request_id # e.request_id
  <2>1. \A i \in Queued : sql_queue[i].evt.request_id # e.request_id
    BY <1>2
  <2> TAKE i \in Queued'
  <2>2. i + 1 \in Queued /\ sql_queue'[i] = sql_queue[i + 1]
    BY <1>1
  <2>3. sql_queue[i + 1].evt.request_id # e.request_id
    BY <2>1, <2>2
  <2>4. QED
    BY <2>2, <2>3, Zenon
<1>6. QED
  BY <1>4, <1>5

(* The database rolls a write back.                                         *)
LEMMA LosesWriteKeeps ==
    ASSUME Ownership, LosesWrite
    PROVE  Ownership'
<1> USE DEF chainVars, threadVars, localVars
<1>1. sql_queue # <<>> /\ sql_queue' = Tail(sql_queue) /\ rows' = rows
      /\ UNCHANGED <<pc, todo, now, scan>>
  BY DEF LosesWrite, RollBackWrite
<1>2. \A i \in Queued' : i + 1 \in Queued /\ sql_queue'[i] = sql_queue[i + 1]
  BY <1>1, QueueTail
<1>3. TypeOK'
  BY <1>1, QueueTail DEF Ownership, TypeOK, LosesWrite
<1>4. RowsInv'
  BY <1>1 DEF Ownership, RowsInv, OneRowPerRequest
<1>5. ThreadsInv'
  BY <1>1 DEF Ownership, ThreadsInv
<1>6. HeldInv'
  <2>1. HeldEventsAreCurrent'
    BY <1>1, TailKeepsHeld DEF HeldEventsAreCurrent, Key
  <2>2. \A t \in Threads : Handles(t)' = Handles(t)
    BY <1>1 DEF Handles
  <2>3. QED
    BY <1>1, <2>1, <2>2 DEF Ownership, HeldInv
<1>7. QueuedInv'
  BY <1>1, TailKeepsQueued
<1>8. SelectsInv'
  BY <1>1, TailKeepsSelects DEF Ownership, SelectsInv
<1>9. NewInv'
  BY <1>1, <1>2 DEF Ownership, NewInv, HasRow
<1>10. QED
  BY <1>3, <1>4, <1>5, <1>6, <1>7, <1>8, <1>9 DEF Ownership

(* A thread receives the rows it asked for: no update of any of them, nor   *)
(* of another row of its request, waits behind the select.                  *)
LEMMA AnswersSelectKeeps ==
    ASSUME Ownership, AnswersSelect
    PROVE  Ownership'
<1> DEFINE s == Head(sql_queue)
           t == s.by
<1> USE DEF chainVars, localVars, countVars
<1>1. /\ sql_queue # <<>> /\ sql_queue' = Tail(sql_queue) /\ IsSelection(s)
      /\ todo' = [todo EXCEPT ![t] = RowsWith(s.status)]
      /\ pc' = [pc EXCEPT ![t] = "loop"]
      /\ UNCHANGED <<rows, now, scan>>
  BY DEF AnswersSelect
<1>2. 1 \in DOMAIN sql_queue /\ sql_queue[1] = s
  BY <1>1, QueueTail
<1>3. /\ t \in Selectors /\ pc[t] = "select" /\ s.status = Handles(t)
      /\ \A j \in DOMAIN sql_queue :
            /\ IsSelection(sql_queue[j]) /\ 1 # j => sql_queue[j].by # t
            /\ 1 < j /\ j \in Queued => sql_queue[j].evt.fk_status # s.status
  BY <1>1, <1>2 DEF Ownership, SelectsInv
<1>4. t \in Threads /\ t # "poll" /\ s.status \in {"AS", "TS", "SB"}
  BY <1>3, HandlesSaved DEF Ownership, Selectors, Threads
<1>5. \A i \in Queued' :
        /\ i + 1 \in Queued /\ 1 < i + 1 /\ sql_queue'[i] = sql_queue[i + 1]
        /\ i + 1 \in DOMAIN sql_queue
  <2>1. DOMAIN sql_queue' \subseteq Nat /\ \A i \in DOMAIN sql_queue' : i >= 1
    BY <1>1, TailFacts DEF Ownership, TypeOK
  <2>2. QED
    BY <1>1, <2>1, QueueTail DEF Queued
<1> HIDE DEF s, t
<1>6. \A e \in RowsWith(s.status) :
        e \in Event /\ Key(e) \in Keys /\ rows[Key(e)] = e /\ e.fk_status = s.status
  BY DEF RowsWith, Ownership, TypeOK, RowsInv
<1>7. TypeOK'
  <2>1. todo' \in [Threads -> SUBSET Event]
    <3>1. RowsWith(s.status) \in SUBSET Event
      BY <1>6
    <3> HIDE DEF RowsWith
    <3>2. QED
      BY <1>1, <3>1 DEF Ownership, TypeOK
  <2>2. pc' \in [Threads -> {"off", "watch", "loop", "select", "new", "known",
                            "bid", "receipt", "police"}]
    BY <1>1 DEF Ownership, TypeOK
  <2>3. sql_queue' \in Seq(Statement)
    BY <1>1, QueueTail
  <2>4. QED
    BY <1>1, <2>1, <2>2, <2>3 DEF Ownership, TypeOK, AnswersSelect
<1>8. RowsInv'
  BY <1>1 DEF Ownership, RowsInv, OneRowPerRequest
<1>9. ThreadsInv'
  BY <1>1, <1>3, <1>4 DEF Ownership, TypeOK, ThreadsInv, Selectors, Threads
<1>10. HeldInv'
  <2>1. \A e \in RowsWith(s.status) : \A i \in Queued' :
            sql_queue'[i].evt.request_id # e.request_id
    <3>1. SUFFICES ASSUME NEW e \in RowsWith(s.status), NEW i \in Queued,
                          1 < i, i \in DOMAIN sql_queue,
                          sql_queue[i].evt.request_id = e.request_id
                   PROVE  FALSE
      BY <1>5
    <3>2. sql_queue[i].evt.fk_status # s.status
      BY <1>3, <3>1
    <3>3. /\ sql_queue[i].evt \in Event /\ sql_queue[i].op \in Updates
          /\ rows[Key(sql_queue[i].evt)].fk_status = sql_queue[i].evt.fk_status
          /\ MayPut(sql_queue[i])
          /\ sql_queue[i].op = "add" => ~HasRow(e.request_id)
      BY <3>1 DEF Ownership, TypeOK, QueuedInv, WritesFindTheirRows, Queued, IsWrite,
                  Statement, Write, Selection, Lookup, Updates
    <3>4. e \in Event /\ rows[Key(e)].fk_status # "NA" /\ rows[Key(e)].fk_status = s.status
      BY <1>4, <1>6
    <3>5. HasRow(e.request_id)
      BY <3>4 DEF HasRow, Key, Event
    <3>6. sql_queue[i].evt.fk_status # "NA"
      BY <3>3, <3>5 DEF MayPut, Updates
    <3>7. Key(sql_queue[i].evt) = Key(e)
      BY <3>1, <3>3, <3>4, <3>6 DEF Ownership, RowsInv, OneRowPerRequest, Key, Event, Types
    <3>8. QED
      BY <3>2, <3>3, <3>4, <3>7
  <2>2. /\ todo'[t] = RowsWith(s.status)
        /\ \A u \in Threads : u # t => todo'[u] = todo[u]
    BY <1>1, <1>4 DEF Ownership, TypeOK
  <2>3. \A u \in Threads : \A e \in todo'[u] :
            /\ rows'[Key(e)] = e
            /\ \A i \in Queued' : sql_queue'[i].evt.request_id # e.request_id
    <3> TAKE u \in Threads
    <3> TAKE e \in todo'[u]
    <3>2. CASE u = t
      <4>1. e \in RowsWith(s.status)
        BY <2>2, <3>2, Zenon
      <4>2. rows'[Key(e)] = e
        BY <1>1, <1>6, <4>1, Zenon
      <4>3. QED
        BY <2>1, <4>1, <4>2, Zenon
    <3>3. CASE u # t
      <4>1. e \in todo[u]
        BY <2>2, <3>3
      <4>2. QED
        BY <1>1, <4>1, TailKeepsHeld
    <3>4. QED
      BY <3>2, <3>3
  <2>4. HeldEventsAreCurrent'
    BY <2>3 DEF HeldEventsAreCurrent, Key
  <2>5. \A u \in Threads : Handles(u)' = Handles(u)
    BY <1>1 DEF Handles
  <2>6. QED
    BY <1>3, <1>6, <2>2, <2>4, <2>5 DEF Ownership, HeldInv
<1>11. QueuedInv'
  BY <1>1, TailKeepsQueued
<1>12. SelectsInv'
  <2>1. \A i \in DOMAIN sql_queue : i # 1 =>
            /\ IsSelection(sql_queue[i]) =>
                    sql_queue[i].by \in Threads /\ sql_queue[i].by # t /\ pc[sql_queue[i].by] = "select"
            /\ IsLookup(sql_queue[i]) => pc["poll"] = "select"
    BY <1>3 DEF Ownership, SelectsInv, Selectors, Threads
  <2>2. /\ \A u \in Threads : u # t => pc'[u] = pc[u]
        /\ "poll" \in Threads
    BY <1>1, <1>4 DEF Ownership, TypeOK, Threads
  <2>3. \A i \in DOMAIN sql_queue : i # 1 =>
            /\ IsSelection(sql_queue[i]) => pc'[sql_queue[i].by] = "select"
            /\ IsLookup(sql_queue[i]) => pc'["poll"] = "select" /\ now'["poll"] = now["poll"]
    BY <1>1, <1>4, <2>1, <2>2
  <2>4. QED
    BY <1>1, <2>3, TailKeepsSelects
<1>13. NewInv'
  BY <1>1, <1>4, <1>5 DEF Ownership, TypeOK, NewInv, HasRow, Threads
<1>14. QED
  BY <1>7, <1>8, <1>9, <1>10, <1>11, <1>12, <1>13 DEF Ownership

(* poll learns whether a request is known.                                  *)
LEMMA AnswersLookupKeeps ==
    ASSUME Ownership, AnswersLookup
    PROVE  Ownership'
<1> DEFINE s == Head(sql_queue)
           answer == IF HasRow(s.evt.request_id) THEN "known" ELSE "new"
<1> USE DEF chainVars, localVars, countVars
<1>1. /\ sql_queue # <<>> /\ sql_queue' = Tail(sql_queue) /\ IsLookup(s)
      /\ pc' = [pc EXCEPT !["poll"] = answer]
      /\ UNCHANGED <<rows, todo, now, scan>>
  BY DEF AnswersLookup
<1>2. 1 \in DOMAIN sql_queue /\ sql_queue[1] = s
  BY <1>1, QueueTail
<1>3. /\ pc["poll"] = "select" /\ s.evt = now["poll"]
      /\ \A j \in DOMAIN sql_queue :
            /\ IsLookup(sql_queue[j]) => 1 = j
            /\ 1 < j /\ j \in Queued => sql_queue[j].evt.fk_status # "NA"
  BY <1>1, <1>2 DEF Ownership, SelectsInv
<1>4. \A i \in Queued' :
        /\ i + 1 \in Queued /\ 1 < i + 1 /\ sql_queue'[i] = sql_queue[i + 1]
        /\ i + 1 \in DOMAIN sql_queue
  <2>1. DOMAIN sql_queue' \subseteq Nat /\ \A i \in DOMAIN sql_queue' : i >= 1
    BY <1>1, TailFacts DEF Ownership, TypeOK
  <2>2. QED
    BY <1>1, <2>1, QueueTail DEF Queued
<1>5. answer \in {"known", "new"} /\ (answer = "new" => ~HasRow(now["poll"].request_id))
  BY <1>3
<1> HIDE DEF s, answer
<1>6. /\ pc'["poll"] = answer /\ \A u \in Threads : u # "poll" => pc'[u] = pc[u]
      /\ "poll" \in Threads
  BY <1>1 DEF Ownership, TypeOK, Threads
<1>7. TypeOK'
  BY <1>1, <1>5, QueueTail DEF Ownership, TypeOK, AnswersLookup
<1>8. RowsInv'
  BY <1>1 DEF Ownership, RowsInv, OneRowPerRequest
<1>9. ThreadsInv'
  BY <1>1, <1>3, <1>5, <1>6 DEF Ownership, ThreadsInv, Threads
<1>10. HeldInv'
  <2>1. HeldEventsAreCurrent'
    BY <1>1, TailKeepsHeld DEF HeldEventsAreCurrent, Key
  <2>2. \A u \in Threads : Handles(u)' = Handles(u)
    BY <1>1 DEF Handles
  <2>3. QED
    BY <1>1, <2>1, <2>2 DEF Ownership, HeldInv
<1>11. QueuedInv'
  BY <1>1, TailKeepsQueued
<1>12. SelectsInv'
  <2>1. \A i \in DOMAIN sql_queue : i # 1 =>
            /\ ~IsLookup(sql_queue[i])
            /\ IsSelection(sql_queue[i]) =>
                    sql_queue[i].by \in Threads /\ sql_queue[i].by # "poll"
                    /\ pc[sql_queue[i].by] = "select"
    BY <1>3 DEF Ownership, SelectsInv, Selectors, Threads
  <2>2. \A i \in DOMAIN sql_queue : i # 1 =>
            /\ IsSelection(sql_queue[i]) => pc'[sql_queue[i].by] = "select"
            /\ IsLookup(sql_queue[i]) => pc'["poll"] = "select" /\ now'["poll"] = now["poll"]
    BY <1>6, <2>1
  <2>3. QED
    BY <1>1, <2>2, TailKeepsSelects
<1>13. NewInv'
  <2>1. HasRow(now["poll"].request_id)' <=> HasRow(now["poll"].request_id)
    BY <1>1 DEF HasRow
  <2>2. QED
    BY <1>1, <1>3, <1>4, <1>5, <1>6, <2>1 DEF NewInv
<1>14. QED
  BY <1>7, <1>8, <1>9, <1>10, <1>11, <1>12, <1>13 DEF Ownership

(* The waiting updates do not depend on what the threads do.                *)
LEMMA SameQueued ==
    ASSUME Ownership, UNCHANGED <<rows, sql_queue>>
    PROVE  QueuedInv'
<1>1. WritesFindTheirRows' /\ (\A i \in Queued : MayPut(sql_queue[i]))'
  BY DEF Ownership, QueuedInv, WritesFindTheirRows, MayPut, Queued
<1>2. (\A i \in Queued : sql_queue[i].op = "add" => ~HasRow(sql_queue[i].evt.request_id))'
  BY DEF Ownership, QueuedInv, Queued, HasRow
<1>3. QED
  BY <1>1, <1>2 DEF QueuedInv

(* poll goes on without touching the queue.                                 *)
LEMMA PollMovesKeeps ==
    ASSUME Ownership, TypeOK', UNCHANGED <<rows, sql_queue, todo, scan>>,
           NEW place \in {"loop", "bid", "receipt", "police"},
           pc["poll"] \notin {"off", "select"},
           pc' = [pc EXCEPT !["poll"] = place],
           \A t \in Threads \ {"poll"} : now'[t] = now[t]
    PROVE  Ownership'
<1>1. /\ pc'["poll"] = place /\ \A u \in Threads : u # "poll" => pc'[u] = pc[u]
      /\ {"poll", "main", "audit", "submit", "monitor"} = Threads
  BY DEF Ownership, TypeOK, Threads
<1>2. RowsInv'
  BY DEF Ownership, RowsInv, OneRowPerRequest
<1>3. ThreadsInv'
  <2>1. /\ \A t \in Threads : t # "main" /\ pc[t] # "off" => pc["main"] = "watch"
        /\ \A t \in Threads : pc[t] # "loop" => todo[t] = {}
        /\ pc["main"] = "off" => sql_queue = <<>>
        /\ pc["main"] \in {"off", "watch", "loop", "select"}
        /\ \A t \in {"audit", "submit", "monitor"} : pc[t] \in {"off", "loop", "select"}
        /\ todo["poll"] = {}
        /\ now["main"] = None /\ now["audit"] = None
        /\ \A t \in {"submit", "monitor"} : now[t] # None => now[t] \in todo[t]
    BY DEF Ownership, ThreadsInv
  <2>2. QED
    BY <1>1, <2>1 DEF ThreadsInv
<1>4. HeldInv'
  <2>1. \A t \in Threads : Handles(t)' = Handles(t)
    BY DEF Handles
  <2>2. QED
    BY <2>1 DEF Ownership, HeldInv, HeldEventsAreCurrent, Queued
<1>5. QueuedInv'
  BY SameQueued
<1>6. SelectsInv'
  <2>1. \A t \in Selectors : Handles(t)' = Handles(t)
    BY DEF Handles
  <2>2. \A t \in Selectors : pc'[t] = pc[t]
    BY <1>1 DEF Selectors
  <2>3. \A i \in DOMAIN sql_queue : ~IsLookup(sql_queue[i])
    BY DEF Ownership, SelectsInv
  <2>4. QED
    BY <2>1, <2>2, <2>3 DEF Ownership, SelectsInv, Queued
<1>7. NewInv'
  BY <1>1 DEF NewInv
<1>8. QED
  BY <1>2, <1>3, <1>4, <1>5, <1>6, <1>7 DEF Ownership

(* submit or monitor is in the middle of one of its events.                 *)
LEMMA NowKeeps ==
    ASSUME Ownership, TypeOK', UNCHANGED <<rows, sql_queue, pc, todo, scan>>,
           NEW t \in {"submit", "monitor"}, NEW e \in todo[t],
           now' = [now EXCEPT ![t] = e]
    PROVE  Ownership'
<1>1. now'[t] = e /\ \A u \in Threads : u # t => now'[u] = now[u]
  BY DEF Ownership, TypeOK, Threads
<1>2. RowsInv'
  BY DEF Ownership, RowsInv, OneRowPerRequest
<1>3. ThreadsInv'
  BY <1>1 DEF Ownership, ThreadsInv, Threads
<1>4. HeldInv'
  <2>1. \A u \in Threads : Handles(u)' = Handles(u)
    BY DEF Handles
  <2>2. QED
    BY <2>1 DEF Ownership, HeldInv, HeldEventsAreCurrent, Queued
<1>5. QueuedInv'
  BY SameQueued
<1>6. SelectsInv'
  <2>1. \A u \in Selectors : Handles(u)' = Handles(u)
    BY DEF Handles
  <2>2. now'["poll"] = now["poll"]
    BY <1>1 DEF Threads
  <2>3. QED
    BY <2>1, <2>2 DEF Ownership, SelectsInv, Queued
<1>7. NewInv'
  BY <1>1 DEF Ownership, NewInv, HasRow, Queued, Threads
<1>8. QED
  BY <1>2, <1>3, <1>4, <1>5, <1>6, <1>7 DEF Ownership

(* main starts the other threads, at a time when nobody waits.              *)
LEMMA StartsThreadsKeeps ==
    ASSUME Ownership, StartsThreads
    PROVE  Ownership'
<1> USE DEF StartsThreads, poolVars, chainVars, localVars, countVars
<1>1. /\ pc["main"] = "loop" /\ todo["main"] = {}
      /\ \A t \in Threads : t # "main" => pc[t] = "off"
      /\ \A t \in Threads : todo[t] = {}
  BY DEF Ownership, ThreadsInv
<1>2. /\ pc'["main"] = "watch"
      /\ \A t \in Threads : t # "main" => pc'[t] = "loop"
  BY DEF Threads
<1>3. TypeOK'
  BY DEF Ownership, TypeOK
<1>4. RowsInv'
  BY DEF Ownership, RowsInv, OneRowPerRequest
<1>5. ThreadsInv'
  BY <1>1, <1>2 DEF Ownership, ThreadsInv, Threads
<1>6. HeldInv'
  BY <1>1 DEF HeldInv, HeldEventsAreCurrent
<1>7. QueuedInv'
  BY DEF Ownership, QueuedInv, WritesFindTheirRows, MayPut, Queued, HasRow
<1>8. SelectsInv'
  <2>1. \A i \in DOMAIN sql_queue : ~IsSelection(sql_queue[i]) /\ ~IsLookup(sql_queue[i])
    BY <1>1 DEF Ownership, SelectsInv, Selectors, Threads
  <2>2. QED
    BY <2>1 DEF SelectsInv
<1>9. NewInv'
  BY <1>2 DEF NewInv, Threads
<1>10. QED
  BY <1>3, <1>4, <1>5, <1>6, <1>7, <1>8, <1>9 DEF Ownership

(* The process ends.                                                        *)
LEMMA CrashKeeps ==
    ASSUME Ownership, Crash
    PROVE  Ownership'
<1> USE DEF Crash, chainVars
<1>1. TypeOK'
  <2>1. scan' \in ScanType /\ sql_queue' \in Seq(Statement)
    BY DEF ScanType
  <2>2. /\ pc' \in [Threads -> {"off", "watch", "loop", "select", "new", "known",
                              "bid", "receipt", "police"}]
        /\ todo' \in [Threads -> SUBSET Event]
        /\ now' \in [Threads -> Event \cup {None}]
    OBVIOUS
  <2>3. /\ isFinished' \in BOOLEAN /\ lastBlock' \in Nat /\ isPolice' \in {"unknown", "yes", "no"}
        /\ UNCHANGED <<rows, block, assigned, mostRecent, bids, pending, reportBlock, sent,
                       lost, unanswered>>
        /\ crashes' = crashes + 1
    OBVIOUS
  <2> HIDE DEF Crash
  <2>4. QED
    BY <2>1, <2>2, <2>3 DEF Ownership, TypeOK
<1>2. RowsInv'
  BY DEF Ownership, RowsInv, OneRowPerRequest
<1>3. ThreadsInv'
  BY DEF ThreadsInv, Threads
<1>4. HeldInv'
  BY DEF HeldInv, HeldEventsAreCurrent
<1>5. QueuedInv' /\ SelectsInv'
  <2>1. DOMAIN sql_queue' = {} /\ Queued' = {}
    BY DEF Queued
  <2>2. QED
    BY <2>1 DEF QueuedInv, SelectsInv, WritesFindTheirRows
<1>6. NewInv'
  BY DEF NewInv, Threads
<1>7. QED
  BY <1>1, <1>2, <1>3, <1>4, <1>5, <1>6 DEF Ownership

(* poll asks whether a request is known, and waits.                         *)
LEMMA LooksUpKeeps ==
    ASSUME Ownership, TypeOK', UNCHANGED <<rows, todo, scan>>,
           pc["poll"] \in {"loop", "police"},
           NEW evt \in Event, evt.fk_status = "NA", LooksUp(evt)
    PROVE  Ownership'
<1> DEFINE s == [op |-> "lookup", evt |-> evt]
           n == Len(sql_queue) + 1
<1> USE DEF LooksUp, PutLookup
<1>1. s \in Statement /\ IsLookup(s) /\ ~IsSelection(s) /\ ~IsWrite(s) /\ s.evt = evt
  BY DEF Statement, Lookup, IsLookup, IsSelection, IsWrite, Updates
<1>2. /\ DOMAIN sql_queue' = DOMAIN sql_queue \cup {n} /\ n \notin DOMAIN sql_queue
      /\ \A i \in DOMAIN sql_queue : sql_queue'[i] = sql_queue[i] /\ i < n
      /\ DOMAIN sql_queue \subseteq Nat /\ n \in Nat
      /\ sql_queue'[n] = s
  BY <1>1, AppendFacts DEF Ownership, TypeOK
<1>3. Queued' = Queued /\ \A i \in Queued : i \in DOMAIN sql_queue /\ sql_queue'[i] = sql_queue[i]
  BY <1>1, <1>2 DEF Queued
<1>4. /\ pc'["poll"] = "select" /\ \A u \in Threads : u # "poll" => pc'[u] = pc[u]
      /\ now'["poll"] = evt /\ \A u \in Threads : u # "poll" => now'[u] = now[u]
      /\ {"poll", "main", "audit", "submit", "monitor"} = Threads
  BY DEF Ownership, TypeOK, Threads
<1> HIDE DEF s, n, LooksUp, PutLookup
<1>5. RowsInv'
  BY DEF Ownership, RowsInv, OneRowPerRequest
<1>6. ThreadsInv'
  BY <1>4 DEF Ownership, ThreadsInv
<1>7. HeldInv'
  <2>1. \A t \in Threads : Handles(t)' = Handles(t)
    BY DEF Handles
  <2>2. HeldEventsAreCurrent'
    BY <1>3 DEF Ownership, HeldInv, HeldEventsAreCurrent
  <2>3. QED
    BY <2>1, <2>2 DEF Ownership, HeldInv
<1>8. QueuedInv'
  <2>1. WritesFindTheirRows'
    BY <1>3 DEF Ownership, QueuedInv, WritesFindTheirRows
  <2>2. (\A i \in Queued : MayPut(sql_queue[i]))'
    BY <1>3 DEF Ownership, QueuedInv, MayPut
  <2>3. (\A i \in Queued : sql_queue[i].op = "add" => ~HasRow(sql_queue[i].evt.request_id))'
    BY <1>3 DEF Ownership, QueuedInv, HasRow
  <2>4. QED
    BY <2>1, <2>2, <2>3 DEF QueuedInv
<1>9. SelectsInv'
  <2>1. \A u \in Selectors : Handles(u)' = Handles(u) /\ pc'[u] = pc[u]
    BY <1>4 DEF Handles, Selectors
  <2>2. (\A i \in DOMAIN sql_queue : IsSelection(sql_queue[i]) =>
            /\ sql_queue[i].by \in Selectors
            /\ pc[sql_queue[i].by] = "select"
            /\ sql_queue[i].status = Handles(sql_queue[i].by))'
    BY <1>1, <1>2, <2>1 DEF Ownership, SelectsInv
  <2>3. (\A i \in DOMAIN sql_queue : IsSelection(sql_queue[i]) =>
            \A j \in DOMAIN sql_queue :
                /\ IsSelection(sql_queue[j]) /\ i # j => sql_queue[i].by # sql_queue[j].by
                /\ i < j /\ j \in Queued => sql_queue[j].evt.fk_status # sql_queue[i].status)'
    BY <1>1, <1>2, <1>3 DEF Ownership, SelectsInv
  <2>4. \A i \in DOMAIN sql_queue : ~IsLookup(sql_queue[i])
    BY DEF Ownership, SelectsInv
  <2>5. (\A i \in DOMAIN sql_queue : IsLookup(sql_queue[i]) =>
            /\ pc["poll"] = "select"
            /\ sql_queue[i].evt = now["poll"]
            /\ \A j \in DOMAIN sql_queue :
                /\ IsLookup(sql_queue[j]) => i = j
                /\ i < j /\ j \in Queued => sql_queue[j].evt.fk_status # "NA")'
    <3>1. \A i \in DOMAIN sql_queue' : IsLookup(sql_queue'[i]) => i = n
      BY <1>2, <2>4
    <3>2. \A j \in Queued' : j < n
      BY <1>2, <1>3
    <3>3. sql_queue'[n].evt = now'["poll"] /\ pc'["poll"] = "select"
      BY <1>1, <1>2, <1>4
    <3>4. n \in Nat /\ \A j \in Queued' : j \in Nat /\ ~(n < j)
      BY <1>2, <1>3, <3>2
    <3>5. QED
      BY <3>1, <3>3, <3>4
  <2>6. QED
    BY <2>2, <2>3, <2>5 DEF SelectsInv
<1>10. NewInv'
  BY <1>4 DEF NewInv
<1>11. QED
  BY <1>5, <1>6, <1>7, <1>8, <1>9, <1>10 DEF Ownership

LEMMA LooksUpTypes ==
    ASSUME TypeOK, NEW evt \in Event, LooksUp(evt), lastBlock' \in Nat,
           UNCHANGED <<rows, chainVars, todo, isFinished, scan, isPolice, countVars>>
    PROVE  TypeOK'
<1>1. [op |-> "lookup", evt |-> evt] \in Statement
  BY DEF Statement, Lookup
<1>2. sql_queue' \in Seq(Statement)
  BY <1>1 DEF TypeOK, LooksUp, PutLookup
<1>3. pc' = [pc EXCEPT !["poll"] = "select"] /\ now' = [now EXCEPT !["poll"] = evt]
  BY DEF LooksUp
<1>4. QED
  BY <1>2, <1>3 DEF TypeOK, chainVars, countVars

(* poll saves a request it found to be new.                                 *)
LEMMA SavesKeeps ==
    ASSUME Ownership, UNCHANGED <<rows, todo, scan>>,
           UNCHANGED <<chainVars, localVars, countVars>>,
           pc["poll"] = "new", PutWrite("add", now["poll"]),
           NEW place \in {"bid", "loop"}, pc' = [pc EXCEPT !["poll"] = place],
           now' = [now EXCEPT !["poll"] = None]
    PROVE  Ownership'
<1> DEFINE evt == now["poll"]
           s == [op |-> "add", evt |-> evt]
           n == Len(sql_queue) + 1
<1> USE DEF PutWrite, chainVars, localVars, countVars
<1>1. evt \in Event /\ evt.fk_status = "NA" /\ ~HasRow(evt.request_id)
      /\ (\A i \in Queued : sql_queue[i].evt.fk_status # "NA")
  BY DEF Ownership, ThreadsInv, NewInv
<1> HIDE DEF evt
<1>2. s \in Statement /\ IsWrite(s) /\ ~IsSelection(s) /\ ~IsLookup(s)
      /\ s.evt = evt /\ s.op = "add"
  BY <1>1 DEF Statement, Write, IsWrite, IsSelection, IsLookup, Updates
<1>3. /\ sql_queue' \in Seq(Statement)
      /\ DOMAIN sql_queue' = DOMAIN sql_queue \cup {n} /\ n \notin DOMAIN sql_queue
      /\ \A i \in DOMAIN sql_queue : sql_queue'[i] = sql_queue[i] /\ i < n
      /\ DOMAIN sql_queue \subseteq Nat /\ n \in Nat
      /\ sql_queue'[n] = s
  BY <1>2, AppendFacts DEF Ownership, TypeOK, evt
<1>4. /\ Queued' = Queued \cup {n}
      /\ \A i \in Queued : i \in DOMAIN sql_queue /\ sql_queue'[i] = sql_queue[i]
  BY <1>2, <1>3 DEF Queued
<1>5. /\ pc'["poll"] = place /\ \A u \in Threads : u # "poll" => pc'[u] = pc[u]
      /\ \A u \in Threads : u # "poll" => now'[u] = now[u]
      /\ {"poll", "main", "audit", "submit", "monitor"} = Threads
  BY DEF Ownership, TypeOK, Threads
<1>6. TypeOK'
  BY <1>3 DEF Ownership, TypeOK
<1> HIDE DEF s, n, PutWrite
<1>7. Key(evt) \in Keys /\ rows[Key(evt)].fk_status = "NA"
      /\ \A f \in Event : f.request_id = evt.request_id => rows[Key(f)].fk_status = "NA"
  BY <1>1 DEF HasRow, Key, Keys, Event
<1>8. RowsInv'
  BY DEF Ownership, RowsInv, OneRowPerRequest
<1>9. ThreadsInv'
  BY <1>5 DEF Ownership, ThreadsInv
<1>10. HeldInv'
  <2>1. \A t \in Threads : \A e \in todo[t] : e.request_id # evt.request_id
    BY <1>7, HolderLoops
  <2>2. HeldEventsAreCurrent'
    BY <1>2, <1>3, <1>4, <2>1 DEF Ownership, HeldInv, HeldEventsAreCurrent
  <2>3. \A t \in Threads : Handles(t)' = Handles(t)
    BY DEF Handles
  <2>4. QED
    BY <2>2, <2>3 DEF Ownership, HeldInv
<1>11. QueuedInv'
  <2>1. \A i \in Queued : sql_queue[i].evt.request_id # evt.request_id
    <3>1. \A i \in Queued : sql_queue[i].evt \in Event
      BY DEF Ownership, TypeOK, Queued, IsWrite, Statement, Write, Selection, Lookup, Updates
    <3>2. QED
      BY <1>1, <1>7, <3>1 DEF Ownership, QueuedInv, WritesFindTheirRows
  <2>2. WritesFindTheirRows'
    <3>1. \A i \in Queued' :
            rows'[Key(sql_queue'[i].evt)].fk_status = sql_queue'[i].evt.fk_status
      BY <1>1, <1>2, <1>3, <1>4, <1>7 DEF Ownership, QueuedInv, WritesFindTheirRows
    <3>2. \A i, j \in Queued' :
            i # j => sql_queue'[i].evt.request_id # sql_queue'[j].evt.request_id
      BY <1>2, <1>3, <1>4, <2>1 DEF Ownership, QueuedInv, WritesFindTheirRows
    <3>3. QED
      BY <3>1, <3>2 DEF WritesFindTheirRows, Key
  <2>3. (\A i \in Queued : MayPut(sql_queue[i]))'
    BY <1>1, <1>2, <1>3, <1>4 DEF Ownership, QueuedInv, MayPut
  <2>4. (\A i \in Queued : sql_queue[i].op = "add" => ~HasRow(sql_queue[i].evt.request_id))'
    <3>1. \A i \in Queued' :
            sql_queue'[i].op = "add" => ~HasRow(sql_queue'[i].evt.request_id)
      BY <1>1, <1>2, <1>3, <1>4 DEF Ownership, QueuedInv
    <3>2. QED
      BY <3>1 DEF HasRow
  <2>5. QED
    BY <2>2, <2>3, <2>4 DEF QueuedInv
<1>12. SelectsInv'
  <2>1. \A u \in Selectors : Handles(u)' = Handles(u) /\ pc'[u] = pc[u]
    BY <1>5 DEF Handles, Selectors
  <2>2. (\A i \in DOMAIN sql_queue : IsSelection(sql_queue[i]) =>
            /\ sql_queue[i].by \in Selectors
            /\ pc[sql_queue[i].by] = "select"
            /\ sql_queue[i].status = Handles(sql_queue[i].by))'
    BY <1>2, <1>3, <2>1 DEF Ownership, SelectsInv
  <2>3. \A i \in DOMAIN sql_queue : IsSelection(sql_queue[i]) => sql_queue[i].status # "NA"
    BY HandlesSaved DEF Ownership, SelectsInv
  <2>4. (\A i \in DOMAIN sql_queue : IsSelection(sql_queue[i]) =>
            \A j \in DOMAIN sql_queue :
                /\ IsSelection(sql_queue[j]) /\ i # j => sql_queue[i].by # sql_queue[j].by
                /\ i < j /\ j \in Queued => sql_queue[j].evt.fk_status # sql_queue[i].status)'
    BY <1>1, <1>2, <1>3, <1>4, <2>3 DEF Ownership, SelectsInv
  <2>5. \A i \in DOMAIN sql_queue' : ~IsLookup(sql_queue'[i])
    BY <1>2, <1>3 DEF Ownership, SelectsInv
  <2>6. QED
    BY <2>2, <2>4, <2>5 DEF SelectsInv
<1>13. NewInv'
  BY <1>5 DEF NewInv
<1>14. QED
  BY <1>6, <1>8, <1>9, <1>10, <1>11, <1>12, <1>13 DEF Ownership

-----------------------------------------------------------------------------
(* One lemma for each thread, and one for the chain.                        *)

(* A thread fails an event that it holds.                                   *)
LEMMA ErrorKeeps ==
    ASSUME Ownership, NEW t \in Threads, NEW e \in todo[t], LeavesWith(t, e, "error", e)
    PROVE  Ownership'
<1>1. e \in Event /\ e.fk_status \in {"AS", "TS", "SB"}
  BY HolderLoops
<1>2. MayPut([op |-> "error", evt |-> e])
  BY <1>1 DEF MayPut
<1>3. "error" \in Updates \ {"add"}
  BY DEF Updates
<1>4. QED
  BY <1>1, <1>2, <1>3, LeavesWithKeeps

(* monitor sends an event back to be submitted.                             *)
LEMMA ResubmitKeeps ==
    ASSUME Ownership, NEW e \in todo["monitor"], ~AttemptsExhausted(e),
           LeavesWith("monitor", e, "to_be_submitted", e)
    PROVE  Ownership'
<1>1. "monitor" \in Threads /\ Handles("monitor") = "SB"
  BY DEF Threads, Handles
<1>2. e \in Event /\ e.fk_status = "SB" /\ rows[Key(e)] = e
  BY <1>1, HolderLoops
<1>3. e.submission_attempts < MaxSubmissionAttempts
  BY <1>2, ConstantsAssumption DEF AttemptsExhausted, Event
<1>4. MayPut([op |-> "to_be_submitted", evt |-> e])
  BY <1>2, <1>3 DEF MayPut
<1>5. "to_be_submitted" \in Updates \ {"add"}
  BY DEF Updates
<1>6. QED
  BY <1>1, <1>2, <1>4, <1>5, LeavesWithKeeps

LEMMA MainKeeps ==
    ASSUME Ownership, Main
    PROVE  Ownership'
<1>0. "main" \in Threads /\ "main" \in Selectors
  BY DEF Threads, Selectors
<1>1. CASE Start
  <2>1. pc["main"] = "off" /\ todo["main"] = {}
    BY <1>0, <1>1 DEF Start, Ownership, ThreadsInv
  <2>2. scan' \in ScanType /\ Handles("main")' = "AS"
    <3>1. block - SubmissionTimeoutLimit + BlockDiscardOnRestart \in Int
      BY ConstantsAssumption DEF Ownership, TypeOK
    <3>2. scan' = [status |-> "AS", firstValid |-> block - SubmissionTimeoutLimit
                                                          + BlockDiscardOnRestart]
      BY <1>1 DEF Start
    <3>3. QED
      BY <3>1, <3>2 DEF ScanType, Handles
  <2>3. PutSelect("main", Handles("main")')
    BY <1>1, <2>2 DEF Start
  <2>4. QED
    BY <1>0, <1>1, <2>1, <2>2, <2>3, SelectKeeps DEF Start, countVars
<1>2. CASE ScansSubmissions
  <2>1. pc["main"] = "loop" /\ todo["main"] = {}
    BY <1>2 DEF ScansSubmissions
  <2>2. scan' \in ScanType /\ Handles("main")' = "TS"
    BY <1>2 DEF ScansSubmissions, Ownership, TypeOK, ScanType, Handles
  <2>3. PutSelect("main", Handles("main")')
    BY <1>2, <2>2 DEF ScansSubmissions
  <2>4. QED
    BY <1>0, <1>2, <2>1, <2>2, <2>3, SelectKeeps DEF ScansSubmissions, countVars
<1>3. CASE StartsThreads
  BY <1>3, StartsThreadsKeeps
<1>4. ASSUME NEW e \in todo["main"], TimesOut(e)
      PROVE  Ownership'
  BY <1>0, <1>4, ErrorKeeps DEF TimesOut
<1>5. ASSUME NEW e \in todo["main"], StillValid(e)
      PROVE  Ownership'
  BY <1>0, <1>5, LeavesAloneKeeps DEF StillValid
<1>6. QED
  BY <1>1, <1>2, <1>3, <1>4, <1>5 DEF Main

(* The event of an assignment, while the database has no row of it.         *)
LEMMA AssignedEventFacts ==
    ASSUME TypeOK, NEW k \in Keys
    PROVE  AssignedEvent(k) \in Event /\ AssignedEvent(k).fk_status = "NA"
  BY DEF TypeOK, AssignedEvent, NoRow, Event, Keys, Status

LEMMA PollKeeps ==
    ASSUME Ownership, Poll
    PROVE  Ownership'
<1> USE DEF poolVars, chainVars, localVars, countVars
<1>0. "poll" \in Threads /\ pc \in [Threads -> {"off", "watch", "loop", "select", "new",
                                   "known", "bid", "receipt", "police"}]
      /\ now \in [Threads -> Event \cup {None}]
  BY DEF Threads, Ownership, TypeOK
<1>p. AfterAuditPoll \in {"police", "loop"}
  BY DEF AfterAuditPoll
<1> HIDE DEF AfterAuditPoll
<1>1. CASE ChecksRole
  <2>1. TypeOK'
    BY <1>1 DEF ChecksRole, Ownership, TypeOK
  <2>2. QED
    BY <1>1, <2>1, Frame DEF ChecksRole
<1>2. CASE SavesRequest
  BY <1>2, SavesKeeps DEF SavesRequest
<1>3. CASE SavesPoliceCheck
  BY <1>3, SavesKeeps DEF SavesPoliceCheck
<1>4. CASE KnowsRequest
  <2>1. TypeOK'
    BY <1>4 DEF KnowsRequest, Ownership, TypeOK
  <2>2. QED
    BY <1>0, <1>4, <2>1, PollMovesKeeps DEF KnowsRequest
<1>5. CASE Bids
  <2>1. TypeOK'
    <3>1. UNCHANGED <<poolVars, block, assigned, mostRecent, pending, reportBlock,
                      todo, now, localVars, countVars>>
      BY <1>5 DEF Bids
    <3>2. bids' \in Nat
      <4>1. bids' = bids + 1
        BY <1>5 DEF Bids
      <4>2. QED
        BY <4>1 DEF Ownership, TypeOK
    <3>3. pc' \in [Threads -> {"off", "watch", "loop", "select", "new", "known",
                              "bid", "receipt", "police"}]
      <4>1. pc' = [pc EXCEPT !["poll"] = "receipt"]
        BY <1>5 DEF Bids
      <4>2. QED
        BY <1>0, <4>1
    <3>4. QED
      BY <3>1, <3>2, <3>3 DEF Ownership, TypeOK
  <2>2. QED
    BY <1>0, <1>5, <2>1, PollMovesKeeps DEF Bids
<1>6. CASE DoesNotBid
  <2>1. TypeOK'
    BY <1>6, <1>p DEF DoesNotBid, Ownership, TypeOK
  <2>2. QED
    BY <1>0, <1>6, <1>p, <2>1, PollMovesKeeps DEF DoesNotBid
<1>7. CASE EndsWait
  <2>1. TypeOK'
    BY <1>7, <1>p DEF EndsWait, Ownership, TypeOK
  <2>2. QED
    BY <1>0, <1>7, <1>p, <2>1, PollMovesKeeps DEF EndsWait
<1>8. CASE FindsNoPoliceCheck
  <2>1. TypeOK'
    BY <1>8 DEF FindsNoPoliceCheck, Ownership, TypeOK
  <2>2. QED
    BY <1>0, <1>8, <2>1, PollMovesKeeps DEF FindsNoPoliceCheck
<1>9. CASE LeavesPoliceCheck
  <2>1. TypeOK'
    BY <1>9 DEF LeavesPoliceCheck, Ownership, TypeOK
  <2>2. QED
    BY <1>0, <1>9, <2>1, PollMovesKeeps DEF LeavesPoliceCheck
<1>10. ASSUME NEW r \in Requests, FindsPoliceCheck(r)
       PROVE  Ownership'
  <2>1. AssignedEvent(<<r, "PC">>) \in Event /\ AssignedEvent(<<r, "PC">>).fk_status = "NA"
    BY AssignedEventFacts DEF Ownership, Keys, Types
  <2>2. PICK evt \in Event : evt.fk_status = "NA" /\ LooksUp(evt)
    BY <1>10, <2>1 DEF FindsPoliceCheck
  <2>3. UNCHANGED <<rows, chainVars, todo, localVars, countVars>> /\ pc["poll"] = "police"
    BY <1>10 DEF FindsPoliceCheck
  <2>4. TypeOK /\ lastBlock' \in Nat
    BY <2>3 DEF Ownership, TypeOK
  <2>5. TypeOK'
    BY <2>2, <2>3, <2>4, LooksUpTypes
  <2>6. QED
    BY <2>2, <2>3, <2>5, LooksUpKeeps
<1>11. ASSUME NEW b \in 1 .. MaxBlock,
              SkipsAudits(b) \/ FindsNothing(b) \/ FindsUnconfirmed(b) \/ PollRaises(b)
       PROVE  Ownership'
  <2>1. PICK place \in {"police", "bid", "loop"} : pc' = [pc EXCEPT !["poll"] = place]
    BY <1>11, <1>p DEF SkipsAudits, FindsNothing, FindsUnconfirmed, PollRaises
  <2>2. /\ UNCHANGED <<poolVars, chainVars, todo, now, isFinished, scan, isPolice, countVars>>
        /\ pc["poll"] = "loop" /\ lastBlock' = b
    BY <1>11 DEF SkipsAudits, FindsNothing, FindsUnconfirmed, PollRaises, Polls
  <2>3. b \in Nat
    BY ConstantsAssumption
  <2>4. TypeOK'
    BY <2>1, <2>2, <2>3 DEF Ownership, TypeOK
  <2>5. QED
    BY <1>0, <2>1, <2>2, <2>4, PollMovesKeeps
<1>12. ASSUME NEW b \in 1 .. MaxBlock, FindsConfirmed(b)
       PROVE  Ownership'
  <2>1. mostRecent \in Requests
    BY <1>12 DEF FindsConfirmed, Ownership, TypeOK
  <2>2. AssignedEvent(<<mostRecent, "AU">>) \in Event
        /\ AssignedEvent(<<mostRecent, "AU">>).fk_status = "NA"
    BY <2>1, AssignedEventFacts DEF Ownership, Keys, Types
  <2>3. PICK evt \in Event : evt.fk_status = "NA" /\ LooksUp(evt)
    BY <1>12, <2>2 DEF FindsConfirmed
  <2>4. /\ UNCHANGED <<rows, chainVars, todo, isFinished, scan, isPolice, countVars>>
        /\ pc["poll"] = "loop" /\ lastBlock' = b
    BY <1>12 DEF FindsConfirmed, Polls
  <2>5. lastBlock' \in Nat
    BY <2>4, ConstantsAssumption
  <2>6. TypeOK'
    BY <2>3, <2>4, <2>5, LooksUpTypes DEF Ownership
  <2>7. QED
    BY <2>3, <2>4, <2>6, LooksUpKeeps
<1>13. QED
  BY <1>1, <1>2, <1>3, <1>4, <1>5, <1>6, <1>7, <1>8, <1>9, <1>10, <1>11, <1>12 DEF Poll

LEMMA AuditKeeps ==
    ASSUME Ownership, Audit
    PROVE  Ownership'
<1>0. "audit" \in Threads /\ "audit" \in Selectors /\ Handles("audit") = "AS"
      /\ Handles("audit")' = "AS"
  BY DEF Threads, Selectors, Handles
<1>1. CASE Selects("audit")
  BY <1>0, <1>1, SelectKeeps DEF Selects, localVars, Ownership, TypeOK
<1>2. ASSUME NEW e \in todo["audit"], Reports(e)
      PROVE  Ownership'
  <2> DEFINE evt == [e EXCEPT !.submission_block_nbr = block]
  <2>1. e \in Event /\ e.fk_status = "AS"
    BY <1>0, HolderLoops
  <2>2. evt \in Event /\ evt.fk_status = e.fk_status /\ Key(evt) = Key(e)
    BY <2>1 DEF Event, Key, Ownership, TypeOK
  <2>3. LeavesWith("audit", e, "to_be_submitted", evt)
    BY <1>2 DEF Reports
  <2> HIDE DEF evt
  <2>4. MayPut([op |-> "to_be_submitted", evt |-> evt])
    BY <2>1, <2>2 DEF MayPut
  <2>5. "to_be_submitted" \in Updates \ {"add"}
    BY DEF Updates
  <2>6. QED
    BY <1>0, <2>2, <2>3, <2>4, <2>5, LeavesWithKeeps
<1>3. ASSUME NEW e \in todo["audit"], AuditRaises(e)
      PROVE  Ownership'
  BY <1>0, <1>3, ErrorKeeps DEF AuditRaises
<1>4. ASSUME NEW e \in todo["audit"], AuditRaisesKeyError(e)
      PROVE  Ownership'
  BY <1>0, <1>4, LeavesAloneKeeps DEF AuditRaisesKeyError
<1>5. QED
  BY <1>1, <1>2, <1>3, <1>4 DEF Audit

LEMMA SubmitKeeps ==
    ASSUME Ownership, Submit
    PROVE  Ownership'
<1>0. "submit" \in Threads /\ "submit" \in Selectors /\ Handles("submit") = "TS"
      /\ Handles("submit")' = "TS"
  BY DEF Threads, Selectors, Handles
<1>1. CASE Selects("submit")
  BY <1>0, <1>1, SelectKeeps DEF Selects, localVars, Ownership, TypeOK
<1>2. ASSUME NEW e \in todo["submit"], Sends(e)
      PROVE  Ownership'
  <2>1. e \in Event /\ Key(e) \in Keys
    BY <1>0, HolderLoops
  <2>2. TypeOK'
    <3>1. UNCHANGED <<poolVars, block, assigned, mostRecent, bids, reportBlock,
                      pc, todo, localVars, crashes, lost, unanswered>>
      BY <1>2 DEF Sends
    <3>2. now' \in [Threads -> Event \cup {None}]
      BY <1>2, <2>1 DEF Sends, Ownership, TypeOK
    <3>3. pending' \in [Keys -> Nat] /\ sent' \in [Keys -> Nat]
      BY <1>2, <2>1 DEF Sends, Ownership, TypeOK
    <3>4. QED
      BY <3>1, <3>2, <3>3 DEF Ownership, TypeOK, poolVars, localVars
  <2>3. QED
    BY <1>2, <2>2, NowKeeps DEF Sends, poolVars, localVars
<1>3. ASSUME NEW e \in todo["submit"], RecordsSubmission(e)
      PROVE  Ownership'
  <2>1. e \in Event /\ e.fk_status = "TS"
    BY <1>0, HolderLoops
  <2>2. MayPut([op |-> "submitted", evt |-> e]) /\ "submitted" \in Updates \ {"add"}
    BY <2>1 DEF MayPut, Updates
  <2>3. QED
    BY <1>0, <1>3, <2>1, <2>2, LeavesWithKeeps DEF RecordsSubmission
<1>4. ASSUME NEW e \in todo["submit"], IsDuplicate(e)
      PROVE  Ownership'
  BY <1>0, <1>4, LeavesAloneKeeps DEF IsDuplicate
<1>5. ASSUME NEW e \in todo["submit"], SubmitRaises(e)
      PROVE  Ownership'
  BY <1>0, <1>5, ErrorKeeps DEF SubmitRaises
<1>6. ASSUME NEW e \in todo["submit"], GoesUnanswered(e)
      PROVE  Ownership'
  <2>1. e \in Event /\ Key(e) \in Keys
    BY <1>0, HolderLoops
  <2>2. UNCHANGED <<rows, sql_queue, pc, todo, now, scan>>
    BY <1>6 DEF GoesUnanswered, poolVars, threadVars, localVars
  <2>3. TypeOK'
    <3>1. UNCHANGED <<block, assigned, mostRecent, bids, reportBlock,
                      isFinished, lastBlock, isPolice, crashes, lost>>
      BY <1>6 DEF GoesUnanswered, threadVars, localVars
    <3>2. pending' \in [Keys -> Nat] /\ sent' \in [Keys -> Nat] /\ unanswered' \in Nat
      BY <1>6, <2>1 DEF GoesUnanswered, Ownership, TypeOK
    <3>3. QED
      BY <2>2, <3>1, <3>2 DEF Ownership, TypeOK
  <2>4. QED
    BY <2>2, <2>3, Frame
<1>7. QED
  BY <1>1, <1>2, <1>3, <1>4, <1>5, <1>6 DEF Submit

LEMMA MonitorKeeps ==
    ASSUME Ownership, Monitor
    PROVE  Ownership'
<1>0. "monitor" \in Threads /\ "monitor" \in Selectors /\ Handles("monitor") = "SB"
      /\ Handles("monitor")' = "SB"
  BY DEF Threads, Selectors, Handles
<1>1. CASE Selects("monitor")
  BY <1>0, <1>1, SelectKeeps DEF Selects, localVars, Ownership, TypeOK
<1>2. ASSUME NEW e \in todo["monitor"], Asks(e)
      PROVE  Ownership'
  <2>1. e \in Event
    BY <1>0, HolderLoops
  <2>2. TypeOK'
    BY <1>2, <2>1 DEF Asks, Ownership, TypeOK, poolVars, chainVars, countVars
  <2>3. QED
    BY <1>2, <2>2, NowKeeps DEF Asks, poolVars
<1>3. ASSUME NEW e \in todo["monitor"], AwaitsConfirmation(e)
      PROVE  Ownership'
  BY <1>0, <1>3, LeavesAloneKeeps DEF AwaitsConfirmation
<1>4. ASSUME NEW e \in todo["monitor"], Finishes(e)
      PROVE  Ownership'
  <2>1. e \in Event /\ e.fk_status = "SB"
    BY <1>0, HolderLoops
  <2>2. MayPut([op |-> "done", evt |-> e]) /\ "done" \in Updates \ {"add"}
    BY <2>1 DEF MayPut, Updates
  <2>3. QED
    BY <1>0, <1>4, <2>1, <2>2, LeavesWithKeeps DEF Finishes
<1>5. ASSUME NEW e \in todo["monitor"], Resubmits(e)
      PROVE  Ownership'
  BY <1>5, ResubmitKeeps DEF Resubmits
<1>6. ASSUME NEW e \in todo["monitor"], GivesUp(e)
      PROVE  Ownership'
  BY <1>0, <1>6, ErrorKeeps DEF GivesUp
<1>7. ASSUME NEW e \in todo["monitor"], MonitorRaises(e)
      PROVE  Ownership'
  <2>1. CASE AttemptsExhausted(e)
    <3>1. LeavesWith("monitor", e, "error", e)
      BY <1>7, <2>1 DEF MonitorRaises
    <3>2. QED
      BY <1>0, <3>1, ErrorKeeps
  <2>2. CASE ~AttemptsExhausted(e)
    <3>1. LeavesWith("monitor", e, "to_be_submitted", e)
      BY <1>7, <2>2 DEF MonitorRaises
    <3>2. QED
      BY <2>2, <3>1, ResubmitKeeps
  <2>3. QED
    BY <2>1, <2>2
<1>8. QED
  BY <1>1, <1>2, <1>3, <1>4, <1>5, <1>6, <1>7 DEF Monitor

(* The contract knows nothing of the database.                              *)
LEMMA ChainKeeps ==
    ASSUME Ownership, Chain
    PROVE  Ownership'
<1> USE DEF poolVars, threadVars, localVars, countVars
<1>1. UNCHANGED <<rows, sql_queue, pc, todo, now, scan>>
  BY DEF Chain, MinesBlock, BidFails, AssignsRequest, AssignsPoliceCheck, AcceptsReport,
         DropsReport, LosesReport, LosesAssignment
<1>2. UNCHANGED <<isFinished, lastBlock, isPolice, sent, crashes, lost, unanswered>>
  BY DEF Chain, MinesBlock, BidFails, AssignsRequest, AssignsPoliceCheck, AcceptsReport,
         DropsReport, LosesReport, LosesAssignment
<1>3. /\ block' \in Nat /\ assigned' \in [Keys -> Nat] /\ mostRecent' \in Requests \cup {None}
      /\ bids' \in Nat /\ pending' \in [Keys -> Nat] /\ reportBlock' \in [Keys -> Nat]
  <2> USE DEF Ownership, TypeOK
  <2>1. CASE MinesBlock
    BY <2>1 DEF MinesBlock
  <2>2. CASE BidFails
    BY <2>2 DEF BidFails
  <2>3. ASSUME NEW r \in Requests, AssignsRequest(r) PROVE <1>3!:
    <3>1. <<r, "AU">> \in Keys
      BY DEF Keys, Types
    <3>2. /\ bids > 0 /\ bids' = bids - 1 /\ mostRecent' = r
          /\ UNCHANGED <<block, pending, reportBlock>>
      BY <2>3 DEF AssignsRequest
    <3>3. assigned' \in [Keys -> Nat]
      BY <2>3, <3>1 DEF AssignsRequest
    <3>4. QED
      BY <3>2, <3>3
  <2>4. ASSUME NEW r \in Requests, AssignsPoliceCheck(r) PROVE <1>3!:
    BY <2>4 DEF AssignsPoliceCheck
  <2>5. ASSUME NEW k \in Keys, AcceptsReport(k) PROVE <1>3!:
    BY <2>5 DEF AcceptsReport
  <2>6. ASSUME NEW k \in Keys, DropsReport(k) PROVE <1>3!:
    BY <2>6 DEF DropsReport
  <2>7. ASSUME NEW k \in Keys, LosesReport(k) PROVE <1>3!:
    BY <2>7 DEF LosesReport
  <2>8. ASSUME NEW k \in Keys, LosesAssignment(k) PROVE <1>3!:
    BY <2>8 DEF LosesAssignment
  <2>9. QED
    BY <2>1, <2>2, <2>3, <2>4, <2>5, <2>6, <2>7, <2>8 DEF Chain
<1>4. TypeOK'
  BY <1>1, <1>2, <1>3 DEF Ownership, TypeOK
<1>5. QED
  BY <1>1, <1>4, Frame

-----------------------------------------------------------------------------
LEMMA InitOwnership == Init => Ownership
<1> SUFFICES ASSUME Init PROVE Ownership
  OBVIOUS
<1> USE DEF Init, PoolInit, NodeOff
<1>1. \A k \in Keys : NoRow(k) \in Event /\ Key(NoRow(k)) = k /\ NoRow(k).fk_status = "NA"
                      /\ NoRow(k).submission_attempts = 0
  BY DEF Keys, NoRow, Key, Event, Status
<1>2. rows \in [Keys -> Event] /\ \A k \in Keys : rows[k] = NoRow(k)
  BY <1>1
<1>3. DOMAIN sql_queue = {} /\ Queued = {}
  BY DEF Queued
<1>4. TypeOK
  <2>1. sql_queue \in Seq(Statement)
    OBVIOUS
  <2>2. /\ pc \in [Threads -> {"off", "watch", "loop", "select", "new", "known",
                              "bid", "receipt", "police"}]
        /\ todo \in [Threads -> SUBSET Event]
        /\ now \in [Threads -> Event \cup {None}]
        /\ isFinished \in BOOLEAN /\ lastBlock \in Nat /\ isPolice \in {"unknown", "yes", "no"}
    OBVIOUS
  <2>4. scan \in ScanType
    BY DEF ScanType
  <2>3. /\ block \in Nat /\ assigned \in [Keys -> Nat] /\ mostRecent \in Requests \cup {None}
        /\ bids \in Nat /\ pending \in [Keys -> Nat] /\ reportBlock \in [Keys -> Nat]
        /\ sent \in [Keys -> Nat] /\ crashes \in Nat /\ lost \in Nat /\ unanswered \in Nat
    OBVIOUS
  <2> HIDE DEF Init, PoolInit, NodeOff
  <2>5. QED
    BY <1>2, <2>1, <2>2, <2>3, <2>4 DEF TypeOK
<1>5. RowsInv
  <2> HIDE DEF Init, PoolInit, NodeOff
  <2>1. \A k \in Keys : /\ Key(rows[k]) = k /\ rows[k].fk_status = "NA"
                       /\ rows[k].submission_attempts = 0
    BY <1>1, <1>2
  <2>2. OneRowPerRequest
    BY <2>1 DEF OneRowPerRequest, Keys, Types
  <2>3. 0 <= MaxSubmissionAttempts
    BY ConstantsAssumption
  <2>4. QED
    BY <2>1, <2>2, <2>3 DEF RowsInv
<1>6. ThreadsInv
  BY DEF ThreadsInv, Threads
<1>7. HeldInv
  BY DEF HeldInv, HeldEventsAreCurrent
<1>8. QueuedInv /\ SelectsInv
  BY <1>3 DEF QueuedInv, SelectsInv, WritesFindTheirRows
<1>9. NewInv
  BY DEF NewInv, Threads
<1>10. QED
  BY <1>4, <1>5, <1>6, <1>7, <1>8, <1>9 DEF Ownership

LEMMA NextOwnership == Ownership /\ [Next]_vars => Ownership'
<1> SUFFICES ASSUME Ownership, [Next]_vars PROVE Ownership'
  OBVIOUS
<1>1. CASE Main
  BY <1>1, MainKeeps
<1>2. CASE Poll
  BY <1>2, PollKeeps
<1>3. CASE Audit
  BY <1>3, AuditKeeps
<1>4. CASE Submit
  BY <1>4, SubmitKeeps
<1>5. CASE Monitor
  BY <1>5, MonitorKeeps
<1>6. CASE Worker
  BY <1>6, WritesKeeps, AnswersSelectKeeps, AnswersLookupKeeps DEF Worker
<1>7. CASE LosesWrite
  BY <1>7, LosesWriteKeeps
<1>8. CASE Crash
  BY <1>8, CrashKeeps
<1>9. CASE Chain
  BY <1>9, ChainKeeps
<1>10. CASE UNCHANGED vars
  <2>1. TypeOK'
    BY <1>10 DEF Ownership, TypeOK, vars, poolVars, chainVars, threadVars, localVars, countVars
  <2>2. QED
    BY <1>10, <2>1, Frame DEF vars, poolVars, threadVars, localVars
<1>11. QED
  BY <1>1, <1>2, <1>3, <1>4, <1>5, <1>6, <1>7, <1>8, <1>9, <1>10 DEF Next

(* The ownership discipline of the pipeline holds in every reachable state. *)
THEOREM OwnershipHolds == Spec => []Ownership
<1>1. Init => Ownership
  BY InitOwnership
<1>2. Ownership /\ [Next]_vars => Ownership'
  BY NextOwnership
<1>3. QED
  BY <1>1, <1>2, PTL DEF Spec

-----------------------------------------------------------------------------
(* What follows from the ownership discipline, for every number of          *)
(* requests, every configuration and every bound.                           *)

(* Every variable keeps its type.                                           *)
THEOREM TypeCorrect == Spec => []TypeOK
<1>1. Ownership => TypeOK
  BY DEF Ownership
<1>2. QED
  BY <1>1, OwnershipHolds, PTL

(* The copies of rows that a thread works on one by one                      *)
(* (__process_evt_with_status) are never stale.                             *)
THEOREM HeldEventsStayCurrent == Spec => []HeldEventsAreCurrent
<1>1. Ownership => HeldEventsAreCurrent
  BY DEF Ownership, HeldInv
<1>2. QED
  BY <1>1, OwnershipHolds, PTL

(* A statement executed late by Sqlite3Worker still finds its row in the    *)
(* status its author saw, and no two of them are for one request.           *)
THEOREM WritesAlwaysFindTheirRows == Spec => []WritesFindTheirRows
<1>1. Ownership => WritesFindTheirRows
  BY DEF Ownership, QueuedInv
<1>2. QED
  BY <1>1, OwnershipHolds, PTL

(* Updates address rows by request id alone, and never hit two rows.        *)
THEOREM OneRowPerRequestHolds == Spec => []OneRowPerRequest
<1>1. Ownership => OneRowPerRequest
  BY DEF Ownership, RowsInv
<1>2. QED
  BY <1>1, OwnershipHolds, PTL

(* submission_attempts never exceeds MAX_SUBMISSION_ATTEMPTS.               *)
THEOREM AttemptsStayBounded == Spec => []AttemptsBounded
<1>1. Ownership => AttemptsBounded
  BY DEF Ownership, RowsInv, AttemptsBounded
<1>2. QED
  BY <1>1, OwnershipHolds, PTL

(* Only a write of the database thread changes rows.                        *)
LEMMA RowsChangeByWrites ==
    ASSUME [Next]_vars
    PROVE  rows' = rows \/ ExecuteWrite
<1> USE DEF poolVars, chainVars, threadVars, localVars, countVars
<1>1. CASE Main
  BY <1>1 DEF Main, Start, ScansSubmissions, StartsThreads, TimesOut, StillValid,
              LeavesWith, LeavesAlone
<1>2. CASE Poll
  BY <1>2 DEF Poll, ChecksRole, SavesRequest, KnowsRequest, Bids, DoesNotBid, EndsWait,
              FindsNoPoliceCheck, SavesPoliceCheck, LeavesPoliceCheck, FindsPoliceCheck,
              SkipsAudits, FindsNothing, FindsUnconfirmed, FindsConfirmed, PollRaises
<1>3. CASE Audit
  BY <1>3 DEF Audit, Selects, Reports, AuditRaises, AuditRaisesKeyError,
              LeavesWith, LeavesAlone
<1>4. CASE Submit
  BY <1>4 DEF Submit, Selects, Sends, GoesUnanswered, RecordsSubmission, IsDuplicate,
              SubmitRaises, LeavesWith, LeavesAlone
<1>5. CASE Monitor
  BY <1>5 DEF Monitor, Selects, Asks, AwaitsConfirmation, Finishes, Resubmits, GivesUp,
              MonitorRaises, LeavesWith, LeavesAlone
<1>6. CASE Worker
  BY <1>6 DEF Worker, Writes, AnswersSelect, AnswersLookup
<1>7. CASE LosesWrite \/ Crash
  BY <1>7 DEF LosesWrite, RollBackWrite, Crash
<1>8. CASE Chain
  BY <1>8 DEF Chain, MinesBlock, BidFails, AssignsRequest, AssignsPoliceCheck,
              AcceptsReport, DropsReport, LosesReport, LosesAssignment
<1>9. CASE UNCHANGED vars
  BY <1>9 DEF vars
<1>10. QED
  BY <1>1, <1>2, <1>3, <1>4, <1>5, <1>6, <1>7, <1>8, <1>9 DEF Next

(* Done and error are final (audit.py, third invariant), although the       *)
(* statement behind set_evt_status_to_error does not look at the row.       *)
THEOREM TerminalStaysFinal == Spec => TerminalIsFinal
<1>1. ASSUME Ownership, [Next]_vars,
             NEW k \in Keys, rows[k].fk_status \in {"DN", "ER"}
      PROVE  rows'[k] = rows[k]
  <2>1. CASE rows' = rows
    BY <2>1
  <2>2. CASE ExecuteWrite
    <3> DEFINE s == Head(sql_queue)
    <3>1. /\ MayPut(s) /\ s.op \in Updates
          /\ rows[Key(s.evt)].fk_status = s.evt.fk_status
          /\ \A x \in Keys : x # Key(s.evt) => rows'[x] = rows[x]
      BY <1>1, <2>2, WriteEffect
    <3>2. s.evt.fk_status \notin {"DN", "ER"}
      BY <3>1 DEF MayPut, Updates
    <3>3. QED
      BY <1>1, <3>1, <3>2
  <2>3. QED
    BY <1>1, <2>1, <2>2, RowsChangeByWrites
<1>2. Ownership /\ [Next]_vars =>
        [\A k \in Keys : rows[k].fk_status \in {"DN", "ER"} => rows'[k] = rows[k]]_vars
  BY <1>1
<1>3. QED
  BY <1>2, OwnershipHolds, PTL DEF Spec, TerminalIsFinal

-----------------------------------------------------------------------------
(* The pipeline implements the automaton of statuses.                       *)

(* What EventLifecycle sees of a row.                                       *)
Seen(row) == [status |-> row.fk_status, attempts |-> row.submission_attempts]

LEMMA SeenRow ==
    ASSUME NEW e, NEW st, NEW n, NEW b
    PROVE  Seen(Row(e, st, n, b)) = [status |-> st, attempts |-> n]
  BY DEF Seen, Row

(* A change of one row moves its event.                                     *)
LEMMA RowMoves ==
    ASSUME NEW k \in Keys, \A x \in Keys : x # k => rows'[x] = rows[x],
           NEW from, NEW to, NEW n, rows[k].fk_status \in from,
           Seen(rows'[k]) = [status |-> to, attempts |-> n]
    PROVE  Lifecycle!Moves(k, from, to, n)
<1> DEFINE life == [x \in Keys |-> [status   |-> rows[x].fk_status,
                                    attempts |-> rows[x].submission_attempts]]
<1>1. \A x \in Keys : life[x] = Seen(rows[x]) /\ life'[x] = Seen(rows'[x])
  BY DEF Seen
<1>2. life[k].status \in from
  BY DEF Seen
<1>3. life' = [life EXCEPT ![k] = [status |-> to, attempts |-> n]]
  <2>1. \A x \in Keys : life'[x] = [life EXCEPT ![k] = [status |-> to, attempts |-> n]][x]
    <3>1. DOMAIN life = Keys
      OBVIOUS
    <3> HIDE DEF life
    <3>2. QED
      BY <1>1, <3>1
  <2>2. QED
    BY <2>1
<1>4. QED
  BY <1>2, <1>3 DEF Lifecycle!Moves

(* The actions of the automaton, in terms of the row.                       *)
LEMMA LifecycleActions ==
    ASSUME NEW k \in Keys, NEW n \in Nat, rows[k].submission_attempts = n
    PROVE  /\ Lifecycle!Moves(k, {"NA"}, "AS", 0) => Lifecycle!Next
           /\ Lifecycle!Moves(k, {"AS"}, "TS", 1) => Lifecycle!Next
           /\ Lifecycle!Moves(k, {"TS"}, "SB", n) => Lifecycle!Next
           /\ /\ n < MaxSubmissionAttempts
              /\ Lifecycle!Moves(k, {"SB"}, "TS", n + 1)
              => Lifecycle!Next
           /\ Lifecycle!Moves(k, {"SB"}, "DN", n) => Lifecycle!Next
           /\ Lifecycle!Moves(k, {"AS", "TS", "SB"}, "ER", n)
              => Lifecycle!Next
<1>1. ASSUME Lifecycle!Moves(k, {"NA"}, "AS", 0)
      PROVE  Lifecycle!Next
  <2>1. Lifecycle!Assign(k)
    BY <1>1, Zenon DEF Lifecycle!Assign
  <2>2. QED
    BY <2>1 DEF Lifecycle!Next
<1>2. ASSUME Lifecycle!Moves(k, {"AS"}, "TS", 1)
      PROVE  Lifecycle!Next
  <2>1. Lifecycle!Report(k)
    BY <1>2, Zenon DEF Lifecycle!Report
  <2>2. QED
    BY <2>1 DEF Lifecycle!Next
<1>3. ASSUME Lifecycle!Moves(k, {"TS"}, "SB", n)
      PROVE  Lifecycle!Next
  <2>1. Lifecycle!Submit(k)
    BY <1>3 DEF Lifecycle!Submit, Lifecycle!Moves
  <2>2. QED
    BY <2>1 DEF Lifecycle!Next
<1>4. ASSUME /\ n < MaxSubmissionAttempts
             /\ Lifecycle!Moves(k, {"SB"}, "TS", n + 1)
      PROVE  Lifecycle!Next
  <2>1. Lifecycle!Resubmit(k)
    BY <1>4 DEF Lifecycle!Resubmit, Lifecycle!Moves
  <2>2. QED
    BY <2>1 DEF Lifecycle!Next
<1>5. ASSUME Lifecycle!Moves(k, {"SB"}, "DN", n)
      PROVE  Lifecycle!Next
  <2>1. Lifecycle!Finish(k)
    BY <1>5 DEF Lifecycle!Finish, Lifecycle!Moves
  <2>2. QED
    BY <2>1 DEF Lifecycle!Next
<1>6. ASSUME Lifecycle!Moves(k, {"AS", "TS", "SB"}, "ER", n)
      PROVE  Lifecycle!Next
  <2>1. Lifecycle!Fail(k)
    BY <1>6 DEF Lifecycle!Fail, Lifecycle!Moves
  <2>2. QED
    BY <2>1 DEF Lifecycle!Next
<1>7. QED
  BY <1>1, <1>2, <1>3, <1>4, <1>5, <1>6

(* Executing a write is one step of the automaton.                          *)
LEMMA WriteIsLifecycleStep ==
    ASSUME Ownership, ExecuteWrite
    PROVE  Lifecycle!Next
<1> DEFINE s == Head(sql_queue)
           k == Key(s.evt)
<1>1. /\ MayPut(s) /\ s.op \in Updates /\ k \in Keys
      /\ rows[k].fk_status = s.evt.fk_status
      /\ \A x \in Keys : x # k => rows'[x] = rows[x]
      /\ s.op = "add" => rows'[k] = Row(s.evt, "AS", 0, 0)
      /\ s.op = "to_be_submitted" =>
            rows'[k] = Row(rows[k], "TS", rows[k].submission_attempts + 1,
                           s.evt.submission_block_nbr)
      /\ s.op \notin {"add", "to_be_submitted"} =>
            \E st \in {"SB", "DN", "ER"} :
                /\ rows'[k] = Row(rows[k], st, rows[k].submission_attempts,
                                   rows[k].submission_block_nbr)
                /\ st = "SB" <=> s.op = "submitted"
                /\ st = "DN" <=> s.op = "done"
                /\ st = "ER" <=> s.op = "error"
  BY WriteEffect
<1>2. /\ rows[k].fk_status \in {"NA", "AS"} => rows[k].submission_attempts = 0
      /\ rows[k].submission_attempts \in Nat
  BY <1>1 DEF Ownership, RowsInv, TypeOK, Event
<1>3. \A st, n, b, e : Seen(Row(e, st, n, b)) = [status |-> st, attempts |-> n]
  BY SeenRow
<1>4. /\ s.op = "add" => rows[k].fk_status = "NA"
      /\ s.op = "to_be_submitted" =>
            \/ rows[k].fk_status = "AS"
            \/ rows[k].fk_status = "SB" /\ rows[k].submission_attempts < MaxSubmissionAttempts
      /\ s.op = "submitted" => rows[k].fk_status = "TS"
      /\ s.op = "done" => rows[k].fk_status = "SB"
      /\ s.op = "error" => rows[k].fk_status \in {"AS", "TS", "SB"}
  BY <1>1 DEF MayPut
<1> HIDE DEF s, k
<1>5. PICK key \in Keys, n \in Nat :
        /\ key = k /\ rows[key].submission_attempts = n
        /\ \A x \in Keys : x # key => rows'[x] = rows[x]
  BY <1>1, <1>2
<1>6. /\ s.op = "add" =>
            rows[key].fk_status = "NA" /\ Seen(rows'[key]) = [status |-> "AS", attempts |-> 0]
      /\ s.op = "to_be_submitted" =>
            /\ Seen(rows'[key]) = [status |-> "TS", attempts |-> n + 1]
            /\ \/ rows[key].fk_status = "AS" /\ n = 0
               \/ rows[key].fk_status = "SB" /\ n < MaxSubmissionAttempts
      /\ s.op = "submitted" =>
            rows[key].fk_status = "TS" /\ Seen(rows'[key]) = [status |-> "SB", attempts |-> n]
      /\ s.op = "done" =>
            rows[key].fk_status = "SB" /\ Seen(rows'[key]) = [status |-> "DN", attempts |-> n]
      /\ s.op = "error" =>
            /\ rows[key].fk_status \in {"AS", "TS", "SB"}
            /\ Seen(rows'[key]) = [status |-> "ER", attempts |-> n]
  <2>1. s.op = "add" => Seen(rows'[key]) = [status |-> "AS", attempts |-> 0]
    BY <1>1, <1>3, <1>5
  <2>2. s.op = "to_be_submitted" => Seen(rows'[key]) = [status |-> "TS", attempts |-> n + 1]
    BY <1>1, <1>3, <1>5
  <2>3. s.op \in {"submitted", "done", "error"} =>
            \E st \in {"SB", "DN", "ER"} :
                /\ Seen(rows'[key]) = [status |-> st, attempts |-> n]
                /\ st = "SB" <=> s.op = "submitted"
                /\ st = "DN" <=> s.op = "done"
                /\ st = "ER" <=> s.op = "error"
    BY <1>1, <1>3, <1>5
  <2>4. QED
    BY <1>2, <1>4, <1>5, <2>1, <2>2, <2>3
<1>7. CASE s.op = "add"
  <2>1. rows[key].fk_status \in {"NA"} /\ Seen(rows'[key]) = [status |-> "AS", attempts |-> 0]
    BY <1>5, <1>6, <1>7
  <2>2. Lifecycle!Moves(key, {"NA"}, "AS", 0)
    BY <1>5, <2>1, RowMoves
  <2>3. QED
    BY <1>5, <2>2, LifecycleActions
<1>8. CASE s.op = "to_be_submitted"
  <2>1. CASE rows[key].fk_status = "AS"
    <3>1. n = 0 /\ Seen(rows'[key]) = [status |-> "TS", attempts |-> 1]
      BY <1>6, <1>8, <2>1
    <3>2. Lifecycle!Moves(key, {"AS"}, "TS", 1)
      BY <1>5, <2>1, <3>1, RowMoves
    <3>3. QED
      BY <1>5, <3>2, LifecycleActions
  <2>2. CASE rows[key].fk_status = "SB"
    <3>1. n < MaxSubmissionAttempts /\ Seen(rows'[key]) = [status |-> "TS", attempts |-> n + 1]
      BY <1>6, <1>8, <2>2
    <3>2. Lifecycle!Moves(key, {"SB"}, "TS", n + 1)
      BY <1>5, <2>2, <3>1, RowMoves
    <3>3. QED
      BY <1>5, <3>1, <3>2, LifecycleActions
  <2>3. QED
    BY <1>6, <1>8, <2>1, <2>2
<1>9. CASE s.op = "submitted"
  <2>1. rows[key].fk_status \in {"TS"} /\ Seen(rows'[key]) = [status |-> "SB", attempts |-> n]
    BY <1>5, <1>6, <1>9
  <2>2. Lifecycle!Moves(key, {"TS"}, "SB", n)
    BY <1>5, <2>1, RowMoves
  <2>3. QED
    BY <1>5, <2>2, LifecycleActions
<1>10. CASE s.op = "done"
  <2>1. rows[key].fk_status \in {"SB"} /\ Seen(rows'[key]) = [status |-> "DN", attempts |-> n]
    BY <1>5, <1>6, <1>10
  <2>2. Lifecycle!Moves(key, {"SB"}, "DN", n)
    BY <1>5, <2>1, RowMoves
  <2>3. QED
    BY <1>5, <2>2, LifecycleActions
<1>11. CASE s.op = "error"
  <2>1. rows[key].fk_status \in {"AS", "TS", "SB"} /\ Seen(rows'[key]) = [status |-> "ER", attempts |-> n]
    BY <1>5, <1>6, <1>11
  <2>2. Lifecycle!Moves(key, {"AS", "TS", "SB"}, "ER", n)
    BY <1>5, <2>1, RowMoves
  <2>3. QED
    BY <1>5, <2>2, LifecycleActions
<1>12. QED
  BY <1>1, <1>7, <1>8, <1>9, <1>10, <1>11 DEF Updates

(* The detailed pipeline implements the abstract automaton: whatever the    *)
(* threads, the queue, losses and crashes do, a row moves along the edges   *)
(* that the statuses' ranking allows, and takes one of them at a time.      *)
THEOREM PipelineImplementsLifecycle == Spec => ImplementsLifecycle
<1>1. Init => Lifecycle!Init
  <2>1. ASSUME NEW k \in Keys
        PROVE  NoRow(k).fk_status = "NA" /\ NoRow(k).submission_attempts = 0
    BY DEF NoRow
  <2>2. QED
    BY <2>1 DEF Init, PoolInit, Lifecycle!Init
<1>2. Ownership /\ [Next]_vars =>
        [Lifecycle!Next]_([k \in Keys |-> [status   |-> rows[k].fk_status,
                                           attempts |-> rows[k].submission_attempts]])
  BY RowsChangeByWrites, WriteIsLifecycleStep
<1>3. QED
  BY <1>1, <1>2, OwnershipHolds, PTL DEF Spec, ImplementsLifecycle, Lifecycle!Spec
=============================================================================

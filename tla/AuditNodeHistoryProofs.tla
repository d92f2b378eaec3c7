------------------------ MODULE AuditNodeHistoryProofs ------------------------
(* Proofs that AuditNode keeps its history invariant, and what follows.     *)
EXTENDS AuditNodeProofs

-----------------------------------------------------------------------------
(* The set of the waiting updates.                                          *)

(* What the ownership invariant says of it.                                 *)
LEMMA WaitingFacts ==
    ASSUME Ownership
    PROVE  /\ \A s \in Waiting :
                /\ s \in Statement /\ IsWrite(s) /\ s.op \in Updates /\ s.evt \in Event
                /\ Key(s.evt) \in Keys
                /\ rows[Key(s.evt)].fk_status = s.evt.fk_status /\ MayPut(s)
           /\ \A t \in Threads : \A e \in todo[t] : \A s \in Waiting :
                s.evt.request_id # e.request_id
           /\ pc["main"] = "off" => Waiting = {}
<1>1. ASSUME NEW i \in Queued
      PROVE  /\ sql_queue[i] \in Statement /\ IsWrite(sql_queue[i])
             /\ sql_queue[i].op \in Updates /\ sql_queue[i].evt \in Event
             /\ Key(sql_queue[i].evt) \in Keys
             /\ rows[Key(sql_queue[i].evt)].fk_status = sql_queue[i].evt.fk_status
             /\ MayPut(sql_queue[i])
  <2>1. sql_queue[i] \in Statement /\ IsWrite(sql_queue[i])
    BY DEF Ownership, TypeOK, Queued
  <2>2. sql_queue[i].op \in Updates /\ sql_queue[i].evt \in Event
    BY <2>1 DEF Statement, Write, Selection, Lookup, IsWrite, Updates
  <2>3. Key(sql_queue[i].evt) \in Keys
    BY <2>2 DEF Keys, Key, Event
  <2>4. QED
    BY <2>1, <2>2, <2>3 DEF Ownership, QueuedInv, WritesFindTheirRows
<1>2. ASSUME NEW t \in Threads, NEW e \in todo[t], NEW i \in Queued
      PROVE  sql_queue[i].evt.request_id # e.request_id
  BY DEF Ownership, HeldInv, HeldEventsAreCurrent
<1>3. pc["main"] = "off" => Queued = {}
  BY DEF Ownership, ThreadsInv, Queued
<1>4. QED
  BY <1>1, <1>2, <1>3 DEF Waiting

(* An update that is put joins the set...                                   *)
LEMMA PutWriteWaiting ==
    ASSUME Ownership, NEW op \in Updates, NEW evt \in Event, PutWrite(op, evt)
    PROVE  Waiting' = Waiting \cup {[op |-> op, evt |-> evt]}
<1> DEFINE s == [op |-> op, evt |-> evt]
           n == Len(sql_queue) + 1
<1>1. s \in Statement /\ IsWrite(s)
  BY DEF Statement, Write, IsWrite
<1>2. /\ DOMAIN sql_queue' = DOMAIN sql_queue \cup {n} /\ n \notin DOMAIN sql_queue
      /\ \A i \in DOMAIN sql_queue : sql_queue'[i] = sql_queue[i]
      /\ sql_queue'[n] = s
  BY <1>1, AppendFacts DEF Ownership, TypeOK, PutWrite
<1> HIDE DEF s, n
<1>3. Queued' = Queued \cup {n} /\ \A i \in Queued : sql_queue'[i] = sql_queue[i]
  BY <1>1, <1>2 DEF Queued
<1>4. Waiting' = Waiting \cup {s}
  BY <1>2, <1>3 DEF Waiting
<1>5. QED
  BY <1>4 DEF s

(* ...and any other statement does not matter.                              *)
LEMMA PutOtherWaiting ==
    ASSUME Ownership, NEW s \in Statement, ~IsWrite(s), sql_queue' = Append(sql_queue, s)
    PROVE  Waiting' = Waiting
<1> DEFINE n == Len(sql_queue) + 1
<1>1. /\ DOMAIN sql_queue' = DOMAIN sql_queue \cup {n} /\ n \notin DOMAIN sql_queue
      /\ \A i \in DOMAIN sql_queue : sql_queue'[i] = sql_queue[i]
      /\ sql_queue'[n] = s
  BY AppendFacts DEF Ownership, TypeOK
<1> HIDE DEF n
<1>2. Queued' = Queued /\ \A i \in Queued : sql_queue'[i] = sql_queue[i]
  BY <1>1 DEF Queued
<1>3. QED
  BY <1>2 DEF Waiting

LEMMA SelectWaiting ==
    ASSUME Ownership, NEW t \in Threads, NEW status \in Status, PutSelect(t, status)
    PROVE  Waiting' = Waiting
<1> DEFINE s == [op |-> "select", by |-> t, status |-> status]
<1>1. s \in Statement /\ ~IsWrite(s)
  BY DEF Statement, Selection, IsWrite, Updates
<1>2. sql_queue' = Append(sql_queue, s)
  BY DEF PutSelect
<1> HIDE DEF s
<1>3. QED
  BY <1>1, <1>2, PutOtherWaiting

LEMMA LookupWaiting ==
    ASSUME Ownership, NEW evt \in Event, LooksUp(evt)
    PROVE  Waiting' = Waiting
<1> DEFINE s == [op |-> "lookup", evt |-> evt]
<1>1. s \in Statement /\ ~IsWrite(s)
  BY DEF Statement, Lookup, IsWrite, Updates
<1>2. sql_queue' = Append(sql_queue, s)
  BY DEF LooksUp, PutLookup
<1> HIDE DEF s
<1>3. QED
  BY <1>1, <1>2, PutOtherWaiting

(* The first statement leaves the queue.  If it is an update, it leaves the *)
(* set, where it was the only one for its request.                          *)
LEMMA TakeWaiting ==
    ASSUME Ownership, sql_queue # <<>>, sql_queue' = Tail(sql_queue),
           NEW h, h = Head(sql_queue)
    PROVE  /\ ~IsWrite(h) => Waiting' = Waiting
           /\ IsWrite(h) => /\ h \in Waiting /\ Waiting' = Waiting \ {h}
                            /\ \A s \in Waiting' : s.evt.request_id # h.evt.request_id
<1>1. /\ 1 \in DOMAIN sql_queue /\ sql_queue[1] = h
      /\ \A i \in Queued' : i + 1 \in Queued /\ i + 1 # 1 /\ sql_queue'[i] = sql_queue[i + 1]
  BY QueueTail
<1>2. \A i \in Queued : i # 1 => sql_queue[i] \in Waiting'
  <2>1. SUFFICES ASSUME NEW i \in Queued, i # 1
                 PROVE  sql_queue[i] \in Waiting'
    OBVIOUS
  <2>2. i \in DOMAIN sql_queue /\ IsWrite(sql_queue[i])
    BY DEF Queued
  <2>3. i - 1 \in DOMAIN Tail(sql_queue) /\ Tail(sql_queue)[i - 1] = sql_queue[i]
    <3>1. sql_queue \in Seq(Statement) /\ i \in 1 .. Len(sql_queue) /\ Len(sql_queue) \in Nat
      BY <2>2 DEF Ownership, TypeOK
    <3>2. i \in 2 .. Len(sql_queue)
      BY <2>1, <3>1
    <3>3. QED
      BY <3>1, <3>2
  <2>4. i - 1 \in Queued'
    BY <2>2, <2>3 DEF Queued
  <2>5. QED
    BY <2>3, <2>4 DEF Waiting
<1>p. \A s \in Waiting' : s \in Waiting
  BY <1>1 DEF Waiting
<1>3. CASE ~IsWrite(h)
  <2>1. 1 \notin Queued
    BY <1>1, <1>3 DEF Queued
  <2>2. \A s \in Waiting : s \in Waiting'
    <3>1. \A i \in Queued : sql_queue[i] \in Waiting'
      BY <1>2, <2>1
    <3>2. QED
      BY <3>1 DEF Waiting
  <2>3. Waiting' = Waiting
    BY <1>p, <2>2
  <2>4. QED
    BY <1>3, <2>3
<1>4. CASE IsWrite(h)
  <2>1. 1 \in Queued
    BY <1>1, <1>4 DEF Queued
  <2>2. \A i \in Queued : i # 1 => sql_queue[i].evt.request_id # h.evt.request_id
    BY <1>1, <2>1 DEF Ownership, QueuedInv, WritesFindTheirRows
  <2>3. \A s \in Waiting' : s \in Waiting /\ s.evt.request_id # h.evt.request_id
    BY <1>1, <2>2 DEF Waiting
  <2>4. \A s \in Waiting : s # h => s \in Waiting'
    <3>1. \A i \in Queued : sql_queue[i] # h => sql_queue[i] \in Waiting'
      BY <1>1, <1>2
    <3>2. QED
      BY <3>1 DEF Waiting
  <2>5. h \in Waiting
    BY <1>1, <2>1 DEF Waiting
  <2>6. Waiting' = Waiting \ {h}
    BY <2>3, <2>4
  <2>7. QED
    BY <1>4, <2>3, <2>5, <2>6
<1>5. QED
  BY <1>3, <1>4

LEMMA SameWaiting ==
    ASSUME sql_queue' = sql_queue
    PROVE  Waiting' = Waiting
  BY DEF Waiting, Queued

-----------------------------------------------------------------------------
(* What the steps of the threads do.                                        *)

LEMMA LeavesWithEffect ==
    ASSUME Ownership, NEW t \in Threads, NEW e \in todo[t],
           NEW op \in Updates, NEW evt \in Event, LeavesWith(t, e, op, evt)
    PROVE  /\ Waiting' = Waiting \cup {[op |-> op, evt |-> evt]}
           /\ UNCHANGED <<rows, chainVars, pc, localVars, countVars>>
           /\ todo'[t] = todo[t] \ {e} /\ now'[t] = None
           /\ \A u \in Threads : u # t => todo'[u] = todo[u] /\ now'[u] = now[u]
<1>1. Waiting' = Waiting \cup {[op |-> op, evt |-> evt]}
  BY PutWriteWaiting DEF LeavesWith
<1>2. QED
  BY <1>1 DEF LeavesWith, Leaves, Ownership, TypeOK

LEMMA LeavesAloneEffect ==
    ASSUME Ownership, NEW t \in Threads, NEW e \in todo[t], LeavesAlone(t, e)
    PROVE  /\ Waiting' = Waiting
           /\ UNCHANGED <<rows, chainVars, pc, localVars, countVars>>
           /\ todo'[t] = todo[t] \ {e} /\ now'[t] = None
           /\ \A u \in Threads : u # t => todo'[u] = todo[u] /\ now'[u] = now[u]
<1>1. Waiting' = Waiting
  BY SameWaiting DEF LeavesAlone, poolVars
<1>2. QED
  BY <1>1 DEF LeavesAlone, Leaves, poolVars, Ownership, TypeOK

LEMMA SelectsEffect ==
    ASSUME Ownership, NEW t \in Selectors, Selects(t)
    PROVE  /\ Waiting' = Waiting
           /\ UNCHANGED <<rows, chainVars, todo, now, localVars, countVars>>
           /\ pc'[t] = "select" /\ \A u \in Threads : u # t => pc'[u] = pc[u]
<1>1. t \in Threads /\ Handles(t) \in Status
  BY HandlesSaved DEF Ownership, Selectors, Threads, Status
<1>2. Waiting' = Waiting
  BY <1>1, SelectWaiting DEF Selects
<1>3. QED
  BY <1>1, <1>2 DEF Selects, Ownership, TypeOK

(* main only fails events, none of which is new.                            *)
LEMMA MainEffect ==
    ASSUME Ownership, Main
    PROVE  /\ UNCHANGED <<rows, chainVars, now, isFinished, lastBlock, isPolice, countVars>>
           /\ pc'["poll"] \in {pc["poll"], "loop"}
           /\ \/ Waiting' = Waiting
              \/ \E e \in todo["main"] : Waiting' = Waiting \cup {[op |-> "error", evt |-> e]}
<1> DEFINE Effect ==
             /\ UNCHANGED <<rows, chainVars, now, isFinished, lastBlock, isPolice, countVars>>
             /\ pc'["poll"] \in {pc["poll"], "loop"}
             /\ \/ Waiting' = Waiting
                \/ \E e \in todo["main"] : Waiting' = Waiting \cup {[op |-> "error", evt |-> e]}
<1>0. /\ {"main", "poll"} \subseteq Threads /\ "error" \in Updates
      /\ now \in [Threads -> Event \cup {None}] /\ todo["main"] \in SUBSET Event
      /\ pc \in [Threads -> {"off", "watch", "loop", "select", "new", "known",
                            "bid", "receipt", "police"}]
  BY DEF Threads, Updates, Ownership, TypeOK
<1>1. CASE Start
  <2>1. Waiting' = Waiting
    BY <1>0, <1>1, SelectWaiting DEF Start, Status
  <2>2. QED
    BY <1>0, <1>1, <2>1 DEF Start
<1>2. CASE ScansSubmissions
  <2>1. Waiting' = Waiting
    BY <1>0, <1>2, SelectWaiting DEF ScansSubmissions, Status
  <2>2. QED
    BY <1>0, <1>2, <2>1 DEF ScansSubmissions
<1>3. CASE StartsThreads
  <2>1. Waiting' = Waiting
    BY <1>3, SameWaiting DEF StartsThreads, poolVars
  <2>2. pc'["poll"] = "loop"
    BY <1>0, <1>3 DEF StartsThreads
  <2>3. QED
    BY <1>3, <2>1, <2>2 DEF StartsThreads, poolVars, localVars
<1>4. ASSUME NEW e \in todo["main"], TimesOut(e)
      PROVE  Effect
  <2>1. now["main"] = None /\ e \in Event
    BY <1>0, <1>4 DEF TimesOut, Picks
  <2>2. now' = now
    BY <1>0, <1>4, <2>1 DEF TimesOut, LeavesWith, Leaves
  <2>3. /\ Waiting' = Waiting \cup {[op |-> "error", evt |-> e]}
        /\ UNCHANGED <<rows, chainVars, pc, localVars, countVars>>
    BY <1>0, <1>4, <2>1, LeavesWithEffect DEF TimesOut
  <2>4. QED
    BY <2>2, <2>3 DEF localVars
<1>5. ASSUME NEW e \in todo["main"], StillValid(e)
      PROVE  Effect
  <2>1. now["main"] = None
    BY <1>5 DEF StillValid, Picks
  <2>2. now' = now
    BY <1>0, <1>5, <2>1 DEF StillValid, LeavesAlone, Leaves
  <2>3. Waiting' = Waiting /\ UNCHANGED <<rows, chainVars, pc, localVars, countVars>>
    BY <1>0, <1>5, LeavesAloneEffect DEF StillValid
  <2>4. QED
    BY <2>2, <2>3 DEF localVars
<1>6. QED
  BY <1>1, <1>2, <1>3, <1>4, <1>5 DEF Main

(* What a step of poll leaves alone, and the three things it may do.        *)
PollFrame ==
    /\ UNCHANGED <<rows, block, assigned, mostRecent, pending, reportBlock,
                   todo, isFinished, scan, countVars>>
    /\ \A t \in Threads : t # "poll" => now'[t] = now[t] /\ pc'[t] = pc[t]
    /\ pc["poll"] # "off"
    /\ lastBlock' = lastBlock \/ lastBlock' \in lastBlock .. block

PollPasses ==
    /\ Waiting' = Waiting
    /\ pc'["poll"] \notin {"select", "new", "known"}

PollSaves ==
    /\ Waiting' = Waiting \cup {[op |-> "add", evt |-> now["poll"]]}
    /\ pc["poll"] = "new" /\ pc'["poll"] \notin {"select", "new", "known"}
    /\ now["poll"].fk_type = "AU" \/ PoliceConfirmed

PollLooksUp ==
    /\ Waiting' = Waiting
    /\ pc'["poll"] = "select"
    /\ \E k \in Keys :
        /\ now'["poll"] = AssignedEvent(k)
        /\ k[2] = "AU" => mostRecent = k[1] /\ assigned[k] + NConfirmations <= lastBlock'
        /\ k[2] = "PC" => assigned[k] # 0

LEMMA PollEffect ==
    ASSUME Ownership, Poll
    PROVE  PollFrame /\ (PollPasses \/ PollSaves \/ PollLooksUp)
<1> USE DEF poolVars, chainVars, localVars
<1>0. /\ "poll" \in Threads /\ "add" \in Updates /\ {"AU", "PC"} \subseteq Types
      /\ now \in [Threads -> Event \cup {None}]
      /\ pc \in [Threads -> {"off", "watch", "loop", "select", "new", "known",
                            "bid", "receipt", "police"}]
  BY DEF Threads, Updates, Types, Ownership, TypeOK
<1>p. AfterAuditPoll \in {"police", "loop"}
  BY DEF AfterAuditPoll
<1>n. pc["poll"] \in {"select", "new", "known"} => now["poll"] \in Event
  BY DEF Ownership, ThreadsInv
<1> HIDE DEF AfterAuditPoll
<1>1. CASE ChecksRole
  <2>1. PollFrame
    BY <1>0, <1>1 DEF ChecksRole, PollFrame
  <2>2. PollPasses
    BY <1>0, <1>1, SameWaiting DEF ChecksRole, PollPasses
  <2>3. QED
    BY <2>1, <2>2
<1>2. CASE SavesRequest \/ SavesPoliceCheck
  <2>1. /\ pc["poll"] = "new" /\ PutWrite("add", now["poll"])
        /\ now["poll"].fk_type = "AU" \/ PoliceConfirmed
        /\ now' = [now EXCEPT !["poll"] = None]
        /\ \E place \in {"bid", "loop"} : pc' = [pc EXCEPT !["poll"] = place]
        /\ UNCHANGED <<rows, chainVars, todo, localVars, countVars>>
    BY <1>2 DEF SavesRequest, SavesPoliceCheck
  <2>2. Waiting' = Waiting \cup {[op |-> "add", evt |-> now["poll"]]}
    BY <1>0, <1>n, <2>1, PutWriteWaiting
  <2>3. PollFrame
    BY <1>0, <2>1 DEF PollFrame
  <2>4. PollSaves
    BY <1>0, <2>1, <2>2 DEF PollSaves
  <2>5. QED
    BY <2>3, <2>4
<1>3. CASE KnowsRequest \/ DoesNotBid \/ EndsWait \/ FindsNoPoliceCheck \/ LeavesPoliceCheck
  <2>1. /\ pc["poll"] # "off" /\ now' \in {now, [now EXCEPT !["poll"] = None]}
        /\ \E place \in {"bid", "police", "loop"} : pc' = [pc EXCEPT !["poll"] = place]
        /\ UNCHANGED <<poolVars, chainVars, todo, localVars, countVars>>
    BY <1>3, <1>p DEF KnowsRequest, DoesNotBid, EndsWait, FindsNoPoliceCheck, LeavesPoliceCheck
  <2>2. PollFrame
    BY <1>0, <2>1 DEF PollFrame
  <2>3. PollPasses
    BY <1>0, <2>1, SameWaiting DEF PollPasses
  <2>4. QED
    BY <2>2, <2>3
<1>4. CASE Bids
  <2>1. PollFrame
    BY <1>0, <1>4 DEF Bids, PollFrame
  <2>2. PollPasses
    BY <1>0, <1>4, SameWaiting DEF Bids, PollPasses
  <2>3. QED
    BY <2>1, <2>2
<1>5. ASSUME NEW r \in Requests, FindsPoliceCheck(r)
      PROVE  PollFrame /\ PollLooksUp
  <2> DEFINE k == <<r, "PC">>
             evt == AssignedEvent(k)
  <2>1. k \in Keys /\ evt \in Event /\ k[2] # "AU"
    BY <1>0, AssignedEventFacts DEF Ownership, Keys
  <2>2. /\ LooksUp(evt) /\ assigned[k] # 0 /\ pc["poll"] = "police"
        /\ UNCHANGED <<rows, chainVars, todo, localVars, countVars>>
    BY <1>5 DEF FindsPoliceCheck
  <2> HIDE DEF k
  <2>3. PollFrame
    BY <1>0, <2>2 DEF LooksUp, PollFrame
  <2>4. PollLooksUp
    <3>1. Waiting' = Waiting
      BY <2>1, <2>2, LookupWaiting
    <3>2. pc'["poll"] = "select" /\ now'["poll"] = evt
      BY <1>0, <2>2 DEF LooksUp
    <3>3. QED
      BY <2>1, <2>2, <3>1, <3>2 DEF PollLooksUp
  <2>5. QED
    BY <2>3, <2>4
<1>6. ASSUME NEW b \in 1 .. MaxBlock,
             SkipsAudits(b) \/ FindsNothing(b) \/ FindsUnconfirmed(b) \/ PollRaises(b)
      PROVE  PollFrame /\ PollPasses
  <2>1. PICK place \in {"police", "bid", "loop"} : pc' = [pc EXCEPT !["poll"] = place]
    BY <1>6, <1>p DEF SkipsAudits, FindsNothing, FindsUnconfirmed, PollRaises
  <2>2. /\ UNCHANGED <<poolVars, chainVars, todo, now, isFinished, scan, isPolice, countVars>>
        /\ pc["poll"] = "loop" /\ lastBlock' = b /\ b \in (lastBlock + 1) .. block
    BY <1>6 DEF SkipsAudits, FindsNothing, FindsUnconfirmed, PollRaises, Polls
  <2>3. lastBlock' \in lastBlock .. block
    BY <2>2 DEF Ownership, TypeOK
  <2>4. PollFrame
    BY <1>0, <2>1, <2>2, <2>3 DEF PollFrame
  <2>5. PollPasses
    BY <1>0, <2>1, <2>2, SameWaiting DEF PollPasses
  <2>6. QED
    BY <2>4, <2>5
<1>7. ASSUME NEW b \in 1 .. MaxBlock, FindsConfirmed(b)
      PROVE  PollFrame /\ PollLooksUp
  <2> DEFINE k == <<mostRecent, "AU">>
             evt == AssignedEvent(k)
  <2>1. mostRecent \in Requests
    BY <1>7 DEF FindsConfirmed, Ownership, TypeOK
  <2>2. k \in Keys /\ evt \in Event /\ k[1] = mostRecent /\ k[2] # "PC"
    BY <1>0, <2>1, AssignedEventFacts DEF Ownership, Keys
  <2>3. /\ LooksUp(evt) /\ assigned[k] + NConfirmations <= b /\ pc["poll"] = "loop"
        /\ lastBlock' = b /\ b \in (lastBlock + 1) .. block
        /\ UNCHANGED <<rows, chainVars, todo, isFinished, scan, isPolice, countVars>>
    BY <1>7 DEF FindsConfirmed, Polls
  <2> HIDE DEF k
  <2>4. lastBlock' \in lastBlock .. block
    BY <2>3 DEF Ownership, TypeOK
  <2>5. PollFrame
    BY <1>0, <2>3, <2>4 DEF LooksUp, PollFrame
  <2>6. PollLooksUp
    <3>1. Waiting' = Waiting
      BY <2>2, <2>3, LookupWaiting
    <3>2. pc'["poll"] = "select" /\ now'["poll"] = evt
      BY <1>0, <2>3 DEF LooksUp
    <3>3. QED
      BY <2>2, <2>3, <3>1, <3>2 DEF PollLooksUp
  <2>7. QED
    BY <2>5, <2>6
<1>8. QED
  BY <1>1, <1>2, <1>3, <1>4, <1>5, <1>6, <1>7 DEF Poll

(* What a step of audit, submit or monitor leaves alone: it puts updates of *)
(* these kinds, if any; only submit loses answers.                          *)
ThreadFrame(t, ops) ==
    /\ UNCHANGED <<rows, block, assigned, mostRecent, reportBlock,
                   scan, lastBlock, crashes, lost>>
    /\ t # "submit" => unanswered' = unanswered
    /\ \A u \in Threads : u # t => now'[u] = now[u] /\ pc'[u] = pc[u]
    /\ pc["main"] = "watch"
    /\ Waiting \subseteq Waiting'
    /\ \A s \in Waiting' \ Waiting : s.op \in ops

LEMMA SelectsFrame ==
    ASSUME Ownership, NEW t \in Selectors, t # "main", Selects(t), NEW ops
    PROVE  /\ ThreadFrame(t, ops) /\ Waiting' = Waiting
           /\ now' = now /\ (t \in {"submit", "monitor"} => now[t] = None)
           /\ UNCHANGED <<sent, unanswered, isFinished>>
<1>1. t \in Threads /\ pc[t] = "loop" /\ todo[t] = {}
  BY DEF Selectors, Threads, Selects
<1>2. pc["main"] = "watch" /\ (t \in {"submit", "monitor"} => now[t] = None)
  BY <1>1 DEF Ownership, ThreadsInv
<1>3. /\ Waiting' = Waiting
      /\ UNCHANGED <<rows, chainVars, todo, now, localVars, countVars>>
      /\ \A u \in Threads : u # t => pc'[u] = pc[u]
  BY SelectsEffect
<1>4. QED
  BY <1>2, <1>3 DEF ThreadFrame, chainVars, localVars, countVars

LEMMA LeavesWithFrame ==
    ASSUME Ownership, NEW t \in {"audit", "submit", "monitor"}, NEW e \in todo[t],
           NEW op \in Updates, NEW evt \in Event, LeavesWith(t, e, op, evt)
    PROVE  /\ \A ops : op \in ops => ThreadFrame(t, ops)
           /\ Waiting' = Waiting \cup {[op |-> op, evt |-> evt]}
           /\ now'[t] = None /\ UNCHANGED <<sent, unanswered, isFinished>>
<1>1. t \in Threads
  BY DEF Threads
<1>2. pc["main"] = "watch"
  BY <1>1, HolderLoops DEF Ownership, ThreadsInv
<1>3. /\ Waiting' = Waiting \cup {[op |-> op, evt |-> evt]}
      /\ UNCHANGED <<rows, chainVars, pc, localVars, countVars>>
      /\ now'[t] = None /\ \A u \in Threads : u # t => now'[u] = now[u]
  BY <1>1, LeavesWithEffect
<1>4. QED
  BY <1>2, <1>3 DEF ThreadFrame, chainVars, localVars, countVars

LEMMA LeavesAloneFrame ==
    ASSUME Ownership, NEW t \in {"audit", "submit", "monitor"}, NEW e \in todo[t],
           LeavesAlone(t, e), NEW ops
    PROVE  /\ ThreadFrame(t, ops) /\ Waiting' = Waiting
           /\ now'[t] = None /\ UNCHANGED <<sent, unanswered, isFinished>>
<1>1. t \in Threads
  BY DEF Threads
<1>2. pc["main"] = "watch"
  BY <1>1, HolderLoops DEF Ownership, ThreadsInv
<1>3. /\ Waiting' = Waiting
      /\ UNCHANGED <<rows, chainVars, pc, localVars, countVars>>
      /\ now'[t] = None /\ \A u \in Threads : u # t => now'[u] = now[u]
  BY <1>1, LeavesAloneEffect
<1>4. QED
  BY <1>2, <1>3 DEF ThreadFrame, chainVars, localVars, countVars

(* audit keeps nothing in mind between its steps.                           *)
LEMMA AuditEffect ==
    ASSUME Ownership, Audit
    PROVE  /\ ThreadFrame("audit", {"to_be_submitted", "error"})
           /\ now'["audit"] = None /\ UNCHANGED <<sent, unanswered, isFinished>>
<1> DEFINE ops == {"to_be_submitted", "error"}
<1>0. /\ "audit" \in Selectors /\ "audit" \in Threads /\ ops \subseteq Updates
      /\ now["audit"] = None
  BY DEF Selectors, Threads, Updates, Ownership, ThreadsInv
<1>1. CASE Selects("audit")
  BY <1>0, <1>1, SelectsFrame
<1>2. ASSUME NEW e \in todo["audit"], Reports(e) \/ AuditRaises(e)
      PROVE  /\ ThreadFrame("audit", ops)
             /\ now'["audit"] = None /\ UNCHANGED <<sent, unanswered, isFinished>>
  <2>1. e \in Event /\ [e EXCEPT !.submission_block_nbr = block] \in Event
    <3>1. e \in Event /\ block \in Nat
      BY <1>0, HolderLoops DEF Ownership, TypeOK
    <3>2. QED
      BY <3>1 DEF Event
  <2>2. PICK op \in ops, evt \in Event : LeavesWith("audit", e, op, evt)
    BY <1>2, <2>1 DEF Reports, AuditRaises
  <2>3. op \in Updates
    BY <1>0
  <2> HIDE DEF ops
  <2>4. QED
    BY <2>2, <2>3, LeavesWithFrame
<1>3. ASSUME NEW e \in todo["audit"], AuditRaisesKeyError(e)
      PROVE  /\ ThreadFrame("audit", ops)
             /\ now'["audit"] = None /\ UNCHANGED <<sent, unanswered, isFinished>>
  BY <1>3, LeavesAloneFrame DEF AuditRaisesKeyError
<1>4. QED
  BY <1>1, <1>2, <1>3 DEF Audit

(* submit remembers the event it has sent a transaction for, until it puts  *)
(* an update of that event.                                                 *)
SubmitEnds ==
    /\ UNCHANGED <<sent, unanswered>> /\ now'["submit"] = None
    /\ \/ now["submit"] = None
       \/ \E s \in Waiting' : s.evt = now["submit"]

LEMMA SubmitEffect ==
    ASSUME Ownership, Submit
    PROVE  /\ ThreadFrame("submit", {"submitted", "error"}) /\ isFinished' = isFinished
           /\ \/ SubmitEnds
              \/ \E e \in todo["submit"] :
                    /\ Sends(e) \/ GoesUnanswered(e)
                    /\ Waiting' = Waiting
<1> DEFINE ops == {"submitted", "error"}
<1>0. /\ "submit" \in Selectors /\ "submit" \in Threads /\ ops \subseteq Updates
      /\ now \in [Threads -> Event \cup {None}]
  BY DEF Selectors, Threads, Updates, Ownership, TypeOK
<1>1. CASE Selects("submit")
  BY <1>0, <1>1, SelectsFrame DEF SubmitEnds
<1>2. ASSUME NEW e \in todo["submit"], RecordsSubmission(e) \/ SubmitRaises(e)
      PROVE  ThreadFrame("submit", ops) /\ isFinished' = isFinished /\ SubmitEnds
  <2>1. PICK op \in ops : LeavesWith("submit", e, op, e)
    BY <1>2 DEF RecordsSubmission, SubmitRaises
  <2>2. e \in Event /\ op \in Updates /\ now["submit"] \in {None, e}
    BY <1>0, <1>2, HolderLoops DEF RecordsSubmission, SubmitRaises, Picks
  <2> HIDE DEF ops
  <2>3. /\ ThreadFrame("submit", ops) /\ Waiting' = Waiting \cup {[op |-> op, evt |-> e]}
        /\ now'["submit"] = None /\ UNCHANGED <<sent, unanswered, isFinished>>
    BY <2>1, <2>2, LeavesWithFrame
  <2>4. [op |-> op, evt |-> e] \in Waiting' /\ [op |-> op, evt |-> e].evt = e
    BY <2>3
  <2>5. QED
    BY <2>2, <2>3, <2>4 DEF SubmitEnds
<1>3. ASSUME NEW e \in todo["submit"], IsDuplicate(e)
      PROVE  ThreadFrame("submit", ops) /\ isFinished' = isFinished /\ SubmitEnds
  BY <1>3, LeavesAloneFrame DEF IsDuplicate, Picks, SubmitEnds
<1>4. ASSUME NEW e \in todo["submit"], Sends(e)
      PROVE  ThreadFrame("submit", ops) /\ isFinished' = isFinished /\ Waiting' = Waiting
  <2>1. pc["main"] = "watch"
    BY <1>0, HolderLoops DEF Ownership, ThreadsInv
  <2>2. Waiting' = Waiting
    BY <1>4, SameWaiting DEF Sends, poolVars
  <2>3. \A u \in Threads : u # "submit" => now'[u] = now[u] /\ pc'[u] = pc[u]
    BY <1>0, <1>4 DEF Sends
  <2>4. QED
    BY <1>4, <2>1, <2>2, <2>3 DEF Sends, ThreadFrame, poolVars, localVars
<1>5. ASSUME NEW e \in todo["submit"], GoesUnanswered(e)
      PROVE  ThreadFrame("submit", ops) /\ isFinished' = isFinished /\ Waiting' = Waiting
  <2>1. pc["main"] = "watch"
    BY <1>0, HolderLoops DEF Ownership, ThreadsInv
  <2>2. Waiting' = Waiting
    BY <1>5, SameWaiting DEF GoesUnanswered, poolVars
  <2>3. QED
    BY <1>5, <2>1, <2>2 DEF GoesUnanswered, ThreadFrame, poolVars, threadVars, localVars
<1>6. QED
  BY <1>1, <1>2, <1>3, <1>4, <1>5 DEF Submit

(* monitor remembers the event it has asked about, and the answer; only an  *)
(* event with the answer yes is done.                                       *)
MonitorEnds ==
    /\ now'["monitor"] = None
    /\ \A s \in Waiting' \ Waiting :
        s.op = "done" => isFinished /\ s.evt = now["monitor"] /\ s.evt # None

LEMMA MonitorEffect ==
    ASSUME Ownership, Monitor
    PROVE  /\ ThreadFrame("monitor", {"done", "to_be_submitted", "error"}) /\ sent' = sent
           /\ \/ MonitorEnds
              \/ \E e \in todo["monitor"] : Asks(e) /\ now'["monitor"] = e /\ Waiting' = Waiting
<1> DEFINE ops == {"done", "to_be_submitted", "error"}
<1>0. /\ "monitor" \in Selectors /\ "monitor" \in Threads /\ ops \subseteq Updates
      /\ now \in [Threads -> Event \cup {None}]
  BY DEF Selectors, Threads, Updates, Ownership, TypeOK
<1>1. CASE Selects("monitor")
  <2>1. ThreadFrame("monitor", ops)
    BY <1>0, <1>1, SelectsFrame
  <2>2. QED
    BY <1>0, <1>1, <2>1, SelectsFrame DEF MonitorEnds
<1>2. ASSUME NEW e \in todo["monitor"],
             Finishes(e) \/ Resubmits(e) \/ GivesUp(e) \/ MonitorRaises(e)
      PROVE  ThreadFrame("monitor", ops) /\ sent' = sent /\ MonitorEnds
  <2>1. PICK op \in ops : /\ LeavesWith("monitor", e, op, e)
                          /\ op = "done" => isFinished /\ e = now["monitor"] /\ e # None
    BY <1>2 DEF Finishes, Resubmits, GivesUp, MonitorRaises, Answered
  <2>2. e \in Event /\ op \in Updates
    BY <1>0, HolderLoops
  <2> HIDE DEF ops
  <2>3. /\ ThreadFrame("monitor", ops) /\ Waiting' = Waiting \cup {[op |-> op, evt |-> e]}
        /\ now'["monitor"] = None /\ sent' = sent
    BY <2>1, <2>2, LeavesWithFrame
  <2>4. \A s \in Waiting' \ Waiting : s.op = op /\ s.evt = e
    BY <2>3
  <2>5. QED
    BY <2>1, <2>3, <2>4 DEF MonitorEnds
<1>3. ASSUME NEW e \in todo["monitor"], AwaitsConfirmation(e)
      PROVE  ThreadFrame("monitor", ops) /\ sent' = sent /\ MonitorEnds
  BY <1>3, LeavesAloneFrame DEF AwaitsConfirmation, MonitorEnds
<1>4. ASSUME NEW e \in todo["monitor"], Asks(e)
      PROVE  /\ ThreadFrame("monitor", ops) /\ sent' = sent
             /\ now'["monitor"] = e /\ Waiting' = Waiting
  <2>1. pc["main"] = "watch"
    BY <1>0, HolderLoops DEF Ownership, ThreadsInv
  <2>2. Waiting' = Waiting
    BY <1>4, SameWaiting DEF Asks, poolVars
  <2>3. /\ \A u \in Threads : u # "monitor" => now'[u] = now[u] /\ pc'[u] = pc[u]
        /\ now'["monitor"] = e
    BY <1>0, <1>4 DEF Asks
  <2>4. QED
    BY <1>4, <2>1, <2>2, <2>3 DEF Asks, ThreadFrame, poolVars, chainVars, countVars
<1>5. QED
  BY <1>1, <1>2, <1>3, <1>4 DEF Monitor

-----------------------------------------------------------------------------
(* What the other steps do.                                                 *)

(* The first update is executed, or lost.                                   *)
LEMMA FirstWriteEffect ==
    ASSUME Ownership, Writes \/ LosesWrite
    PROVE  LET h == Head(sql_queue) IN
             /\ h \in Waiting /\ Waiting' = Waiting \ {h}
             /\ \A s \in Waiting' : Key(s.evt) # Key(h.evt)
             /\ UNCHANGED <<chainVars, threadVars, sent, crashes, unanswered>>
<1> DEFINE h == Head(sql_queue)
<1>1. sql_queue # <<>> /\ IsWrite(h) /\ sql_queue' = Tail(sql_queue)
      /\ UNCHANGED <<chainVars, threadVars, sent, crashes, unanswered>>
  BY DEF Writes, ExecuteWrite, LosesWrite, RollBackWrite, countVars
<1> HIDE DEF h
<1>2. /\ h \in Waiting /\ Waiting' = Waiting \ {h}
      /\ \A s \in Waiting' : s.evt.request_id # h.evt.request_id
  BY <1>1, TakeWaiting DEF h
<1>3. \A s \in Waiting' : Key(s.evt) # Key(h.evt)
  BY <1>2 DEF Key
<1>4. QED
  BY <1>1, <1>2, <1>3 DEF h

LEMMA AnswersEffect ==
    ASSUME Ownership, AnswersSelect \/ AnswersLookup
    PROVE  /\ Waiting' = Waiting
           /\ UNCHANGED <<rows, chainVars, now, localVars, countVars>>
           /\ pc'["poll"] \in {"select", "new", "known"} => pc["poll"] \in {"select", "new", "known"}
<1>1. CASE AnswersSelect
  <2> DEFINE h == Head(sql_queue)
  <2>1. /\ sql_queue # <<>> /\ sql_queue' = Tail(sql_queue) /\ IsSelection(h)
        /\ pc' = [pc EXCEPT ![h.by] = "loop"]
        /\ UNCHANGED <<rows, chainVars, now, localVars, countVars>>
    BY <1>1 DEF AnswersSelect
  <2>2. ~IsWrite(h)
    BY <2>1 DEF IsSelection, IsWrite, Updates
  <2> HIDE DEF h
  <2>3. Waiting' = Waiting
    BY <2>1, <2>2, TakeWaiting DEF h
  <2>4. pc'["poll"] \in {pc["poll"], "loop"}
    BY <2>1 DEF Ownership, TypeOK, Threads
  <2>5. QED
    BY <2>1, <2>3, <2>4
<1>2. CASE AnswersLookup
  <2> DEFINE h == Head(sql_queue)
  <2>1. /\ sql_queue # <<>> /\ sql_queue' = Tail(sql_queue) /\ IsLookup(h)
        /\ UNCHANGED <<rows, chainVars, now, localVars, countVars>>
    BY <1>2 DEF AnswersLookup
  <2>2. ~IsWrite(h)
    BY <2>1 DEF IsLookup, IsWrite, Updates
  <2>3. pc["poll"] = "select"
    <3>1. 1 \in DOMAIN sql_queue /\ sql_queue[1] = h
      BY <2>1, QueueTail
    <3>2. QED
      BY <2>1, <3>1 DEF Ownership, SelectsInv
  <2> HIDE DEF h
  <2>4. Waiting' = Waiting
    BY <2>1, <2>2, TakeWaiting DEF h
  <2>5. QED
    BY <2>1, <2>3, <2>4
<1>3. QED
  BY <1>1, <1>2

LEMMA CrashEffect ==
    ASSUME Crash
    PROVE  /\ Waiting' = {} /\ UNCHANGED <<rows, chainVars, sent, lost, unanswered>>
           /\ crashes' = crashes + 1 /\ lastBlock' = 0
           /\ \A t \in Threads : pc'[t] = "off" /\ now'[t] = None
  BY DEF Crash, Waiting, Queued

LEMMA ChainEffect ==
    ASSUME Chain
    PROVE  Waiting' = Waiting /\ UNCHANGED <<poolVars, threadVars, countVars>>
<1>1. UNCHANGED <<poolVars, threadVars, countVars>>
  BY DEF Chain, MinesBlock, BidFails, AssignsRequest, AssignsPoliceCheck, AcceptsReport,
         DropsReport, LosesReport, LosesAssignment
<1>2. QED
  BY <1>1, SameWaiting DEF poolVars

LEMMA StutterEffect ==
    ASSUME UNCHANGED vars
    PROVE  /\ Waiting' = Waiting
           /\ UNCHANGED <<rows, chainVars, threadVars, sent, crashes, lost, unanswered>>
  BY SameWaiting DEF vars, poolVars, countVars

-----------------------------------------------------------------------------
(* Transactions sent.                                                       *)

(* A step that makes no report unsent, and ends no attempt.                 *)
LEMMA SentQuiet ==
    ASSUME Ownership, SentInv, UNCHANGED <<rows, sent, crashes, lost, unanswered>>,
           \A k \in Keys : Unsent(k)' => Unsent(k)
    PROVE  SentInv'
<1>1. /\ sent \in [Keys -> Nat] /\ crashes \in Nat /\ lost \in Nat /\ unanswered \in Nat
      /\ \A k \in Keys : rows[k].submission_attempts \in Nat
  BY DEF Ownership, TypeOK, Event
<1>2. QED
  BY <1>1 DEF SentInv

(* Updates are added, and submit minds the same event.                      *)
LEMMA SentKept ==
    ASSUME Ownership, SentInv, UNCHANGED <<rows, sent, crashes, lost, unanswered>>,
           Waiting \subseteq Waiting', now'["submit"] = now["submit"]
    PROVE  SentInv'
<1>1. \A k \in Keys : Unsent(k)' => Unsent(k)
  BY DEF Unsent, Key
<1>2. QED
  BY <1>1, SentQuiet

LEMMA SentNext ==
    ASSUME Ownership, SentInv, [Next]_vars
    PROVE  SentInv'
<1>0. /\ {"submit", "main", "poll", "audit", "monitor"} = Threads
      /\ sent \in [Keys -> Nat] /\ crashes \in Nat /\ lost \in Nat /\ unanswered \in Nat
      /\ \A k \in Keys : rows[k].submission_attempts \in Nat
  BY DEF Threads, Ownership, TypeOK, Event
<1>1. CASE Main
  BY <1>1, MainEffect, SentKept DEF countVars
<1>2. CASE Poll
  <2>1. PollFrame /\ Waiting \subseteq Waiting'
    BY <1>2, PollEffect DEF PollPasses, PollSaves, PollLooksUp
  <2>2. QED
    BY <1>0, <2>1, SentKept DEF PollFrame, countVars
<1>3. CASE Audit
  BY <1>0, <1>3, AuditEffect, SentKept DEF ThreadFrame
<1>4. CASE Monitor
  BY <1>0, <1>4, MonitorEffect, SentKept DEF ThreadFrame
<1>5. CASE Submit
  <2>1. /\ ThreadFrame("submit", {"submitted", "error"})
        /\ SubmitEnds \/ \E e \in todo["submit"] :
                              (Sends(e) \/ GoesUnanswered(e)) /\ Waiting' = Waiting
    BY <1>5, SubmitEffect
  <2>2. CASE SubmitEnds
    <3>1. \A k \in Keys : Unsent(k)' => Unsent(k)
      BY <2>1, <2>2 DEF SubmitEnds, ThreadFrame, Unsent, Key
    <3>2. QED
      BY <2>1, <2>2, <3>1, SentQuiet DEF SubmitEnds, ThreadFrame
  <2>3. ASSUME NEW e \in todo["submit"], Sends(e), Waiting' = Waiting
        PROVE  SentInv'
    <3> DEFINE x == Key(e)
    <3>1. /\ x \in Keys /\ rows[x] = e /\ e.fk_status = "TS" /\ e \in Event
          /\ now["submit"] = None /\ now'["submit"] = e
      BY <1>0, <2>3, HolderLoops DEF Sends, Picks, Handles, Ownership, TypeOK
    <3>2. \A s \in Waiting : Key(s.evt) # x
      BY <1>0, WaitingFacts DEF Key
    <3>3. Unsent(x)
      BY <3>1, <3>2 DEF Unsent
    <3>4. ~Unsent(x)'
      BY <3>1, NoneAssumption DEF Unsent, Key
    <3>5. \A k \in Keys : Unsent(k)' => Unsent(k)
      BY <2>1, <2>3, <3>1 DEF ThreadFrame, Unsent
    <3>6. /\ sent' = [sent EXCEPT ![x] = @ + 1]
          /\ UNCHANGED <<rows, crashes, lost, unanswered>>
      BY <2>3 DEF Sends, poolVars
    <3> HIDE DEF x
    <3>7. \A k \in Keys : k # x => sent'[k] = sent[k]
      BY <1>0, <3>6
    <3>8. sent'[x] = sent[x] + 1
      BY <1>0, <3>1, <3>6
    <3>9. ASSUME NEW k \in Keys
          PROVE  sent'[k] + (IF Unsent(k)' THEN 1 ELSE 0)
                    <= rows'[k].submission_attempts + crashes' + lost' + unanswered'
      <4>1. sent[k] + (IF Unsent(k) THEN 1 ELSE 0)
                <= rows[k].submission_attempts + crashes + lost + unanswered
        BY DEF SentInv
      <4>2. CASE k = x
        BY <1>0, <3>3, <3>4, <3>6, <3>8, <4>1, <4>2
      <4>3. CASE k # x
        BY <1>0, <3>5, <3>6, <3>7, <4>1, <4>3
      <4>4. QED
        BY <4>2, <4>3
    <3>10. QED
      BY <3>9 DEF SentInv
  <2>4. ASSUME NEW e \in todo["submit"], GoesUnanswered(e), Waiting' = Waiting
        PROVE  SentInv'
    <3>1. /\ sent' = [sent EXCEPT ![Key(e)] = @ + 1] /\ Key(e) \in Keys
          /\ UNCHANGED <<rows, now, crashes, lost>> /\ unanswered' = unanswered + 1
      BY <1>0, <2>4, HolderLoops DEF GoesUnanswered, poolVars, threadVars
    <3>2. ASSUME NEW k \in Keys
          PROVE  sent'[k] + (IF Unsent(k)' THEN 1 ELSE 0)
                    <= rows'[k].submission_attempts + crashes' + lost' + unanswered'
      <4>1. sent[k] + (IF Unsent(k) THEN 1 ELSE 0)
                <= rows[k].submission_attempts + crashes + lost + unanswered
        BY DEF SentInv
      <4>2. Unsent(k)' <=> Unsent(k)
        BY <2>4, <3>1 DEF Unsent
      <4>3. sent'[k] \in {sent[k], sent[k] + 1}
        BY <1>0, <3>1
      <4>4. QED
        BY <1>0, <3>1, <4>1, <4>2, <4>3
    <3>3. QED
      BY <3>2 DEF SentInv
  <2>5. QED
    BY <2>1, <2>2, <2>3, <2>4
<1>6. CASE AnswersSelect \/ AnswersLookup
  BY <1>6, AnswersEffect, SentKept DEF countVars
<1>7. CASE Writes
  <2>h. PICK h : h = Head(sql_queue)
    OBVIOUS
  <2>x. PICK x : x = Key(h.evt)
    OBVIOUS
  <2>1. /\ h \in Waiting /\ Waiting' = Waiting \ {h}
        /\ \A s \in Waiting' : Key(s.evt) # x
        /\ now' = now /\ UNCHANGED <<sent, crashes, lost, unanswered>>
    BY <1>7, <2>h, <2>x, FirstWriteEffect DEF threadVars, Writes, countVars
  <2>2. /\ x \in Keys /\ \A k \in Keys : k # x => rows'[k] = rows[k]
        /\ h.op = "add" => ~HasRow(x[1]) /\ rows'[x] = Row(h.evt, "AS", 0, 0)
        /\ h.op = "to_be_submitted" =>
                rows'[x] = Row(rows[x], "TS", rows[x].submission_attempts + 1,
                               h.evt.submission_block_nbr)
        /\ h.op \notin {"add", "to_be_submitted"} =>
                \E st \in {"SB", "DN", "ER"} :
                    rows'[x] = Row(rows[x], st, rows[x].submission_attempts,
                                   rows[x].submission_block_nbr)
    BY <1>7, <2>h, <2>x, WriteEffect DEF Writes
  <2>3. ~Unsent(x)
    BY <2>1, <2>x DEF Unsent
  <2>4. h.op = "add" => rows[x].submission_attempts = 0
    <3>1. x = <<x[1], x[2]>> /\ x[2] \in Types
      BY <2>2 DEF Keys
    <3>2. h.op = "add" => rows[x].fk_status = "NA"
      BY <2>2, <3>1 DEF HasRow
    <3>3. QED
      BY <2>2, <3>2 DEF Ownership, RowsInv
  <2>5. \/ rows'[x].submission_attempts = rows[x].submission_attempts + 1
        \/ ~Unsent(x)' /\ rows'[x].submission_attempts = rows[x].submission_attempts
    <3>1. CASE h.op = "add"
      <4>1. rows'[x].fk_status = "AS" /\ rows'[x].submission_attempts = 0
        BY <2>2, <3>1 DEF Row
      <4>2. QED
        BY <2>4, <3>1, <4>1 DEF Unsent
    <3>2. CASE h.op = "to_be_submitted"
      BY <2>2, <3>2 DEF Row
    <3>3. CASE h.op \notin {"add", "to_be_submitted"}
      <4>1. /\ rows'[x].fk_status # "TS"
            /\ rows'[x].submission_attempts = rows[x].submission_attempts
        BY <2>2, <3>3 DEF Row
      <4>2. QED
        BY <4>1 DEF Unsent
    <3>4. QED
      BY <3>1, <3>2, <3>3
  <2>6. \A k \in Keys : k # x => (Unsent(k)' => Unsent(k))
    BY <2>1, <2>2, <2>x DEF Unsent, Key
  <2>7. ASSUME NEW k \in Keys
        PROVE  sent'[k] + (IF Unsent(k)' THEN 1 ELSE 0)
                  <= rows'[k].submission_attempts + crashes' + lost' + unanswered'
    <3>1. sent[k] + (IF Unsent(k) THEN 1 ELSE 0)
              <= rows[k].submission_attempts + crashes + lost + unanswered
      BY DEF SentInv
    <3>2. CASE k = x
      <4>1. sent[x] <= rows[x].submission_attempts + crashes + lost + unanswered
        BY <1>0, <2>2, <2>3, <3>1, <3>2
      <4>2. CASE rows'[x].submission_attempts = rows[x].submission_attempts + 1
        BY <1>0, <2>1, <2>2, <3>2, <4>1, <4>2
      <4>3. CASE ~Unsent(x)' /\ rows'[x].submission_attempts = rows[x].submission_attempts
        BY <1>0, <2>1, <2>2, <3>2, <4>1, <4>3
      <4>4. QED
        BY <2>5, <4>2, <4>3
    <3>3. CASE k # x
      BY <1>0, <2>1, <2>2, <2>6, <3>1, <3>3
    <3>4. QED
      BY <3>2, <3>3
  <2>8. QED
    BY <2>7 DEF SentInv
<1>8. CASE LosesWrite \/ Crash
  <2>1. /\ UNCHANGED <<rows, sent, unanswered>>
        /\ \/ crashes' = crashes + 1 /\ lost' = lost
           \/ crashes' = crashes /\ lost' = lost + 1
    BY <1>8, CrashEffect, FirstWriteEffect DEF LosesWrite, RollBackWrite
  <2>2. ASSUME NEW k \in Keys
        PROVE  sent'[k] + (IF Unsent(k)' THEN 1 ELSE 0)
                  <= rows'[k].submission_attempts + crashes' + lost' + unanswered'
    <3>1. sent[k] + (IF Unsent(k) THEN 1 ELSE 0)
              <= rows[k].submission_attempts + crashes + lost + unanswered
      BY DEF SentInv
    <3>2. QED
      BY <1>0, <2>1, <3>1
  <2>3. QED
    BY <2>2 DEF SentInv
<1>9. CASE Chain
  BY <1>9, ChainEffect, SentKept DEF poolVars, threadVars, countVars
<1>10. CASE UNCHANGED vars
  BY <1>10, StutterEffect, SentKept DEF threadVars
<1>11. QED
  BY <1>1, <1>2, <1>3, <1>4, <1>5, <1>6, <1>7, <1>8, <1>9, <1>10 DEF Next, Worker

-----------------------------------------------------------------------------
(* Assignments.                                                             *)

(* The node's own steps: the contract is not touched, and what is to be     *)
(* added is settled.                                                        *)
LEMMA AssignedKept ==
    ASSUME Ownership, AssignedInv, UNCHANGED <<rows, block, assigned, mostRecent>>,
           lastBlock' <= block,
           \A s \in Waiting' \ Waiting : s.op = "add" => Settled(s.evt),
           pc'["poll"] \in {"select", "new", "known"} =>
                /\ pc["poll"] \in {"select", "new", "known"}
                /\ now'["poll"] = now["poll"] /\ lastBlock' = lastBlock
    PROVE  AssignedInv'
<1>1. \A s \in Waiting' : s.op = "add" => Settled(s.evt)
  BY DEF AssignedInv
<1>2. \A s \in Waiting' : s.op = "add" => /\ assigned'[Key(s.evt)] # 0
                                         /\ s.evt.assigned_block_nbr = assigned'[Key(s.evt)]
                                         /\ s.evt.assigned_block_nbr + NConfirmations <= block'
  BY <1>1 DEF Settled
<1>3. QED
  BY <1>2 DEF AssignedInv, Settled, PoliceConfirmed

(* A chain that grows or is replaced leaves settled assignments alone, and  *)
(* the node has the audit that it won last.                                 *)
LEMMA ChainAssigned ==
    ASSUME Ownership, AssignedInv, Chain
    PROVE  /\ block' \in Nat /\ block <= block'
           /\ \A k \in Keys :
                assigned[k] # 0 /\ assigned[k] + NConfirmations <= block => assigned'[k] = assigned[k]
           /\ mostRecent' # None => assigned'[<<mostRecent', "AU">>] # 0
<1> DEFINE Goal ==
             /\ block' \in Nat /\ block <= block'
             /\ \A k \in Keys :
                  assigned[k] # 0 /\ assigned[k] + NConfirmations <= block => assigned'[k] = assigned[k]
             /\ mostRecent' # None => assigned'[<<mostRecent', "AU">>] # 0
<1>0. /\ block \in Nat /\ block # 0 /\ assigned \in [Keys -> Nat]
      /\ mostRecent # None => assigned[<<mostRecent, "AU">>] # 0
      /\ \A r \in Requests : <<r, "AU">> \in Keys /\ <<r, "PC">> \in Keys
  BY DEF Ownership, TypeOK, AssignedInv, Keys, Types
<1>m. mostRecent \in Requests \cup {None}
  BY DEF Ownership, TypeOK
<1>1. CASE MinesBlock
  <2>1. block' = block + 1 /\ UNCHANGED <<assigned, mostRecent>>
    BY <1>1 DEF MinesBlock
  <2>2. Goal
    BY <1>0, <2>1
  <2>3. QED
    BY <2>2
<1>2. CASE BidFails
  <2>1. UNCHANGED <<block, assigned, mostRecent>>
    BY <1>2 DEF BidFails
  <2>2. Goal
    BY <1>0, <2>1
  <2>3. QED
    BY <2>2
<1>3. ASSUME NEW r \in Requests, AssignsRequest(r)
      PROVE  Goal
  <2>1. /\ assigned[<<r, "AU">>] = 0 /\ assigned' = [assigned EXCEPT ![<<r, "AU">>] = block]
        /\ mostRecent' = r /\ block' = block
    BY <1>3 DEF AssignsRequest, Available
  <2>2. assigned'[<<r, "AU">>] = block /\ \A k \in Keys : assigned[k] # 0 => assigned'[k] = assigned[k]
    BY <1>0, <2>1
  <2>3. QED
    BY <1>0, <2>1, <2>2
<1>4. ASSUME NEW r \in Requests, AssignsPoliceCheck(r)
      PROVE  Goal
  <2>1. /\ assigned[<<r, "PC">>] = 0 /\ assigned' = [assigned EXCEPT ![<<r, "PC">>] = block]
        /\ mostRecent' = mostRecent /\ block' = block
    BY <1>4 DEF AssignsPoliceCheck
  <2>2. \A k \in Keys : assigned[k] # 0 => assigned'[k] = assigned[k]
    BY <1>0, <2>1
  <2>3. QED
    BY <1>0, <1>m, <2>1, <2>2
<1>5. ASSUME NEW k \in Keys, AcceptsReport(k) \/ DropsReport(k) \/ LosesReport(k)
      PROVE  Goal
  <2>1. UNCHANGED <<block, assigned, mostRecent>>
    BY <1>5 DEF AcceptsReport, DropsReport, LosesReport
  <2>2. QED
    BY <1>0, <2>1
<1>6. ASSUME NEW x \in Keys, LosesAssignment(x)
      PROVE  Goal
  <2> DEFINE others == {r \in Requests \ {x[1]} : assigned[<<r, "AU">>] # 0}
  <2>1. /\ block < assigned[x] + NConfirmations /\ block' = block
        /\ assigned' = [assigned EXCEPT ![x] = 0]
        /\ \/ x # <<mostRecent, "AU">> /\ mostRecent' = mostRecent
           \/ mostRecent' = None
           \/ mostRecent' \in others
    BY <1>6 DEF LosesAssignment
  <2>2. \A k \in Keys : k # x => assigned'[k] = assigned[k]
    BY <1>0, <2>1
  <2>3. \A k \in Keys :
            assigned[k] # 0 /\ assigned[k] + NConfirmations <= block => assigned'[k] = assigned[k]
    <3>1. SUFFICES ASSUME NEW k \in Keys, assigned[k] # 0, assigned[k] + NConfirmations <= block
                   PROVE  k # x
      BY <2>2
    <3>2. assigned[k] \in Nat /\ NConfirmations \in Nat
      BY <1>0, ConstantsAssumption
    <3>3. QED
      BY <1>0, <2>1, <3>1, <3>2
  <2>4. CASE x # <<mostRecent, "AU">> /\ mostRecent' = mostRecent
    BY <1>0, <1>m, <2>1, <2>2, <2>3, <2>4
  <2>5. CASE mostRecent' = None
    BY <1>0, <2>1, <2>3, <2>5
  <2>6. ASSUME NEW m \in others, mostRecent' = m
        PROVE  Goal
    <3>1. m \in Requests /\ m # x[1] /\ assigned[<<m, "AU">>] # 0
      OBVIOUS
    <3>2. <<m, "AU">> # x /\ <<m, "AU">> \in Keys
      <4>1. <<m, "AU">>[1] = m
        OBVIOUS
      <4>2. QED
        BY <1>0, <3>1, <4>1
    <3>3. assigned'[<<m, "AU">>] # 0
      BY <2>2, <3>1, <3>2
    <3>4. QED
      BY <1>0, <2>1, <2>3, <2>6, <3>3
  <2>7. QED
    BY <2>1, <2>4, <2>5, <2>6
<1>7. QED
  BY <1>1, <1>2, <1>3, <1>4, <1>5, <1>6 DEF Chain

LEMMA AssignedNext ==
    ASSUME Ownership, AssignedInv, [Next]_vars
    PROVE  AssignedInv'
<1>0. /\ {"submit", "main", "poll", "audit", "monitor"} = Threads
      /\ assigned \in [Keys -> Nat] /\ block \in Nat /\ lastBlock \in Nat /\ lastBlock <= block
      /\ NConfirmations \in Nat
      /\ \A e \in Event : Key(e) \in Keys /\ e.assigned_block_nbr \in Nat
      /\ \A k \in Keys : rows[k] \in Event /\ Key(rows[k]) = k
      /\ pc["poll"] \in {"select", "new", "known"} => now["poll"] \in Event
  BY ConstantsAssumption DEF Threads, Ownership, TypeOK, RowsInv, ThreadsInv, AssignedInv,
                             Event, Keys, Key
<1>1. CASE Main
  <2>1. /\ UNCHANGED <<rows, block, assigned, mostRecent, now, lastBlock>>
        /\ pc'["poll"] \in {pc["poll"], "loop"}
        /\ \A s \in Waiting' \ Waiting : s.op = "error"
    BY <1>1, MainEffect DEF chainVars
  <2>2. QED
    BY <1>0, <2>1, AssignedKept
<1>2. CASE Poll
  <2>1. /\ UNCHANGED <<rows, block, assigned, mostRecent>>
        /\ lastBlock' \in Nat /\ lastBlock <= lastBlock' /\ lastBlock' <= block
    BY <1>0, <1>2, PollEffect DEF PollFrame
  <2>2. CASE PollPasses
    BY <2>1, <2>2, AssignedKept DEF PollPasses
  <2>3. CASE PollSaves
    <3>1. Settled(now["poll"])
      BY <2>3 DEF PollSaves, AssignedInv
    <3>2. /\ pc'["poll"] \notin {"select", "new", "known"}
          /\ \A s \in Waiting' \ Waiting : s.evt = now["poll"]
      BY <2>3 DEF PollSaves
    <3>3. QED
      BY <2>1, <3>1, <3>2, AssignedKept
  <2>4. CASE PollLooksUp
    <3>1. PICK k \in Keys :
            /\ now'["poll"] = AssignedEvent(k)
            /\ k[2] = "AU" => mostRecent = k[1] /\ assigned[k] + NConfirmations <= lastBlock'
            /\ k[2] = "PC" => assigned[k] # 0
      BY <2>4 DEF PollLooksUp
    <3>2. /\ now'["poll"].assigned_block_nbr = assigned[k] /\ now'["poll"].fk_type = k[2]
          /\ Key(now'["poll"]) = k /\ k = <<k[1], k[2]>> /\ k[1] \in Requests /\ k[2] \in {"AU", "PC"}
      BY <3>1 DEF AssignedEvent, NoRow, Key, Keys, Types
    <3>3. assigned[k] # 0
      <4>1. CASE k[2] = "AU"
        BY <3>1, <3>2, <4>1, NoneAssumption DEF AssignedInv
      <4>2. QED
        BY <3>1, <3>2, <4>1
    <3>4. PoliceConfirmed' => Settled(now["poll"])'
      <4>1. PoliceConfirmed' => assigned[k] + NConfirmations <= block
        BY <1>0, <2>1, <3>2 DEF PoliceConfirmed
      <4>2. QED
        BY <2>1, <3>2, <3>3, <4>1 DEF Settled
    <3>5. (now["poll"].fk_type = "AU" => PoliceConfirmed)'
      BY <3>1, <3>2 DEF PoliceConfirmed
    <3>6. Waiting' = Waiting
      BY <2>4 DEF PollLooksUp
    <3>7. \A s \in Waiting' : s.op = "add" => Settled(s.evt)'
      BY <2>1, <3>6 DEF AssignedInv, Settled
    <3>8. \A k2 \in Keys : rows'[k2].fk_status # "NA" => Settled(rows[k2])'
      BY <2>1 DEF AssignedInv, Settled
    <3>9. QED
      BY <1>0, <2>1, <3>4, <3>5, <3>7, <3>8 DEF AssignedInv
  <2>5. QED
    BY <1>2, <2>2, <2>3, <2>4, PollEffect
<1>3. ASSUME NEW t \in {"audit", "submit", "monitor"}, NEW ops, "add" \notin ops,
             ThreadFrame(t, ops)
      PROVE  AssignedInv'
  <2>1. /\ UNCHANGED <<rows, block, assigned, mostRecent, lastBlock>>
        /\ now'["poll"] = now["poll"] /\ pc'["poll"] = pc["poll"]
        /\ \A s \in Waiting' \ Waiting : s.op # "add"
    BY <1>0, <1>3 DEF ThreadFrame
  <2>2. QED
    BY <1>0, <2>1, AssignedKept
<1>4. CASE Audit
  BY <1>3, <1>4, AuditEffect
<1>5. CASE Submit
  BY <1>3, <1>5, SubmitEffect
<1>6. CASE Monitor
  BY <1>3, <1>6, MonitorEffect
<1>7. CASE AnswersSelect \/ AnswersLookup
  <2>1. /\ Waiting' = Waiting
        /\ UNCHANGED <<rows, block, assigned, mostRecent, now, lastBlock>>
        /\ pc'["poll"] \in {"select", "new", "known"} => pc["poll"] \in {"select", "new", "known"}
    BY <1>7, AnswersEffect DEF chainVars, localVars
  <2>2. QED
    BY <1>0, <2>1, AssignedKept
<1>8. CASE LosesWrite
  <2>1. /\ Waiting' \subseteq Waiting
        /\ UNCHANGED <<rows, block, assigned, mostRecent, now, pc, lastBlock>>
    BY <1>8, FirstWriteEffect DEF chainVars, threadVars, localVars, LosesWrite, RollBackWrite
  <2>2. QED
    BY <1>0, <2>1, AssignedKept
<1>9. CASE Crash
  <2>1. /\ Waiting' = {} /\ UNCHANGED <<rows, block, assigned, mostRecent>>
        /\ lastBlock' = 0 /\ pc'["poll"] = "off"
    BY <1>0, <1>9, CrashEffect DEF chainVars
  <2>2. QED
    BY <1>0, <2>1, AssignedKept
<1>10. CASE UNCHANGED vars
  <2>1. /\ Waiting' = Waiting
        /\ UNCHANGED <<rows, block, assigned, mostRecent, now, pc, lastBlock>>
    BY <1>10, StutterEffect DEF chainVars, threadVars, localVars
  <2>2. QED
    BY <1>0, <2>1, AssignedKept
<1>11. CASE Writes
  <2>h. PICK h : h = Head(sql_queue)
    OBVIOUS
  <2>x. PICK x : x = Key(h.evt)
    OBVIOUS
  <2>1. /\ h \in Waiting /\ Waiting' \subseteq Waiting
        /\ UNCHANGED <<block, assigned, mostRecent, now, pc, lastBlock>>
    BY <1>11, <2>h, FirstWriteEffect DEF chainVars, threadVars, localVars
  <2>2. /\ h.evt \in Event /\ x \in Keys /\ \A k \in Keys : k # x => rows'[k] = rows[k]
        /\ rows[x].fk_status = h.evt.fk_status /\ Key(rows'[x]) = x
        /\ h.op = "add" => rows'[x] = Row(h.evt, "AS", 0, 0)
        /\ h.op # "add" => \E st, n, b : rows'[x] = Row(rows[x], st, n, b)
    BY <1>11, <2>h, <2>x, WriteEffect DEF Writes
  <2>r. ASSUME h.op # "add"
        PROVE  rows'[x].assigned_block_nbr = rows[x].assigned_block_nbr
    <3>1. PICK st, n, b : rows'[x] = Row(rows[x], st, n, b)
      BY <2>2, <2>r
    <3>2. QED
      BY <3>1 DEF Row
  <2>3. h.op # "add" => rows[x].fk_status # "NA"
    BY <1>0, <2>1, <2>2, WaitingFacts DEF MayPut, Updates
  <2>4. /\ assigned[x] # 0 /\ rows'[x].assigned_block_nbr = assigned[x]
        /\ rows'[x].assigned_block_nbr + NConfirmations <= block
    <3>1. CASE h.op = "add"
      <4>1. Settled(h.evt) /\ rows'[x].assigned_block_nbr = h.evt.assigned_block_nbr
        BY <2>1, <2>2, <3>1 DEF AssignedInv, Row
      <4>2. QED
        BY <2>x, <4>1 DEF Settled
    <3>2. CASE h.op # "add"
      <4>1. Settled(rows[x])
        BY <2>2, <2>3, <3>2 DEF AssignedInv
      <4>2. QED
        BY <1>0, <2>2, <2>r, <3>2, <4>1 DEF Settled
    <3>3. QED
      BY <3>1, <3>2
  <2>5. \A k \in Keys : rows'[k].fk_status # "NA" => Settled(rows[k])'
    <3>1. ASSUME NEW k \in Keys, rows'[k].fk_status # "NA"
          PROVE  Settled(rows[k])'
      <4>1. CASE k = x
        BY <2>1, <2>2, <2>4, <4>1 DEF Settled
      <4>2. CASE k # x
        BY <2>1, <2>2, <3>1, <4>2 DEF AssignedInv, Settled
      <4>3. QED
        BY <4>1, <4>2
    <3>2. QED
      BY <3>1
  <2>6. \A s \in Waiting' : s.op = "add" => Settled(s.evt)'
    BY <2>1 DEF AssignedInv, Settled
  <2>7. QED
    BY <2>1, <2>5, <2>6 DEF AssignedInv, Settled, PoliceConfirmed
<1>12. CASE Chain
  <2>1. /\ block' \in Nat /\ block <= block'
        /\ \A k \in Keys :
             assigned[k] # 0 /\ assigned[k] + NConfirmations <= block => assigned'[k] = assigned[k]
        /\ mostRecent' # None => assigned'[<<mostRecent', "AU">>] # 0
    BY <1>12, ChainAssigned
  <2>2. Waiting' = Waiting /\ UNCHANGED <<rows, pc, now, lastBlock>>
    BY <1>12, ChainEffect DEF poolVars, threadVars, localVars
  <2>3. \A e \in Event :
            Settled(e) => /\ assigned'[Key(e)] # 0 /\ e.assigned_block_nbr = assigned'[Key(e)]
                          /\ e.assigned_block_nbr + NConfirmations <= block'
    <3>1. SUFFICES ASSUME NEW e \in Event, Settled(e)
                   PROVE  /\ assigned'[Key(e)] = assigned[Key(e)]
                          /\ assigned[Key(e)] + NConfirmations <= block'
      BY DEF Settled
    <3>2. /\ Key(e) \in Keys /\ assigned[Key(e)] \in Nat
          /\ assigned[Key(e)] # 0 /\ assigned[Key(e)] + NConfirmations <= block
      BY <1>0, <3>1 DEF Settled
    <3>3. QED
      BY <1>0, <2>1, <3>2
  <2>4. \A s \in Waiting : s.evt \in Event
    BY WaitingFacts
  <2>5. \A k \in Keys : rows'[k].fk_status # "NA" => Settled(rows[k])'
    BY <1>0, <2>2, <2>3 DEF AssignedInv, Settled
  <2>6. \A s \in Waiting' : s.op = "add" => Settled(s.evt)'
    BY <2>2, <2>3, <2>4 DEF AssignedInv, Settled
  <2>7. pc'["poll"] \in {"select", "new", "known"} =>
            /\ (now["poll"].fk_type = "AU" => PoliceConfirmed)'
            /\ PoliceConfirmed' => Settled(now["poll"])'
    BY <1>0, <2>2, <2>3 DEF AssignedInv, Settled, PoliceConfirmed
  <2>8. block' # 0 /\ lastBlock' <= block'
    BY <1>0, <2>1, <2>2 DEF AssignedInv
  <2>9. QED
    BY <2>1, <2>5, <2>6, <2>7, <2>8 DEF AssignedInv
<1>13. QED
  BY <1>1, <1>2, <1>4, <1>5, <1>6, <1>7, <1>8, <1>9, <1>10, <1>11, <1>12 DEF Next, Worker

-----------------------------------------------------------------------------
(* Reports.                                                                 *)

(* The contract keeps the reports it has.                                   *)
ReportsStay == \A r \in Requests : reportBlock[<<r, "AU">>] # 0 => reportBlock'[<<r, "AU">>] # 0

(* No row changes, and monitor has nothing new in mind.                     *)
LEMMA ReportedKept ==
    ASSUME Ownership, ReportedInv, rows' = rows, ~Reorgs => ReportsStay,
           \/ now'["monitor"] = None
           \/ isFinished' = isFinished /\ now'["monitor"] = now["monitor"],
           ~Reorgs => \A s \in Waiting' \ Waiting :
                s.op = "done" => s.evt.request_id \in Requests /\ IsReported(s.evt.request_id)
    PROVE  ReportedInv'
<1>1. SUFFICES ASSUME ~Reorgs
               PROVE  /\ isFinished' /\ now'["monitor"] # None =>
                            reportBlock'[<<now'["monitor"].request_id, "AU">>] # 0
                      /\ \A s \in Waiting' : s.op = "done" =>
                            reportBlock'[<<s.evt.request_id, "AU">>] # 0
                      /\ \A k \in Keys : rows'[k].fk_status = "DN" =>
                            reportBlock'[<<k[1], "AU">>] # 0
  BY DEF ReportedInv, IsReported
<1>2. /\ isFinished /\ now["monitor"] # None => reportBlock[<<now["monitor"].request_id, "AU">>] # 0
      /\ \A s \in Waiting : s.op = "done" => reportBlock[<<s.evt.request_id, "AU">>] # 0
      /\ \A k \in Keys : rows[k].fk_status = "DN" => reportBlock[<<k[1], "AU">>] # 0
      /\ \A s \in Waiting' \ Waiting :
            s.op = "done" => /\ s.evt.request_id \in Requests
                             /\ reportBlock[<<s.evt.request_id, "AU">>] # 0
  BY <1>1 DEF ReportedInv, IsReported
<1>3. /\ now["monitor"] # None => now["monitor"].request_id \in Requests
      /\ \A s \in Waiting : s.evt.request_id \in Requests
      /\ \A k \in Keys : k[1] \in Requests
  BY WaitingFacts DEF Ownership, TypeOK, Threads, Event, Keys
<1>4. \A r : reportBlock[<<r, "AU">>] # 0 /\ r \in Requests => reportBlock'[<<r, "AU">>] # 0
  BY <1>1 DEF ReportsStay
<1>5. \A s \in Waiting' : s.op = "done" => reportBlock'[<<s.evt.request_id, "AU">>] # 0
  BY <1>2, <1>3, <1>4
<1>6. QED
  BY <1>1, <1>2, <1>3, <1>4, <1>5

(* Only a block that is replaced takes a report away.                       *)
LEMMA ChainReports ==
    ASSUME Ownership, AssignedInv, Chain
    PROVE  ~Reorgs => ReportsStay
<1>0. /\ reportBlock \in [Keys -> Nat] /\ block # 0
      /\ \A r \in Requests : <<r, "AU">> \in Keys
  BY DEF Ownership, TypeOK, AssignedInv, Keys, Types
<1>1. CASE reportBlock' = reportBlock
  BY <1>1 DEF ReportsStay
<1>2. ASSUME NEW r \in Requests, AssignsPoliceCheck(r)
      PROVE  ReportsStay
  <2>1. reportBlock' = [reportBlock EXCEPT ![<<r, "AU">>] = IF @ = 0 THEN block ELSE @]
    BY <1>2 DEF AssignsPoliceCheck
  <2>2. \A k \in Keys : reportBlock[k] # 0 => reportBlock'[k] # 0
    BY <1>0, <2>1
  <2>3. QED
    BY <1>0, <2>2 DEF ReportsStay
<1>3. ASSUME NEW x \in Keys, AcceptsReport(x)
      PROVE  ReportsStay
  <2>1. reportBlock[x] = 0 /\ reportBlock' = [reportBlock EXCEPT ![x] = block]
    BY <1>3 DEF AcceptsReport
  <2>2. \A k \in Keys : reportBlock[k] # 0 => reportBlock'[k] # 0
    BY <1>0, <2>1
  <2>3. QED
    BY <1>0, <2>2 DEF ReportsStay
<1>4. ASSUME NEW x \in Keys, LosesReport(x)
      PROVE  Reorgs
  BY <1>4 DEF LosesReport
<1>5. QED
  BY <1>1, <1>2, <1>3, <1>4
     DEF Chain, MinesBlock, BidFails, AssignsRequest, DropsReport, LosesAssignment

LEMMA ReportedNext ==
    ASSUME Ownership, AssignedInv, ReportedInv, [Next]_vars
    PROVE  ReportedInv'
<1>0. /\ {"submit", "main", "poll", "audit", "monitor"} = Threads
      /\ now \in [Threads -> Event \cup {None}]
  BY DEF Threads, Ownership, TypeOK
<1>s. reportBlock' = reportBlock => ReportsStay
  BY DEF ReportsStay
<1>1. CASE Main
  <2>1. /\ UNCHANGED <<rows, reportBlock, now, isFinished>>
        /\ \A s \in Waiting' \ Waiting : s.op = "error"
    BY <1>1, MainEffect DEF chainVars
  <2>2. QED
    BY <1>s, <2>1, ReportedKept
<1>2. CASE Poll
  <2>1. /\ UNCHANGED <<rows, reportBlock, isFinished>> /\ now'["monitor"] = now["monitor"]
        /\ \A s \in Waiting' \ Waiting : s.op = "add"
    BY <1>0, <1>2, PollEffect DEF PollFrame, PollPasses, PollSaves, PollLooksUp
  <2>2. QED
    BY <1>s, <2>1, ReportedKept
<1>3. CASE Audit \/ Submit
  <2>1. /\ UNCHANGED <<rows, reportBlock, isFinished>> /\ now'["monitor"] = now["monitor"]
        /\ \A s \in Waiting' \ Waiting : s.op # "done"
    BY <1>0, <1>3, AuditEffect, SubmitEffect DEF ThreadFrame
  <2>2. QED
    BY <1>s, <2>1, ReportedKept
<1>4. CASE Monitor
  <2>1. UNCHANGED <<rows, reportBlock>>
    BY <1>4, MonitorEffect DEF ThreadFrame
  <2>2. CASE MonitorEnds
    <3>1. ~Reorgs => \A s \in Waiting' \ Waiting :
                s.op = "done" => s.evt.request_id \in Requests /\ IsReported(s.evt.request_id)
      BY <1>0, <2>2 DEF MonitorEnds, ReportedInv, Event
    <3>2. now'["monitor"] = None
      BY <2>2 DEF MonitorEnds
    <3>3. QED
      BY <1>s, <2>1, <3>1, <3>2, ReportedKept
  <2>3. ASSUME NEW e \in todo["monitor"], Asks(e), now'["monitor"] = e, Waiting' = Waiting
        PROVE  ReportedInv'
    <3>1. isFinished' = (reportBlock[<<e.request_id, "AU">>] # 0)
      BY <2>3 DEF Asks
    <3>2. QED
      BY <2>1, <2>3, <3>1 DEF ReportedInv, IsReported
  <2>4. QED
    BY <1>4, <2>2, <2>3, MonitorEffect
<1>5. CASE AnswersSelect \/ AnswersLookup
  <2>1. Waiting' = Waiting /\ UNCHANGED <<rows, reportBlock, now, isFinished>>
    BY <1>5, AnswersEffect DEF chainVars, localVars
  <2>2. QED
    BY <1>s, <2>1, ReportedKept
<1>6. CASE LosesWrite
  <2>1. Waiting' \subseteq Waiting /\ UNCHANGED <<rows, reportBlock, now, isFinished>>
    BY <1>6, FirstWriteEffect DEF chainVars, threadVars, localVars, LosesWrite, RollBackWrite
  <2>2. QED
    BY <1>s, <2>1, ReportedKept
<1>7. CASE Crash
  <2>1. Waiting' = {} /\ UNCHANGED <<rows, reportBlock>> /\ now'["monitor"] = None
    BY <1>0, <1>7, CrashEffect DEF chainVars
  <2>2. QED
    BY <1>s, <2>1, ReportedKept
<1>8. CASE UNCHANGED vars
  <2>1. Waiting' = Waiting /\ UNCHANGED <<rows, reportBlock, now, isFinished>>
    BY <1>8, StutterEffect DEF chainVars, threadVars, localVars
  <2>2. QED
    BY <1>s, <2>1, ReportedKept
<1>9. CASE Chain
  <2>1. Waiting' = Waiting /\ UNCHANGED <<rows, now, isFinished>>
    BY <1>9, ChainEffect DEF poolVars, threadVars, localVars
  <2>2. ~Reorgs => ReportsStay
    BY <1>9, ChainReports
  <2>3. QED
    BY <2>1, <2>2, ReportedKept
<1>10. CASE Writes
  <2>h. PICK h : h = Head(sql_queue)
    OBVIOUS
  <2>x. PICK x : x = Key(h.evt)
    OBVIOUS
  <2>1. /\ h \in Waiting /\ Waiting' \subseteq Waiting
        /\ UNCHANGED <<reportBlock, now, isFinished>>
    BY <1>10, <2>h, FirstWriteEffect DEF chainVars, threadVars, localVars
  <2>2. /\ \A k \in Keys : k # x => rows'[k] = rows[k]
        /\ h.op = "add" => rows'[x] = Row(h.evt, "AS", 0, 0)
        /\ h.op = "to_be_submitted" =>
                rows'[x] = Row(rows[x], "TS", rows[x].submission_attempts + 1,
                               h.evt.submission_block_nbr)
        /\ h.op \notin {"add", "to_be_submitted"} =>
                \E st \in {"SB", "DN", "ER"} :
                    /\ rows'[x] = Row(rows[x], st, rows[x].submission_attempts,
                                       rows[x].submission_block_nbr)
                    /\ st = "DN" <=> h.op = "done"
    BY <1>10, <2>h, <2>x, WriteEffect DEF Writes
  <2>3. rows'[x].fk_status = "DN" => h.op = "done"
    <3>1. CASE h.op = "add"
      BY <2>2, <3>1 DEF Row
    <3>2. CASE h.op = "to_be_submitted"
      BY <2>2, <3>2 DEF Row
    <3>3. CASE h.op \notin {"add", "to_be_submitted"}
      <4>1. PICK st : /\ rows'[x] = Row(rows[x], st, rows[x].submission_attempts,
                                        rows[x].submission_block_nbr)
                      /\ st = "DN" <=> h.op = "done"
        BY <2>2, <3>3
      <4>2. rows'[x].fk_status = st
        BY <4>1 DEF Row
      <4>3. QED
        BY <4>1, <4>2
    <3>4. QED
      BY <3>1, <3>2, <3>3
  <2>4. x[1] = h.evt.request_id
    BY <2>x DEF Key
  <2>5. ASSUME ~Reorgs, NEW k \in Keys, rows'[k].fk_status = "DN"
        PROVE  IsReported(k[1])
    <3>1. CASE k = x
      BY <2>1, <2>3, <2>4, <2>5, <3>1 DEF ReportedInv
    <3>2. CASE k # x
      BY <2>2, <2>5, <3>2 DEF ReportedInv
    <3>3. QED
      BY <3>1, <3>2
  <2>6. QED
    BY <2>1, <2>5 DEF ReportedInv, IsReported
<1>11. QED
  BY <1>1, <1>2, <1>3, <1>4, <1>5, <1>6, <1>7, <1>8, <1>9, <1>10 DEF Next, Worker

-----------------------------------------------------------------------------
(* The scan.                                                                *)

(* A step of main that does not end the scan.                               *)
LEMMA ScanByMain ==
    ASSUME Ownership, ScanInv, Main, pc'["main"] \in {"select", "loop"}
    PROVE  ScanInv'
<1>0. /\ "main" \in Threads /\ "main" \in Selectors
      /\ todo \in [Threads -> SUBSET Event] /\ scan \in ScanType
      /\ pc \in [Threads -> {"off", "watch", "loop", "select", "new", "known",
                            "bid", "receipt", "police"}]
      /\ \A k \in Keys : Key(rows[k]) = k
      /\ \A e \in Event : e.assigned_block_nbr \in Nat
  BY DEF Threads, Selectors, Ownership, TypeOK, RowsInv, Event
<1>u. UNCHANGED <<rows, lost>>
  BY MainEffect DEF countVars
<1>1. CASE Start
  <2>1. /\ pc["main"] = "off" /\ scan'.status = "AS" /\ pc'["main"] = "select"
    BY <1>0, <1>1 DEF Start
  <2>2. Waiting' = {}
    <3>1. Waiting' = Waiting
      BY <1>0, <1>1, SelectWaiting DEF Start, Status
    <3>2. QED
      BY <2>1, <3>1, WaitingFacts
  <2>3. \A k \in Keys : IsStale(k)' => ScanAhead(k)'
    BY <2>1 DEF IsStale, ScanAhead
  <2>4. QED
    BY <2>2, <2>3 DEF ScanInv
<1>2. CASE ScansSubmissions
  <2>1. /\ pc["main"] = "loop" /\ todo["main"] = {} /\ scan.status = "AS"
        /\ scan'.status = "TS" /\ scan'.firstValid = scan.firstValid /\ pc'["main"] = "select"
    BY <1>0, <1>2 DEF ScansSubmissions, ScanType
  <2>2. Waiting' = Waiting
    BY <1>0, <1>2, SelectWaiting DEF ScansSubmissions, Status
  <2>3. ASSUME NEW k \in Keys, IsStale(k)', lost = 0
        PROVE  TimesOutSoon(k)' \/ ScanAhead(k)'
    <3>1. IsStale(k)
      BY <1>u, <2>1, <2>3 DEF IsStale
    <3>2. TimesOutSoon(k) \/ ScanAhead(k)
      BY <2>1, <2>3, <3>1 DEF ScanInv
    <3>3. CASE TimesOutSoon(k)
      BY <2>2, <3>3 DEF TimesOutSoon
    <3>4. CASE ScanAhead(k)
      BY <1>u, <2>1, <3>4 DEF ScanAhead
    <3>5. QED
      BY <3>2, <3>3, <3>4
  <2>4. \A s \in Waiting' : s.op = "error"
    BY <2>1, <2>2 DEF ScanInv
  <2>5. QED
    BY <1>u, <2>3, <2>4 DEF ScanInv
<1>3. CASE StartsThreads
  <2>1. pc'["main"] = "watch"
    BY <1>0, <1>3 DEF StartsThreads
  <2>2. QED
    BY <2>1
<1>4. ASSUME NEW e \in todo["main"], TimesOut(e)
      PROVE  ScanInv'
  <2>1. e \in Event /\ pc["main"] = "loop"
    BY <1>0, <1>4 DEF TimesOut, Picks
  <2>2. /\ Waiting' = Waiting \cup {[op |-> "error", evt |-> e]}
        /\ UNCHANGED <<rows, pc, scan, lost>> /\ todo'["main"] = todo["main"] \ {e}
    BY <1>0, <1>4, <2>1, LeavesWithEffect DEF TimesOut, Updates, localVars, countVars
  <2>3. \A s \in Waiting' : s.op = "error"
    BY <2>1, <2>2 DEF ScanInv
  <2>4. ASSUME NEW k \in Keys, IsStale(k)', lost = 0
        PROVE  TimesOutSoon(k)' \/ ScanAhead(k)'
    <3>1. TimesOutSoon(k) \/ ScanAhead(k)
      BY <2>1, <2>2, <2>4 DEF IsStale, ScanInv
    <3>2. CASE TimesOutSoon(k)
      BY <2>2, <3>2 DEF TimesOutSoon
    <3>3. CASE rows[k] = e
      <4>1. [op |-> "error", evt |-> e] \in Waiting'
        BY <2>2
      <4>2. Key(e) = k
        BY <1>0, <3>3
      <4>3. QED
        BY <4>1, <4>2 DEF TimesOutSoon
    <3>4. CASE ScanAhead(k) /\ rows[k] # e
      BY <2>2, <3>4 DEF ScanAhead
    <3>5. QED
      BY <3>1, <3>2, <3>3, <3>4
  <2>5. QED
    BY <2>2, <2>3, <2>4 DEF ScanInv
<1>5. ASSUME NEW e \in todo["main"], StillValid(e)
      PROVE  ScanInv'
  <2>1. e \in Event /\ pc["main"] = "loop" /\ scan.firstValid < e.assigned_block_nbr
    BY <1>0, <1>5 DEF StillValid, Picks
  <2>2. /\ Waiting' = Waiting
        /\ UNCHANGED <<rows, pc, scan, lost>> /\ todo'["main"] = todo["main"] \ {e}
    BY <1>0, <1>5, LeavesAloneEffect DEF StillValid, localVars, countVars
  <2>3. \A s \in Waiting' : s.op = "error"
    BY <2>1, <2>2 DEF ScanInv
  <2>4. ASSUME NEW k \in Keys, IsStale(k)', lost = 0
        PROVE  TimesOutSoon(k)' \/ ScanAhead(k)'
    <3>1. TimesOutSoon(k) \/ ScanAhead(k)
      BY <2>1, <2>2, <2>4 DEF IsStale, ScanInv
    <3>2. rows[k] # e
      <4>1. rows[k].assigned_block_nbr <= scan.firstValid
        BY <2>2, <2>4 DEF IsStale
      <4>2. e.assigned_block_nbr \in Nat /\ scan.firstValid \in Int
        BY <1>0, <2>1 DEF ScanType
      <4>3. QED
        BY <2>1, <4>1, <4>2
    <3>3. QED
      BY <2>2, <3>1, <3>2 DEF TimesOutSoon, ScanAhead
  <2>5. QED
    BY <2>2, <2>3, <2>4 DEF ScanInv
<1>6. QED
  BY <1>1, <1>2, <1>3, <1>4, <1>5 DEF Main

LEMMA ScanNext ==
    ASSUME Ownership, ScanInv, [Next]_vars
    PROVE  ScanInv'
<1>0. /\ {"submit", "main", "poll", "audit", "monitor"} = Threads
      /\ todo \in [Threads -> SUBSET Event]
      /\ pc \in [Threads -> {"off", "watch", "loop", "select", "new", "known",
                            "bid", "receipt", "police"}]
      /\ \A t \in Threads : t # "main" /\ pc[t] # "off" => pc["main"] = "watch"
  BY DEF Threads, Ownership, TypeOK, ThreadsInv
<1>1. SUFFICES ASSUME pc'["main"] \in {"select", "loop"}
               PROVE  ScanInv'
  BY DEF ScanInv
<1>k. ASSUME Waiting' = Waiting, UNCHANGED <<rows, pc, todo, scan, lost>>
      PROVE  ScanInv'
  BY <1>k DEF ScanInv, IsStale, TimesOutSoon, ScanAhead
<1>2. CASE Main
  BY <1>1, <1>2, ScanByMain
<1>3. CASE Poll \/ Audit \/ Submit \/ Monitor
  <2>1. pc'["main"] = pc["main"] /\ pc["main"] = "watch"
    BY <1>0, <1>3, PollEffect, AuditEffect, SubmitEffect, MonitorEffect
       DEF PollFrame, ThreadFrame
  <2>2. QED
    BY <1>1, <2>1
<1>4. CASE AnswersSelect
  <2>h. PICK h : h = Head(sql_queue)
    OBVIOUS
  <2>1. /\ sql_queue # <<>> /\ sql_queue' = Tail(sql_queue) /\ IsSelection(h)
        /\ pc' = [pc EXCEPT ![h.by] = "loop"]
        /\ todo' = [todo EXCEPT ![h.by] = RowsWith(h.status)]
        /\ UNCHANGED <<rows, scan, lost>>
    BY <1>4, <2>h DEF AnswersSelect, localVars, countVars
  <2>2. /\ h.by \in Threads /\ pc[h.by] = "select" /\ h.status = Handles(h.by)
    <3>1. 1 \in DOMAIN sql_queue /\ sql_queue[1] = h
      BY <2>h, <2>1, QueueTail
    <3>2. QED
      BY <2>1, <3>1 DEF Ownership, SelectsInv, Selectors, Threads
  <2>3. h.by = "main"
    BY <1>0, <1>1, <2>1, <2>2
  <2>4. Waiting' = Waiting
    BY <1>4, AnswersEffect
  <2>5. /\ pc["main"] = "select" /\ pc'["main"] = "loop"
        /\ todo'["main"] = RowsWith(scan.status)
    BY <1>0, <2>1, <2>2, <2>3 DEF Handles
  <2>6. \A k \in Keys : rows[k].fk_status = scan.status => rows[k] \in todo'["main"]
    BY <2>5 DEF RowsWith
  <2>7. \A k \in Keys : ScanAhead(k) => ScanAhead(k)'
    BY <2>1, <2>6 DEF ScanAhead
  <2>8. \A k \in Keys : /\ IsStale(k)' => IsStale(k)
                        /\ TimesOutSoon(k) => TimesOutSoon(k)'
    BY <2>1, <2>4 DEF IsStale, TimesOutSoon
  <2>9. /\ \A s \in Waiting : s.op = "error"
        /\ lost = 0 => \A k \in Keys : IsStale(k) => TimesOutSoon(k) \/ ScanAhead(k)
    BY <2>5 DEF ScanInv
  <2>10. lost' = 0 => \A k \in Keys : IsStale(k)' => TimesOutSoon(k)' \/ ScanAhead(k)'
    BY <2>1, <2>7, <2>8, <2>9
  <2>11. QED
    BY <2>4, <2>9, <2>10 DEF ScanInv
<1>5. CASE AnswersLookup
  <2>1. pc["poll"] \in {"select", "new", "known"} /\ pc'["main"] = pc["main"]
    <3>1. pc'["poll"] \in {"select", "new", "known"} /\ pc'["main"] = pc["main"]
      BY <1>0, <1>5 DEF AnswersLookup
    <3>2. QED
      BY <1>5, <3>1, AnswersEffect
  <2>2. QED
    BY <1>0, <1>1, <2>1
<1>6. CASE Writes
  <2>h. PICK h : h = Head(sql_queue)
    OBVIOUS
  <2>x. PICK x : x = Key(h.evt)
    OBVIOUS
  <2>1. /\ h \in Waiting /\ Waiting' = Waiting \ {h}
        /\ UNCHANGED <<pc, todo, scan, lost>>
    BY <1>6, <2>h, FirstWriteEffect DEF threadVars, localVars, Writes, countVars
  <2>2. /\ \A s \in Waiting : s.op = "error"
        /\ lost = 0 => \A k \in Keys : IsStale(k) => TimesOutSoon(k) \/ ScanAhead(k)
    BY <1>1, <2>1 DEF ScanInv
  <2>3. /\ \A k \in Keys : k # x => rows'[k] = rows[k]
        /\ h.op \notin {"add", "to_be_submitted"} =>
                \E st \in {"SB", "DN", "ER"} :
                    rows'[x] = Row(rows[x], st, rows[x].submission_attempts,
                                   rows[x].submission_block_nbr)
    BY <1>6, <2>h, <2>x, WriteEffect DEF Writes
  <2>4. rows'[x].fk_status \in {"SB", "DN", "ER"}
    <3>1. PICK st \in {"SB", "DN", "ER"} :
            rows'[x] = Row(rows[x], st, rows[x].submission_attempts, rows[x].submission_block_nbr)
      BY <2>1, <2>2, <2>3
    <3>2. QED
      BY <3>1 DEF Row
  <2>5. ASSUME NEW k \in Keys, IsStale(k)', lost = 0
        PROVE  TimesOutSoon(k)' \/ ScanAhead(k)'
    <3>1. k # x
      BY <2>4, <2>5 DEF IsStale
    <3>2. rows'[k] = rows[k] /\ IsStale(k)
      BY <2>1, <2>3, <2>5, <3>1 DEF IsStale
    <3>3. CASE TimesOutSoon(k)
      BY <2>x, <2>1, <3>1, <3>3 DEF TimesOutSoon
    <3>4. CASE ScanAhead(k)
      BY <2>1, <3>2, <3>4 DEF ScanAhead
    <3>5. QED
      BY <2>2, <2>5, <3>2, <3>3, <3>4
  <2>6. QED
    BY <2>1, <2>2, <2>5 DEF ScanInv
<1>7. CASE LosesWrite
  <2>1. Waiting' \subseteq Waiting /\ pc' = pc
    BY <1>7, FirstWriteEffect DEF threadVars
  <2>2. lost' # 0
    BY <1>7 DEF LosesWrite, Ownership, TypeOK
  <2>3. QED
    BY <1>1, <2>1, <2>2 DEF ScanInv
<1>8. CASE Crash
  BY <1>0, <1>1, <1>8, CrashEffect
<1>9. CASE Chain
  BY <1>9, <1>k, ChainEffect DEF poolVars, threadVars, localVars, countVars
<1>10. CASE UNCHANGED vars
  BY <1>10, <1>k, StutterEffect DEF threadVars, localVars
<1>11. QED
  BY <1>2, <1>3, <1>4, <1>5, <1>6, <1>7, <1>8, <1>9, <1>10 DEF Next, Worker

-----------------------------------------------------------------------------
(* The invariant and its consequences.                                      *)

LEMMA InitHistory ==
    ASSUME Init
    PROVE  HistoryInv
<1>1. /\ Waiting = {} /\ block = 1 /\ lastBlock = 0 /\ mostRecent = None
      /\ crashes = 0 /\ lost = 0 /\ unanswered = 0
      /\ \A k \in Keys : sent[k] = 0
      /\ \A t \in Threads : pc[t] = "off" /\ now[t] = None
  BY DEF Init, PoolInit, NodeOff, Waiting, Queued
<1>2. \A k \in Keys : rows[k].fk_status = "NA" /\ rows[k].submission_attempts = 0
  BY DEF Init, PoolInit, NoRow
<1>3. {"main", "poll", "monitor"} \subseteq Threads
  BY DEF Threads
<1>4. SentInv
  BY <1>1, <1>2 DEF SentInv, Unsent
<1>5. AssignedInv
  BY <1>1, <1>2, <1>3 DEF AssignedInv
<1>6. ReportedInv
  BY <1>1, <1>2, <1>3 DEF ReportedInv
<1>7. ScanInv
  BY <1>1, <1>3 DEF ScanInv
<1>8. QED
  BY <1>4, <1>5, <1>6, <1>7 DEF HistoryInv

LEMMA NextHistory ==
    ASSUME Ownership, HistoryInv, [Next]_vars
    PROVE  HistoryInv'
  BY SentNext, AssignedNext, ReportedNext, ScanNext DEF HistoryInv

(* The state of the node tells the truth about its past: each transaction   *)
(* sent (SubmitReportThread) is accounted for, what is saved and what is    *)
(* being looked up (PollRequestsThread) is assigned, what was seen reported *)
(* (MonitorSubmissionThread) is reported, and the scan at start             *)
(* (QSPAuditNode.__timeout_stale_requests) misses no row.                   *)
THEOREM HistoryHolds == Spec => []HistoryInv
<1>1. Init => HistoryInv
  BY InitHistory
<1>2. Ownership /\ HistoryInv /\ [Next]_vars => HistoryInv'
  BY NextHistory
<1>3. QED
  BY <1>1, <1>2, OwnershipHolds, PTL DEF Spec

(* No event is sent more often than its attempts, but for one time for each *)
(* crash, each update that the database lost, and each answer that did not  *)
(* arrive.                                                                  *)
THEOREM SubmissionsStayBounded == Spec => []SubmissionsBounded
<1>1. ASSUME Ownership, HistoryInv, NEW k \in Keys
      PROVE  sent[k] <= rows[k].submission_attempts + crashes + lost + unanswered
  <2>1. /\ sent[k] \in Nat /\ crashes \in Nat /\ lost \in Nat /\ unanswered \in Nat
        /\ rows[k].submission_attempts \in Nat
    BY <1>1 DEF Ownership, TypeOK, Event
  <2>2. sent[k] + (IF Unsent(k) THEN 1 ELSE 0)
            <= rows[k].submission_attempts + crashes + lost + unanswered
    BY <1>1 DEF HistoryInv, SentInv
  <2>3. QED
    BY <2>1, <2>2
<1>2. Ownership /\ HistoryInv => SubmissionsBounded
  BY <1>1 DEF SubmissionsBounded
<1>3. QED
  BY <1>2, OwnershipHolds, HistoryHolds, PTL

(* A row that __add_evt_to_db saved is the row of an assignment that the    *)
(* contract has and keeps, although unconfirmed blocks may be replaced.     *)
THEOREM SavedStaysAssigned == Spec => []SavedIsAssigned
<1>1. Ownership /\ HistoryInv => SavedIsAssigned
  BY DEF Ownership, RowsInv, HistoryInv, AssignedInv, Settled, SavedIsAssigned
<1>2. QED
  BY <1>1, OwnershipHolds, HistoryHolds, PTL

(* set_evt_status_to_done is executed some time after isAuditFinished was   *)
(* read, and the report is still there.                                     *)
THEOREM DoneStaysReported == Spec => []DoneMeansReported
<1>1. Ownership /\ HistoryInv => DoneMeansReported
  BY DEF HistoryInv, ReportedInv, IsReported, DoneMeansReported, Keys, Types
<1>2. QED
  BY <1>1, OwnershipHolds, HistoryHolds, PTL

(* When the threads start, __timeout_stale_requests has put an update for   *)
(* every row that is too old.                                               *)
THEOREM StaleIsAlwaysDiscarded == Spec => StaleIsDiscarded
<1>1. ASSUME Ownership, HistoryInv, StartsThreads, lost = 0, NEW k \in Keys,
             rows[k].fk_status \in {"AS", "TS"}, rows[k].assigned_block_nbr <= scan.firstValid
      PROVE  \E i \in Queued : sql_queue[i].op = "error" /\ Key(sql_queue[i].evt) = k
  <2>1. pc["main"] = "loop" /\ todo["main"] = {} /\ scan.status = "TS"
    BY <1>1 DEF StartsThreads
  <2>2. ~ScanAhead(k)
    BY <2>1 DEF ScanAhead
  <2>3. TimesOutSoon(k)
    BY <1>1, <2>1, <2>2 DEF HistoryInv, ScanInv, IsStale
  <2>4. QED
    BY <2>3 DEF TimesOutSoon, Waiting
<1>2. Ownership /\ HistoryInv =>
        [StartsThreads /\ lost = 0 =>
            \A k \in Keys :
                /\ rows[k].fk_status \in {"AS", "TS"}
                /\ rows[k].assigned_block_nbr <= scan.firstValid
                => \E i \in Queued : /\ sql_queue[i].op = "error"
                                     /\ Key(sql_queue[i].evt) = k]_vars
  BY <1>1
<1>3. QED
  BY <1>2, OwnershipHolds, HistoryHolds, PTL DEF StaleIsDiscarded
=============================================================================

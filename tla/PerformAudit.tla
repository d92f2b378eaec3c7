---------------------------- MODULE PerformAudit ----------------------------
(***************************************************************************)
(* One audit after the other: each analyzer runs in a thread of its own,   *)
(* and the audit thread joins them in turn, none for longer than the       *)
(* analyzer's timeout.  A thread that is late goes on beside the audit,    *)
(* and beside the next ones, with the lists of the audit it was run for.   *)
(***************************************************************************)
EXTENDS Naturals

CONSTANTS
    Requests,      \* assigned requests
    None,          \* no request
    NumAnalyzers,  \* number_of_analyzers
    Outputs,       \* what the analyzers may come to
    MaxFailures    \* bound: crashes, and what raises an exception

ASSUME AuditAssumption ==
    /\ None \notin Requests
    /\ NumAnalyzers \in Nat
    /\ Outputs \subseteq {"success", "error", "nostatus", "unusable", "expired"}

Analyzers == 1 .. NumAnalyzers

VARIABLES
    status,     \* request -> AS, TS or ER, in the database
    verdict,    \* request -> evt['audit_state'], saved with it
    pc,         \* where the audit thread is
    request,    \* that it audits, or None
    i,          \* the analyzer that is joined
    local,      \* analyzer -> status in local_reports
    audit_state,
    thread,     \* analyzer -> where its thread of this audit is
    result,     \* history: analyzer -> what check() came to in this audit
    shared,     \* analyzer -> status in shared_reports
    timed_out,  \* analyzer -> timed_out_flags
    late,       \* analyzer -> threads of earlier audits that go on
    failures

eventVars  == <<status, verdict, request>>
threadVars == <<thread, result, shared>>
vars       == <<eventVars, pc, i, local, audit_state, threadVars, timed_out, late, failures>>

All(value) == [a \in Analyzers |-> value]

Init ==
    /\ status = [r \in Requests |-> "AS"]
    /\ verdict = [r \in Requests |-> "none"]
    /\ pc = "idle"
    /\ request = None
    /\ i = 1 /\ local = All("empty") /\ audit_state = "none"
    /\ thread = All("none") /\ result = All("none")
    /\ shared = All("empty") /\ timed_out = All(FALSE)
    /\ late = All(0)
    /\ failures = 0

Fails == failures < MaxFailures /\ failures' = failures + 1

-----------------------------------------------------------------------------
(* check_contract, in the thread of an analyzer.                            *)

(* An exception leaves a report with status error, a timeout too.           *)
ReportOf(out) == IF out = "expired" THEN "error" ELSE out

(* A wrong variant: an expired analyzer is one that failed. *)
ThreadWrites_NoFlag(a) ==
    /\ thread[a] = "running"
    /\ thread' = [thread EXCEPT ![a] = "written"]
    /\ \E out \in Outputs :
         /\ result' = [result EXCEPT ![a] = out]
         /\ shared' = [shared EXCEPT ![a] = ReportOf(out)]
         /\ UNCHANGED timed_out
    /\ UNCHANGED <<eventVars, pc, i, local, audit_state, late, failures>>

(* check() returns, or raises: its report has a status or none, is no       *)
(* object at all, or there is none since the subprocess expired.  Report    *)
(* and flag are written under the lock of the analyzer.                     *)
ThreadWrites(a) ==
    /\ thread[a] = "running"
    /\ thread' = [thread EXCEPT ![a] = "written"]
    /\ \E out \in Outputs :
         /\ result' = [result EXCEPT ![a] = out]
         /\ shared' = [shared EXCEPT ![a] = ReportOf(out)]
         /\ timed_out' = [timed_out EXCEPT ![a] = (out = "expired")]
    /\ UNCHANGED <<eventVars, pc, i, local, audit_state, late, failures>>

ThreadExits(a) ==
    /\ thread[a] = "written"
    /\ thread' = [thread EXCEPT ![a] = "dead"]
    /\ UNCHANGED <<eventVars, pc, i, local, audit_state, result, shared, timed_out, late, failures>>

IsAlive(a) == thread[a] # "dead"

(* A wrong variant: the lists belong to the node, and not to one audit. *)
LateWrites_Anywhere(a) ==
    /\ late[a] > 0
    /\ late' = [late EXCEPT ![a] = @ - 1]
    /\ \E out \in Outputs :
         /\ shared' = [shared EXCEPT ![a] = ReportOf(out)]
         /\ timed_out' = [timed_out EXCEPT ![a] = (out = "expired")]
    /\ UNCHANGED <<eventVars, pc, i, local, audit_state, thread, result, failures>>

(* It writes to the lists of an audit that is over, and exits.              *)
LateWrites(a) ==
    /\ late[a] > 0
    /\ late' = [late EXCEPT ![a] = @ - 1]
    /\ UNCHANGED <<eventVars, pc, i, local, audit_state, threadVars, timed_out, failures>>

-----------------------------------------------------------------------------
(* The audit thread.                                                        *)

(* The next audit has lists of its own.                                     *)
NewLists ==
    /\ i' = 1 /\ local' = All("empty") /\ audit_state' = "none"
    /\ thread' = All("none") /\ result' = All("none")
    /\ shared' = All("empty") /\ timed_out' = All(FALSE)

(* The audit is over; its request is saved.                                 *)
Leaves(st, vd) ==
    /\ pc' = "idle"
    /\ request' = None
    /\ status' = [status EXCEPT ![request] = st]
    /\ verdict' = [verdict EXCEPT ![request] = vd]
    /\ late' = [a \in Analyzers |-> IF thread[a] = "running" THEN late[a] + 1 ELSE late[a]]
    /\ NewLists

(* __process_audit_request, of one of the assigned events.                  *)
Begins(r) ==
    /\ pc = "idle"
    /\ status[r] = "AS"
    /\ request' = r
    /\ pc' = "fetch"
    /\ UNCHANGED <<status, verdict, i, local, audit_state, threadVars, timed_out, late, failures>>

FetchFails ==
    /\ pc = "fetch"
    /\ Fails
    /\ Leaves("ER", "none")

(* It does not compile: __create_err_result.                                *)
CompileFails ==
    /\ pc = "fetch"
    /\ pc' = "publish"
    /\ audit_state' = "error"
    /\ UNCHANGED <<eventVars, i, local, threadVars, timed_out, late, failures>>

StartsAnalyzers ==
    /\ pc = "fetch"
    /\ pc' = IF NumAnalyzers = 0 THEN "report" ELSE "join"
    /\ thread' = All("running")
    /\ UNCHANGED <<eventVars, i, local, audit_state, result, shared, timed_out, late, failures>>

(* A wrong variant: join has no timeout. *)
Joins_Forever ==
    /\ pc = "join"
    /\ ~IsAlive(i)
    /\ pc' = "label"
    /\ local' = [local EXCEPT ![i] = shared[i]]
    /\ UNCHANGED <<eventVars, i, audit_state, threadVars, timed_out, late, failures>>

(* join returns, as the thread is dead or the timeout is over; under the    *)
(* lock, the report is copied, and the thread flagged if it is alive.       *)
Joins ==
    /\ pc = "join"
    /\ pc' = "label"
    /\ local' = [local EXCEPT ![i] = shared[i]]
    /\ timed_out' = [timed_out EXCEPT ![i] = @ \/ IsAlive(i)]
    /\ UNCHANGED <<eventVars, i, audit_state, threadVars, late, failures>>

(* get_metadata takes its time, and without the lock the flag is read.      *)
Labels ==
    /\ pc = "label"
    /\ local[i] # "unusable"
    /\ local' = IF timed_out[i] THEN [local EXCEPT ![i] = "timeout"] ELSE local
    /\ IF i = NumAnalyzers
       THEN pc' = "report" /\ UNCHANGED i
       ELSE pc' = "join" /\ i' = i + 1
    /\ UNCHANGED <<eventVars, audit_state, threadVars, timed_out, late, failures>>

(* The metadata cannot be added to a report that is no object.              *)
LabelFails ==
    /\ pc = "label"
    /\ local[i] = "unusable"
    /\ Leaves("ER", "none")
    /\ UNCHANGED failures

(* A wrong variant: errors of analyzers are overlooked. *)
ComputeAuditResult_AnySuccess ==
    IF \E a \in Analyzers : local[a] = "success" THEN "success" ELSE "error"

(* A wrong variant: a timeout is an error, too. *)
ComputeAuditResult_NoTimeout ==
    IF NumAnalyzers > 0 /\ \A a \in Analyzers : local[a] = "success" THEN "success" ELSE "error"

(* A wrong variant: an audit in which all timed out is one that timed out. *)
ComputeAuditResult_TimedOut ==
    IF \A a \in Analyzers : local[a] = "timeout" THEN "timeout"
    ELSE IF \A a \in Analyzers : local[a] \in {"success", "timeout"} THEN "success" ELSE "error"

(* __compute_audit_result; a report without a status is one with an error.  *)
ComputeAuditResult ==
    IF /\ \A a \in Analyzers : local[a] \in {"success", "timeout"}
       /\ \E a \in Analyzers : local[a] = "success"
    THEN "success" ELSE "error"

Reports ==
    /\ pc = "report"
    /\ pc' = "publish"
    /\ audit_state' = ComputeAuditResult
    /\ UNCHANGED <<eventVars, i, local, threadVars, timed_out, late, failures>>

(* Valid, compressed and uploaded; the contract's upload may fail.          *)
Publishes ==
    /\ pc = "publish"
    /\ Leaves("TS", audit_state)
    /\ UNCHANGED failures

(* One of these raises an exception, or the upload of the report fails.     *)
PublishFails ==
    /\ pc = "publish"
    /\ Fails
    /\ Leaves("ER", "none")

(* A KeyError is logged, and the request stays assigned.                    *)
KeyError ==
    /\ pc = "publish"
    /\ Fails
    /\ Leaves("AS", "none")

(* The process is gone, with all its threads, and the next one starts.      *)
Crash ==
    /\ Fails
    /\ pc' = "idle"
    /\ request' = None
    /\ late' = All(0)
    /\ NewLists
    /\ UNCHANGED <<status, verdict>>

-----------------------------------------------------------------------------
AuditThread ==
    \/ \E r \in Requests : Begins(r)
    \/ CompileFails \/ StartsAnalyzers
    \/ Joins \/ Labels \/ LabelFails \/ Reports \/ Publishes

AnalyzerThreads == \E a \in Analyzers : ThreadWrites(a) \/ ThreadExits(a) \/ LateWrites(a)

Next ==
    \/ AuditThread \/ AnalyzerThreads
    \/ FetchFails \/ PublishFails \/ KeyError \/ Crash

Spec == Init /\ [][Next]_vars

(* Only the audit thread has to go on: any analyzer may hang for ever.      *)
FairSpec == Spec /\ WF_vars(AuditThread)

-----------------------------------------------------------------------------
Reported == {"empty", "success", "error", "nostatus", "unusable"}

(* Types of the variables of the audit and its analyzers.                   *)
TypeOK ==
    /\ status \in [Requests -> {"AS", "TS", "ER"}]
    /\ verdict \in [Requests -> {"none", "success", "error"}]
    /\ pc \in {"idle", "fetch", "join", "label", "report", "publish"}
    /\ request \in Requests \cup {None}
    /\ i \in Nat
    /\ local \in [Analyzers -> Reported \cup {"timeout"}]
    /\ audit_state \in {"none", "success", "error"}
    /\ thread \in [Analyzers -> {"none", "running", "written", "dead"}]
    /\ result \in [Analyzers -> Outputs \cup {"none"}]
    /\ shared \in [Analyzers -> Reported]
    /\ timed_out \in [Analyzers -> BOOLEAN]
    /\ late \in [Analyzers -> Nat]
    /\ failures \in Nat

(* The analyzers whose reports are in, with their label.                    *)
Labelled ==
    IF pc \in {"report", "publish"}
    THEN {a \in Analyzers : thread[a] # "none"}
    ELSE {a \in Analyzers : a < i}

(* A late thread of this audit took back the flag that the audit had set:   *)
(* the report was copied before there was one, and has no status.           *)
TookBack(a) == thread[a] # "running" /\ local[a] = "empty"

(* An analyzer is reported as having timed out, or with what its own thread *)
(* of this very audit returned, however late the threads of this audit and  *)
(* of earlier ones are; or its report was lost, as above.                   *)
ReportsAreOwn ==
    \A a \in Labelled : local[a] \in {"timeout", result[a]} \/ TookBack(a)

(* An analyzer whose subprocess expires is never reported as one with an    *)
(* error, whether the join or the subprocess is the first to give up.       *)
ExpiredIsTimeout ==
    \A a \in Labelled : result[a] \in {"none", "expired"} => local[a] = "timeout"

(* A successful audit has an analyzer that succeeded, and none whose error  *)
(* came before the audit timed out on it.                                   *)
SuccessIsEarned ==
    pc = "publish" /\ audit_state = "success" =>
        /\ \E a \in Analyzers : result[a] = "success"
        /\ \A a \in Analyzers : result[a] \in {"error", "nostatus"} => local[a] = "timeout"

(* With analyzers that were run, an audit fails only if none succeeded in   *)
(* time, or one did return an error: that others time out is no reason,     *)
(* unless one of those takes back its flag.                                 *)
TimeoutsAreTolerated ==
    pc = "publish" /\ audit_state = "error" /\ Labelled # {} =>
        \/ \A a \in Analyzers : result[a] = "success" => local[a] = "timeout"
        \/ \E a \in Analyzers : result[a] \in {"error", "nostatus"} \/ TookBack(a)

(* The inductive invariant behind the theorems.                             *)

Started == \A a \in Analyzers : thread[a] # "none"

PhaseInv ==
    /\ request = None <=> pc = "idle"
    /\ pc \in {"idle", "fetch"} =>
         /\ i = 1 /\ local = All("empty") /\ audit_state = "none"
         /\ thread = All("none") /\ result = All("none")
         /\ shared = All("empty") /\ timed_out = All(FALSE)
    /\ pc \in {"join", "label"} => i \in Analyzers /\ Started
    /\ pc = "report" => Started
    /\ pc = "publish" => \/ Started /\ audit_state = ComputeAuditResult
                         \/ thread = All("none") /\ audit_state = "error"

(* What a thread wrote goes with its result.                                *)
ThreadInv ==
    \A a \in Analyzers :
        /\ thread[a] \in {"none", "running"} <=> result[a] = "none"
        /\ shared[a] = IF result[a] = "none" THEN "empty" ELSE ReportOf(result[a])
        /\ result[a] = "expired" => timed_out[a]

(* What was copied was there, and flagged if it was not.                    *)
CopyInv ==
    pc = "label" => /\ local[i] \in {"empty", shared[i]}
                    /\ result[i] = "none" => timed_out[i]

LabelInv ==
    \A a \in Labelled :
        \/ local[a] = "timeout"
        \/ /\ result[a] \notin {"none", "expired"}
           /\ local[a] \in {"empty", result[a]} \ {"unusable"}

AuditInv == TypeOK /\ PhaseInv /\ ThreadInv /\ CopyInv /\ LabelInv

(* Every assigned request is audited and gets its report or its error, even *)
(* if every analyzer hangs.                                                 *)
AuditsEnd == \A r \in Requests : status[r] = "AS" ~> status[r] # "AS"
=============================================================================

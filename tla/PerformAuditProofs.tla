------------------------- MODULE PerformAuditProofs -------------------------
(***************************************************************************)
(* Proofs about PerformAudit, for any requests and number of analyzers,    *)
(* however late their threads are.                                         *)
(***************************************************************************)
EXTENDS PerformAudit, TLAPS

LEMMA AllIs ==
    ASSUME NEW value
    PROVE  /\ \A a \in Analyzers : All(value)[a] = value
           /\ \A S : value \in S => All(value) \in [Analyzers -> S]
  BY DEF All

LEMMA InitHolds == Init => AuditInv
  <1> SUFFICES ASSUME Init PROVE AuditInv
    OBVIOUS
  <1>1. TypeOK
    <2>1. All("empty") \in [Analyzers -> Reported] /\ All("none") \in [Analyzers -> Outputs \cup {"none"}]
      BY AllIs DEF Reported
    <2>2. /\ All("empty") \in [Analyzers -> Reported \cup {"timeout"}]
          /\ All("none") \in [Analyzers -> {"none", "running", "written", "dead"}]
          /\ All(FALSE) \in [Analyzers -> BOOLEAN]
          /\ All(0) \in [Analyzers -> Nat]
      BY AllIs DEF Reported
    <2> QED
      BY <2>1, <2>2 DEF Init, TypeOK
  <1>2. PhaseInv /\ CopyInv
    BY DEF Init, PhaseInv, CopyInv
  <1>3. ThreadInv
    BY DEF Init, ThreadInv, All
  <1>4. LabelInv
    BY AuditAssumption DEF Init, LabelInv, Labelled, Analyzers
  <1> QED
    BY <1>1, <1>2, <1>3, <1>4 DEF AuditInv

(* Whenever the lists are new, and no audit is under way.                   *)
LEMMA AuditIsOver ==
    ASSUME AuditInv, NewLists, pc' = "idle", request' = None,
           status' \in [Requests -> {"AS", "TS", "ER"}],
           verdict' \in [Requests -> {"none", "success", "error"}],
           late' \in [Analyzers -> Nat], failures' \in Nat
    PROVE  AuditInv'
  <1>0. /\ i' = 1 /\ local' = All("empty") /\ audit_state' = "none"
        /\ thread' = All("none") /\ result' = All("none")
        /\ shared' = All("empty") /\ timed_out' = All(FALSE)
    BY DEF NewLists
  <1>1. TypeOK'
    <2>1. All("empty") \in [Analyzers -> Reported] /\ All("none") \in [Analyzers -> Outputs \cup {"none"}]
      BY AllIs DEF Reported
    <2>2. /\ All("empty") \in [Analyzers -> Reported \cup {"timeout"}]
          /\ All("none") \in [Analyzers -> {"none", "running", "written", "dead"}]
          /\ All(FALSE) \in [Analyzers -> BOOLEAN]
      BY AllIs DEF Reported
    <2> QED
      BY <1>0, <2>1, <2>2 DEF TypeOK
  <1>2. PhaseInv' /\ CopyInv'
    BY <1>0 DEF PhaseInv, CopyInv
  <1>3. ThreadInv'
    BY <1>0 DEF ThreadInv, All
  <1>4. LabelInv'
    BY <1>0, AuditAssumption DEF LabelInv, Labelled, Analyzers
  <1> QED
    BY <1>1, <1>2, <1>3, <1>4 DEF AuditInv

LEMMA LeaveStep ==
    ASSUME AuditInv, pc # "idle", failures' \in Nat,
           NEW st \in {"AS", "TS", "ER"}, NEW vd \in {"none", "success", "error"}, Leaves(st, vd)
    PROVE  AuditInv'
  <1>1. request \in Requests
    BY DEF AuditInv, PhaseInv, TypeOK
  <1>2. /\ status' \in [Requests -> {"AS", "TS", "ER"}]
        /\ verdict' \in [Requests -> {"none", "success", "error"}]
        /\ late' \in [Analyzers -> Nat]
    BY <1>1 DEF Leaves, AuditInv, TypeOK
  <1> QED
    BY <1>2, AuditIsOver DEF Leaves

(* A thread of the audit.  What it has the audit read later is its own.     *)
LEMMA WriteStep ==
    ASSUME AuditInv, NEW a \in Analyzers, ThreadWrites(a)
    PROVE  AuditInv'
  <1>1. PICK out \in Outputs :
          /\ result' = [result EXCEPT ![a] = out]
          /\ shared' = [shared EXCEPT ![a] = ReportOf(out)]
          /\ timed_out' = [timed_out EXCEPT ![a] = (out = "expired")]
    BY DEF ThreadWrites
  <1>2. /\ thread[a] = "running"
        /\ thread' = [thread EXCEPT ![a] = "written"]
        /\ UNCHANGED <<status, verdict, request, pc, i, local, audit_state, late, failures>>
    BY DEF ThreadWrites, eventVars
  <1>t. TypeOK /\ PhaseInv /\ ThreadInv /\ CopyInv /\ LabelInv
    BY DEF AuditInv
  <1>o. out \in {"success", "error", "nostatus", "unusable", "expired"}
    BY AuditAssumption
  <1>r. result[a] = "none" /\ shared[a] = "empty"
    BY <1>2, <1>t DEF ThreadInv
  <1>p. /\ thread'[a] = "written" /\ result'[a] = out
        /\ shared'[a] = ReportOf(out) /\ timed_out'[a] = (out = "expired")
        /\ \A b \in Analyzers \ {a} :
             /\ thread'[b] = thread[b] /\ result'[b] = result[b]
             /\ shared'[b] = shared[b] /\ timed_out'[b] = timed_out[b]
    BY <1>1, <1>2, <1>t DEF TypeOK
  <1>3. TypeOK'
    <2>1. ReportOf(out) \in Reported /\ (out = "expired") \in BOOLEAN
      BY <1>o DEF ReportOf, Reported
    <2> QED
      BY <1>1, <1>2, <1>t, <2>1 DEF TypeOK
  <1>4. PhaseInv'
    <2>1. pc \notin {"idle", "fetch"} /\ thread # All("none")
      BY <1>2, <1>t, AllIs DEF PhaseInv
    <2>2. Started => Started'
      BY <1>p DEF Started
    <2>3. ComputeAuditResult' = ComputeAuditResult
      BY <1>2 DEF ComputeAuditResult
    <2> QED
      BY <1>2, <1>t, <2>1, <2>2, <2>3 DEF PhaseInv
  <1>5. ThreadInv'
    <2> SUFFICES ASSUME NEW b \in Analyzers
                 PROVE  /\ thread'[b] \in {"none", "running"} <=> result'[b] = "none"
                        /\ shared'[b] = IF result'[b] = "none" THEN "empty" ELSE ReportOf(result'[b])
                        /\ result'[b] = "expired" => timed_out'[b]
      BY DEF ThreadInv
    <2>1. CASE b = a
      BY <2>1, <1>p, <1>o
    <2>2. CASE b # a
      BY <2>2, <1>p, <1>t DEF ThreadInv
    <2> QED
      BY <2>1, <2>2
  <1>6. CopyInv'
    <2> SUFFICES ASSUME pc = "label"
                 PROVE  local[i] \in {"empty", shared'[i]} /\ (result'[i] = "none" => timed_out'[i])
      BY <1>2 DEF CopyInv
    <2>1. i \in Analyzers
      BY <1>t DEF PhaseInv
    <2>2. CASE i = a
      BY <2>2, <1>p, <1>o, <1>r, <1>t DEF CopyInv
    <2>3. CASE i # a
      BY <2>1, <2>3, <1>p, <1>t DEF CopyInv
    <2> QED
      BY <2>2, <2>3
  <1>7. LabelInv'
    <2>1. Labelled' = Labelled
      <3>1. \A b \in Analyzers : thread'[b] # "none" <=> thread[b] # "none"
        BY <1>2, <1>p
      <3> QED
        BY <1>2, <3>1 DEF Labelled
    <2>2. ASSUME NEW b \in Labelled
          PROVE  \/ local'[b] = "timeout"
                 \/ /\ result'[b] \notin {"none", "expired"}
                    /\ local'[b] \in {"empty", result'[b]} \ {"unusable"}
      <3>1. b \in Analyzers
        BY DEF Labelled
      <3>2. CASE b = a
        BY <3>2, <1>r, <1>2, <1>t DEF LabelInv
      <3>3. CASE b # a
        BY <3>1, <3>3, <1>p, <1>2, <1>t DEF LabelInv
      <3> QED
        BY <3>2, <3>3
    <2> QED
      BY <2>1, <2>2 DEF LabelInv
  <1> QED
    BY <1>3, <1>4, <1>5, <1>6, <1>7 DEF AuditInv

LEMMA ExitStep ==
    ASSUME AuditInv, NEW a \in Analyzers, ThreadExits(a)
    PROVE  AuditInv'
  <1>0. /\ thread[a] = "written" /\ thread' = [thread EXCEPT ![a] = "dead"]
        /\ UNCHANGED <<status, verdict, request, pc, i, local, audit_state, result, shared,
                       timed_out, late, failures>>
    BY DEF ThreadExits, eventVars
  <1>t. TypeOK /\ PhaseInv /\ ThreadInv /\ CopyInv /\ LabelInv
    BY DEF AuditInv
  <1>p. /\ thread'[a] = "dead"
        /\ \A b \in Analyzers \ {a} : thread'[b] = thread[b]
    BY <1>0, <1>t DEF TypeOK
  <1>1. TypeOK'
    BY <1>0, <1>t DEF TypeOK
  <1>2. PhaseInv'
    <2>1. pc \notin {"idle", "fetch"} /\ thread # All("none")
      BY <1>0, <1>t, AllIs DEF PhaseInv
    <2>2. Started => Started'
      BY <1>p DEF Started
    <2>3. ComputeAuditResult' = ComputeAuditResult
      BY <1>0 DEF ComputeAuditResult
    <2> QED
      BY <1>0, <1>t, <2>1, <2>2, <2>3 DEF PhaseInv
  <1>3. ThreadInv'
    BY <1>0, <1>p, <1>t DEF ThreadInv
  <1>4. CopyInv'
    BY <1>0, <1>t DEF CopyInv
  <1>5. LabelInv'
    <2>1. Labelled' = Labelled
      BY <1>0, <1>p DEF Labelled
    <2> QED
      BY <1>0, <2>1, <1>t DEF LabelInv
  <1> QED
    BY <1>1, <1>2, <1>3, <1>4, <1>5 DEF AuditInv

LEMMA LateStep ==
    ASSUME AuditInv, NEW a \in Analyzers, LateWrites(a)
    PROVE  AuditInv'
  <1>0. /\ late[a] > 0 /\ late' = [late EXCEPT ![a] = @ - 1]
        /\ UNCHANGED <<status, verdict, request, pc, i, local, audit_state, thread, result, shared,
                       timed_out, failures>>
    BY DEF LateWrites, eventVars, threadVars
  <1>1. TypeOK'
    BY <1>0 DEF AuditInv, TypeOK
  <1>2. PhaseInv'
    BY <1>0 DEF AuditInv, PhaseInv, Started, ComputeAuditResult
  <1>3. ThreadInv' /\ CopyInv' /\ LabelInv'
    BY <1>0 DEF AuditInv, ThreadInv, CopyInv, LabelInv, Labelled
  <1> QED
    BY <1>1, <1>2, <1>3 DEF AuditInv

-----------------------------------------------------------------------------
(* The audit thread.                                                        *)

LEMMA BeginStep ==
    ASSUME AuditInv, NEW r \in Requests, Begins(r)
    PROVE  AuditInv'
  <1>0. /\ pc = "idle" /\ pc' = "fetch" /\ request' = r
        /\ UNCHANGED <<status, verdict, i, local, audit_state, thread, result, shared,
                       timed_out, late, failures>>
    BY DEF Begins, threadVars
  <1>1. TypeOK'
    BY <1>0 DEF AuditInv, TypeOK
  <1>2. PhaseInv' /\ CopyInv'
    BY <1>0, AuditAssumption DEF AuditInv, PhaseInv, CopyInv
  <1>3. ThreadInv' /\ LabelInv'
    BY <1>0 DEF AuditInv, ThreadInv, LabelInv, Labelled
  <1> QED
    BY <1>1, <1>2, <1>3 DEF AuditInv

LEMMA CompileStep ==
    ASSUME AuditInv, CompileFails
    PROVE  AuditInv'
  <1>0. /\ pc = "fetch" /\ pc' = "publish" /\ audit_state' = "error"
        /\ UNCHANGED <<status, verdict, request, i, local, thread, result, shared,
                       timed_out, late, failures>>
    BY DEF CompileFails, threadVars, eventVars
  <1>1. TypeOK'
    BY <1>0 DEF AuditInv, TypeOK
  <1>2. PhaseInv' /\ CopyInv' /\ ThreadInv'
    BY <1>0 DEF AuditInv, PhaseInv, CopyInv, ThreadInv
  <1>3. LabelInv'
    <2>1. Labelled' = {}
      BY <1>0, AllIs DEF AuditInv, PhaseInv, Labelled
    <2> QED
      BY <2>1 DEF LabelInv
  <1> QED
    BY <1>1, <1>2, <1>3 DEF AuditInv

LEMMA StartStep ==
    ASSUME AuditInv, StartsAnalyzers
    PROVE  AuditInv'
  <1>0. /\ pc = "fetch" /\ pc' = IF NumAnalyzers = 0 THEN "report" ELSE "join"
        /\ thread' = All("running")
        /\ UNCHANGED <<status, verdict, request, i, local, audit_state, result, shared,
                       timed_out, late, failures>>
    BY DEF StartsAnalyzers, eventVars
  <1>p. /\ i = 1 /\ result = All("none") /\ shared = All("empty")
        /\ request # None
    BY <1>0 DEF AuditInv, PhaseInv
  <1>1. TypeOK'
    BY <1>0, AllIs DEF AuditInv, TypeOK
  <1>2. PhaseInv'
    <2>1. Started'
      BY <1>0, AllIs DEF Started
    <2>2. NumAnalyzers # 0 => 1 \in Analyzers
      BY AuditAssumption DEF Analyzers
    <2> QED
      BY <1>0, <1>p, <2>1, <2>2 DEF PhaseInv
  <1>3. ThreadInv' /\ CopyInv'
    BY <1>0, <1>p, AllIs DEF ThreadInv, CopyInv
  <1>4. LabelInv'
    <2>1. Labelled' = {}
      BY <1>0, <1>p, AuditAssumption DEF Labelled, Analyzers
    <2> QED
      BY <2>1 DEF LabelInv
  <1> QED
    BY <1>1, <1>2, <1>3, <1>4 DEF AuditInv

LEMMA JoinStep ==
    ASSUME AuditInv, Joins
    PROVE  AuditInv'
  <1>0. /\ pc = "join" /\ pc' = "label"
        /\ local' = [local EXCEPT ![i] = shared[i]]
        /\ timed_out' = [timed_out EXCEPT ![i] = @ \/ IsAlive(i)]
        /\ UNCHANGED <<status, verdict, request, i, audit_state, thread, result, shared,
                       late, failures>>
    BY DEF Joins, eventVars, threadVars
  <1>t. TypeOK /\ PhaseInv /\ ThreadInv /\ LabelInv
    BY DEF AuditInv
  <1>i. i \in Analyzers /\ i \in Nat
    BY <1>0, <1>t DEF PhaseInv, TypeOK
  <1>p. /\ local'[i] = shared[i]
        /\ timed_out'[i] = (timed_out[i] \/ IsAlive(i))
        /\ \A b \in Analyzers \ {i} : local'[b] = local[b] /\ timed_out'[b] = timed_out[b]
    BY <1>0, <1>i, <1>t DEF TypeOK
  <1>1. TypeOK'
    <2>1. shared[i] \in Reported /\ (timed_out[i] \/ IsAlive(i)) \in BOOLEAN
      BY <1>i, <1>t DEF TypeOK
    <2> QED
      BY <1>0, <2>1, <1>t DEF TypeOK
  <1>2. PhaseInv'
    BY <1>0, <1>t DEF PhaseInv, Started
  <1>3. ThreadInv'
    BY <1>0, <1>p, <1>t DEF ThreadInv
  <1>4. CopyInv'
    <2>1. result[i] = "none" => IsAlive(i)
      BY <1>i, <1>t DEF ThreadInv, IsAlive
    <2> QED
      BY <1>0, <1>p, <2>1 DEF CopyInv
  <1>5. LabelInv'
    <2>1. Labelled' = Labelled /\ \A b \in Labelled : b \in Analyzers \ {i}
      BY <1>0, <1>i DEF Labelled, Analyzers
    <2> QED
      BY <1>0, <1>p, <2>1, <1>t DEF LabelInv
  <1> QED
    BY <1>1, <1>2, <1>3, <1>4, <1>5 DEF AuditInv

LEMMA LabelStep ==
    ASSUME AuditInv, Labels
    PROVE  AuditInv'
  <1>0. /\ pc = "label" /\ local[i] # "unusable"
        /\ local' = IF timed_out[i] THEN [local EXCEPT ![i] = "timeout"] ELSE local
        /\ \/ i = NumAnalyzers /\ pc' = "report" /\ i' = i
           \/ i # NumAnalyzers /\ pc' = "join" /\ i' = i + 1
        /\ UNCHANGED <<status, verdict, request, audit_state, thread, result, shared,
                       timed_out, late, failures>>
    BY DEF Labels, eventVars, threadVars
  <1>t. TypeOK /\ PhaseInv /\ ThreadInv /\ CopyInv /\ LabelInv
    BY DEF AuditInv
  <1>i. i \in Analyzers /\ i \in Nat /\ NumAnalyzers \in Nat /\ i <= NumAnalyzers
    BY <1>0, <1>t, AuditAssumption DEF PhaseInv, TypeOK, Analyzers
  <1>p. /\ local'[i] = IF timed_out[i] THEN "timeout" ELSE local[i]
        /\ \A b \in Analyzers \ {i} : local'[b] = local[b]
    BY <1>0, <1>i, <1>t DEF TypeOK
  <1>1. TypeOK'
    BY <1>0, <1>i, <1>t DEF TypeOK
  <1>2. PhaseInv'
    <2>1. i # NumAnalyzers => i + 1 \in Analyzers
      BY <1>i DEF Analyzers
    <2> QED
      BY <1>0, <1>t, <2>1 DEF PhaseInv, Started
  <1>3. ThreadInv' /\ CopyInv'
    BY <1>0, <1>t DEF ThreadInv, CopyInv
  <1>4. LabelInv'
    <2>1. \A b \in Labelled' : b \in Analyzers /\ (b = i \/ b \in Labelled)
      BY <1>0, <1>i DEF Labelled, Analyzers
    <2>2. CASE timed_out[i]
      BY <1>0, <1>p, <2>1, <2>2, <1>t DEF LabelInv
    <2>3. CASE ~timed_out[i]
      <3>1. /\ result[i] \notin {"none", "expired"}
            /\ local[i] \in {"empty", result[i]} \ {"unusable"}
        BY <1>0, <1>i, <2>3, <1>t DEF CopyInv, ThreadInv, ReportOf
      <3> QED
        BY <1>0, <1>p, <2>1, <2>3, <3>1, <1>t DEF LabelInv
    <2> QED
      BY <2>2, <2>3
  <1> QED
    BY <1>1, <1>2, <1>3, <1>4 DEF AuditInv

LEMMA ReportStep ==
    ASSUME AuditInv, Reports
    PROVE  AuditInv'
  <1>0. /\ pc = "report" /\ pc' = "publish" /\ audit_state' = ComputeAuditResult
        /\ UNCHANGED <<status, verdict, request, i, local, thread, result, shared,
                       timed_out, late, failures>>
    BY DEF Reports, eventVars, threadVars
  <1>1. TypeOK'
    BY <1>0 DEF AuditInv, TypeOK, ComputeAuditResult
  <1>2. PhaseInv'
    BY <1>0 DEF AuditInv, PhaseInv, Started, ComputeAuditResult
  <1>3. ThreadInv' /\ CopyInv' /\ LabelInv'
    BY <1>0 DEF AuditInv, ThreadInv, CopyInv, LabelInv, Labelled
  <1> QED
    BY <1>1, <1>2, <1>3 DEF AuditInv

LEMMA NextStep == AuditInv /\ [Next]_vars => AuditInv'
  <1> SUFFICES ASSUME AuditInv, [Next]_vars PROVE AuditInv'
    OBVIOUS
  <1>f. failures \in Nat /\ audit_state \in {"none", "success", "error"}
    BY DEF AuditInv, TypeOK
  <1>1. CASE AuditThread
    BY <1>1, <1>f, BeginStep, CompileStep, StartStep, JoinStep, LabelStep, ReportStep, LeaveStep
       DEF AuditThread, LabelFails, Publishes
  <1>2. CASE AnalyzerThreads
    BY <1>2, WriteStep, ExitStep, LateStep DEF AnalyzerThreads
  <1>3. CASE FetchFails \/ PublishFails \/ KeyError
    BY <1>3, <1>f, LeaveStep DEF FetchFails, PublishFails, KeyError, Fails
  <1>4. CASE Crash
    <2>1. All(0) \in [Analyzers -> Nat]
      BY AllIs
    <2>2. /\ status' \in [Requests -> {"AS", "TS", "ER"}]
          /\ verdict' \in [Requests -> {"none", "success", "error"}]
      BY <1>4 DEF Crash, AuditInv, TypeOK
    <2> QED
      BY <1>4, <1>f, <2>1, <2>2, AuditIsOver DEF Crash, Fails
  <1>5. CASE UNCHANGED vars
    <2>0. UNCHANGED <<status, verdict, request, pc, i, local, audit_state, thread, result, shared,
                      timed_out, late, failures>>
      BY <1>5 DEF vars, eventVars, threadVars
    <2>1. TypeOK'
      BY <2>0 DEF AuditInv, TypeOK
    <2>2. PhaseInv'
      BY <2>0 DEF AuditInv, PhaseInv, Started, ComputeAuditResult
    <2>3. ThreadInv' /\ CopyInv' /\ LabelInv'
      BY <2>0 DEF AuditInv, ThreadInv, CopyInv, LabelInv, Labelled
    <2> QED
      BY <2>1, <2>2, <2>3 DEF AuditInv
  <1> QED
    BY <1>1, <1>2, <1>3, <1>4, <1>5 DEF Next

(* The inductive invariant.                                                 *)
THEOREM AuditSafety == Spec => []AuditInv
  <1>1. Init => AuditInv
    BY InitHolds
  <1>2. AuditInv /\ [Next]_vars => AuditInv'
    BY NextStep
  <1> QED
    BY <1>1, <1>2, PTL DEF Spec

THEOREM AuditTypes == Spec => []TypeOK
  <1>1. AuditInv => TypeOK
    BY DEF AuditInv
  <1> QED
    BY <1>1, AuditSafety, PTL

(* Each report is that of the analyzer's own thread, or a timeout, or lost. *)
THEOREM OwnReports == Spec => []ReportsAreOwn
  <1>1. AuditInv => ReportsAreOwn
    <2> SUFFICES ASSUME AuditInv, NEW a \in Labelled
                 PROVE  local[a] \in {"timeout", result[a]} \/ TookBack(a)
      BY DEF ReportsAreOwn
    <2>1. a \in Analyzers
      BY DEF Labelled
    <2>2. CASE local[a] = "timeout" \/ local[a] = result[a]
      BY <2>2
    <2>3. CASE result[a] # "none" /\ local[a] = "empty"
      BY <2>1, <2>3 DEF AuditInv, ThreadInv, TookBack
    <2> QED
      BY <2>2, <2>3 DEF AuditInv, LabelInv
  <1> QED
    BY <1>1, AuditSafety, PTL

(* Who expired, or has not come to anything yet, is reported as a timeout.  *)
THEOREM ExpiredTimesOut == Spec => []ExpiredIsTimeout
  <1>1. AuditInv => ExpiredIsTimeout
    BY DEF AuditInv, LabelInv, ExpiredIsTimeout
  <1> QED
    BY <1>1, AuditSafety, PTL

(* At the end of an audit whose analyzers were run, all are labelled.       *)
LEMMA AllLabelled ==
    ASSUME AuditInv, pc = "publish", Started
    PROVE  \A a \in Analyzers :
             \/ local[a] = "timeout"
             \/ /\ result[a] \notin {"none", "expired"}
                /\ local[a] \in {"empty", result[a]} \ {"unusable"}
  <1>1. Labelled = Analyzers
    BY DEF Labelled, Started
  <1> QED
    BY <1>1 DEF AuditInv, LabelInv

(* A success has a cause, and hides no error that came in time.             *)
THEOREM EarnedSuccess == Spec => []SuccessIsEarned
  <1>1. AuditInv => SuccessIsEarned
    <2> SUFFICES ASSUME AuditInv, pc = "publish", audit_state = "success"
                 PROVE  /\ \E a \in Analyzers : result[a] = "success"
                        /\ \A a \in Analyzers :
                             result[a] \in {"error", "nostatus"} => local[a] = "timeout"
      BY DEF SuccessIsEarned
    <2>1. Started /\ ComputeAuditResult = "success"
      BY DEF AuditInv, PhaseInv
    <2>2. /\ \A a \in Analyzers : local[a] \in {"success", "timeout"}
          /\ \E a \in Analyzers : local[a] = "success"
      BY <2>1 DEF ComputeAuditResult
    <2> QED
      BY <2>1, <2>2, AllLabelled
  <1> QED
    BY <1>1, AuditSafety, PTL

(* And an error has one.                                                    *)
THEOREM ToleratedTimeouts == Spec => []TimeoutsAreTolerated
  <1>1. AuditInv => TimeoutsAreTolerated
    <2> SUFFICES ASSUME AuditInv, pc = "publish", audit_state = "error", Labelled # {},
                        NEW s \in Analyzers, result[s] = "success", local[s] # "timeout",
                        \A a \in Analyzers :
                            result[a] \notin {"error", "nostatus"} /\ ~TookBack(a)
                 PROVE  FALSE
      BY DEF TimeoutsAreTolerated
    <2>1. Started /\ ComputeAuditResult = "error"
      BY AllIs DEF AuditInv, PhaseInv, Labelled
    <2>2. ASSUME NEW a \in Analyzers
          PROVE  local[a] \in {"success", "timeout"}
      <3>1. local[a] = "timeout" \/ (result[a] # "none" /\ local[a] \in {"empty", result[a]} \ {"unusable"}
                                     /\ result[a] # "expired")
        BY <2>1, AllLabelled
      <3>2. result[a] \in {"success", "error", "nostatus", "unusable", "expired", "none"}
        BY AuditAssumption DEF AuditInv, TypeOK
      <3>3. result[a] # "none" => local[a] # "empty"
        BY DEF AuditInv, ThreadInv, TookBack
      <3> QED
        BY <3>1, <3>2, <3>3
    <2>3. local[s] = "success"
      BY <2>1, <2>2
    <2> QED
      BY <2>1, <2>2, <2>3 DEF ComputeAuditResult
  <1> QED
    BY <1>1, AuditSafety, PTL
=============================================================================

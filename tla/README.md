# Specifications of the QSP audit node

TLA+ models of the audit node in `src/qsp_protocol_node` (paths below are relative
to it), the TLC configurations that check them on small instances, and theorems
that TLAPS checks for every value of the constants.

    tlc -workers 2 -config Retries.cfg MCAuditNode     # any of the .cfg files
    tlapm AuditNodeProofs.tla                          # any of the *Proofs modules

## 1. The system

An audit node bids for audit requests at a smart contract, runs analyzers on the
contract it got, and sends the report back. The node is one Python process; its
threads never talk to each other directly. They share one SQLite table of *audit
events*, and each thread works on the events with one status:

    contract --poll--> AS --audit--> TS --submit--> SB --monitor--> DN
                        |             ^  |           |  |
                        |             +--|-- retry --+  |
                        +--------> ER <--+--------------+

| Component | State it keeps | Operations | Modelled in |
|---|---|---|---|
| Event pool `evt/` | table `audit_evt` | insert; four status updates; selects by status; lookup by request id | `EventPool` |
| Database worker `utils/db/sql3liteworker.py` | FIFO of statements, answers by token, `exit_set` | `execute`, `run_query`, `close` | `EventPool`, `AuditNode`; `SqlWorker` |
| Poll thread `poll_requests_thread.py` | last block seen, cached role | save an assignment, bid, save a police check | `AuditNode`, `Poll` |
| Audit thread `perform_audit_thread.py` | selected events | report, or error | `AuditNode`, `Audit`; `PerformAudit` |
| Submit thread `submit_report_thread.py` | selected events | send, record, duplicate, error | `AuditNode`, `Submit` |
| Monitor thread `monitor_submission_thread.py` | selected events, last answer | wait, done, resubmit, error | `AuditNode`, `Monitor` |
| Main `audit/audit.py`, `utils/stop.py`, `__main__.py` | list of threads, `exec` flags | stake and price checks, start-up scan, start, health check, stop | `AuditNode`, `Main` (scan and start), `Crash`; `NodeLifecycle` |
| Block polling `qsp_thread.py` | `current_block` | poll the chain, wake the subscribers | `Polls` |
| Transactions `utils/eth/tx.py` | a lock, and a nonce in each call | sign, send, retry, wait for N confirmations | `TxSender` |
| Minimum price (in `audit.py`), claim rewards, gas price | `gas_price_wei` | one transaction at start, one per reward; one price per block | `NodeTransactions`, `TxSender` |
| Analyzers `audit/analyzer.py`, `wrapper.py` and their threads | reports and flags shared with the audit thread | run with a timeout, join, label | `PerformAudit` |
| Report codec, vulnerability sets | none | encode, decode, compare | `ReportCodec`, `PoliceCheck` |
| Metrics, uploads, log streaming, configuration | none that matters | I/O | no: section 8 |
| Audit contract (external) | assignments, reports | bids, reports, police checks | `Chain` in `AuditNode` |
| Ethereum node (external) | pool of pending transactions | accept, refuse, displace, drop | `TxSender` |

**How they interact.** A *select* makes the calling thread wait until the database
thread answers. An *update* is put on the worker's queue and the caller goes on at
once; whether it succeeded is never reported. The list a select returns is a copy,
and a thread goes on with it for as long as handling all its events takes (audits
take minutes), while the other threads and the chain go on.

**What is hard.** The order of queued updates, selects and the decisions that
led to them; acting on copies; updates that ignore the status (`set_evt_status_to_error`)
or the event's type (all four, which address rows by request id only); reads
of the chain that fail, that are stale when used, or that are about blocks which are
replaced; transactions that are pending, duplicated, reverted or lost; a crash
between sending a report and recording it; retries that do not wait for the
transaction they repeat; and starting up on a database left by an earlier run. Beside the
pipeline: threads that share one account and its nonces, while the Ethereum node answers with
errors in prose; waiting with a lock held; analyzers that are late, write
to what the audit is reading, and outlive it; and numbers in fields of fixed size.

**What makes the components correct.**

* Event pool: one row per request; `DN` and `ER` are final; every update finds the
  row its author saw.
* Poll: only confirmed assignments are saved, each of them is, and once.
* Audit, submit, monitor: a thread acts on current copies only; attempts are
  bounded, both as counted and as transactions really sent; an event that is done
  has its report in the contract; nothing stays in `TS` or `SB` for ever.
* Start-up: what is too old is discarded before any thread can select it.
* Worker: a statement put before the close is executed, and its caller answered.
* Start and stop: the database is closed after the threads that use it have ended, and a
  stop ends the process.
* Transactions: nonces leave no gap; a call puts one transaction in the pool, a repeated one
  meets the first, and none displaces another's; what was confirmed stays; calls end.
* Performing audits: what is reported of an analyzer is what it came to in this audit, or a
  timeout; the verdict overlooks no error and tolerates timeouts; every audit ends.
* Codec and police check: decoding what was encoded gives it back, at the limits of
  every field, and the police's verdict is the one the full reports deserve.

## 2. Modules

| Module | What it is |
|---|---|
| `EventLifecycle` | Abstract: the automaton of statuses with the attempts counter, the "finite automata internally captured by the audit node" of `audit/audit.py` |
| `EventPool` | The rows, the statements of `evt/*.sql` and `EventPoolManager`, the queue of `Sqlite3Worker` |
| `AuditNode` | Extends `EventPool` with the threads, the chain and the contract; composes them; all properties |
| `AuditNodeInvariant` | The inductive invariants `Ownership` and `HistoryInv` |
| `MCAuditNode` | Instances for TLC |
| `AuditNodeProofs`, `AuditNodeHistoryProofs` | The theorems that follow from the first, and from the second |
| `SqlWorker` | `Sqlite3Worker` while it is being closed: `execute` in steps, the bounded queue, the exit token, the death of the worker |
| `NodeLifecycle` | Extends `SqlWorker` with start, health check, stop and signals, and the loops and `exec` flags of the threads |
| `MCNodeLifecycle` | Instances for TLC |
| `NodeLifecycleProofs` | Its theorems |
| `TxSender` | `send_signed_transaction`: the lock, the nonce, the attempts, receipts; the gas price; the pool and the chain of one account |
| `NodeTransactions` | Extends `TxSender` with the threads that call it: main and the minimum price, restarts, rewards, bids and reports; all properties |
| `MCTransactions`, `TransactionProofs` | Instances for TLC, and the theorems |
| `PerformAudit` | One audit after the other, with the threads of its analyzers |
| `MCPerformAudit`, `PerformAuditProofs` | Instances for TLC, and the theorems |
| `ReportCodec` | `ReportEncoder` as operators on sequences of bits |
| `PoliceCheck` | Extends `ReportCodec` with the way of a report from the auditor through the contract to a police node's verdict |
| `MCPoliceCheck` | Reports for TLC |
| `FlatteningProofs` | What `FlattenSeq` of the community modules returns, for every sequence of sequences |
| `ReportCodecProofs` | Theorems about the codec's operators alone |
| `PoliceCheckProofs` | The inductive invariant `CheckInv` of a police check, and its theorems |

`AuditNode` is one module because its threads differ only in what they do with an
event: selecting, picking and leaving an event are shared operators. Each operation of
each thread is an action.

**State and code.** `rows` is the table, keyed by its primary key; a row with status
`NA` is a row that does not exist. Columns that no thread reads back are left out; a
null number is 0. `sql_queue` is the worker's queue. For a thread, `todo` is what is
left of the list its last select returned, `now` the event in the middle of whose
handler it is, `pc` whether it is between events (`loop`), waits for the database
(`select`), or, for the poll thread, where in its handler it is. `scan`, `lastBlock`,
`isPolice` and `isFinished` are `first_valid_block` and the select it is applied to,
`last_block_number`, `__is_police_officer_cached` and `is_finished`. `block`,
`assigned`, `mostRecent`, `bids`, `pending`, `reportBlock` are the chain and
the contract as the node sees them. `sent`, `crashes`, `lost` and
`unanswered` only count.

**Grain.** A handler is cut into a new step wherever it reads the chain a second time, waits
for the database, or sends a transaction. `Asks` and the decision after it are two
steps of the monitor, since the chain moves on between `isAuditFinished` and
`blockNumber`; `Sends` and `RecordsSubmission` are two steps, since the process may
end between them. A handler that reads once and decides is one step. So is a bid: the reads
of `Bids`, and the sending, since nothing the node does in between changes what the reads are about
but the bid itself. The
order in which a thread handles the events it selected is left open (SQLite
promises none).

**Simplifications.** `isAuditFinished` and `getAuditTimeoutInBlocks` read the
contract; the timeout is a constant. The time intervals between polls are arbitrary. The
capacity (10000) of the queue is not modelled. `PollRaises` stands for a failing read of
`myMostRecentAssignedAudit`. A KeyError in the submit or monitor thread needs a
column that every row has, and does not happen. `TransactionNotConfirmedException` is
raised only for a call that waits for a receipt, which the submit thread does not. If a report was sent but
its answer cannot be read, the thread goes on trying the same report (`GoesUnanswered`, as often as
`MaxUnanswered`); the model lets it take another event in between, which the code does not. The branch for an empty audit result calls
`set_evt_to_error`, which the event pool does not have: the AttributeError lands in the
handler that sets `ER`, and so in `AuditRaises`.

**Start and stop.** `SqlWorker` and `NodeLifecycle` look at the same program at another
grain: what the statements do is left out, and what `EventPool` takes for granted
(the queue loses nothing, selects are answered) is shown, under the conditions it needs.
`call` is where a thread is in `execute`: past the test of `exit_set` (`select`, `write`), or
polling for its answer (`wait`). `worker` says where the worker's loop is: `get`, `test`
(a statement was run), `exiting` (it has read `exit_set`, and has yet to look at the queue),
`ended`, or `dead`, when an exception ended it and `thread_running` stays set. `main` is
the progress of the main thread through `start`, `stop` and `close`; a signal handler runs
in that thread, so that a second stop simply takes the place of what it interrupted, and what it
interrupted is never resumed, because the handler exits the interpreter. `early` in a
statement and `clean` are history variables. Left out: the order in which `start` and the two loops
of `stop` visit the threads (any order is allowed); a signal when main has nothing
left to do; the selects and updates of main's own start-up scan; the errors of failed
writes, which stay in `results` and are never read.

**Transactions.** `AuditNode` takes from `tx.py` that a transaction is pending, is refused as a
duplicate, or fails before or after it reached the pool; `TxSender` looks at how. `lock` is the
`SingletonLock`, `pc` where a thread is in `send_signed_transaction` (`acquire`; `send`, at the top of the loop;
`receipt` and `confirm`, in the two waits), `nonce`, `attempt`, `price` the loop's variables, and
`pending`, `mined` and `count` what the Ethereum node knows of the account. What it answers follows
the messages that the code looks for: a nonce below `count` is too low, one that is taken in the pool is
known if it is the same transaction, underpriced if not and the price is no higher, and is displaced if it is.
Each of the arms of the `except` is an action, and a ValueError that none of them knows is two: one
that comes before the transaction is in the pool (`UnknownError`), and one that comes after (`AnswerIsLost`), when the loop sends
again what was sent. Any other exception may come on either side, too (`Raises`); where the transaction entered the pool, it may
have displaced another. `accepted`, `confirmed` and `history` are history variables:
`history` says which of the things happened that the properties except.
One turn of the confirmation loop, which reads the block number and then the receipt, is one step.
The last attempt raises a ValueError again whatever it says, so that a known transaction is
then an error. Read-only calls take the same lock, and only matter where a thread asks for rewards before
it claims them. Left out: signing by the node (tests only); the lazy creation of the lock, which main does before there are other
threads; a failed transaction's log entry; reverted transactions, which are mined like the others.
`NodeTransactions` leaves the rest of the pipeline out: any thread that bids or sends a
report is one that calls, up to a bound. A crash leaves the pool as it is.

**Audits.** `PerformAudit` opens the step `Reports` of `AuditNode`. `shared` and `timed_out` are
`shared_reports` and `timed_out_flags`, `local` is `local_reports`, of which only the status counts, and `thread` the state
of the thread of each analyzer of the current audit; a thread still running when its audit ends is
counted in `late` from then on, and its lists are garbage that only it refers to. `result` is
history. A thread writes report and flag under the lock of its analyzer, hence in one step; the audit thread copies the report and sets the flag
under it (`Joins`), then runs a metadata subprocess and reads the flag again without the lock (`Labels`), hence
in two. `Outputs` says what `check` may come to: a report with status success or error, or none
(`nostatus`), JSON that is no object (`unusable`: adding the metadata to it raises, and one such
analyzer fails the whole audit), or an expired subprocess. What an exception in the thread
says goes into a list that is never stored, although a comment says "Otherwise, save the error"
(`perform_audit_thread.py:199`); only the status is. The order of requests is left open; the upload of
the contract may fail unnoticed (it is only logged).

**Codec.** Reports are sequences of bits, and the sizes of the fields are constants. A
type of vulnerability is its number in `vulnerability_types.json`, which
two nodes may have in two versions, so each has its set of types; a hash is a number and the case of its
digits. A report is reduced to what the encoder reads. `Fits` says when `__to_bitstring`
raises, `ToBits` what it returns otherwise, which is longer than the field for a number that does not fit (`Width`).
`DecodeVulnerabilities` is the loop that consumes the bits; `Places` says where it
stands at each turn. `EncodeVulnerabilities` keeps the first of equal codes in the one pass that also joins
them, and `Grouped` all instances of a type where its first one is. Powers of two are a recursive
function (`PowerOf2`), because the provers have none. `PoliceCheck` composes both ends, with a state
machine that is as small as it can be, so that TLC checks every pair of reports.

The operators marked *a wrong variant* are not part of the specifications. Each is an
action with one plausible mistake; put in the place of the action it stands beside, it
makes the property it was written for fail, which shows that the property can.

## 3. Properties

| Property | What it says | Hazard |
|---|---|---|
| `TypeOK` | types | |
| `HeldEventsAreCurrent` | the copies a thread works on are still the rows | stale copies |
| `WritesFindTheirRows` | a queued update finds its row in the status its author saw, and alone | delayed updates; unguarded `ER` |
| `OneRowPerRequest` | no request has two rows | updates by request id |
| `TerminalIsFinal` | `DN` and `ER` rows never change | unguarded `ER` |
| `AttemptsBounded`, `SubmissionsBounded` | attempts, and transactions sent, are bounded, but for crashes, lost updates and lost answers | retries, crashes, lost updates, lost answers |
| `SavedIsAssigned` | rows are about assignments the node has | reorganisations |
| `StaleIsDiscarded` | too old at start: on its way to `ER` before the threads select | restarts |
| `DoneMeansReported` | a done audit is in the contract | stale answers |
| `ImplementsLifecycle` | refinement of `EventLifecycle` | illegal edges |
| `ConfirmedIsSaved`, `ReportIsSubmitted`, `SubmittedIsResolved` | progress | polls that give up, duplicates, waits |
| `AcceptedIsExecuted` | the worker leaves no statement behind that was put before the close | puts racing the close |
| `AcceptedIsAnswered` | nor a select without an answer, unless the worker dies | the same |
| `ClosedAfterThreads` | a clean stop closes the database after all threads have ended | skipped threads, a second stop |
| `CleanStopEnds` | a clean stop ends the process, unless a second one interrupts it or the worker is dead | joins, answers and close waiting for each other |
| `NoncesHaveNoGap` | no pending transaction waits behind a nonce that nothing has, unless one is dropped | counting up on errors |
| `PendingOnce` | at one price, a kind of call is pending at most once | timeouts, restarts |
| `NothingDisplaced` | at one price, no call takes the place of a pending one | nonces that are taken |
| `AcceptedOnce` | one call puts one transaction in the pool, unless the answer or the wait for the receipt fails | retries |
| `ConfirmedStays` | what was confirmed to a caller stays in the chain | uncled blocks |
| `RunsAtItsPrice` | the threads run only once the contract has the minimum price | failures and restarts at start |
| `CallsEnd`, `RewardsAreClaimed` | calls release the lock, rewards are claimed | waits, duplicates |
| `ReportsAreOwn` | an analyzer is reported with its own result of this audit, or as a timeout | late threads |
| `ExpiredIsTimeout` | an expired subprocess is a timeout, never an error | two timeouts of the same length |
| `SuccessIsEarned`, `TimeoutsAreTolerated` | success and error of an audit are those of its analyzers | some fail, some are late |
| `AuditsEnd` | an assigned request is left, even if every analyzer hangs | hanging analyzers |
| `NothingIsLost` | the police reads what the auditor wrote | limits of fields |
| `RecodesTheSame` | what was decoded can be encoded, and decodes to itself | order, end lines |
| `VerdictIsOfFullReports` | the verdict is that of the full reports | upper case, types, empty sets |

## 4. Runs

The first six are of `MCAuditNode`, the others of the MC module of the same component. `B` is the last
block of the chain, `N` the confirmations, `A` the contract's timeout, `K` the maximum of attempts.

| Run | Instance | Shows | States |
|---|---|---|---|
| `Retries` | 1 request, B=4 N=1 A=3 K=3, reorganisations, failing polls | `TypeOK`, `AttemptsBounded`, `SavedIsAssigned`, `ImplementsLifecycle` | 720,950 |
| `Faults` | 1 request, B=3 N=1 A=2 K=2, one crash, one lost update, one lost answer | `SubmissionsBounded`, `HistoryInv`, `TerminalIsFinal`, `StaleIsDiscarded` | 2,496,625 |
| `Police` | 1 request, B=3 N=1 A=2 K=2, police node that audits, too | `OneRowPerRequest`, `HeldEventsAreCurrent`, `DoneMeansReported` | 473,938 |
| `TwoRequests` | 2 requests (symmetric), B=3 N=1 A=2 K=1 | `Ownership`, `WritesFindTheirRows` | 218,970 |
| `Progress` | 1 request, fair, B=3 K=1, one crash | `ConfirmedIsSaved`, `ReportIsSubmitted` | 85,903 |
| `PoliceOnly` | 1 request, fair, B=3 K=2, police node that does not audit | `SubmittedIsResolved` | 223,641 |
| `Stopping` | 2 threads, fair, queue of 2, anything may fail, the worker may die | `AcceptedIsExecuted`, `ClosedAfterThreads`, `LifecycleInv`, `AcceptedIsAnswered`, `CleanStopEnds` | 123,370 |
| `Transactions` | main, claims, and one that does not wait; fair, 2 attempts, N=1, 2 prices, one report, one failure of any kind | `TypeOK`, `NoncesHaveNoGap`, `PendingOnce`, `NothingDisplaced`, `AcceptedOnce`, `ConfirmedStays`, `RunsAtItsPrice`, `CallsEnd`, `RewardsAreClaimed` | 110,204 |
| `Analysis` | 2 requests, 2 analyzers, fair, one crash or exception | `TypeOK`, `ReportsAreOwn`, `ExpiredIsTimeout`, `SuccessIsEarned`, `TimeoutsAreTolerated`, `AuditsEnd` | 238,188 |
| `Codec` | 3,925 pairs of reports with up to 3 instances; fields of 1 to 3 bits | `TypeOK`, `NothingIsLost`, `RecodesTheSame`, `VerdictIsOfFullReports` | 23,764 |

Deadlock is checked in the runs of `MCAuditNode`, in which some thread of the node can always
take a step, and in `Transactions`, in which there always is a next block. It is not in `Stopping`, `Analysis` and
`Codec`, in which the process, the audits or the check are to end.

**Why the bounds are enough to be interesting.** One request already has two keys (audit and
police check), four threads that may hold it, a queue with several statements, and
retries; two requests add a queue with updates of different events. With `K` = 3, as in
the code, an event is resubmitted twice and then given up. `B` lets an assignment be confirmed, be
replaced before that (`N` = 1), be submitted in time, and time out (`A` < `B`).
For a shutdown, a queue of two (10000 in the code) already is empty, partly filled and
full, and can hold statements on both sides of the exit token; two threads
can be one joined and one skipped, and the theorems are about any number.
Two attempts (ten in the code) already are one that is retried and the last one; three threads are
two whose calls are pending and one that counts past both. Two analyzers can be one on time and
one late, in two audits, the second of which the late one of the first outlives. In the small fields of `Codec` every
limit is met from both sides (the last line that fits and the first that does not, and so with spans, versions
and types), with an instance that has an end line in front of and behind one that has none; the hash is as long as it has to be for its
digits to be told apart.
On a node that only polices, `isAuditFinished` is always answered with yes, so that `PoliceOnly` meets resubmissions
and giving up only after failed reads (`MonitorRaises`); `Resubmits` and `GivesUp` are met in `Retries`.
The constants `MaxFailures`, `MaxCalls` and `MaxRewards` of transactions and audits, and the constants
`MaxBlock`, `MaxCrashes`, `MaxLostWrites`, `MaxUnanswered`, `MaxBids` and the Boolean `PollReadsRaise` bound the exploration and are not in the code; nor are `Signals`, `HandlersRaise` and
`WorkerFails`, which switch kinds of failures on. The theorems hold for all values of
them.

**Fairness** (`FairSpec`): weak fairness of each thread, of the database thread, of new
blocks, and of the fate of each pending report transaction (mined, or dropped). The
threads are loops with sleeps that the operating system schedules; the worker's loop takes the
next statement whenever there is one. Fairness of `Main` after a crash
stands for whatever restarts the node, which `__main__.py:214` counts on ("A non-zero exit code
is required to auto-restart"). None is assumed of crashes, lost updates, lost answers, bids, or reorganisations.
Weak fairness of `Poll` is fairness of the thread, not of each of its branches: a
chain read that fails for ever may starve progress, so the fair runs have
`PollReadsRaise` = FALSE.
`NodeLifecycle` assumes weak fairness of main, of the worker and of every thread, and
strong fairness of `Returns`: a target function makes finitely many calls of the database,
so that it does return if it can, again and again, between two calls. None is assumed of signals or exceptions.
`NodeTransactions` assumes weak fairness of main, of each thread in a call, and of the chain, which
grows and takes what is pending; and strong fairness of taking the lock, and of asking for rewards: the lock
is free again and again, and Python's locks, which promise no order, do let each waiting thread have it in the end. None is assumed of
failures, crashes or prices. `PerformAudit` assumes weak fairness of the audit thread only: any analyzer may hang for ever.

**What is not true.** Two runs find a statement of the repository's own comments violated:

* `DoneEarly`: "Submission is finished and final" (`monitor_submission_thread.py:57`).
  Confirmations are counted from the block at which the report was *generated*, which
  may be long before the one it was mined in.
* `PoliceDoneEarly`: "Report successfully submitted" (`monitor_submission_thread.py:58`)
  is also written for police checks whose report was never mined, because
  `isAuditFinished` is asked about the audit.

The properties above are as strong as the code allows. What they except is in the models, and happens:

* "If an event has been given a certain status, it is never updated with a status lower in
  ranking" (`audit/audit.py:38`): the monitor puts `SB` back to `TS` for a resubmission.
  `ImplementsLifecycle` says what holds instead: that is the only edge downwards.
* "will not call getNextAuditRequest again while a previous call is not confirmed"
  (`poll_requests_thread.py:127`): it will after `tx_timeout_seconds`, since only assignments are
  looked at, not calls that are still pending. As `PendingOnce` says, the pool then refuses it, unless
  the gas price has changed.
* "an exiting mechanism for the executing process to terminate altogether" (`utils/stop.py:20`): a
  thread that was started, and has yet to set its `exec` flag when a signal arrives, is skipped by
  `stop`, sets the flag afterwards, and runs on (`clean` in `NodeLifecycle` excludes it).
* A select put after the close, by a thread that no stop joined, waits for ever; and when
  an exception ends the database worker (`WorkerDies`), the health check does not notice, since
  the worker is not among the internal threads.
* After a ValueError that comes when the transaction is in the pool already, because the answer cannot be read
  or the wait for the receipt fails, `__send_signed_transaction` sends again, and one call may be
  mined twice (`AcceptedOnce`, `SubmissionsBounded`); a transaction at a higher gas price takes the place of a pending
  report or bid of the same nonce, which is lost (`NothingDisplaced`).
* "The next two fail safe checks should never kick in..." (`perform_audit_thread.py:88`): a late thread that
  writes between the copy of its report and the second, unlocked look at its flag takes the flag
  back (`TookBack`). The report then has no status, the fail safe makes it an error, and with it
  the whole audit, even if that thread succeeded.
* The docstring of the wait for confirmation promises a Timeout; it raises
  `TransactionNotConfirmedException` (`tx.py:124`, `148`).

## 5. Proofs

`AuditNodeProofs` proves, from `ConstantsAssumption` and `NoneAssumption` only (for any set of
requests, any bounds, reorganisations or not):

| Theorem | States |
|---|---|
| `OwnershipHolds` | `Spec => []Ownership` |
| `TypeCorrect` | `Spec => []TypeOK` |
| `HeldEventsStayCurrent` | `Spec => []HeldEventsAreCurrent` |
| `WritesAlwaysFindTheirRows` | `Spec => []WritesFindTheirRows` |
| `OneRowPerRequestHolds` | `Spec => []OneRowPerRequest` |
| `AttemptsStayBounded` | `Spec => []AttemptsBounded` |
| `TerminalStaysFinal` | `Spec => TerminalIsFinal` |
| `PipelineImplementsLifecycle` | `Spec => ImplementsLifecycle` |

**The argument.** None of the invariants is inductive on its own: that an update finds
its row depends on nobody else having changed it since, which depends on who else could hold a copy, which depends on
what is still in the queue. `Ownership` (in `AuditNodeInvariant`) is the strengthening.
A row that is not terminal belongs to the one thread that selects its status:

* `HeldInv`: what a thread holds is current and has the status the thread works on;
* `QueuedInv`: an update waiting in the queue is the only one of its request, the row
  still is as its author saw it, and it moves the row along an edge of the life cycle (`MayPut`);
* `SelectsInv`: behind a waiting select there is no update of a row that it would
  return. This is the heart of it: a thread selects only after handling all its events,
  so that its own updates are ahead of the select in the FIFO and executed before
  it is answered; other threads put updates of other statuses only;
* `NewInv`, and a clause of `SelectsInv`: the same for the lookup and the insert of the poll thread;
* `ThreadsInv`: main's scan and the threads never overlap, since the threads start
  after main has left its last event, and the process has an empty queue when it starts.

Each action preserves each part; the lemmas of the module are one per kind of step (an
update put on the queue, an event left alone, a select put or answered, a write executed or
rolled back, a step of the chain, a crash). The safety theorems follow by implication; `TerminalStaysFinal`
and `PipelineImplementsLifecycle` from what `Ownership` says of the one action that changes
rows, the execution of the first update in the queue.

`AuditNodeHistoryProofs` proves, from the same two assumptions and `Ownership`, the invariant that
relates the state to the past of the node, and what follows from it:

| Theorem | States |
|---|---|
| `HistoryHolds` | `Spec => []HistoryInv` |
| `SubmissionsStayBounded` | `Spec => []SubmissionsBounded` |
| `SavedStaysAssigned` | `Spec => []SavedIsAssigned` |
| `DoneStaysReported` | `Spec => []DoneMeansReported` |
| `StaleIsAlwaysDiscarded` | `Spec => StaleIsDiscarded` |

Each of the four properties fails to be inductive for a reason of its own, and `HistoryInv` has a part for each:

* `SentInv`: a transaction is sent two steps before its row counts it. While a row is `Unsent`
  (to be submitted, not in the thread's hands, and with no update on the way) one
  attempt is still free; a crash or a lost update between the two steps is what uses one up for nothing,
  as a lost answer does.
* `AssignedInv`: poll decides with the block number it began with, while the chain goes on and may
  replace blocks. What is saved, about to be saved, or being looked up is `Settled`: its block is
  deeper than any that can be replaced. An audit is settled before the lookup; of a police check
  it is known only if that number confirms it, which is then also the condition for saving it.
* `ReportedInv`: the answer of `isAuditFinished` is kept across a second read of the chain, then
  in the update in the queue, then in the row; without reorganisations it stays true all the way.
* `ScanInv`: while main scans, every row that is too old has its error update in the queue or
  is still ahead of the scan (`ScanAhead`); nothing else is in the queue. When the threads start, nothing is
  ahead any more, which leaves the update. A lost update breaks it, which is why the property excepts it.

The queue is looked at as a set (`Waiting`), since these parts do not care for the order of updates, which
`Ownership` has settled already: it says that the update that is executed is the only one of its request. One lemma per
thread says what a step of it does to the rows, the queue and its event (`MainEffect` to `ChainEffect`), and one lemma per
part goes through these cases. `HistoryInv` was checked by TLC on the instances of `Faults`, `Retries`,
`Police` and `TwoRequests`, and on a police node with reorganisations; the run `Faults` keeps it.

`NodeLifecycleProofs` proves, from `WorkerAssumption` only (any threads, any
capacity, anything may fail):

| Theorem | States |
|---|---|
| `LifecycleHolds` | `Spec => []LifecycleInv` |
| `ClosingLosesNothing` | `Spec => []AcceptedIsExecuted` |
| `CleanStopClosesLast` | `Spec => []ClosedAfterThreads` |

`LifecycleInv` adds what the two properties do not say of the steps before: that the worker is about to
end only once `exit_set` is set, from when on nothing that is put counts as early
(`WorkerInv`: the reason why the order of the worker's two reads matters); and that
until `stop` is called a flag is set exactly in the loop of its thread, so that a clean
stop skips only threads that never ran or have ended (`StopInv`).

`TransactionProofs` proves, from `SenderAssumption` and `CallersAssumption` only (any threads, attempts,
confirmations, prices, and any number of failures):

| Theorem | States |
|---|---|
| `SendSafety` | `Spec => []SendInv` |
| `SendTypes`, `NoGaps`, `OnePending`, `NoneDisplaced`, `OneAccepted`, `Confirmed`, `RunsPriced` | that `TypeOK`, `NoncesHaveNoGap`, `PendingOnce`, `NothingDisplaced`, `AcceptedOnce`, `ConfirmedStays`, `RunsAtItsPrice` hold always |

The parts of `SendInv`: only the holder of the lock is in a call (`LockInv`), so that its nonce, attempt and price are
one thread's; nonces in the chain are below `count`, those in the pool are not, and each is
there once (`PoolInv`); all nonces that the call has counted past are taken (`PassedInv`), and none
of them by a transaction of its own (`OwnInv`), from which a second transaction of the same kind cannot come about,
because the count stops at the first; at an unchanged gas price there is one price everywhere (`PriceInv`), so that what is
not known is underpriced; each attempt adds at most one accepted transaction, and only a failure lets
another attempt follow one that did (`AcceptedInv`); and what was confirmed is deeper
than any block that is replaced (`ConfirmedInv`).

`PerformAuditProofs` proves, from `AuditAssumption` only (any requests, any number of analyzers):

| Theorem | States |
|---|---|
| `AuditSafety` | `Spec => []AuditInv` |
| `AuditTypes`, `OwnReports`, `ExpiredTimesOut`, `EarnedSuccess`, `ToleratedTimeouts` | that `TypeOK`, `ReportsAreOwn`, `ExpiredIsTimeout`, `SuccessIsEarned`, `TimeoutsAreTolerated` hold always |

`AuditInv` adds to the properties where the audit thread is (`PhaseInv`), that report, flag and result of a thread
go together (`ThreadInv`), and, between the copy and the label, that a report that was not there is
flagged unless its thread has written since (`CopyInv`, `LabelInv`): which is exactly where the flag can be taken back.

`ReportCodecProofs` proves about the operators of `ReportCodec`, for all sizes of fields that `CodecAssumption`
allows (each has a bit at least), and all reports in `Reports`:

| Theorem | States |
|---|---|
| `CodecIsFaithful` | of a report that compresses, `Decode` reads the header and the digits of the hash as they are, and as vulnerabilities exactly the readings of the report's; bits are sound unless there is a type that the decoder does not know |
| `CodecIsIdempotent` | what was decoded compresses, by any node that knows its types, and is decoded as itself |

`PoliceCheckProofs` proves, from `CodecAssumption` and `PoliceAssumption` (any reports, any two sets of types, any
threshold):

| Theorem | States |
|---|---|
| `CheckInvHolds` | `Spec => []CheckInv` |
| `TypeOKHolds`, `NothingIsEverLost`, `VerdictsAreOfFullReports`, `DecodedRecodesTheSame` | that `TypeOK`, `NothingIsLost`, `VerdictIsOfFullReports`, `RecodesTheSame` hold always |

`PoliceAssumption` says what the code ensures before: reports have the shape of `Reports`, and no file of types has more
than fit the field (`__initialize_vulnerability_types` raises). Lines may be any integers, and versions any
natural numbers: whether they fit is a guard of the model, as in the code.

*The argument.* The state machine is the easy part: `CheckInv` says that what is in the contract is the
compressed report of the auditor, and what is decoded is decoded from it, so that each property is one about the
operators. These are folds and recursive functions, on which an induction is needed for every
report, while the library's induction theorems cannot be used. `FlatteningProofs`
therefore derives induction over `0 .. N` for a *set* of numbers (a set that has 0, and `m` if it has `m - 1`, has all), and
with it that a recursive function on `0 .. N` exists and satisfies its equation. Then:

* *Flattening.* `FlattenSeq` is described once and for all by where its pieces end
  (`AreEnds`, `FlattenPieces`). Everything after that is about pieces and positions: the range of the whole, when
  it has no duplicates, and that a sequence with such ends *is* the whole (`FlattenIs`).
* *Numbers.* A number that fits has the width of its field, and `FromBits` of `ToBits` is the number.
* *One instance.* Wherever the code of an instance occurs among the bits, the decoder reads its
  reading (`Read`: an end line that is missing becomes the start line) and consumes exactly this code, so that it
  next stands at the following one (`ReadsInstance`).
* *All instances.* The loop therefore visits the ends of the pieces, and as there are empty pieces (of codes that are equal to
  an earlier one), the `n`-th place is the `n`-th piece that is not empty (`WalksThrough`); it stops at the
  last bit because the last piece ends there. What is dropped is
  read elsewhere: equal codes have equal readings, and different codes different ones (`ReadingsDiffer`).
* *Again.* A reading that is encoded gives the same code, so that the codes of the decoded report are the same set in another
  order. The size of the encoded report only depends on that set (`SizeOfVulnerabilities`), so that it
  again is one of whole hexadecimal digits; and readings, different as they are and grouped already, are neither
  dropped nor moved the second time (`GroupedAgain`).

**Model-checked only.** Every invariant and every action property that a run checks is proved for all
values of the constants, and so is the refinement of `EventLifecycle`. What stays with TLC is liveness (`ConfirmedIsSaved`, `ReportIsSubmitted`,
`SubmittedIsResolved`, `AcceptedIsAnswered`, `CleanStopEnds`, `CallsEnd`, `RewardsAreClaimed`, `AuditsEnd`): the prover
has no rule for fairness, which needs ENABLED. The two statements that are violated are counterexamples of TLC's, too.

## 6. Hazards

`PROJECT.json` lists the places where this code can go wrong in ways a test hardly
reaches, each with its line and the properties that would show it, or why none does yet.

## 7. Plan

1. That `PerformAudit` implements the step of `AuditNode` that it opens, as a refinement.
2. The two unlocked reads of the subscribers of new blocks as steps of their own; for now, a poll
   may take any block number above its last one, which covers them.

## 8. Not modelled

Metrics, uploads, log and event streaming only send out what they read, and nothing
depends on them. Configuration is read once before anything runs; it retries a connection to the Ethereum node
thirty times, and creates the analyzers only after it has checked their timeouts, so that this check
sees none. `max_gas_price_wei` defaults to -1, which `min` takes for a price; the models
have natural numbers. The validation of reports against the JSON schema may fail (`PublishFails`)
and is not modelled beyond that; when the police decodes a report, the schema
accepts whatever the decoder makes (`Decompresses`); nor are the downloads of the analyzers' images. `utils/io.py` and
`utils/eth/address.py` are stateless helpers. The solidity contract is outside the repository:
it is modelled by how the node uses it, with `tests/resources/QuantstampAuditMock.sol` as a guide.

------------------------------- MODULE Bridge -------------------------------
(***************************************************************************)
(* AsyncSapiBridge of src/gocvm_bridge.cc: one scheduler thread submits    *)
(* calls and collects completions, a fixed pool of worker threads runs     *)
(* them.  Everything done under mu_ is one step; the notify calls happen   *)
(* after the unlock and are steps of their own, so other threads run       *)
(* between the two.  A condition variable may also wake spuriously.        *)
(*                                                                         *)
(* A call is known by its id; calls[i] is the topic of call i.  Four kinds *)
(* of topic are told apart, by when the real call may return:              *)
(*   "plain"    returns on its own;                                        *)
(*   "feed"     returns on its own and lets one pump return (a write to a  *)
(*              child's stdin that makes the child produce output);        *)
(*   "pump"     blocks until it has been fed (a read of the child's        *)
(*              stdout);                                                   *)
(*   "unknown"  is not a topic W2gSapiHandle serves.                       *)
(***************************************************************************)
EXTENDS Naturals, Sequences, FiniteSets

CONSTANTS
    Workers,    \* the kWorkerCount threads of the pool
    Topics,     \* the kinds of topic the program uses
    MaxCalls,   \* bound: how many calls are submitted in a behaviour
    MaxPumps    \* bound: pump calls the program keeps outstanding at once

ASSUME WorkersAssumption == Workers # {} /\ IsFiniteSet(Workers)
ASSUME TopicsAssumption == Topics \subseteq {"plain", "feed", "pump", "unknown"}
ASSUME BoundsAssumption == MaxCalls \in Nat /\ MaxPumps \in Nat

VARIABLES
    nextId,     \* next_id_
    calls,      \* history: the topic of every call, by id
    jobs,       \* jobs_, ids in queue order
    results,    \* results_, completions in queue order
    shutdown,   \* shutdown_
    wpc,        \* where each worker is in WorkerLoop
    hold,       \* the id of the job a worker holds, 0 for none (Job::id = 0)
    good,       \* the completion's ok flag, once the worker's call returned
    cpc,        \* where the scheduler thread is in the bridge's interface
    collected,  \* history: completions PollOne and WaitOne handed out
    fed         \* output the child has produced and no pump has read

vars == <<nextId, calls, jobs, results, shutdown, wpc, hold, good, cpc,
          collected, fed>>

ResultIds == {results[k].id : k \in 1 .. Len(results)}
CollectedIds == {c.id : c \in collected}
HeldIds == {hold[w] : w \in {v \in Workers : hold[v] # 0}}
Outstanding == (1 .. nextId) \ CollectedIds
Answered(i) == i \in ResultIds \cup CollectedIds

Waiting == {w \in Workers : wpc[w] = "wait"}

(* W2gSapiHandle: NOT_FOUND for a topic without a reply topic; otherwise   *)
(* whatever code the backend answers with.                                 *)
SapiHandle(t) ==
    IF t = "unknown"
    THEN {"NOT_FOUND"}
    ELSE {"OK", "UNIMPLEMENTED", "INVALID_ARGUMENT"}

(* How WorkerLoop turns a result code into Completion::ok.                 *)
CompletionOk(rc) == rc = "OK"

Init ==
    /\ nextId = 0
    /\ calls = <<>>
    /\ jobs = <<>>
    /\ results = <<>>
    /\ shutdown = FALSE
    /\ wpc = [w \in Workers |-> "lock"]
    /\ hold = [w \in Workers |-> 0]
    /\ good = [w \in Workers |-> FALSE]
    /\ cpc = "idle"
    /\ collected = {}
    /\ fed = 0

-----------------------------------------------------------------------------
(* The scheduler thread.                                                   *)

(* The program's own limit on pumps in flight (external: the pool can only *)
(* serve what leaves it a free worker).                                    *)
PumpsOutstanding == {i \in 1 .. nextId : calls[i] = "pump" /\ ~Answered(i)}
MayCall(t) == t = "pump" => Cardinality(PumpsOutstanding) < MaxPumps

(* id = ++next_id_.  Mutant: the id is read before the increment.          *)
NewIdPostIncrement == nextId
NewId == nextId + 1

(* Submit, under the lock: id and queue position are taken together.       *)
Submit(t) ==
    /\ cpc = "idle"
    /\ nextId < MaxCalls
    /\ MayCall(t)
    /\ nextId' = nextId + 1
    /\ calls' = Append(calls, t)
    /\ jobs' = Append(jobs, NewId)
    /\ cpc' = "notify"
    /\ UNCHANGED <<results, shutdown, wpc, hold, good, collected, fed>>

(* cv_jobs_.notify_one(): wakes one parked worker, if there is one.        *)
(* Mutant: only notify when the queue was empty before this call.          *)
NotifyIfFirst ==
    IF Waiting = {} \/ Len(jobs) # 1
    THEN wpc' = wpc
    ELSE \E w \in Waiting : wpc' = [wpc EXCEPT ![w] = "lock"]
NotifyOneJob ==
    IF Waiting = {}
    THEN wpc' = wpc
    ELSE \E w \in Waiting : wpc' = [wpc EXCEPT ![w] = "lock"]

(* Submit, after the unlock.                                               *)
SubmitNotify ==
    /\ cpc = "notify"
    /\ NotifyOneJob
    /\ cpc' = "idle"
    /\ UNCHANGED <<nextId, calls, jobs, results, shutdown, hold, good,
                   collected, fed>>

(* Both collectors hand out the oldest completion.                         *)
(* Mutant: the completion is copied out but never popped.                  *)
TakeResultNoPop ==
    /\ results # <<>>
    /\ collected' = collected \cup {Head(results)}
    /\ results' = results
    /\ cpc' = "idle"
TakeResult ==
    /\ results # <<>>
    /\ collected' = collected \cup {Head(results)}
    /\ results' = Tail(results)
    /\ cpc' = "idle"

(* PollOne; on an empty queue it returns false and changes nothing.        *)
PollOne ==
    /\ cpc = "idle"
    /\ TakeResult
    /\ UNCHANGED <<nextId, calls, jobs, shutdown, wpc, hold, good, fed>>

(* WaitOne: the predicate is tested under the lock, at the call and after  *)
(* every wake-up; the scheduler only waits while a call is outstanding.    *)
WaitOne ==
    /\ \/ cpc = "idle" /\ Outstanding # {}
       \/ cpc = "woken"
    /\ \/ TakeResult
       \/ /\ results = <<>>
          /\ cpc' = "waiting"
          /\ UNCHANGED <<results, collected>>
    /\ UNCHANGED <<nextId, calls, jobs, shutdown, wpc, hold, good, fed>>

(* ~AsyncSapiBridge, in its three steps: the flag under the lock,          *)
(* notify_all after it, then the joins.                                    *)
Destroy ==
    /\ cpc = "idle"
    /\ shutdown' = TRUE
    /\ cpc' = "notifyAll"
    /\ UNCHANGED <<nextId, calls, jobs, results, wpc, hold, good, collected,
                   fed>>

(* cv_jobs_.notify_all().  Mutant: notify_one.                             *)
NotifyAllJustOne == NotifyOneJob
NotifyAllJobs == wpc' = [w \in Workers |-> IF w \in Waiting THEN "lock" ELSE wpc[w]]

DestroyNotify ==
    /\ cpc = "notifyAll"
    /\ NotifyAllJobs
    /\ cpc' = "join"
    /\ UNCHANGED <<nextId, calls, jobs, results, shutdown, hold, good,
                   collected, fed>>

DestroyJoin ==
    /\ cpc = "join"
    /\ \A w \in Workers : wpc[w] = "exit"
    /\ cpc' = "done"
    /\ UNCHANGED <<nextId, calls, jobs, results, shutdown, wpc, hold, good,
                   collected, fed>>

-----------------------------------------------------------------------------
(* A worker thread, WorkerLoop.                                            *)

(* The wait predicate is false: release the lock and park.                 *)
WorkerWait(w) ==
    /\ wpc[w] = "lock"
    /\ jobs = <<>> /\ ~shutdown
    /\ wpc' = [wpc EXCEPT ![w] = "wait"]
    /\ UNCHANGED <<nextId, calls, jobs, results, shutdown, hold, good, cpc,
                   collected, fed>>

(* Shutdown, and nothing left to run.  Mutant: shutdown alone is enough.   *)
MayExitAtOnce == shutdown
MayExit == jobs = <<>> /\ shutdown

(* The thread returns.                                                     *)
WorkerExit(w) ==
    /\ wpc[w] = "lock"
    /\ MayExit
    /\ wpc' = [wpc EXCEPT ![w] = "exit"]
    /\ UNCHANGED <<nextId, calls, jobs, results, shutdown, hold, good, cpc,
                   collected, fed>>

(* A job is there, shutdown or not: pop it and leave the lock.             *)
WorkerTake(w) ==
    /\ wpc[w] = "lock"
    /\ jobs # <<>>
    /\ hold' = [hold EXCEPT ![w] = Head(jobs)]
    /\ jobs' = Tail(jobs)
    /\ wpc' = [wpc EXCEPT ![w] = "run"]
    /\ UNCHANGED <<nextId, calls, results, shutdown, good, cpc, collected, fed>>

(* The real call returns, off the lock, whenever its resource lets it.     *)
WorkerReturn(w) ==
    /\ wpc[w] = "run"
    /\ LET t == calls[hold[w]] IN
       /\ t = "pump" => fed > 0
       /\ fed' = CASE t = "pump" -> fed - 1
                   [] t = "feed" -> fed + 1
                   [] OTHER      -> fed
       /\ \E rc \in SapiHandle(t) :
              good' = [good EXCEPT ![w] = CompletionOk(rc)]
    /\ wpc' = [wpc EXCEPT ![w] = "push"]
    /\ UNCHANGED <<nextId, calls, jobs, results, shutdown, hold, cpc, collected>>

(* The completion is queued under the lock.  Mutant: results_ is replaced  *)
(* instead of extended.                                                    *)
PushOver(w) == results' = <<[id |-> hold[w], ok |-> good[w]]>>
PushBack(w) == results' = Append(results, [id |-> hold[w], ok |-> good[w]])

WorkerPush(w) ==
    /\ wpc[w] = "push"
    /\ PushBack(w)
    /\ hold' = [hold EXCEPT ![w] = 0]
    /\ wpc' = [wpc EXCEPT ![w] = "notify"]
    /\ UNCHANGED <<nextId, calls, jobs, shutdown, good, cpc, collected, fed>>

(* cv_results_.notify_one(): only the scheduler thread waits on it.        *)
(* Mutant: notify only for the first completion of a batch.                *)
NotifyResultMissed == cpc' = IF cpc = "waiting" /\ Len(results) > 1 THEN "woken" ELSE cpc
NotifyOneResult == cpc' = IF cpc = "waiting" THEN "woken" ELSE cpc

WorkerNotify(w) ==
    /\ wpc[w] = "notify"
    /\ wpc' = [wpc EXCEPT ![w] = "lock"]
    /\ NotifyOneResult
    /\ UNCHANGED <<nextId, calls, jobs, results, shutdown, hold, good,
                   collected, fed>>

(* std::condition_variable may wake a waiter without a notify.             *)
SpuriousWake ==
    /\ \/ /\ cpc = "waiting"
          /\ cpc' = "woken"
          /\ UNCHANGED wpc
       \/ /\ \E w \in Waiting : wpc' = [wpc EXCEPT ![w] = "lock"]
          /\ UNCHANGED cpc
    /\ UNCHANGED <<nextId, calls, jobs, results, shutdown, hold, good,
                   collected, fed>>

(* The process has ended: nothing more happens.                            *)
Ended == cpc = "done" /\ UNCHANGED vars

-----------------------------------------------------------------------------
WorkerStep(w) ==
    \/ WorkerWait(w)
    \/ WorkerExit(w)
    \/ WorkerTake(w)
    \/ WorkerPush(w)
    \/ WorkerNotify(w)

Next ==
    \/ \E t \in Topics : Submit(t)
    \/ SubmitNotify
    \/ PollOne
    \/ WaitOne
    \/ Destroy
    \/ DestroyNotify
    \/ DestroyJoin
    \/ \E w \in Workers : WorkerStep(w) \/ WorkerReturn(w)
    \/ SpuriousWake
    \/ Ended

Spec == Init /\ [][Next]_vars

(* Threads keep running and a call that can return does.  The scheduler    *)
(* finishes what it began and collects what is ready; it need not submit,  *)
(* wait or shut down.                                                      *)
Fairness ==
    /\ \A w \in Workers : WF_vars(WorkerStep(w)) /\ WF_vars(WorkerReturn(w))
    /\ WF_vars(SubmitNotify)
    /\ WF_vars(PollOne)
    /\ WF_vars(cpc = "woken" /\ WaitOne)
    /\ WF_vars(DestroyNotify)
    /\ WF_vars(DestroyJoin)

FairSpec == Spec /\ Fairness

-----------------------------------------------------------------------------
(* Properties.                                                             *)

(* Every variable of AsyncSapiBridge keeps its type, and every id in its   *)
(* queues was handed out by Submit.                                        *)
TypeOK ==
    /\ nextId \in Nat
    /\ calls \in Seq(Topics) /\ Len(calls) = nextId
    /\ jobs \in Seq(1 .. nextId)
    /\ results \in Seq([id : 1 .. nextId, ok : BOOLEAN])
    /\ shutdown \in BOOLEAN
    /\ wpc \in [Workers -> {"lock", "wait", "run", "push", "notify", "exit"}]
    /\ hold \in [Workers -> 0 .. nextId]
    /\ good \in [Workers -> BOOLEAN]
    /\ cpc \in {"idle", "notify", "waiting", "woken", "notifyAll", "join", "done"}
    /\ collected \in SUBSET [id : 1 .. nextId, ok : BOOLEAN]
    /\ fed \in Nat

(* jobs_ is always the newest calls in submission order: whatever is no    *)
(* longer queued was started before everything that is.                    *)
QueueIsNewest == \A k \in 1 .. Len(jobs) : jobs[k] = (nextId - Len(jobs)) + k

(* A worker holds a job exactly while it runs it or has its completion.    *)
HoldsWhileBusy == \A w \in Workers : (hold[w] # 0) <=> (wpc[w] \in {"run", "push"})

(* No two workers hold one job, and no held job is answered.               *)
HeldOnce ==
    /\ \A v, w \in Workers : hold[v] = hold[w] /\ hold[v] # 0 => v = w
    /\ \A w \in Workers : ~Answered(hold[w])

(* No completion is queued twice or queued after it was collected.         *)
ResultsOnce ==
    /\ \A j, k \in 1 .. Len(results) : results[j].id = results[k].id => j = k
    /\ ResultIds \cap CollectedIds = {}

(* The calls that left jobs_ are exactly those held, ready or collected.   *)
NothingLost == 1 .. (nextId - Len(jobs)) = HeldIds \cup ResultIds \cup CollectedIds

(* Every call is at every moment in exactly one place - queued, held by    *)
(* one worker, ready, or collected - whatever the threads' interleaving    *)
(* (gocvm_bridge.cc: jobs_, the worker's local Job, results_).             *)
ExactlyOnePlace ==
    QueueIsNewest /\ HoldsWhileBusy /\ HeldOnce /\ ResultsOnce /\ NothingLost

(* No lost wake-up on cv_jobs_, although notify_one comes after the        *)
(* unlock: while a worker is parked, every queued job has an awake worker  *)
(* heading for the queue or a notify still to come.                        *)
EveryJobHasATaker ==
    Waiting # {} =>
        Len(jobs) <= Cardinality({w \in Workers : wpc[w] = "lock"})
                       + (IF cpc \in {"notify", "notifyAll"} THEN 1 ELSE 0)

(* No lost wake-up on cv_results_: if WaitOne is parked although a         *)
(* completion is ready, the worker that queued one has still to notify.    *)
WaiterWillHear ==
    cpc = "waiting" /\ results # <<>> => \E w \in Workers : wpc[w] = "notify"

(* ~AsyncSapiBridge drops no call: when the joins are over every call ever *)
(* submitted has run and been answered.                                    *)
ShutdownDrains ==
    cpc = "done" => jobs = <<>> /\ \A i \in 1 .. nextId : Answered(i)

(* What the interface promises, with the queues and threads hidden.        *)
Promise == INSTANCE AsyncCalls WITH
    issued  <- nextId,
    answers <- {results[k] : k \in 1 .. Len(results)}
ImplementsAsyncCalls == Promise!ASpec

(* Call i is a pump with nothing to read.                                  *)
UnfedPump(i) == i \in 1 .. nextId /\ calls[i] = "pump" /\ fed = 0

(* Under fair threads every call is answered, also during shutdown, unless *)
(* it is a pump that nothing feeds: blocking calls never starve the others *)
(* while the program leaves the pool one free worker.                      *)
CallsAnswered ==
    \A i \in 1 .. MaxCalls :
        (i <= nextId) ~> (Answered(i) \/ UnfedPump(i))

(* A completion that is ready is collected, unless the program shuts down  *)
(* first: PollOne and WaitOne together miss nothing.                       *)
ResultsCollected ==
    \A i \in 1 .. MaxCalls :
        (i \in ResultIds) ~> (i \in CollectedIds \/ shutdown)

(* A pump no queued or running feed can release any more.                  *)
StuckPump(w) ==
    /\ wpc[w] = "run" /\ UnfedPump(hold[w])
    /\ \A i \in 1 .. nextId : calls[i] = "feed" => Answered(i)

(* The destructor's joins end, unless a worker is inside a call that will  *)
(* never return.                                                           *)
ShutdownEnds == shutdown ~> (cpc = "done" \/ \E w \in Workers : StuckPump(w))
=============================================================================

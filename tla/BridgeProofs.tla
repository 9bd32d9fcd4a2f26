---------------------------- MODULE BridgeProofs ----------------------------
(***************************************************************************)
(* Proofs about Bridge for every number of workers and calls: its types,   *)
(* that every call is always in exactly one place, that no wake-up is lost *)
(* on either condition variable, that the destructor drops no call, and    *)
(* that the pool implements AsyncCalls.                                    *)
(***************************************************************************)
EXTENDS Bridge, FiniteSetTheorems, TLAPS

USE DEF vars

(* Sequence facts, for any set of elements.                                *)
LEMMA SeqWider ==
  ASSUME NEW S, NEW T, S \subseteq T, NEW s \in Seq(S)
  PROVE  s \in Seq(T)
OBVIOUS

LEMMA SeqPop ==
  ASSUME NEW S, NEW s \in Seq(S), s # <<>>
  PROVE  /\ Head(s) \in S
         /\ Head(s) = s[1]
         /\ Tail(s) \in Seq(S)
         /\ Len(s) \in Nat \ {0}
         /\ Len(Tail(s)) = Len(s) - 1
         /\ \A k \in 1 .. Len(s) - 1 : Tail(s)[k] = s[k + 1]
OBVIOUS

LEMMA SeqPush ==
  ASSUME NEW S, NEW s \in Seq(S), NEW e \in S
  PROVE  /\ Append(s, e) \in Seq(S)
         /\ Len(s) \in Nat
         /\ Len(Append(s, e)) = Len(s) + 1
         /\ \A k \in 1 .. Len(s) : Append(s, e)[k] = s[k]
         /\ Append(s, e)[Len(s) + 1] = e
OBVIOUS

(* Every step of AsyncSapiBridge keeps the types of its state; a worker    *)
(* that pushes a completion holds a real id.                               *)
LEMMA TypeStep == TypeOK /\ HoldsWhileBusy /\ [Next]_vars => TypeOK'
<1> SUFFICES ASSUME TypeOK, HoldsWhileBusy, [Next]_vars PROVE TypeOK'
  OBVIOUS
<1> USE BoundsAssumption
<1>1. ASSUME NEW t \in Topics, Submit(t) PROVE TypeOK'
  <2>1. nextId' = nextId + 1 /\ nextId \in Nat
    BY <1>1 DEF Submit, TypeOK
  <2>2. calls' \in Seq(Topics) /\ Len(calls') = nextId'
    BY <1>1 DEF Submit, TypeOK
  <2>3. jobs' \in Seq(1 .. nextId')
    <3>1. jobs \in Seq(1 .. nextId')
      BY <2>1 DEF TypeOK
    <3> QED BY <3>1, <2>1, <1>1 DEF Submit, NewId
  <2>4. results \in Seq([id : 1 .. nextId', ok : BOOLEAN])
    <3>1. [id : 1 .. nextId, ok : BOOLEAN] \subseteq [id : 1 .. nextId', ok : BOOLEAN]
      BY <2>1
    <3>2. results \in Seq([id : 1 .. nextId, ok : BOOLEAN])
      BY DEF TypeOK
    <3> QED BY ONLY <3>1, <3>2, SeqWider
  <2>5. hold \in [Workers -> 0 .. nextId']
    BY <2>1 DEF TypeOK
  <2>6. collected \in SUBSET [id : 1 .. nextId', ok : BOOLEAN]
    BY <2>1 DEF TypeOK
  <2> QED BY <1>1, <2>1, <2>2, <2>3, <2>4, <2>5, <2>6 DEF Submit, TypeOK
<1>2. CASE SubmitNotify
  BY <1>2 DEF SubmitNotify, NotifyOneJob, Waiting, TypeOK
<1>3. ASSUME TakeResult
      PROVE  /\ results' \in Seq([id : 1 .. nextId, ok : BOOLEAN])
             /\ collected' \in SUBSET [id : 1 .. nextId, ok : BOOLEAN]
             /\ cpc' = "idle"
  <2>1. results \in Seq([id : 1 .. nextId, ok : BOOLEAN])
    BY DEF TypeOK
  <2>2. /\ Head(results) \in [id : 1 .. nextId, ok : BOOLEAN]
        /\ Tail(results) \in Seq([id : 1 .. nextId, ok : BOOLEAN])
    BY <1>3, <2>1, SeqPop DEF TakeResult
  <2> QED BY <1>3, <2>2 DEF TakeResult, TypeOK
<1>4. CASE PollOne \/ WaitOne
  BY <1>3, <1>4 DEF PollOne, WaitOne, TypeOK
<1>5. CASE Destroy
  BY <1>5 DEF Destroy, TypeOK
<1>6. CASE DestroyNotify
  BY <1>6 DEF DestroyNotify, NotifyAllJobs, Waiting, TypeOK
<1>7. CASE DestroyJoin
  BY <1>7 DEF DestroyJoin, TypeOK
<1>8. ASSUME NEW w \in Workers, WorkerStep(w) PROVE TypeOK'
  <2>1. CASE WorkerWait(w)
    BY <2>1 DEF WorkerWait, TypeOK
  <2>2. CASE WorkerExit(w)
    BY <2>2 DEF WorkerExit, TypeOK
  <2>3. CASE WorkerTake(w)
    BY <2>3 DEF WorkerTake, TypeOK
  <2>4. CASE WorkerPush(w)
    <3>1. hold[w] \in 1 .. nextId
      BY <2>4 DEF WorkerPush, TypeOK, HoldsWhileBusy
    <3>2. [id |-> hold[w], ok |-> good[w]] \in [id : 1 .. nextId, ok : BOOLEAN]
      BY <3>1 DEF TypeOK
    <3>3. results' \in Seq([id : 1 .. nextId, ok : BOOLEAN])
      BY <2>4, <3>2, SeqPush DEF WorkerPush, PushBack, TypeOK
    <3> QED BY <2>4, <3>3 DEF WorkerPush, TypeOK
  <2>5. CASE WorkerNotify(w)
    BY <2>5 DEF WorkerNotify, NotifyOneResult, TypeOK
  <2> QED BY <1>8, <2>1, <2>2, <2>3, <2>4, <2>5 DEF WorkerStep
<1>9. ASSUME NEW w \in Workers, WorkerReturn(w) PROVE TypeOK'
  BY <1>9 DEF WorkerReturn, CompletionOk, TypeOK
<1>10. CASE SpuriousWake
  BY <1>10 DEF SpuriousWake, Waiting, TypeOK
<1>11. CASE Ended \/ UNCHANGED vars
  BY <1>11 DEF Ended, TypeOK
<1> QED BY <1>1, <1>2, <1>4, <1>5, <1>6, <1>7, <1>8, <1>9, <1>10, <1>11
        DEF Next

(* The inductive invariant.                                                *)
IInv == TypeOK /\ ExactlyOnePlace

LEMMA IInit == Init => IInv
<1> SUFFICES ASSUME Init PROVE IInv
  OBVIOUS
<1>1. TypeOK
  <2>1. \A S : <<>> \in Seq(S)
    OBVIOUS
  <2>2. /\ calls \in Seq(Topics) /\ Len(calls) = nextId
        /\ jobs \in Seq(1 .. nextId)
        /\ results \in Seq([id : 1 .. nextId, ok : BOOLEAN])
    BY <2>1 DEF Init
  <2>3. collected \in SUBSET [id : 1 .. nextId, ok : BOOLEAN]
    BY DEF Init
  <2>4. /\ nextId \in Nat /\ fed \in Nat /\ shutdown \in BOOLEAN
        /\ good \in [Workers -> BOOLEAN]
    BY DEF Init
  <2>6. wpc \in [Workers -> {"lock", "wait", "run", "push", "notify", "exit"}]
    BY DEF Init
  <2>7. hold \in [Workers -> 0 .. nextId]
    BY DEF Init
  <2>5. cpc \in {"idle", "notify", "waiting", "woken", "notifyAll", "join", "done"}
    BY DEF Init
  <2> QED BY <2>2, <2>3, <2>4, <2>5, <2>6, <2>7 DEF TypeOK
<1>2. ResultIds = {} /\ CollectedIds = {} /\ HeldIds = {}
  BY DEF Init, ResultIds, CollectedIds, HeldIds
<1>3. QueueIsNewest /\ HoldsWhileBusy
  BY DEF Init, QueueIsNewest, HoldsWhileBusy
<1>4. HeldOnce /\ ResultsOnce /\ NothingLost
  BY <1>2 DEF Init, HeldOnce, ResultsOnce, NothingLost, Answered
<1> QED BY <1>1, <1>3, <1>4 DEF IInv, ExactlyOnePlace

LEMMA IStep == IInv /\ [Next]_vars => IInv'
<1> SUFFICES ASSUME IInv, [Next]_vars PROVE IInv'
  OBVIOUS
<1> USE DEF ExactlyOnePlace
<1>t. TypeOK /\ TypeOK'
  BY TypeStep DEF IInv
<1>i. QueueIsNewest /\ HoldsWhileBusy /\ HeldOnce /\ ResultsOnce /\ NothingLost
  BY DEF IInv
<1>n. nextId \in Nat /\ Len(jobs) \in Nat /\ Len(results) \in Nat
  BY <1>t DEF TypeOK
<1>1. ASSUME NEW t \in Topics, Submit(t) PROVE ExactlyOnePlace'
  <2>1. /\ nextId' = nextId + 1
        /\ jobs' = Append(jobs, nextId + 1)
        /\ UNCHANGED <<results, wpc, hold, collected>>
    BY <1>1 DEF Submit, NewId
  <2>2. /\ Len(jobs') = Len(jobs) + 1
        /\ \A k \in 1 .. Len(jobs) : jobs'[k] = jobs[k]
        /\ jobs'[Len(jobs) + 1] = nextId + 1
    BY <2>1, <1>t DEF TypeOK
  <2>3. QueueIsNewest'
    BY <2>1, <2>2, <1>i, <1>n DEF QueueIsNewest
  <2>4. /\ nextId' - Len(jobs') = nextId - Len(jobs)
        /\ HeldIds' = HeldIds /\ ResultIds' = ResultIds
        /\ CollectedIds' = CollectedIds
    BY <2>1, <2>2, <1>n DEF HeldIds, ResultIds, CollectedIds
  <2>5. HoldsWhileBusy' /\ HeldOnce' /\ ResultsOnce' /\ NothingLost'
    BY <2>1, <2>4, <1>i DEF HoldsWhileBusy, HeldOnce, ResultsOnce, NothingLost, Answered
  <2> QED BY <2>3, <2>5
<1>2. ASSUME UNCHANGED <<nextId, jobs, results, hold, collected>>, HoldsWhileBusy'
      PROVE  ExactlyOnePlace'
  <2>1. HeldIds' = HeldIds /\ ResultIds' = ResultIds /\ CollectedIds' = CollectedIds
    BY <1>2 DEF HeldIds, ResultIds, CollectedIds
  <2> QED BY <2>1, <1>2, <1>i DEF QueueIsNewest, HeldOnce, ResultsOnce, NothingLost, Answered
<1>3. ASSUME SubmitNotify PROVE ExactlyOnePlace'
  <2>1. HoldsWhileBusy'
    BY <1>3, <1>t, <1>i DEF SubmitNotify, NotifyOneJob, Waiting, HoldsWhileBusy, TypeOK
  <2> QED BY <1>2, <1>3, <2>1 DEF SubmitNotify
<1>4. ASSUME TakeResult, UNCHANGED <<nextId, jobs, hold, wpc>>
      PROVE  ExactlyOnePlace'
  <2> DEFINE C == [id : 1 .. nextId, ok : BOOLEAN]
             c == Head(results)
  <2>1. results \in Seq(C) /\ results # <<>>
    BY <1>4, <1>t DEF TypeOK, TakeResult
  <2>2. /\ c = results[1] /\ c \in C /\ Len(results) >= 1
        /\ Len(results') = Len(results) - 1
        /\ \A k \in 1 .. Len(results) - 1 : results'[k] = results[k + 1]
    <3> HIDE DEF C
    <3> QED BY <1>4, <2>1, SeqPop DEF TakeResult
  <2>3. CollectedIds' = CollectedIds \cup {c.id}
    BY <1>4 DEF TakeResult, CollectedIds
  <2>4. ResultIds' = ResultIds \ {c.id}
    <3> HIDE DEF c, C
    <3>1. ResultIds' = {results[k].id : k \in 2 .. Len(results)}
      <4>1. Len(results) - 1 \in Nat
        BY <2>2, <1>n
      <4>2. ResultIds' = {results[k + 1].id : k \in 1 .. Len(results) - 1}
        BY <2>2 DEF ResultIds
      <4>3. \A k \in 2 .. Len(results) : k - 1 \in 1 .. Len(results) - 1 /\ (k - 1) + 1 = k
        BY <1>n
      <4>4. \A k \in 1 .. Len(results) - 1 : k + 1 \in 2 .. Len(results)
        BY <1>n
      <4> QED BY <4>2, <4>3, <4>4
    <3>2. \A k \in 2 .. Len(results) : results[k].id # c.id
      BY <2>2, <1>i, <1>n DEF ResultsOnce
    <3>3. ResultIds = {results[k].id : k \in 2 .. Len(results)} \cup {c.id}
      BY <2>2, <1>n DEF ResultIds
    <3> QED BY <3>1, <3>2, <3>3
  <2>5. c.id \in ResultIds
    BY <2>2, <1>n DEF ResultIds
  <2>6. HeldIds' = HeldIds
    BY <1>4 DEF HeldIds
  <2>7. ResultsOnce'
    <3>1. \A j, k \in 1 .. Len(results') : results'[j].id = results'[k].id => j = k
      <4> HIDE DEF c, C
      <4> QED BY <2>2, <1>i, <1>n DEF ResultsOnce
    <3> QED BY <3>1, <2>3, <2>4, <1>i DEF ResultsOnce
  <2>8. QueueIsNewest' /\ HoldsWhileBusy' /\ HeldOnce' /\ NothingLost'
    BY <1>4, <2>3, <2>4, <2>5, <2>6, <1>i
       DEF QueueIsNewest, HoldsWhileBusy, HeldOnce, NothingLost, Answered
  <2> QED BY <2>7, <2>8
<1>5. ASSUME PollOne PROVE ExactlyOnePlace'
  BY <1>5, <1>4 DEF PollOne
<1>6. ASSUME WaitOne PROVE ExactlyOnePlace'
  <2>1. CASE TakeResult
    BY <1>6, <2>1, <1>4 DEF WaitOne
  <2>2. CASE ~TakeResult
    BY <1>6, <2>2, <1>2, <1>i DEF WaitOne, HoldsWhileBusy
  <2> QED BY <2>1, <2>2
<1>7. ASSUME Destroy \/ DestroyJoin \/ Ended \/ UNCHANGED vars PROVE ExactlyOnePlace'
  BY <1>7, <1>2, <1>i DEF Destroy, DestroyJoin, Ended, HoldsWhileBusy
<1>8. ASSUME DestroyNotify PROVE ExactlyOnePlace'
  <2>1. HoldsWhileBusy'
    BY <1>8, <1>t, <1>i DEF DestroyNotify, NotifyAllJobs, Waiting, HoldsWhileBusy, TypeOK
  <2> QED BY <1>2, <1>8, <2>1 DEF DestroyNotify
<1>9. ASSUME SpuriousWake PROVE ExactlyOnePlace'
  <2>1. HoldsWhileBusy'
    BY <1>9, <1>t, <1>i DEF SpuriousWake, Waiting, HoldsWhileBusy, TypeOK
  <2> QED BY <1>2, <1>9, <2>1 DEF SpuriousWake
<1>10. ASSUME NEW w \in Workers,
              WorkerWait(w) \/ WorkerExit(w) \/ WorkerNotify(w) \/ WorkerReturn(w)
       PROVE  ExactlyOnePlace'
  <2>1. UNCHANGED <<nextId, jobs, results, hold, collected>>
    BY <1>10 DEF WorkerWait, WorkerExit, WorkerNotify, WorkerReturn
  <2>2. HoldsWhileBusy'
    BY <1>10, <1>t, <1>i
       DEF WorkerWait, WorkerExit, WorkerNotify, WorkerReturn, HoldsWhileBusy, TypeOK
  <2> QED BY <1>2, <2>1, <2>2
<1>11. ASSUME NEW w \in Workers, WorkerTake(w) PROVE ExactlyOnePlace'
  <2>1. /\ jobs \in Seq(1 .. nextId) /\ jobs # <<>> /\ jobs' = Tail(jobs)
        /\ hold' = [hold EXCEPT ![w] = Head(jobs)]
        /\ wpc' = [wpc EXCEPT ![w] = "run"] /\ wpc[w] = "lock"
        /\ UNCHANGED <<nextId, results, collected>>
    BY <1>11, <1>t DEF WorkerTake, TypeOK
  <2>2. /\ Head(jobs) = jobs[1] /\ Len(jobs) >= 1
        /\ Head(jobs) \in 1 .. nextId
        /\ Len(jobs') = Len(jobs) - 1
        /\ \A k \in 1 .. Len(jobs) - 1 : jobs'[k] = jobs[k + 1]
    <3> DEFINE S == 1 .. nextId
    <3>1. jobs \in Seq(S) /\ jobs # <<>> /\ jobs' = Tail(jobs)
      BY <2>1
    <3> HIDE DEF S
    <3>2. Head(jobs) = jobs[1] /\ Len(jobs) >= 1 /\ Head(jobs) \in S
      BY <3>1, SeqPop
    <3>3. Len(jobs') = Len(jobs) - 1 /\ \A k \in 1 .. Len(jobs) - 1 : jobs'[k] = jobs[k + 1]
      BY <3>1, SeqPop
    <3> QED BY <3>2, <3>3 DEF S
  <2>3. Head(jobs) = (nextId - Len(jobs)) + 1
    BY <2>2, <1>i, <1>n DEF QueueIsNewest
  <2>l. nextId' = nextId /\ Len(jobs') = Len(jobs) - 1
    BY <2>1, <2>2
  <2>4. QueueIsNewest'
    <3> SUFFICES ASSUME NEW k \in 1 .. Len(jobs')
                 PROVE  jobs'[k] = (nextId' - Len(jobs')) + k
      BY DEF QueueIsNewest
    <3>1. k + 1 \in 1 .. Len(jobs) /\ k \in 1 .. Len(jobs) - 1
      BY <2>2, <1>n
    <3>2. jobs[k + 1] = (nextId - Len(jobs)) + (k + 1)
      BY <3>1, <1>i DEF QueueIsNewest
    <3>3. jobs'[k] = jobs[k + 1]
      BY <3>1, <2>2
    <3>4. k \in Nat
      OBVIOUS
    <3> QED BY ONLY <3>2, <3>3, <3>4, <2>l, <1>n
  <2>5. hold[w] = 0 /\ hold \in [Workers -> 0 .. nextId] /\ wpc \in [Workers -> {"lock", "wait", "run", "push", "notify", "exit"}]
    BY <2>1, <1>i, <1>t DEF HoldsWhileBusy, TypeOK
  <2>6. ResultIds' = ResultIds /\ CollectedIds' = CollectedIds
    BY <2>1 DEF ResultIds, CollectedIds
  <2>7. HeldIds' = HeldIds \cup {Head(jobs)}
    BY <2>1, <2>2, <2>5 DEF HeldIds
  <2>8. 1 .. (nextId' - Len(jobs')) = (1 .. (nextId - Len(jobs))) \cup {Head(jobs)}
    <3>1. nextId' - Len(jobs') = (nextId - Len(jobs)) + 1
      BY ONLY <2>l, <1>n
    <3>2. nextId - Len(jobs) \in Nat
      BY <2>2, <2>3, <1>n
    <3> QED BY <3>1, <3>2, <2>3
  <2>9. NothingLost'
    BY <2>6, <2>7, <2>8, <1>i DEF NothingLost
  <2>10. HoldsWhileBusy'
    BY <2>1, <2>2, <2>5, <1>i DEF HoldsWhileBusy
  <2>11. Head(jobs) \notin HeldIds \cup ResultIds \cup CollectedIds
    BY <2>3, <1>i, <1>n DEF NothingLost
  <2>12. HeldOnce'
    BY <2>1, <2>2, <2>5, <2>6, <2>11, <1>i DEF HeldOnce, HeldIds, Answered
  <2>13. ResultsOnce'
    BY <2>1, <2>6, <1>i DEF ResultsOnce
  <2> QED BY <2>4, <2>9, <2>10, <2>12, <2>13
<1>12. ASSUME NEW w \in Workers, WorkerPush(w) PROVE ExactlyOnePlace'
  <2> DEFINE C == [id : 1 .. nextId, ok : BOOLEAN]
             c == [id |-> hold[w], ok |-> good[w]]
  <2>1. /\ results' = Append(results, c)
        /\ hold' = [hold EXCEPT ![w] = 0]
        /\ wpc' = [wpc EXCEPT ![w] = "notify"] /\ wpc[w] = "push"
        /\ UNCHANGED <<nextId, jobs, collected>>
    BY <1>12 DEF WorkerPush, PushBack
  <2>2. hold[w] # 0 /\ hold \in [Workers -> 0 .. nextId] /\ wpc \in [Workers -> {"lock", "wait", "run", "push", "notify", "exit"}]
    BY <2>1, <1>i, <1>t DEF HoldsWhileBusy, TypeOK
  <2>3. c \in C /\ c.id = hold[w] /\ results \in Seq(C)
    BY <2>2, <1>t DEF TypeOK
  <2>4. /\ Len(results') = Len(results) + 1
        /\ \A k \in 1 .. Len(results) : results'[k] = results[k]
        /\ results'[Len(results) + 1] = c
    <3> HIDE DEF c, C
    <3> QED BY <2>1, <2>3, SeqPush
  <2> HIDE DEF c, C
  <2>5. ResultIds' = ResultIds \cup {hold[w]}
    BY <2>3, <2>4, <1>n DEF ResultIds
  <2>6. CollectedIds' = CollectedIds
    BY <2>1 DEF CollectedIds
  <2>7. HeldIds' = HeldIds \ {hold[w]} /\ hold[w] \in HeldIds
    BY <2>1, <2>2, <1>i DEF HeldIds, HeldOnce
  <2>8. hold[w] \notin ResultIds \cup CollectedIds
    BY <1>i DEF HeldOnce, Answered
  <2>9. NothingLost'
    BY <2>1, <2>5, <2>6, <2>7, <1>i DEF NothingLost
  <2>10. HoldsWhileBusy'
    BY <2>1, <2>2, <1>i DEF HoldsWhileBusy
  <2>11. HeldOnce'
    <3>0. 0 \notin ResultIds' \cup CollectedIds'
      BY <2>9, <1>n, <2>1 DEF NothingLost
    <3>1. \A u, v \in Workers : hold'[u] = hold'[v] /\ hold'[u] # 0 => u = v
      BY <2>1, <2>2, <1>i DEF HeldOnce
    <3>2. \A v \in Workers : hold'[v] \notin ResultIds' \cup CollectedIds'
      BY <3>0, <2>1, <2>2, <2>5, <2>6, <1>i DEF HeldOnce, Answered
    <3> QED BY <3>1, <3>2 DEF HeldOnce, Answered
  <2>12. ResultsOnce'
    <3>1. \A k \in 1 .. Len(results) : results[k].id # hold[w]
      BY <2>8 DEF ResultIds
    <3>2. \A j, k \in 1 .. Len(results') : results'[j].id = results'[k].id => j = k
      BY <3>1, <2>3, <2>4, <1>i, <1>n DEF ResultsOnce
    <3> QED BY <3>2, <2>5, <2>6, <2>8, <1>i DEF ResultsOnce
  <2>13. QueueIsNewest'
    BY <2>1, <1>i DEF QueueIsNewest
  <2> QED BY <2>9, <2>10, <2>11, <2>12, <2>13
<1>13. ExactlyOnePlace'
  BY <1>1, <1>3, <1>5, <1>6, <1>7, <1>8, <1>9, <1>10, <1>11, <1>12 DEF Next, WorkerStep
<1> QED BY <1>13, <1>t DEF IInv

(* The bridge never leaves its types: every id in its queues, in a         *)
(* worker's hands or handed out was given by Submit.                       *)
THEOREM TypeCorrect == Spec => []TypeOK
<1>1. IInv => TypeOK
  BY DEF IInv
<1> QED BY <1>1, IInit, IStep, PTL DEF Spec

(* Every call is always in exactly one place, for every number of workers, *)
(* calls and interleaving of them (gocvm_bridge.cc Submit, WorkerLoop,     *)
(* PollOne, WaitOne): no call is lost, run twice or answered twice.        *)
THEOREM OnePlace == Spec => []ExactlyOnePlace
<1>1. IInv => ExactlyOnePlace
  BY DEF IInv
<1> QED BY <1>1, IInit, IStep, PTL DEF Spec

-----------------------------------------------------------------------------
(* No lost wake-up on cv_results_: WaitOne parks only on an empty results_ *)
(* and whoever fills it is at its notify next, for every pool.             *)
THEOREM Hears == Spec => []WaiterWillHear
<1>1. Init => WaiterWillHear
  BY DEF Init, WaiterWillHear
<1>2. IInv /\ WaiterWillHear /\ [Next]_vars => WaiterWillHear'
  <2> SUFFICES ASSUME IInv, WaiterWillHear, [Next]_vars,
                      cpc' = "waiting", results' # <<>>
               PROVE  \E w \in Workers : wpc'[w] = "notify"
    BY DEF WaiterWillHear
  <2>t. wpc \in [Workers -> {"lock", "wait", "run", "push", "notify", "exit"}]
    BY DEF IInv, TypeOK
  <2>n. CASE cpc = "waiting" /\ results # <<>>
    <3>1. PICK v \in Workers : wpc[v] = "notify"
      BY <2>n DEF WaiterWillHear
    <3>2. wpc'[v] = "notify" \/ WorkerNotify(v)
      <4>1. ASSUME NEW w \in Workers, WorkerStep(w) \/ WorkerReturn(w)
            PROVE  wpc'[v] = "notify" \/ WorkerNotify(v)
        BY <4>1, <3>1, <2>t DEF WorkerStep, WorkerWait, WorkerExit, WorkerTake,
           WorkerPush, WorkerNotify, WorkerReturn
      <4>2. CASE SpuriousWake
        BY <4>2, <3>1, <2>t DEF SpuriousWake, Waiting
      <4>3. CASE Ended \/ UNCHANGED vars
        BY <4>3, <3>1 DEF Ended
      <4> QED BY <2>n, <4>1, <4>2, <4>3
              DEF Next, Submit, SubmitNotify, PollOne, WaitOne, Destroy,
                  DestroyNotify, DestroyJoin
    <3>3. ~WorkerNotify(v)
      BY <2>n DEF WorkerNotify, NotifyOneResult
    <3> QED BY <3>2, <3>3
  <2>m. CASE ~(cpc = "waiting" /\ results # <<>>)
    <3>1. ASSUME NEW w \in Workers, WorkerStep(w) \/ WorkerReturn(w)
          PROVE  \E v \in Workers : wpc'[v] = "notify"
      <4>1. CASE WorkerPush(w)
        BY <4>1, <2>t DEF WorkerPush
      <4>2. CASE ~WorkerPush(w)
        BY <3>1, <4>2, <2>m DEF WorkerStep, WorkerWait, WorkerExit, WorkerTake,
           WorkerNotify, NotifyOneResult, WorkerReturn
      <4> QED BY <4>1, <4>2
    <3>2. CASE \/ \E t \in Topics : Submit(t)
               \/ SubmitNotify \/ PollOne \/ WaitOne
               \/ Destroy \/ DestroyNotify \/ DestroyJoin \/ SpuriousWake
               \/ Ended \/ UNCHANGED vars
      BY <3>2, <2>m DEF Submit, SubmitNotify, PollOne, WaitOne, TakeResult, Destroy,
         DestroyNotify, DestroyJoin, SpuriousWake, Ended
    <3> QED BY <3>1, <3>2 DEF Next
  <2> QED BY <2>n, <2>m
<1> QED BY <1>1, <1>2, IInit, IStep, PTL DEF Spec

(* The workers on their way to the queue, and the notify still owed to it. *)
Coming == {w \in Workers : wpc[w] = "lock"}
Owed == IF cpc \in {"notify", "notifyAll"} THEN 1 ELSE 0

LEMMA TakerStep ==
  IInv /\ EveryJobHasATaker /\ [Next]_vars => EveryJobHasATaker'
<1> SUFFICES ASSUME IInv, EveryJobHasATaker, [Next]_vars, Waiting' # {}
             PROVE  Len(jobs)' <= Cardinality(Coming)' + Owed'
  BY DEF EveryJobHasATaker, Coming, Owed
<1>t. /\ wpc \in [Workers -> {"lock", "wait", "run", "push", "notify", "exit"}]
      /\ jobs \in Seq(1 .. nextId) /\ Len(jobs) \in Nat
  BY DEF IInv, TypeOK
<1>c. IsFiniteSet(Coming) /\ Cardinality(Coming) \in Nat
  BY WorkersAssumption, FS_Subset, FS_CardinalityType DEF Coming
<1>o. Owed \in 0 .. 1
  BY DEF Owed
<1>h. Waiting # {} => Len(jobs) <= Cardinality(Coming) + Owed
  BY DEF EveryJobHasATaker, Coming, Owed
(* What a step does to the workers that are coming.                        *)
<1>a. ASSUME NEW w \in Workers, wpc[w] # "lock", wpc' = [wpc EXCEPT ![w] = "lock"]
      PROVE  Cardinality(Coming)' = Cardinality(Coming) + 1
  <2>1. Coming' = Coming \cup {w} /\ w \notin Coming
    BY <1>a, <1>t DEF Coming
  <2> QED BY <2>1, <1>c, FS_AddElement
<1>r. ASSUME NEW w \in Workers, wpc[w] = "lock", NEW to, to # "lock",
             wpc' = [wpc EXCEPT ![w] = to]
      PROVE  Cardinality(Coming)' = Cardinality(Coming) - 1
  <2>1. Coming' = Coming \ {w} /\ w \in Coming
    BY <1>r, <1>t DEF Coming
  <2> QED BY <2>1, <1>c, FS_RemoveElement
<1>s. ASSUME UNCHANGED wpc
      PROVE  Waiting # {} /\ Cardinality(Coming)' = Cardinality(Coming)
  BY <1>s DEF Waiting, Coming
<1>w. ASSUME NEW w \in Workers, NEW to, to # "wait", wpc' = [wpc EXCEPT ![w] = to]
      PROVE  Waiting # {}
  BY <1>w, <1>t DEF Waiting
<1>1. ASSUME NEW t \in Topics, Submit(t)
      PROVE  Len(jobs)' <= Cardinality(Coming)' + Owed'
  <2>1. Len(jobs') = Len(jobs) + 1
    BY <1>1, <1>t DEF Submit
  <2>2. Owed = 0 /\ Owed' = 1 /\ UNCHANGED wpc
    BY <1>1 DEF Submit, Owed
  <2> QED BY <2>1, <2>2, <1>s, <1>h, <1>c, <1>t
<1>2. CASE SubmitNotify
  <2>1. Owed = 1 /\ Owed' = 0 /\ UNCHANGED jobs
    BY <1>2 DEF SubmitNotify, Owed
  <2>2. Waiting # {}
    BY <1>2 DEF SubmitNotify, NotifyOneJob, Waiting
  <2>3. PICK w \in Waiting : wpc' = [wpc EXCEPT ![w] = "lock"]
    BY <1>2, <2>2 DEF SubmitNotify, NotifyOneJob
  <2>4. w \in Workers /\ wpc[w] = "wait"
    BY DEF Waiting
  <2>5. Cardinality(Coming)' = Cardinality(Coming) + 1
    BY <1>a, <2>3, <2>4
  <2> QED BY <2>1, <2>2, <2>5, <1>h, <1>c, <1>t
<1>3. CASE \/ PollOne \/ WaitOne \/ Destroy \/ DestroyJoin \/ Ended
           \/ UNCHANGED vars
  <2>1. UNCHANGED <<wpc, jobs>> /\ Owed <= Owed'
    BY <1>3 DEF PollOne, WaitOne, TakeResult, Destroy, DestroyJoin, Ended, Owed
  <2>2. Owed' \in 0 .. 1
    BY DEF Owed
  <2> QED BY <2>1, <2>2, <1>s, <1>h, <1>c, <1>t, <1>o
<1>4. CASE DestroyNotify
  BY <1>4, <1>t DEF DestroyNotify, NotifyAllJobs, Waiting
<1>5. ASSUME NEW w \in Workers, WorkerStep(w) \/ WorkerReturn(w)
      PROVE  Len(jobs)' <= Cardinality(Coming)' + Owed'
  <2>f. Cardinality(Coming)' \in Nat /\ Owed' \in 0 .. 1
    <3>1. IsFiniteSet(Coming')
      BY WorkersAssumption, FS_Subset DEF Coming
    <3> QED BY <3>1, FS_CardinalityType DEF Owed
  <2>1. CASE WorkerWait(w) \/ WorkerExit(w)
    <3>1. Len(jobs') = 0
      BY <2>1 DEF WorkerWait, WorkerExit, MayExit
    <3> QED BY <3>1, <2>f
  <2>2. CASE WorkerTake(w)
    <3>1. Owed' = Owed
      BY <2>2 DEF WorkerTake, Owed
    <3>2. Len(jobs') = Len(jobs) - 1 /\ Len(jobs) \in Nat
      BY <2>2, <1>t DEF WorkerTake
    <3>3. Cardinality(Coming)' = Cardinality(Coming) - 1
      BY <2>2, <1>r DEF WorkerTake
    <3>4. Waiting # {}
      BY <2>2, <1>w DEF WorkerTake
    <3> QED BY ONLY <3>1, <3>2, <3>3, <3>4, <1>h, <1>c, <1>o
  <2>3. CASE WorkerPush(w) \/ WorkerReturn(w)
    <3>1. UNCHANGED jobs /\ Owed' = Owed
      BY <2>3 DEF WorkerPush, WorkerReturn, Owed
    <3>2. Coming' = Coming /\ Waiting # {}
      BY <2>3, <1>t DEF WorkerPush, WorkerReturn, Coming, Waiting
    <3> QED BY <3>1, <3>2, <1>h
  <2>4. CASE WorkerNotify(w)
    <3>1. UNCHANGED jobs /\ Owed' = Owed
      BY <2>4 DEF WorkerNotify, NotifyOneResult, Owed
    <3>2. Cardinality(Coming)' = Cardinality(Coming) + 1
      BY <2>4, <1>a DEF WorkerNotify
    <3>3. Waiting # {}
      BY <2>4, <1>w DEF WorkerNotify
    <3> QED BY <3>1, <3>2, <3>3, <1>h, <1>c, <1>t, <1>o
  <2> QED BY <1>5, <2>1, <2>2, <2>3, <2>4 DEF WorkerStep
<1>6. CASE SpuriousWake
  <2>1. UNCHANGED jobs /\ Owed' = Owed
    BY <1>6 DEF SpuriousWake, Owed
  <2>2. CASE UNCHANGED wpc
    BY <2>1, <2>2, <1>s, <1>h
  <2>3. CASE \E w \in Waiting : wpc' = [wpc EXCEPT ![w] = "lock"]
    <3>1. PICK w \in Waiting : wpc' = [wpc EXCEPT ![w] = "lock"]
      BY <2>3
    <3>2. w \in Workers /\ wpc[w] = "wait" /\ Waiting # {}
      BY DEF Waiting
    <3>3. Cardinality(Coming)' = Cardinality(Coming) + 1
      BY <1>a, <3>1, <3>2
    <3> QED BY <2>1, <3>2, <3>3, <1>h, <1>c, <1>t, <1>o
  <2> QED BY <1>6, <2>2, <2>3 DEF SpuriousWake
<1> QED BY <1>1, <1>2, <1>3, <1>4, <1>5, <1>6 DEF Next

(* No lost wake-up on cv_jobs_, for every pool and queue, although         *)
(* Submit's notify_one comes after the unlock and workers park, take and   *)
(* wake in between: while one is parked, the queue is never longer than    *)
(* the number of workers coming for it and the notify still owed.          *)
THEOREM Taken == Spec => []EveryJobHasATaker
<1>1. Init => EveryJobHasATaker
  BY DEF Init, EveryJobHasATaker, Waiting
<1> QED BY <1>1, IInit, IStep, TakerStep, PTL DEF Spec

-----------------------------------------------------------------------------
(* What the joins of ~AsyncSapiBridge rest on: shutdown_ is set first, a   *)
(* worker leaves only when the queue is empty, and nothing is queued after *)
(* shutdown_.                                                              *)
DrainInv ==
    /\ shutdown => cpc \in {"notifyAll", "join", "done"}
    /\ (\E w \in Workers : wpc[w] = "exit") => shutdown /\ jobs = <<>>
    /\ cpc = "done" => \A w \in Workers : wpc[w] = "exit"

LEMMA DrainStep == IInv /\ DrainInv /\ [Next]_vars => DrainInv'
<1> SUFFICES ASSUME IInv, DrainInv, [Next]_vars PROVE DrainInv'
  OBVIOUS
<1>t. TypeOK
  BY DEF IInv
<1>1. ASSUME NEW t \in Topics, Submit(t) PROVE DrainInv'
  BY <1>1, <1>t DEF Submit, DrainInv, TypeOK
<1>2. CASE SubmitNotify
  BY <1>2, <1>t DEF SubmitNotify, NotifyOneJob, Waiting, DrainInv, TypeOK
<1>3. CASE PollOne
  BY <1>3, <1>t DEF PollOne, TakeResult, DrainInv, TypeOK
<1>4. CASE WaitOne
  BY <1>4, <1>t DEF WaitOne, TakeResult, DrainInv, TypeOK
<1>5. CASE Destroy
  BY <1>5, <1>t DEF Destroy, DrainInv, TypeOK
<1>6. CASE DestroyNotify
  BY <1>6, <1>t DEF DestroyNotify, NotifyAllJobs, Waiting, DrainInv, TypeOK
<1>7. CASE DestroyJoin
  BY <1>7, <1>t DEF DestroyJoin, DrainInv, TypeOK
<1>8. ASSUME NEW w \in Workers, WorkerStep(w) PROVE DrainInv'
  <2>1. CASE WorkerWait(w)
    BY <2>1, <1>t DEF WorkerWait, DrainInv, TypeOK
  <2>2. CASE WorkerExit(w)
    BY <2>2, <1>t DEF WorkerExit, MayExit, DrainInv, TypeOK
  <2>3. CASE WorkerTake(w)
    BY <2>3, <1>t DEF WorkerTake, DrainInv, TypeOK
  <2>4. CASE WorkerPush(w)
    BY <2>4, <1>t DEF WorkerPush, DrainInv, TypeOK
  <2>5. CASE WorkerNotify(w)
    BY <2>5, <1>t DEF WorkerNotify, NotifyOneResult, DrainInv, TypeOK
  <2> QED BY <1>8, <2>1, <2>2, <2>3, <2>4, <2>5 DEF WorkerStep
<1>9. ASSUME NEW w \in Workers, WorkerReturn(w) PROVE DrainInv'
  BY <1>9, <1>t DEF WorkerReturn, DrainInv, TypeOK
<1>10. CASE SpuriousWake
  BY <1>10, <1>t DEF SpuriousWake, Waiting, DrainInv, TypeOK
<1>11. CASE Ended \/ UNCHANGED vars
  BY <1>11 DEF Ended, DrainInv
<1> QED BY <1>1, <1>2, <1>3, <1>4, <1>5, <1>6, <1>7, <1>8, <1>9, <1>10, <1>11
        DEF Next

(* When ~AsyncSapiBridge returns, every call ever submitted has been       *)
(* answered: the destructor drains the queue and drops nothing.            *)
THEOREM Drains == Spec => []ShutdownDrains
<1>1. Init => DrainInv
  BY DEF Init, DrainInv
<1>2. IInv /\ DrainInv => ShutdownDrains
  <2> SUFFICES ASSUME IInv, DrainInv, cpc = "done"
               PROVE  jobs = <<>> /\ \A i \in 1 .. nextId : Answered(i)
    BY DEF ShutdownDrains
  <2>1. jobs = <<>> /\ \A w \in Workers : wpc[w] = "exit"
    BY WorkersAssumption DEF DrainInv
  <2>2. HeldIds = {}
    BY <2>1 DEF IInv, ExactlyOnePlace, HoldsWhileBusy, HeldIds
  <2>3. Len(jobs) = 0 /\ nextId \in Nat
    BY <2>1 DEF IInv, TypeOK
  <2>4. 1 .. nextId = ResultIds \cup CollectedIds
    BY <2>2, <2>3 DEF IInv, ExactlyOnePlace, NothingLost
  <2> QED BY <2>1, <2>4 DEF Answered
<1> QED BY <1>1, <1>2, IInit, IStep, DrainStep, PTL DEF Spec

-----------------------------------------------------------------------------
(* The pool implements the promise of AsyncCalls: with the queues, the     *)
(* workers and the condition variables hidden, the only things a caller    *)
(* can see happen are a fresh id, one answer to it, and its collection.    *)
THEOREM Refinement == Spec => ImplementsAsyncCalls
<1> USE DEF Promise!avars
<1>1. Init => Promise!AInit
  BY DEF Init, Promise!AInit
<1>2. IInv /\ [Next]_vars => [Promise!ANext]_(Promise!avars)
  <2> SUFFICES ASSUME IInv, [Next]_vars
               PROVE  [Promise!ANext]_(Promise!avars)
    OBVIOUS
  <2> DEFINE R == {results[k] : k \in 1 .. Len(results)}
  <2>t. TypeOK /\ ExactlyOnePlace
    BY DEF IInv
  <2>1. ASSUME NEW t \in Topics, Submit(t) PROVE Promise!Issue
    BY <2>1 DEF Submit, Promise!Issue
  <2>2. ASSUME TakeResult, UNCHANGED nextId PROVE Promise!Collect
    <3> DEFINE C == [id : 1 .. nextId, ok : BOOLEAN]
               c == Head(results)
    <3>1. results \in Seq(C) /\ results # <<>> /\ results' = Tail(results)
      BY <2>2, <2>t DEF TakeResult, TypeOK
    <3> HIDE DEF C
    <3>2. /\ c = results[1] /\ Len(results) \in Nat \ {0}
          /\ Len(results') = Len(results) - 1
          /\ \A k \in 1 .. Len(results) - 1 : results'[k] = results[k + 1]
      BY <3>1, SeqPop
    <3>3. \A k \in 2 .. Len(results) : results[k] # c
      BY <3>2, <2>t DEF ExactlyOnePlace, ResultsOnce
    <3> HIDE DEF c
    <3>4. R' = {results[k + 1] : k \in 1 .. Len(results) - 1}
      BY <3>2
    <3>5. R' = R \ {c}
      <4>1. \A k \in 2 .. Len(results) : k - 1 \in 1 .. Len(results) - 1 /\ (k - 1) + 1 = k
        BY <3>2
      <4>2. \A k \in 1 .. Len(results) - 1 : k + 1 \in 2 .. Len(results)
        BY <3>2
      <4>3. R' = {results[k] : k \in 2 .. Len(results)}
        BY <3>4, <4>1, <4>2
      <4>4. R = {results[k] : k \in 2 .. Len(results)} \cup {c}
        BY <3>2
      <4> QED BY <4>3, <4>4, <3>3
    <3>6. c \in R
      BY <3>2
    <3>7. collected' = collected \cup {c}
      BY <2>2 DEF TakeResult, c
    <3> QED BY <3>5, <3>6, <3>7, <2>2 DEF Promise!Collect
  <2>3. ASSUME NEW w \in Workers, WorkerPush(w) PROVE Promise!Answer
    <3> DEFINE C == [id : 1 .. nextId, ok : BOOLEAN]
               c == [id |-> hold[w], ok |-> good[w]]
    <3>1. hold[w] \in 1 .. nextId /\ good[w] \in BOOLEAN
      BY <2>3, <2>t DEF WorkerPush, TypeOK, ExactlyOnePlace, HoldsWhileBusy
    <3>2. results' = Append(results, c) /\ UNCHANGED <<nextId, collected>>
      BY <2>3 DEF WorkerPush, PushBack
    <3>3. c \in C /\ results \in Seq(C)
      BY <3>1, <2>t DEF TypeOK
    <3> HIDE DEF c, C
    <3>4. /\ Len(results) \in Nat /\ Len(results') = Len(results) + 1
          /\ \A k \in 1 .. Len(results) : results'[k] = results[k]
          /\ results'[Len(results) + 1] = c
      BY <3>2, <3>3, SeqPush
    <3>5. R' = R \cup {c}
      BY <3>4
    <3>6. hold[w] \notin Promise!Ids(R) \cup Promise!Ids(collected)
      <4>1. hold[w] \notin ResultIds \cup CollectedIds
        BY <2>t DEF ExactlyOnePlace, HeldOnce, Answered
      <4> QED BY <4>1 DEF ResultIds, CollectedIds, Promise!Ids
    <3>7. hold[w] \in Promise!Unanswered
      BY <3>1, <3>6 DEF Promise!Unanswered
    <3> QED BY <3>1, <3>2, <3>5, <3>7 DEF Promise!Answer, c
  <2>4. ASSUME UNCHANGED <<nextId, results, collected>>
        PROVE  UNCHANGED Promise!avars
    BY <2>4
  <2>5. CASE PollOne
    BY <2>5, <2>2 DEF PollOne, Promise!ANext
  <2>6. CASE WaitOne
    BY <2>6, <2>2, <2>4 DEF WaitOne, Promise!ANext
  <2>7. CASE \/ SubmitNotify \/ Destroy \/ DestroyNotify \/ DestroyJoin
             \/ SpuriousWake \/ Ended \/ UNCHANGED vars
    BY <2>7, <2>4 DEF SubmitNotify, Destroy, DestroyNotify, DestroyJoin, SpuriousWake, Ended
  <2>8. ASSUME NEW w \in Workers, WorkerStep(w) \/ WorkerReturn(w), ~WorkerPush(w)
        PROVE  UNCHANGED Promise!avars
    BY <2>8, <2>4
       DEF WorkerStep, WorkerReturn, WorkerWait, WorkerExit, WorkerTake, WorkerNotify
  <2> QED BY <2>1, <2>3, <2>5, <2>6, <2>7, <2>8 DEF Next, Promise!ANext
<1> QED BY <1>1, <1>2, IInit, IStep, PTL DEF Spec, ImplementsAsyncCalls, Promise!ASpec
=============================================================================

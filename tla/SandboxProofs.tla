--------------------------- MODULE SandboxProofs ---------------------------
(***************************************************************************)
(* Proofs about Sandbox, for both backends, every bound on the processes   *)
(* and both habits of the program.                                         *)
(***************************************************************************)
EXTENDS Sandbox, TLAPS

USE DEF vars

TypeOK ==
    /\ spawned \in 0 .. MaxSpawns
    /\ main \in [Children -> {"none", "suspended", "running"} \cup Ended]
    /\ kids \in [Children -> BOOLEAN]
    /\ pc \in {"idle", "assign", "waiting", "destroyed"}
    /\ pid_ \in 0 .. spawned
    /\ job_ \in 0 .. spawned
    /\ process_ \in 0 .. spawned
    /\ sp \in 0 .. spawned
    /\ result \in {"unset", "setup", "ok", "signaled", "timeout", "internal", "killed"}
    /\ started_ \in BOOLEAN
    /\ stranger \in [Children -> BOOLEAN]
    /\ shot \subseteq Children

(* Where the object is in its protocol.  AwaitResult owns the process      *)
(* only while it waits, RunAsync is between CreateProcess and the job only *)
(* on Windows, and a destroyed object holds nothing.                       *)
Protocol ==
    /\ started_ <=> pid_ # 0
    /\ sp # 0 <=> pc = "waiting"
    /\ pc = "waiting" => sp = pid_ /\ job_ = 0 /\ result = "unset"
    /\ pc = "assign" => Windows /\ spawned # 0
    /\ pc = "destroyed" => job_ = 0 /\ ~(started_ /\ result = "unset")
    /\ result \in {"ok", "signaled", "timeout", "internal"} => started_

(* As long as no result is set, the object holds what Kill needs: the      *)
(* process and its job, or the pid of a process nobody has waited for.     *)
HoldsUnset ==
    started_ /\ result = "unset" /\ pc # "waiting" =>
        IF Windows THEN process_ = pid_ /\ job_ = pid_ ELSE main[pid_] # "reaped"

(* Numbers above spawned are processes still to come; a pid is free for    *)
(* others only after waitpid, which Windows never calls.                   *)
Pids ==
    /\ \A c \in Children : c > spawned => main[c] = "none"
    /\ \A c \in Children : stranger[c] => main[c] = "reaped"
    /\ Windows => \A c \in Children : main[c] # "reaped"

IInv ==
    /\ TypeOK /\ Protocol /\ HoldsUnset /\ Pids
    /\ AliveIsHeld /\ AwaitedIsGone /\ KilledIsDead /\ NoStrangerShot

(* An object that was destroyed leaves nothing alive behind on Windows.    *)
NothingOutlives ==
    Windows /\ pc = "destroyed" => \A c \in Children : ~Alive(c)

LEMMA IInit == Init => IInv
<1> SUFFICES ASSUME Init PROVE IInv
  OBVIOUS
<1>1. TypeOK
  <2>1. spawned \in 0 .. MaxSpawns /\ {pid_, job_, process_, sp} = {0} /\ 0 \in 0 .. spawned
    BY SpawnsBound DEF Init
  <2>2. main \in [Children -> {"none"}] /\ kids \in [Children -> BOOLEAN]
    BY DEF Init
  <2> QED BY <2>1, <2>2 DEF Init, TypeOK
<1>2. Protocol /\ HoldsUnset /\ Pids
  BY DEF Init, Protocol, HoldsUnset, Pids
<1>3. AliveIsHeld /\ AwaitedIsGone /\ KilledIsDead /\ NoStrangerShot
  BY DEF Init, AliveIsHeld, AwaitedIsGone, KilledIsDead, NoStrangerShot, Alive, Running
<1> QED BY <1>1, <1>2, <1>3 DEF IInv

(* Every call of the object and every step of a process keeps it.          *)
LEMMA IStep == IInv /\ [Next]_vars => IInv'
<1> SUFFICES ASSUME IInv, [Next]_vars PROVE IInv'
  OBVIOUS
<1> USE SpawnsBound DEF Children, Ended, Running, Alive
<1>w. Windows' = Windows /\ PoliteKill' = PoliteKill
  BY DEF Next, Windows, PoliteKill
<1>0. /\ TypeOK /\ Protocol /\ HoldsUnset /\ Pids
      /\ AliveIsHeld /\ AwaitedIsGone /\ KilledIsDead /\ NoStrangerShot
  BY DEF IInv
<1> USE <1>w, <1>0
<1>1. CASE RunAsyncFails \/ AwaitNotStarted
  <2>1. TypeOK'
    BY <1>1 DEF RunAsyncFails, AwaitNotStarted, TypeOK
  <2>4. Protocol'
    BY <1>1 DEF RunAsyncFails, AwaitNotStarted, Protocol
  <2>2. HoldsUnset' /\ Pids'
    BY <1>1 DEF RunAsyncFails, AwaitNotStarted, HoldsUnset, Pids
  <2>3. AliveIsHeld' /\ AwaitedIsGone' /\ KilledIsDead' /\ NoStrangerShot'
    BY <1>1 DEF RunAsyncFails, AwaitNotStarted, AliveIsHeld, AwaitedIsGone, KilledIsDead, NoStrangerShot
  <2> QED BY <2>1, <2>2, <2>3, <2>4 DEF IInv
<1>2. CASE SpawnPosix
  <2>1. /\ pc = "idle" /\ ~Windows /\ spawned < MaxSpawns /\ spawned' = spawned + 1
        /\ main' = [main EXCEPT ![spawned + 1] = "running"]
        /\ process_' = 0 /\ pid_' = spawned + 1 /\ started_' = TRUE /\ result' = "unset"
        /\ pc' = "idle" /\ UNCHANGED <<job_, kids, sp, stranger, shot>>
    BY <1>2 DEF SpawnPosix, Adopt, AdoptJob
  <2>2. spawned + 1 \in Children /\ main[spawned + 1] = "none"
    BY <2>1 DEF TypeOK, Pids
  <2>3. TypeOK'
    BY <2>1, <2>2 DEF TypeOK
  <2>4. Protocol'
    BY <2>1 DEF TypeOK, Protocol
  <2>5. HoldsUnset' /\ Pids'
    BY <2>1, <2>2 DEF TypeOK, HoldsUnset, Pids
  <2>6. AliveIsHeld' /\ AwaitedIsGone' /\ KilledIsDead' /\ NoStrangerShot'
    BY <2>1 DEF AliveIsHeld, AwaitedIsGone, KilledIsDead, NoStrangerShot
  <2> QED BY <2>3, <2>4, <2>5, <2>6 DEF IInv
<1>3. CASE SpawnWindows
  <2>1. /\ pc = "idle" /\ Windows /\ spawned < MaxSpawns /\ spawned' = spawned + 1
        /\ main' = [main EXCEPT ![spawned + 1] = "suspended"] /\ pc' = "assign"
        /\ UNCHANGED <<kids, process_, job_, pid_, result, started_, sp, stranger, shot>>
    BY <1>3 DEF SpawnWindows, Created
  <2>2. spawned + 1 \in Children /\ main[spawned + 1] = "none" /\ pid_ # spawned + 1
    BY <2>1 DEF TypeOK, Pids
  <2>3. \A c \in Children : main'[c] = IF c = spawned + 1 THEN "suspended" ELSE main[c]
    BY <2>1 DEF TypeOK
  <2>4. TypeOK'
    BY <2>1, <2>2 DEF TypeOK
  <2>5. Protocol' /\ HoldsUnset'
    BY <2>1, <2>2, <2>3 DEF TypeOK, Protocol, HoldsUnset
  <2>6. Pids'
    BY <2>1, <2>2, <2>3 DEF TypeOK, Pids
  <2>7. AliveIsHeld' /\ NoStrangerShot'
    BY <2>1, <2>3 DEF AliveIsHeld, NoStrangerShot
  <2>8. AwaitedIsGone' /\ KilledIsDead'
    BY <2>1, <2>2, <2>3 DEF AwaitedIsGone, KilledIsDead, Protocol, TypeOK
  <2> QED BY <2>4, <2>5, <2>6, <2>7, <2>8 DEF IInv
<1>4. CASE Assign
  <2>1. /\ pc = "assign" /\ Windows /\ job_' = spawned
        /\ \A d \in Children : kids'[d] = (kids[d] /\ d # job_)
        /\ process_' = spawned /\ pid_' = spawned /\ started_' = TRUE /\ result' = "unset"
        /\ pc' = "idle" /\ UNCHANGED <<spawned, sp, stranger, shot>>
    BY <1>4 DEF Assign, Adopt, AdoptJob, Protocol
  <2>2. spawned \in Children /\ sp = 0
    BY <2>1 DEF TypeOK, Protocol
  <2>3. /\ main' \in [Children -> {"none", "suspended", "running"} \cup Ended]
        /\ kids' \in [Children -> BOOLEAN]
        /\ main'[spawned] = "running"
        /\ \A d \in Children : d # spawned =>
               main'[d] = IF d = job_ /\ main[d] = "running" THEN "exited" ELSE main[d]
    BY <1>4, <2>1, <2>2 DEF Assign, Adopt, AdoptJob, TypeOK
  <2>4. TypeOK'
    BY <2>1, <2>2, <2>3 DEF TypeOK
  <2>5. Protocol' /\ HoldsUnset'
    BY <2>1, <2>2 DEF Protocol, HoldsUnset
  <2>6. Pids'
    BY <2>1, <2>2, <2>3 DEF TypeOK, Pids
  <2>7. AliveIsHeld'
    BY <2>1, <2>2, <2>3 DEF AliveIsHeld
  <2>8. AwaitedIsGone' /\ KilledIsDead' /\ NoStrangerShot'
    BY <2>1 DEF AwaitedIsGone, KilledIsDead, NoStrangerShot
  <2> QED BY <2>4, <2>5, <2>6, <2>7, <2>8 DEF IInv
<1>5. CASE AssignFails
  <2>1. /\ pc = "assign" /\ main' = [main EXCEPT ![spawned] = "exited"]
        /\ result' = "setup" /\ pc' = "idle"
        /\ UNCHANGED <<spawned, kids, process_, job_, pid_, started_, sp, stranger, shot>>
    BY <1>5 DEF AssignFails
  <2>2. spawned \in Children /\ Windows
    BY <2>1 DEF TypeOK, Protocol
  <2>3. \A c \in Children : main'[c] = IF c = spawned THEN "exited" ELSE main[c]
    BY <2>1 DEF TypeOK
  <2>4. TypeOK'
    BY <2>1, <2>2 DEF TypeOK
  <2>5. Protocol' /\ HoldsUnset'
    BY <2>1, <2>2, <2>3 DEF TypeOK, Protocol, HoldsUnset
  <2>6. Pids'
    BY <2>1, <2>2, <2>3 DEF TypeOK, Pids
  <2>7. AliveIsHeld' /\ AwaitedIsGone' /\ KilledIsDead' /\ NoStrangerShot'
    BY <2>1, <2>3 DEF AliveIsHeld, AwaitedIsGone, KilledIsDead, NoStrangerShot
  <2> QED BY <2>4, <2>5, <2>6, <2>7 DEF IInv
<1>6. CASE AwaitEnter
  <2>1. TypeOK' /\ Protocol'
    BY <1>6 DEF AwaitEnter, TypeOK, Protocol
  <2>2. HoldsUnset' /\ Pids'
    BY <1>6 DEF AwaitEnter, HoldsUnset, Pids
  <2>3. AliveIsHeld'
    BY <1>6 DEF AwaitEnter, AliveIsHeld, HoldsUnset, Protocol
  <2>4. AwaitedIsGone' /\ KilledIsDead' /\ NoStrangerShot'
    BY <1>6 DEF AwaitEnter, AwaitedIsGone, KilledIsDead, NoStrangerShot
  <2> QED BY <2>1, <2>2, <2>3, <2>4 DEF IInv
<1>7. ASSUME NEW r \in {"ok", "signaled", "timeout", "internal"}, pc = "waiting", AwaitLeave(r)
      PROVE  IInv'
  <2>1. /\ result' = r /\ pc' = "idle" /\ sp' = 0 /\ sp = pid_ /\ sp \in Children /\ job_ = 0
        /\ UNCHANGED <<spawned, process_, job_, pid_, started_, stranger, shot>> /\ started_
    BY <1>7 DEF AwaitLeave, TypeOK, Protocol
  <2>2. \A c \in Children :
            /\ main'[c] # main[c] => c = sp /\ main'[c] = IF Windows THEN "exited" ELSE "reaped"
            /\ Windows /\ c = sp => main'[c] # "running" /\ ~kids'[c]
            /\ kids'[c] => kids[c]
    BY <1>7, <2>1 DEF AwaitLeave, CloseJob, TypeOK
  <2>3. /\ main' \in [Children -> {"none", "suspended", "running"} \cup Ended]
        /\ kids' \in [Children -> BOOLEAN]
    BY <1>7, <2>1 DEF AwaitLeave, CloseJob, TypeOK
  <2>4. TypeOK' /\ Protocol'
    BY <2>1, <2>3 DEF TypeOK, Protocol
  <2>5. HoldsUnset' /\ Pids'
    BY <2>1, <2>2 DEF TypeOK, HoldsUnset, Pids
  <2>6. AliveIsHeld'
    BY <2>1, <2>2 DEF AliveIsHeld
  <2>7. AwaitedIsGone' /\ KilledIsDead' /\ NoStrangerShot'
    BY <2>1, <2>2 DEF AwaitedIsGone, KilledIsDead, NoStrangerShot
  <2> QED BY <2>4, <2>5, <2>6, <2>7 DEF IInv
<1>8. CASE Kill
  <2>1. /\ pc = "idle" /\ (PoliteKill => result = "unset")
        /\ result' = IF result = "unset" THEN "killed" ELSE result
        /\ UNCHANGED <<kids, spawned, pc, process_, job_, pid_, started_, sp, stranger>>
    BY <1>8 DEF Kill, OsKill
  <2>2. /\ main' \in [Children -> {"none", "suspended", "running"} \cup Ended]
        /\ \A c \in Children : main'[c] =
               IF c = Struck /\ main[c] = "running"
               THEN IF Windows THEN "exited" ELSE "signaled"
               ELSE main[c]
        /\ shot' = shot \cup {c \in Children : c = Struck /\ stranger[c]}
    BY <1>8 DEF Kill, OsKill, TypeOK
  <2>3. result = "unset" /\ started_ => Struck = pid_
    BY <2>1 DEF HoldsUnset, Struck
  <2>4. TypeOK' /\ Protocol'
    BY <2>1, <2>2 DEF TypeOK, Protocol
  <2>5. HoldsUnset' /\ Pids'
    BY <2>1, <2>2 DEF TypeOK, HoldsUnset, Pids
  <2>6. AliveIsHeld' /\ AwaitedIsGone'
    BY <2>1, <2>2 DEF AliveIsHeld, AwaitedIsGone, TypeOK, Protocol
  <2>7. KilledIsDead'
    BY <2>1, <2>2, <2>3 DEF KilledIsDead, TypeOK, Protocol
  <2>8. NoStrangerShot'
    <3>1. ASSUME PoliteKill, NEW c \in Children, c = Struck, stranger[c] PROVE FALSE
      <4>1. main[c] = "reaped" /\ ~Windows /\ c = pid_
        BY <3>1 DEF Pids, Struck
      <4>2. started_ /\ result = "unset"
        BY <2>1, <3>1, <4>1 DEF Protocol
      <4> QED BY <2>1, <4>1, <4>2 DEF HoldsUnset
    <3> QED BY <2>2, <3>1 DEF NoStrangerShot
  <2> QED BY <2>4, <2>5, <2>6, <2>7, <2>8 DEF IInv
<1>9. CASE Destroy
  <2>1. /\ pc = "idle" /\ pc' = "destroyed" /\ process_' = 0 /\ job_' = 0
        /\ result' = IF started_ /\ result = "unset" THEN "killed" ELSE result
        /\ UNCHANGED <<spawned, pid_, started_, sp, stranger>>
    BY <1>9 DEF Destroy, DestroyKills
  <2>2. /\ main' \in [Children -> {"none", "suspended", "running"} \cup Ended]
        /\ kids' \in [Children -> BOOLEAN]
        /\ \A c \in Children : kids'[c] = (kids[c] /\ c # job_)
        /\ \A c \in Children : main'[c] =
               IF main[c] = "running" /\ ((started_ /\ result = "unset" /\ c = Struck) \/ c = job_)
               THEN IF Windows THEN "exited" ELSE "signaled"
               ELSE main[c]
        /\ shot' = shot \cup {c \in Children :
                                 started_ /\ result = "unset" /\ c = Struck /\ stranger[c]}
    BY <1>9 DEF Destroy, DestroyKills, TypeOK
  <2>3. result = "unset" /\ started_ => Struck = pid_
    BY <2>1 DEF HoldsUnset, Struck
  <2>4. TypeOK' /\ Protocol'
    BY <2>1, <2>2 DEF TypeOK, Protocol
  <2>5. HoldsUnset' /\ Pids'
    BY <2>1, <2>2 DEF TypeOK, HoldsUnset, Pids
  <2>6. AliveIsHeld' /\ AwaitedIsGone'
    <3>1. \A c \in Children : Alive(c)' => Alive(c) /\ c # job_
      BY <2>2
    <3>2. sp = 0 /\ (result' \in {"ok", "timeout", "internal"} => result' = result /\ pid_ \in Children)
      BY <2>1 DEF TypeOK, Protocol
    <3>3. AliveIsHeld'
      BY <2>1, <3>1, <3>2 DEF AliveIsHeld
    <3>4. AwaitedIsGone'
      BY <2>1, <3>1, <3>2 DEF AwaitedIsGone
    <3> QED BY <3>3, <3>4
  <2>7. KilledIsDead'
    BY <2>1, <2>2, <2>3 DEF KilledIsDead, TypeOK, Protocol
  <2>8. NoStrangerShot'
    BY <2>1, <2>2, <2>3 DEF NoStrangerShot, TypeOK, Protocol, HoldsUnset, Pids
  <2> QED BY <2>4, <2>5, <2>6, <2>7, <2>8 DEF IInv
<1>10. ASSUME NEW c \in Children, ChildEnds(c) PROVE IInv'
  <2>1. /\ main[c] = "running"
        /\ UNCHANGED <<spawned, kids, pc, process_, job_, pid_, result, started_, sp,
                       stranger, shot>>
    BY <1>10 DEF ChildEnds
  <2>2. /\ main' \in [Children -> {"none", "suspended", "running"} \cup Ended]
        /\ main'[c] \in {"exited", "signaled"}
        /\ \A d \in Children : d # c => main'[d] = main[d]
    BY <1>10 DEF ChildEnds, TypeOK
  <2>3. TypeOK' /\ Protocol'
    BY <2>1, <2>2 DEF TypeOK, Protocol
  <2>4. HoldsUnset' /\ Pids'
    BY <2>1, <2>2 DEF TypeOK, Protocol, HoldsUnset, Pids
  <2>5. AliveIsHeld' /\ AwaitedIsGone' /\ KilledIsDead' /\ NoStrangerShot'
    BY <2>1, <2>2 DEF AliveIsHeld, AwaitedIsGone, KilledIsDead, NoStrangerShot, TypeOK, Protocol
  <2> QED BY <2>3, <2>4, <2>5 DEF IInv
<1>11. ASSUME NEW c \in Children, ChildForks(c) \/ KidsEnd(c) PROVE IInv'
  <2>1. UNCHANGED <<spawned, main, pc, process_, job_, pid_, result, started_, sp,
                    stranger, shot>>
    BY <1>11 DEF ChildForks, KidsEnd
  <2>2. /\ kids' \in [Children -> BOOLEAN]
        /\ \A d \in Children : kids'[d] => Alive(d)
    BY <1>11 DEF ChildForks, KidsEnd, TypeOK
  <2>3. TypeOK' /\ Protocol'
    BY <2>1, <2>2 DEF TypeOK, Protocol
  <2>4. HoldsUnset' /\ Pids'
    BY <2>1 DEF HoldsUnset, Pids
  <2>5. AliveIsHeld' /\ AwaitedIsGone' /\ KilledIsDead' /\ NoStrangerShot'
    BY <2>1, <2>2 DEF AliveIsHeld, AwaitedIsGone, KilledIsDead, NoStrangerShot, TypeOK, Protocol
  <2> QED BY <2>3, <2>4, <2>5 DEF IInv
<1>12. ASSUME NEW c \in Children, PidReused(c) PROVE IInv'
  <2>1. TypeOK' /\ Protocol'
    BY <1>12 DEF PidReused, TypeOK, Protocol
  <2>2. HoldsUnset' /\ Pids'
    BY <1>12 DEF PidReused, TypeOK, HoldsUnset, Pids
  <2>3. AliveIsHeld' /\ AwaitedIsGone' /\ KilledIsDead' /\ NoStrangerShot'
    BY <1>12 DEF PidReused, AliveIsHeld, AwaitedIsGone, KilledIsDead, NoStrangerShot
  <2> QED BY <2>1, <2>2, <2>3 DEF IInv
<1>13. CASE UNCHANGED vars
  <2>1. TypeOK' /\ Protocol' /\ HoldsUnset' /\ Pids'
    BY <1>13 DEF TypeOK, Protocol, HoldsUnset, Pids
  <2>2. AliveIsHeld' /\ AwaitedIsGone' /\ KilledIsDead' /\ NoStrangerShot'
    BY <1>13 DEF AliveIsHeld, AwaitedIsGone, KilledIsDead, NoStrangerShot
  <2> QED BY <2>1, <2>2 DEF IInv
<1>14. CASE WaitEnded \/ WaitTimeout \/ WaitFails
  BY <1>7, <1>14 DEF WaitEnded, WaitTimeout, WaitFails
<1> QED BY <1>1, <1>2, <1>3, <1>4, <1>5, <1>6, <1>8, <1>9, <1>10, <1>11, <1>12, <1>13, <1>14
        DEF Next, Step

LEMMA Invariance == Spec => []IInv
BY IInit, IStep, PTL DEF Spec

(* The fields keep their types; pid_, job_ and process_ only name          *)
(* processes that Spawn has created.                                       *)
THEOREM TypeCorrect == Spec => []TypeOK
<1>1. IInv => TypeOK
  BY DEF IInv
<1> QED BY <1>1, Invariance, PTL

(* Windows: the Sandbox holds the last handle of every job with something  *)
(* alive in it, through every failing spawn, await, kill and rerun.        *)
THEOREM Held == Spec => []AliveIsHeld
<1>1. IInv => AliveIsHeld
  BY DEF IInv
<1> QED BY <1>1, Invariance, PTL

(* Windows: so ~Sandbox ends everything that was started in it.            *)
THEOREM Outlived == Spec => []NothingOutlives
<1>1. IInv => NothingOutlives
  BY DEF IInv, NothingOutlives, AliveIsHeld, Protocol, Children
<1> QED BY <1>1, Invariance, PTL

(* Windows: AwaitResult leaves neither the process nor a descendant of it  *)
(* alive, whether it ended, timed out or could not be waited for.          *)
THEOREM Gone == Spec => []AwaitedIsGone
<1>1. IInv => AwaitedIsGone
  BY DEF IInv
<1> QED BY <1>1, Invariance, PTL

(* EXTERNAL_KILL is never reported of a process that still runs.           *)
THEOREM Dead == Spec => []KilledIsDead
<1>1. IInv => KilledIsDead
  BY DEF IInv
<1> QED BY <1>1, Invariance, PTL

(* A program that does not call Kill() after the end never has a recycled  *)
(* pid signalled, by Kill() or by the destructor.                          *)
THEOREM Unshot == Spec => []NoStrangerShot
<1>1. IInv => NoStrangerShot
  BY DEF IInv
<1> QED BY <1>1, Invariance, PTL
=============================================================================

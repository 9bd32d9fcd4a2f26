------------------------------ MODULE Sandbox ------------------------------
(***************************************************************************)
(* w2g::s2::Sandbox (src/s2/sandbox.cc) over the two process backends      *)
(* (src/s2/os_win.cc, os_posix.cc): which processes are alive, and who     *)
(* still holds what it takes to stop them.  One Sandbox object, called     *)
(* from one thread (the class has no lock); the processes run by           *)
(* themselves.  Spawn's command line, environment and rlimits are data     *)
(* nothing here depends on.                                                *)
(***************************************************************************)
EXTENDS Naturals

CONSTANTS
    Backends,    \* the backends looked at: of {"windows", "posix"}
    AllowSpawn,  \* Policy::allow_spawn()
    PoliteKills, \* of BOOLEAN: does the program call Kill() only while
                 \* ~IsTerminated()
    MaxSpawns    \* bound: processes spawned in a behaviour

ASSUME BackendAssumption == Backends \subseteq {"windows", "posix"}
ASSUME BooleanAssumption ==
    AllowSpawn \in BOOLEAN /\ PoliteKills \subseteq BOOLEAN
ASSUME SpawnsBound == MaxSpawns \in Nat

VARIABLES
    setting,   \* the backend built in and the program's habit; never changes
    spawned,   \* how many processes were created; they are 1 .. spawned
    main,      \* the sandboxee itself
    kids,      \* it has descendants that are alive
    pc,        \* where the Sandbox is: "idle", "assign", "waiting", "destroyed"
    process_, job_, pid_, result, started_,   \* the object's fields
    sp,        \* AwaitResult's local Spawned: the process it waits for
    stranger,  \* the OS gave the process's pid to a process of somebody else
    shot       \* history: strangers a Kill() has hit

vars == <<setting, spawned, main, kids, pc, process_, job_, pid_, result, started_, sp,
          stranger, shot>>

Windows == setting.backend = "windows"
PoliteKill == setting.polite
Children == 1 .. MaxSpawns
Ended == {"exited", "signaled", "reaped"}
Running(c) == main[c] = "running"
Alive(c) == Running(c) \/ kids[c]

Init ==
    /\ setting \in [backend : Backends, polite : PoliteKills]
    /\ spawned = 0
    /\ main = [c \in Children |-> "none"]
    /\ kids = [c \in Children |-> FALSE]
    /\ pc = "idle"
    /\ process_ = 0 /\ job_ = 0 /\ pid_ = 0 /\ sp = 0
    /\ result = "unset"
    /\ started_ = FALSE
    /\ stranger = [c \in Children |-> FALSE]
    /\ shot = {}

-----------------------------------------------------------------------------
(* What system calls do to processes.                                      *)

(* The last handle of job j is closed: KILL_ON_JOB_CLOSE ends all in it.   *)
(* j = 0, an invalid Handle, is no job.  Mutant: the flag is not set.      *)
CloseJobPlain(j) == UNCHANGED <<main, kids>>
CloseJob(j) ==
    /\ main' = [c \in Children |-> IF c = j /\ Running(c) THEN "exited" ELSE main[c]]
    /\ kids' = [c \in Children |-> kids[c] /\ c # j]

(* os::Kill: TerminateProcess on the handle, or SIGKILL to the pid - of    *)
(* which only the OS knows whose it is now.  Mutant: the handle is looked  *)
(* for where AwaitResult left it.                                          *)
StruckMoved == sp
Struck == IF Windows THEN process_ ELSE pid_
OsKill ==
    /\ main' = [c \in Children |->
                   IF c = Struck /\ Running(c)
                   THEN IF Windows THEN "exited" ELSE "signaled"
                   ELSE main[c]]
    /\ shot' = shot \cup {c \in Children : c = Struck /\ stranger[c]}
    /\ UNCHANGED kids

-----------------------------------------------------------------------------
(* RunAsync.                                                               *)

(* An early return (nil, compiled out, ABAC deny) or Spawn failing before  *)
(* there is a process: only result_ is written.                            *)
RunAsyncFails ==
    /\ pc = "idle"
    /\ result' = "setup"
    /\ UNCHANGED <<spawned, main, kids, pc, process_, job_, pid_, started_, sp,
                   stranger, shot>>

(* The tail of RunAsync, for process c: taking over the new handles closes *)
(* the old ones.                                                           *)
AdoptJob(c) ==
    IF Windows
    THEN /\ job_' = c
         /\ main' = [d \in Children |->
                        CASE d = c -> "running"
                          [] d # c /\ d = job_ /\ Running(d) -> "exited"
                          [] OTHER -> main[d]]
         /\ kids' = [d \in Children |-> kids[d] /\ d # job_]
    ELSE /\ main' = [main EXCEPT ![c] = "running"]
         /\ UNCHANGED <<job_, kids>>

Adopt(c) ==
    /\ AdoptJob(c)
    /\ process_' = IF Windows THEN c ELSE 0
    /\ pid_' = c
    /\ started_' = TRUE
    /\ result' = "unset"
    /\ pc' = "idle"

(* fork: the child may run at once.                                        *)
SpawnPosix ==
    /\ pc = "idle" /\ ~Windows
    /\ spawned < MaxSpawns
    /\ spawned' = spawned + 1
    /\ Adopt(spawned + 1)
    /\ UNCHANGED <<sp, stranger, shot>>

(* CreateProcess with CREATE_SUSPENDED.  Mutant: without.                  *)
CreatedRunning == "running"
Created == "suspended"
SpawnWindows ==
    /\ pc = "idle" /\ Windows
    /\ spawned < MaxSpawns
    /\ spawned' = spawned + 1
    /\ main' = [main EXCEPT ![spawned + 1] = Created]
    /\ pc' = "assign"
    /\ UNCHANGED <<kids, process_, job_, pid_, result, started_, sp, stranger, shot>>

(* AssignProcessToJobObject, then ResumeThread and back in RunAsync.       *)
Assign ==
    /\ pc = "assign"
    /\ Adopt(spawned)
    /\ UNCHANGED <<spawned, sp, stranger, shot>>

(* The assignment fails: TerminateProcess and a setup error.               *)
AssignFails ==
    /\ pc = "assign"
    /\ main' = [main EXCEPT ![spawned] = "exited"]
    /\ result' = "setup"
    /\ pc' = "idle"
    /\ UNCHANGED <<spawned, kids, process_, job_, pid_, started_, sp, stranger, shot>>

-----------------------------------------------------------------------------
(* AwaitResult.  With a result already set it returns that and changes     *)
(* nothing.                                                                *)

AwaitNotStarted ==
    /\ pc = "idle" /\ result = "unset" /\ ~started_
    /\ result' = "setup"
    /\ UNCHANGED <<spawned, main, kids, pc, process_, job_, pid_, started_, sp,
                   stranger, shot>>

(* process_ and job_ move into the local sp.                               *)
AwaitEnter ==
    /\ pc = "idle" /\ result = "unset" /\ started_
    /\ sp' = pid_
    /\ process_' = 0 /\ job_' = 0
    /\ pc' = "waiting"
    /\ UNCHANGED <<spawned, main, kids, pid_, result, started_, stranger, shot>>

(* os::Wait comes back with r and sp goes out of scope: on Windows its job *)
(* handle was the last one.                                                *)
AwaitLeave(r) ==
    /\ result' = r /\ pc' = "idle" /\ sp' = 0
    /\ IF Windows THEN CloseJob(sp)
       ELSE /\ main' = IF r \in {"ok", "signaled"} THEN [main EXCEPT ![sp] = "reaped"]
                                                   ELSE main
            /\ UNCHANGED kids
    /\ UNCHANGED <<spawned, process_, job_, pid_, started_, stranger, shot>>

(* The process is over: its exit code, or the signal that ended it.        *)
WaitEnded ==
    /\ pc = "waiting" /\ main[sp] \in {"exited", "signaled"}
    /\ AwaitLeave(IF main[sp] = "exited" THEN "ok" ELSE "signaled")

(* wall_ms(), if the program did not set it to 0, is over; the process was *)
(* not when it was last looked at.                                         *)
WaitTimeout ==
    /\ pc = "waiting" /\ Running(sp)
    /\ AwaitLeave("timeout")

(* WaitForSingleObject fails; or, with wall_ms() = 0, waitpid (without     *)
(* WNOHANG) is interrupted.                                                *)
WaitFails ==
    /\ pc = "waiting"
    /\ AwaitLeave("internal")

-----------------------------------------------------------------------------
(* Kill and the destructor.                                                *)

Kill ==
    /\ pc = "idle" /\ (PoliteKill => result = "unset")
    /\ OsKill
    /\ result' = IF result = "unset" THEN "killed" ELSE result
    /\ UNCHANGED <<spawned, pc, process_, job_, pid_, started_, sp, stranger>>

(* ~Sandbox, whether it has to Kill() first.  Mutant: it always does.      *)
DestroyAlwaysKills == TRUE
DestroyKills == started_ /\ result = "unset"

(* Then the members go: the last handle of the job in job_.                *)
Destroy ==
    /\ pc = "idle"
    /\ pc' = "destroyed"
    /\ LET struck(c) == DestroyKills /\ c = Struck
       IN /\ main' = [c \in Children |->
                         IF Running(c) /\ (struck(c) \/ c = job_)
                         THEN IF Windows THEN "exited" ELSE "signaled"
                         ELSE main[c]]
          /\ kids' = [c \in Children |-> kids[c] /\ c # job_]
          /\ shot' = shot \cup {c \in Children : struck(c) /\ stranger[c]}
    /\ process_' = 0 /\ job_' = 0
    /\ result' = IF DestroyKills /\ result = "unset" THEN "killed" ELSE result
    /\ UNCHANGED <<spawned, pid_, started_, sp, stranger>>

-----------------------------------------------------------------------------
(* The processes and the OS.                                               *)

(* A sandboxee ends by itself, or is ended by a limit.                     *)
ChildEnds(c) ==
    /\ Running(c)
    /\ \E how \in (IF Windows THEN {"exited"} ELSE {"exited", "signaled"}) :
           main' = [main EXCEPT ![c] = how]
    /\ UNCHANGED <<spawned, kids, pc, process_, job_, pid_, result, started_, sp,
                   stranger, shot>>

(* It starts a process of its own: ACTIVE_PROCESS=1 forbids that, and only *)
(* the Windows backend looks at allow_spawn().                             *)
ChildForks(c) ==
    /\ Running(c) /\ ~kids[c]
    /\ Windows => AllowSpawn
    /\ kids' = [kids EXCEPT ![c] = TRUE]
    /\ UNCHANGED <<spawned, main, pc, process_, job_, pid_, result, started_, sp,
                   stranger, shot>>

KidsEnd(c) ==
    /\ kids[c]
    /\ kids' = [kids EXCEPT ![c] = FALSE]
    /\ UNCHANGED <<spawned, main, pc, process_, job_, pid_, result, started_, sp,
                   stranger, shot>>

(* A pid is free for others once its process was waited for.               *)
PidReused(c) ==
    /\ main[c] = "reaped" /\ ~stranger[c]
    /\ stranger' = [stranger EXCEPT ![c] = TRUE]
    /\ UNCHANGED <<spawned, main, kids, pc, process_, job_, pid_, result, started_, sp,
                   shot>>

Step ==
    \/ RunAsyncFails \/ SpawnPosix \/ SpawnWindows \/ Assign \/ AssignFails
    \/ AwaitNotStarted \/ AwaitEnter \/ WaitEnded \/ WaitTimeout \/ WaitFails
    \/ Kill \/ Destroy
    \/ \E c \in Children : ChildEnds(c) \/ ChildForks(c) \/ KidsEnd(c) \/ PidReused(c)

Next == Step /\ UNCHANGED setting

Spec == Init /\ [][Next]_vars

-----------------------------------------------------------------------------
(* Properties.                                                             *)

(* Windows: whatever is alive - the sandboxee or a descendant of it - is   *)
(* in a job whose last handle the Sandbox still holds, so that letting go  *)
(* of the handle ends it.  It follows that nothing outlives the Sandbox.   *)
AliveIsHeld ==
    Windows => \A c \in Children : Alive(c) => c \in {job_, sp}

(* Windows: once AwaitResult has returned (exit, timeout or error), the    *)
(* process it waited for and its descendants are gone.                     *)
AwaitedIsGone ==
    Windows /\ result \in {"ok", "timeout", "internal"} => ~Alive(pid_)

(* Both backends: EXTERNAL_KILL is only reported of a sandboxee that does  *)
(* not run any more.                                                       *)
KilledIsDead ==
    result = "killed" /\ pid_ # 0 => ~Running(pid_)

(* Both backends: as long as the program does not call Kill() after the    *)
(* end, no Kill() - the destructor's included - hits a process the OS has  *)
(* since given the pid to.                                                 *)
NoStrangerShot ==
    PoliteKill => shot = {}

(* docs/security.md, "Enforced": the wall time bounds the child, so that   *)
(* after TIMEOUT it is not running.                                        *)
WallTimeEnforced ==
    result = "timeout" => ~Running(pid_)
=============================================================================

------------------------------ MODULE Opening ------------------------------
(***************************************************************************)
(* The topics that open OS objects (src/sapi/real_win.cc, net_internal.cc, *)
(* tls_win.cc), system call by system call with a failure at each: Dial,   *)
(* ListenProbe, the bind probes, Exec, ExecStart and TlsDial.  What a call *)
(* opens is its own until AllocSocket / AllocProcess / AllocTls hands it   *)
(* to the handle table or the call closes it.  Launching is more: between  *)
(* CreatePipe and CreateProcess the pipe ends are inheritable, and         *)
(* CreateProcessW (bInheritHandles, no handle list) passes on whatever in  *)
(* the whole host process is.                                              *)
(*                                                                         *)
(* Malformed arguments return before anything is opened and are no steps.  *)
(* What becomes of an entry's handle after it was given out is Handles'.   *)
(***************************************************************************)
EXTENDS Naturals, FiniteSets

CONSTANTS
    Workers,       \* threads that run calls
    Topics,        \* \subseteq {"dial", "listen", "probe", "exec", "start", "tls"}
    MaxAddrs,      \* bound: addresses getaddrinfo returns
    MaxCalls,      \* bound: calls in a behaviour
    MaxLaunching   \* launches (Exec or ExecStart) the program overlaps

ASSUME BoundsAssumption ==
    MaxAddrs \in Nat \ {0} /\ MaxCalls \in Nat /\ MaxLaunching \in Nat
ASSUME WorkersAssumption == IsFiniteSet(Workers)
ASSUME TopicsAssumption ==
    Topics \subseteq {"dial", "listen", "probe", "exec", "start", "tls"}

VARIABLES
    calls,    \* calls begun; they are 1 .. calls
    pc,       \* [Workers -> the next system call]
    id,       \* [Workers -> the call it runs, 0 before the first]
    topic,    \* [1 .. MaxCalls -> the call's topic]
    left,     \* [Workers -> addresses ConnectReal has not tried]
    host,     \* objects the host process has open, as <<call, name>>
    sealed,   \* those SetHandleInformation has made not inheritable
    table,    \* calls whose objects the handle table owns
    child     \* [1 .. MaxCalls -> objects the process it started has open]

vars == <<calls, pc, id, topic, left, host, sealed, table, child>>

Calls == 1 .. MaxCalls
Pipes == <<{"outR", "outW"}, {"errR", "errW"}, {"inR", "inW"}>>
ParentEnds == {"outR", "errR", "inW"}
ChildEnds == {"outW", "errW", "inR"}
Inheritable == {"sock", "nul"} \cup ParentEnds \cup ChildEnds

Topic(w) == topic[id[w]]
Own(w, names) == {id[w]} \X names
Busy(c) == \E w \in Workers : id[w] = c /\ pc[w] # "idle"

(* A process is there as long as it holds this one.                        *)
Running(c) == <<c, "self">> \in child[c]

Init ==
    /\ calls = 0
    /\ pc = [w \in Workers |-> "idle"] /\ id = [w \in Workers |-> 0]
    /\ topic = [c \in Calls |-> "none"]
    /\ left = [w \in Workers |-> 0]
    /\ host = {} /\ sealed = {} /\ table = {}
    /\ child = [c \in Calls |-> {}]

(* Worker w makes the call at pc and goes on at to; its call has opened    *)
(* some objects and closed some.                                           *)
Go(w, to, opens, closes) ==
    /\ pc' = [pc EXCEPT ![w] = to]
    /\ host' = (host \cup Own(w, opens)) \ Own(w, closes)
    /\ sealed' = sealed \ Own(w, closes)

Launching == {w \in Workers : pc[w] \in {"pipe1", "pipe2", "pipe3", "seal", "nul", "create"}}

Begin(w, t) ==
    /\ pc[w] = "idle" /\ calls < MaxCalls
    /\ t \in {"exec", "start"} => Cardinality(Launching) < MaxLaunching
    /\ calls' = calls + 1
    /\ id' = [id EXCEPT ![w] = calls + 1]
    /\ topic' = [topic EXCEPT ![calls + 1] = t]
    /\ pc' = [pc EXCEPT ![w] = IF t \in {"exec", "start"} THEN "pipe1" ELSE "resolve"]
    /\ UNCHANGED <<left, host, sealed, table, child>>

-----------------------------------------------------------------------------
(* ConnectReal (Dial, TlsDial) and BindReal (ListenProbe, the probes).     *)

Connects(w) == Topic(w) \in {"dial", "tls"}

(* getaddrinfo.                                                            *)
Resolve(w) ==
    /\ pc[w] = "resolve"
    /\ \/ Go(w, "idle", {}, {}) /\ UNCHANGED left
       \/ /\ Go(w, "socket", {"res"}, {})
          /\ \E n \in (IF Connects(w) THEN 1 .. MaxAddrs ELSE {0}) :
                left' = [left EXCEPT ![w] = n]
    /\ UNCHANGED <<calls, id, topic, table, child>>

(* The loop of ConnectReal, this address having failed.                    *)
NextAddress(w, closes) ==
    /\ left' = [left EXCEPT ![w] = @ - 1]
    /\ IF left[w] > 1 THEN Go(w, "socket", {}, closes)
                      ELSE Go(w, "idle", {}, closes \cup {"res"})

Socket(w) ==
    /\ pc[w] = "socket"
    /\ \/ Go(w, IF Connects(w) THEN "connect" ELSE "bind", {"sock"}, {}) /\ UNCHANGED left
       \/ Connects(w) /\ NextAddress(w, {})
       \/ ~Connects(w) /\ Go(w, "idle", {}, {"res"}) /\ UNCHANGED left
    /\ UNCHANGED <<calls, id, topic, table, child>>

(* Mutant: the socket of an address that failed is forgotten.              *)
ConnectFailsOpen(w) == NextAddress(w, {})
ConnectFails(w) == NextAddress(w, {"sock"})
(* Mutant: success returns without freeaddrinfo.                           *)
ConnectedKeepsList(w) ==
    Go(w, IF Topic(w) = "tls" THEN "credentials" ELSE "alloc", {}, {})
Connected(w) ==
    Go(w, IF Topic(w) = "tls" THEN "credentials" ELSE "alloc", {}, {"res"})
Connect(w) ==
    /\ pc[w] = "connect"
    /\ \/ Connected(w) /\ left' = [left EXCEPT ![w] = 0]
       \/ ConnectFails(w)
    /\ UNCHANGED <<calls, id, topic, table, child>>

Bind(w) ==
    /\ pc[w] = "bind"
    /\ \/ Go(w, "idle", {}, {"res", "sock"})
       \/ Go(w, "listen", {}, {"res"})
    /\ UNCHANGED <<calls, id, topic, left, table, child>>

(* BindReal's keep_open: Tcp/UdpBindProbe only probe.                      *)
KeepOpen(w) == Topic(w) = "listen"

(* listen() for a stream ListenProbe, then keep_open or not.               *)
Listen(w) ==
    /\ pc[w] = "listen"
    /\ \/ Topic(w) = "listen" /\ Go(w, "idle", {}, {"sock"})
       \/ KeepOpen(w) /\ Go(w, "alloc", {}, {})
       \/ ~KeepOpen(w) /\ Go(w, "idle", {}, {"sock"})
    /\ UNCHANGED <<calls, id, topic, left, table, child>>

-----------------------------------------------------------------------------
(* DoHandshake: every failure ends with TlsDial closing the socket.        *)

AcquireCredentials(w) ==
    /\ pc[w] = "credentials"
    /\ \/ Go(w, "idle", {}, {"sock"})
       \/ Go(w, "handshake", {"cred"}, {})
    /\ UNCHANGED <<calls, id, topic, left, table, child>>

(* Rounds of InitializeSecurityContext, the first making the context: it   *)
(* goes on, is refused (or the first one is), loses the connection, or is  *)
(* done.                                                                   *)
Handshake(w) ==
    /\ pc[w] = "handshake"
    /\ \/ Go(w, "handshake", {"ctx"}, {})
       \/ Go(w, "idle", {}, {"sock"})
       \/ Go(w, "sizes", {"ctx"}, {})
    /\ UNCHANGED <<calls, id, topic, left, table, child>>

(* QueryContextAttributes.                                                 *)
StreamSizes(w) ==
    /\ pc[w] = "sizes"
    /\ \/ Go(w, "idle", {}, {"ctx", "sock"})
       \/ Go(w, "alloc", {}, {})
    /\ UNCHANGED <<calls, id, topic, left, table, child>>

-----------------------------------------------------------------------------
(* LaunchProcess (Exec) and LaunchProcessSplit (ExecStart).                *)

(* CreatePipe number n of the call; a failure closes those before it.      *)
CreatePipe(w, n) ==
    /\ pc[w] = <<"pipe1", "pipe2", "pipe3">>[n]
    /\ \/ Go(w, "idle", {}, UNION {Pipes[i] : i \in 1 .. n - 1})
       \/ Go(w, IF Topic(w) = "exec" \/ n = 3 THEN "seal"
                ELSE IF n = 1 THEN "pipe2" ELSE "pipe3", Pipes[n], {})
    /\ UNCHANGED <<calls, id, topic, left, table, child>>

(* SetHandleInformation on the parent's ends.  Mutant: not on stdin's.     *)
SealedReadEnds == ParentEnds \ {"inW"}
Sealed == ParentEnds
Seal(w) ==
    /\ pc[w] = "seal"
    /\ sealed' = sealed \cup (host \cap Own(w, Sealed))
    /\ pc' = [pc EXCEPT ![w] = IF Topic(w) = "exec" THEN "nul" ELSE "create"]
    /\ UNCHANGED <<calls, id, topic, left, host, table, child>>

(* CreateFileW(L"NUL"), whose failure is not looked at.                    *)
OpenNul(w) ==
    /\ pc[w] = "nul"
    /\ \/ Go(w, "create", {"nul"}, {}) \/ Go(w, "create", {}, {})
    /\ UNCHANGED <<calls, id, topic, left, table, child>>

(* The child's ends, which the parent closes after CreateProcess, and NUL. *)
(* Mutant: it keeps the write end of stdout.                               *)
ClosedAfterCreateKeepsOut == {"errW", "inR", "nul"}
ClosedAfterCreate == ChildEnds \cup {"nul"}

(* CreateProcessW, and the closing of the child's ends after it.  ExecStart *)
(* closes the thread handle at once.                                       *)
Inherited == {o \in host \ sealed : o[2] \in Inheritable}
CreateProcess(w) ==
    /\ pc[w] = "create"
    /\ \/ /\ Go(w, "idle", {}, ClosedAfterCreate \cup ParentEnds)
          /\ UNCHANGED child
       \/ /\ IF Topic(w) = "exec"
             THEN Go(w, "read", {"process", "thread"}, ClosedAfterCreate)
             ELSE Go(w, "alloc", {"process"}, ClosedAfterCreate)
          /\ child' = [child EXCEPT ![id[w]] = Inherited \cup {<<id[w], "self">>}]
    /\ UNCHANGED <<calls, id, topic, left, table>>

(* Exec's read loop ends at the end of file - nobody has the write end any *)
(* more - or at kCap, taken to be reached while the process runs.          *)
AtEof(c) == \A held \in {host} \cup {child[d] : d \in Calls} : <<c, "outW">> \notin held
ExecRead(w) ==
    /\ pc[w] = "read"
    /\ AtEof(id[w]) \/ Running(id[w])
    /\ Go(w, "wait", {}, {"outR"})
    /\ UNCHANGED <<calls, id, topic, left, table, child>>

(* WaitForSingleObject, and the last two handles go.                       *)
ExecWaited(w) ==
    /\ pc[w] = "wait" /\ ~Running(id[w])
    /\ Go(w, "idle", {}, {"process", "thread"})
    /\ UNCHANGED <<calls, id, topic, left, table, child>>

-----------------------------------------------------------------------------
(* Alloc*: the table owns the call's objects, and the call returns.        *)
Alloc(w) ==
    /\ pc[w] = "alloc"
    /\ table' = table \cup {id[w]}
    /\ pc' = [pc EXCEPT ![w] = "idle"]
    /\ UNCHANGED <<calls, id, topic, left, host, sealed, child>>

(* Release of an entry, and CloseProcessStdin.                             *)
Release(c) ==
    /\ c \in table
    /\ table' = table \ {c}
    /\ host' = {o \in host : o[1] # c}
    /\ sealed' = {o \in sealed : o[1] # c}
    /\ UNCHANGED <<calls, pc, id, topic, left, child>>

StdinClose(c) ==
    /\ c \in table /\ <<c, "inW">> \in host
    /\ host' = host \ {<<c, "inW">>}
    /\ sealed' = sealed \ {<<c, "inW">>}
    /\ UNCHANGED <<calls, pc, id, topic, left, table, child>>

(* A started process ends.                                                 *)
ProcessEnds(c) ==
    /\ Running(c)
    /\ child' = [child EXCEPT ![c] = {}]
    /\ UNCHANGED <<calls, pc, id, topic, left, host, sealed, table>>

CallStep(w) ==
    \/ Resolve(w) \/ Socket(w) \/ Connect(w) \/ Bind(w) \/ Listen(w)
    \/ AcquireCredentials(w) \/ Handshake(w) \/ StreamSizes(w)
    \/ \E n \in 1 .. 3 : CreatePipe(w, n)
    \/ Seal(w) \/ OpenNul(w) \/ CreateProcess(w) \/ ExecRead(w) \/ ExecWaited(w)
    \/ Alloc(w)

Next ==
    \/ \E w \in Workers : CallStep(w) \/ \E t \in Topics : Begin(w, t)
    \/ \E c \in Calls : Release(c) \/ StdinClose(c) \/ ProcessEnds(c)

Spec == Init /\ [][Next]_vars

(* A worker goes on as long as the system calls return; a process need not *)
(* end.                                                                    *)
FairSpec == Spec /\ \A w \in Workers : WF_vars(CallStep(w))

-----------------------------------------------------------------------------
(* Properties.                                                             *)

(* The objects of call c the host has open.                                *)
OpenOf(c) == {o[2] : o \in {x \in host : x[1] = c}}

(* A call that is over has closed what it opened and did not hand to the   *)
(* table, whichever step failed - with one exception in the code: a failed *)
(* handshake leaves its Schannel credentials, and the context if there is  *)
(* one.                                                                    *)
NothingLeftBehind ==
    \A c \in 1 .. calls :
        ~Busy(c) /\ c \notin table =>
            OpenOf(c) \subseteq IF topic[c] = "tls" THEN {"cred", "ctx"} ELSE {}

(* An entry of the handle table has exactly the open objects its struct    *)
(* has fields for (stdin's until it is closed): none is closed already,    *)
(* and nothing is left open that Release would not close.                  *)
EntryIsWhole ==
    \A c \in table :
        CASE topic[c] \in {"dial", "listen"} -> OpenOf(c) = {"sock"}
          [] topic[c] = "tls" -> OpenOf(c) = {"sock", "cred", "ctx"}
          [] topic[c] = "start" -> OpenOf(c) \ {"inW"} = {"process", "outR", "errR"}
          [] OTHER -> FALSE

(* With launches that do not overlap, a process has the child's ends of    *)
(* its own pipes and no end of any other's: closing stdin, or the end of   *)
(* the process, is then an end of file at the other side.                  *)
PipesAreOwn ==
    MaxLaunching <= 1 =>
        \A c \in Calls : \A o \in child[c] :
            o[2] \in ParentEnds \cup ChildEnds => o[1] = c /\ o[2] \in ChildEnds

(* Exec comes back once the process it waits for has ended.                *)
ExecReturns ==
    \A w \in Workers :
        (pc[w] \in {"read", "wait"} /\ ~Running(id[w])) ~> (pc[w] = "idle")

(* docs/architecture.md, os.exec.stdin.close: "closes the process's stdin  *)
(* pipe, signaling EOF to the child": nobody has the write end any more.   *)
StdinCloseIsEof ==
    \A c \in table :
        topic[c] = "start" /\ <<c, "inW">> \notin host =>
            \A d \in Calls : <<c, "inW">> \notin child[d]
=============================================================================

------------------------------ MODULE Handles ------------------------------
(***************************************************************************)
(* The handle table of src/sapi/handles.cc and the topic calls that use it *)
(* (src/sapi/real_win.cc, tls_win.cc), run by the bridge's worker pool.    *)
(* Alloc*, Lookup*, Release and CloseProcessStdin hold mu() and are one    *)
(* step each; what a call does with the pointer Lookup* gave it happens    *)
(* after the unlock, in steps of its own, and may block.                   *)
(*                                                                         *)
(* A resource's OS objects are named by handle and field.  closes counts   *)
(* how often each was closed: at 0 it is open, at 1 its value belongs to   *)
(* nobody or, recycled, to somebody else.                                  *)
(***************************************************************************)
EXTENDS Naturals

CONSTANTS
    Workers,      \* threads that run topic calls
    MaxHandles,   \* bound: resources opened in a behaviour
    Kinds,        \* \subseteq {"socket", "process", "tls"}
    Discipline    \* what the program takes care of: see MayBegin

ASSUME HandlesBound == MaxHandles \in Nat
ASSUME KindsAssumption == Kinds \subseteq {"socket", "process", "tls"}

VARIABLES
    next,     \* next_handle()
    kind,     \* which of the three maps a handle was put in, "none" before
    live,     \* the handle's entry is in its map
    stdin,    \* ProcEntry::stdin_write is not null
    closes,   \* history: how often each OS object was closed
    known,    \* handles a reply has given to the program
    pc, op, arg,   \* per worker: where it is, in which call, on which handle
    obj       \* the field whose OS object the worker's system call uses

vars == <<next, kind, live, stdin, closes, known, pc, op, arg, obj>>

HandleSet == 1 .. MaxHandles

Fields(k) ==
    CASE k = "socket"  -> {"s"}
      [] k = "process" -> {"process", "stdout", "stderr", "stdin"}
      [] k = "tls"     -> {"s", "ctx", "cred"}
      [] OTHER         -> {}
AllFields == {"s", "ctx", "cred", "process", "stdout", "stderr", "stdin"}

(* The calls on a handle: the map they look in and the fields they use.    *)
(*   accept    Accept             read   IoRead, IoReadFrom, IoWriteTo     *)
(*   write     IoWrite            tls    TlsIoRead, TlsIoWrite             *)
(*   stream    ExecStdoutRead, ExecStderrRead                              *)
(*   feed      ExecStdinWrite     eof    ExecStdinClose                    *)
(*   wait      ExecWait           close  IoClose, TlsIoClose               *)
Calls == {"accept", "read", "write", "tls", "stream", "feed", "eof", "wait", "close"}
LooksIn(o) ==
    CASE o \in {"accept", "read", "write"}       -> "socket"
      [] o = "tls"                               -> "tls"
      [] o \in {"stream", "feed", "eof", "wait"} -> "process"
      [] OTHER                                   -> "any"
UsesFields(o) ==
    CASE o \in {"accept", "read", "write"} -> {"s"}
      [] o = "tls"    -> {"s", "ctx"}
      [] o = "stream" -> {"stdout", "stderr"}
      [] o = "feed"   -> {"stdin"}
      [] o = "wait"   -> {"process"}
      [] OTHER        -> {}
Loops(o) == o \in {"write", "tls", "feed"}
Releases(o) == o \in {"wait", "close"}

InFlight(h) == {w \in Workers : pc[w] # "idle" /\ arg[w] = h}

Init ==
    /\ next = 0
    /\ kind = [h \in HandleSet |-> "none"]
    /\ live = [h \in HandleSet |-> FALSE]
    /\ stdin = [h \in HandleSet |-> FALSE]
    /\ closes = [h \in HandleSet |-> [f \in AllFields |-> 0]]
    /\ known = {}
    /\ pc = [w \in Workers |-> "idle"]
    /\ op = [w \in Workers |-> "close"]
    /\ arg = [w \in Workers |-> 0]
    /\ obj = [w \in Workers |-> "s"]

-----------------------------------------------------------------------------
(* The program's side: which calls it has in flight together.              *)

(* "release": no call that releases h overlaps another call on h, which    *)
(* handles.h calls the one residual caller obligation.                     *)
(* "stdin": ExecStdinClose does not overlap ExecStdinWrite on a handle.    *)
MayBegin(o, h) ==
    /\ "release" \in Discipline =>
           \A v \in InFlight(h) : ~Releases(o) /\ ~Releases(op[v])
    /\ "stdin" \in Discipline =>
           \A v \in InFlight(h) : {o, op[v]} # {"feed", "eof"}

(* W2gSapiHandle hands a call to a worker; the program knows the handle.   *)
Begin(w, o, h) ==
    /\ pc[w] = "idle" /\ h \in known
    /\ MayBegin(o, h)
    /\ pc' = [pc EXCEPT ![w] = IF o = "close" THEN "release" ELSE "lookup"]
    /\ op' = [op EXCEPT ![w] = o]
    /\ arg' = [arg EXCEPT ![w] = h]
    /\ UNCHANGED <<next, kind, live, stdin, closes, known, obj>>

-----------------------------------------------------------------------------
(* The table, under mu().                                                  *)

(* ++next_handle(): numbers are never used again.                          *)
(* Mutant: the lowest number without a live entry is taken.                *)
NewHandleLowest == CHOOSE h \in HandleSet :
    ~live[h] /\ \A g \in HandleSet : ~live[g] => h <= g
NewHandle == next + 1

(* AllocSocket, AllocProcess, AllocTls.                                    *)
Alloc(k) ==
    /\ next < MaxHandles
    /\ next' = next + 1
    /\ kind' = [kind EXCEPT ![NewHandle] = k]
    /\ live' = [live EXCEPT ![NewHandle] = TRUE]
    /\ stdin' = [stdin EXCEPT ![NewHandle] = (k = "process")]

(* Closing the objects in F of handle h.                                   *)
CloseObjects(h, F) ==
    closes' = [closes EXCEPT ![h] = [f \in AllFields |->
                                        IF f \in F THEN @[f] + 1 ELSE @[f]]]

(* Release: whichever map holds h, close what it owns and forget it; a     *)
(* null stdin_write is not closed again.  Mutant: it is.                   *)
OwnedAll(h) == Fields(kind[h])
Owned(h) == IF stdin[h] THEN Fields(kind[h]) ELSE Fields(kind[h]) \ {"stdin"}
Release(h) ==
    IF live[h]
    THEN /\ CloseObjects(h, Owned(h))
         /\ live' = [live EXCEPT ![h] = FALSE]
         /\ stdin' = [stdin EXCEPT ![h] = FALSE]
    ELSE UNCHANGED <<closes, live, stdin>>

(* CloseProcessStdin: re-checked under the lock.  Mutant: the whole handle *)
(* is released.                                                            *)
CloseProcessStdinReleases(h) == Release(h)
CloseProcessStdin(h) ==
    /\ IF live[h] /\ kind[h] = "process" /\ stdin[h]
       THEN /\ CloseObjects(h, {"stdin"})
            /\ stdin' = [stdin EXCEPT ![h] = FALSE]
       ELSE UNCHANGED <<closes, stdin>>
    /\ UNCHANGED live

-----------------------------------------------------------------------------
(* The topic calls.                                                        *)

(* A call that opens a resource, from the moment the OS has produced it    *)
(* (a call that fails before that never touches the table).                *)
Open(w, k) ==
    /\ pc[w] = "idle" /\ k \in Kinds
    /\ Alloc(k)
    /\ known' = known \cup {NewHandle}
    /\ UNCHANGED <<closes, pc, op, arg, obj>>

Dial(w) == Open(w, "socket")
ExecStart(w) == Open(w, "process")

(* TlsDial still looks its own handle up to store the bytes left over from *)
(* the handshake before its reply makes the handle known.                  *)
TlsDial(w) ==
    /\ pc[w] = "idle" /\ "tls" \in Kinds
    /\ Alloc("tls")
    /\ pc' = [pc EXCEPT ![w] = "leftover"]
    /\ op' = [op EXCEPT ![w] = "tls"]
    /\ arg' = [arg EXCEPT ![w] = NewHandle]
    /\ UNCHANGED <<closes, known, obj>>

TlsLeftover(w) ==
    /\ pc[w] = "leftover"
    /\ known' = known \cup {arg[w]}
    /\ pc' = [pc EXCEPT ![w] = "idle"]
    /\ UNCHANGED <<next, kind, live, stdin, closes, op, arg, obj>>

(* LookupSocket, LookupProcess, LookupTls: null ends the call.             *)
Lookup(w) ==
    /\ pc[w] = "lookup"
    /\ LET h == arg[w]
           found == live[h] /\ kind[h] = LooksIn(op[w])
       IN pc' = [pc EXCEPT ![w] = CASE ~found                -> "idle"
                                    [] found /\ op[w] = "eof" -> "eof"
                                    [] OTHER                 -> "have"]
    /\ UNCHANGED <<next, kind, live, stdin, closes, known, op, arg, obj>>

(* Read a field through the pointer and enter the system call on it.  The  *)
(* looping calls end here when nothing is left to send or enough is        *)
(* buffered; a null stdin_write ends ExecStdinWrite with an error.         *)
Touch(w) ==
    /\ pc[w] = "have"
    /\ \/ /\ op[w] = "feed" => stdin[arg[w]]
          /\ \E f \in UsesFields(op[w]) : obj' = [obj EXCEPT ![w] = f]
          /\ pc' = [pc EXCEPT ![w] = "os"]
       \/ /\ Loops(op[w])
          /\ pc' = [pc EXCEPT ![w] = "idle"]
          /\ UNCHANGED obj
    /\ UNCHANGED <<next, kind, live, stdin, closes, known, op, arg>>

(* The system call returns: the call ends (an accept() with an error, see  *)
(* AcceptReturn), goes round its loop, or (ExecWait) goes on to read the   *)
(* exit code through the pointer and Release.                              *)
OsReturn(w) ==
    /\ pc[w] = "os"
    /\ \/ /\ op[w] # "wait"
          /\ pc' = [pc EXCEPT ![w] = "idle"]
       \/ /\ Loops(op[w])
          /\ pc' = [pc EXCEPT ![w] = "have"]
       \/ /\ op[w] = "wait"
          /\ pc' = [pc EXCEPT ![w] = "exitcode"]
    /\ UNCHANGED <<next, kind, live, stdin, closes, known, op, arg, obj>>

(* accept() returns a connection: it gets a handle of its own.             *)
AcceptReturn(w) ==
    /\ pc[w] = "os" /\ op[w] = "accept"
    /\ Alloc("socket")
    /\ known' = known \cup {NewHandle}
    /\ pc' = [pc EXCEPT ![w] = "idle"]
    /\ UNCHANGED <<closes, op, arg, obj>>

ExitCode(w) ==
    /\ pc[w] = "exitcode"
    /\ pc' = [pc EXCEPT ![w] = "release"]
    /\ UNCHANGED <<next, kind, live, stdin, closes, known, op, arg, obj>>

ReleaseCall(w) ==
    /\ pc[w] = "release"
    /\ Release(arg[w])
    /\ pc' = [pc EXCEPT ![w] = "idle"]
    /\ UNCHANGED <<next, kind, known, op, arg, obj>>

StdinClose(w) ==
    /\ pc[w] = "eof"
    /\ CloseProcessStdin(arg[w])
    /\ pc' = [pc EXCEPT ![w] = "idle"]
    /\ UNCHANGED <<next, kind, known, op, arg, obj>>

Next ==
    \E w \in Workers :
        \/ Dial(w) \/ ExecStart(w) \/ TlsDial(w)
        \/ \E o \in Calls, h \in HandleSet : Begin(w, o, h)
        \/ TlsLeftover(w)
        \/ Lookup(w)
        \/ Touch(w)
        \/ OsReturn(w)
        \/ AcceptReturn(w)
        \/ ExitCode(w)
        \/ ReleaseCall(w)
        \/ StdinClose(w)

Spec == Init /\ [][Next]_vars

-----------------------------------------------------------------------------
(* Properties.                                                             *)

(* Every OS object is closed exactly once: it is open while its handle     *)
(* owns it and closed once as soon as Release or CloseProcessStdin let it  *)
(* go - no double close and no leak, whatever calls overlap.               *)
ClosedExactlyOnce ==
    \A h \in 1 .. next : \A f \in Fields(kind[h]) :
        closes[h][f] = IF live[h] /\ (f = "stdin" => stdin[h]) THEN 0 ELSE 1

(* A pointer from Lookup* is only followed while its entry is in the map.  *)
NoDanglingEntry ==
    \A w \in Workers : pc[w] \in {"have", "exitcode", "leftover"} => live[arg[w]]

(* No system call is under way on an object that was closed since.  Lookup *)
(* and the use of a field are two steps, and handles.h:17-19 names one     *)
(* thing for the caller to keep apart, Release: that is not enough for     *)
(* ExecStdinWrite, whose pipe ExecStdinClose closes.                       *)
NoStaleUse ==
    \A w \in Workers : pc[w] = "os" => closes[arg[w]][obj[w]] = 0

(* A released handle stays unknown for ever, so that a late call with an   *)
(* old handle never reaches a newer resource.                              *)
ReleasedStaysReleased ==
    [][\A h \in known : ~live[h] => ~live'[h]]_vars
=============================================================================

--------------------------- MODULE HandlesProofs ---------------------------
(***************************************************************************)
(* Proofs about Handles for every number of workers and handles.  That OS  *)
(* objects are closed exactly once and that handles are never revived      *)
(* holds whatever calls the program overlaps; that no pointer dangles and  *)
(* no system call uses a closed object follows from what the program takes *)
(* care of (Discipline).                                                   *)
(***************************************************************************)
EXTENDS Handles, TLAPS

USE DEF vars

(* The state's types; the program and the workers only know handles that   *)
(* were given out.                                                         *)
TypeOK ==
    /\ next \in 0 .. MaxHandles
    /\ kind \in [HandleSet -> {"none", "socket", "process", "tls"}]
    /\ live \in [HandleSet -> BOOLEAN]
    /\ stdin \in [HandleSet -> BOOLEAN]
    /\ closes \in [HandleSet -> [AllFields -> Nat]]
    /\ known \subseteq 1 .. next
    /\ pc \in [Workers -> {"idle", "leftover", "lookup", "have", "os", "exitcode",
                           "eof", "release"}]
    /\ op \in [Workers -> Calls]
    /\ arg \in [Workers -> 0 .. next]
    /\ obj \in [Workers -> AllFields]
    /\ \A w \in Workers : pc[w] # "idle" => arg[w] \in 1 .. next

(* Handles above next have never been touched.                             *)
FreshAbove ==
    \A h \in HandleSet : h > next =>
        ~live[h] /\ ~stdin[h] /\ \A f \in AllFields : closes[h][f] = 0

(* Only a process in the table has a stdin_write.                          *)
StdinOwned == \A h \in HandleSet : stdin[h] => live[h] /\ kind[h] = "process"

TableInv == TypeOK /\ FreshAbove /\ StdinOwned /\ ClosedExactlyOnce

LEMMA FieldsKnown == \A k : Fields(k) \subseteq AllFields
BY DEF Fields, AllFields

LEMMA TypeInit == Init => TypeOK
BY HandlesBound DEF Init, TypeOK, HandleSet, Calls, AllFields

(* Alloc* and Release keep the types of the table.                         *)
LEMMA AllocTypes ==
  ASSUME TypeOK, NEW k \in {"socket", "process", "tls"}, Alloc(k)
  PROVE  /\ next' = next + 1 /\ NewHandle = next + 1
         /\ next \in Nat /\ next' \in 0 .. MaxHandles /\ NewHandle \in HandleSet
         /\ kind' \in [HandleSet -> {"none", "socket", "process", "tls"}]
         /\ live' \in [HandleSet -> BOOLEAN]
         /\ stdin' \in [HandleSet -> BOOLEAN]
         /\ arg \in [Workers -> 0 .. next']
         /\ known \subseteq 1 .. next'
BY HandlesBound DEF TypeOK, Alloc, NewHandle, HandleSet

(* Closing objects counts up exactly those objects.                        *)
LEMMA CloseShape ==
  ASSUME TypeOK, NEW h \in HandleSet, NEW F, CloseObjects(h, F)
  PROVE  /\ closes' \in [HandleSet -> [AllFields -> Nat]]
         /\ \A g \in HandleSet, f \in AllFields :
                closes'[g][f] = IF g = h /\ f \in F THEN closes[g][f] + 1 ELSE closes[g][f]
<1> DEFINE row == [f \in AllFields |-> IF f \in F THEN closes[h][f] + 1 ELSE closes[h][f]]
<1>1. closes \in [HandleSet -> [AllFields -> Nat]]
  BY DEF TypeOK
<1>2. closes[h] \in [AllFields -> Nat]
  BY <1>1
<1>3. row \in [AllFields -> Nat]
  BY <1>2
<1>4. closes' = [closes EXCEPT ![h] = row]
  BY DEF CloseObjects
<1>5. \A f \in AllFields : row[f] = IF f \in F THEN closes[h][f] + 1 ELSE closes[h][f]
  OBVIOUS
<1> HIDE DEF row
<1>6. \A g \in HandleSet : closes'[g] = IF g = h THEN row ELSE closes[g]
  BY <1>1, <1>4
<1> QED BY <1>1, <1>3, <1>4, <1>5, <1>6

(* What leaves the table when a handle, or a process's stdin, is let go:   *)
(* F is what is closed.                                                    *)
LetGo(h, F) ==
    /\ live' \in [HandleSet -> BOOLEAN]
    /\ stdin' \in [HandleSet -> BOOLEAN]
    /\ closes' \in [HandleSet -> [AllFields -> Nat]]
    /\ \A g \in HandleSet : g # h => live'[g] = live[g] /\ stdin'[g] = stdin[g]
    /\ \A g \in HandleSet, f \in AllFields :
           closes'[g][f] = IF g = h /\ f \in F THEN closes[g][f] + 1 ELSE closes[g][f]
    /\ ~stdin'[h]

LEMMA ReleaseShape ==
  ASSUME TypeOK, NEW h \in HandleSet, Release(h)
  PROVE  \/ live[h] /\ ~live'[h] /\ LetGo(h, Owned(h))
         \/ ~live[h] /\ UNCHANGED <<closes, live, stdin>>
<1>1. CASE live[h]
  <2>1. CloseObjects(h, Owned(h))
    BY <1>1 DEF Release
  <2> HIDE DEF Owned
  <2>2. /\ live' = [live EXCEPT ![h] = FALSE]
        /\ stdin' = [stdin EXCEPT ![h] = FALSE]
    BY <1>1 DEF Release
  <2>3. /\ live' \in [HandleSet -> BOOLEAN]
        /\ stdin' \in [HandleSet -> BOOLEAN]
        /\ \A g \in HandleSet : g # h => live'[g] = live[g] /\ stdin'[g] = stdin[g]
        /\ ~stdin'[h] /\ ~live'[h]
    BY <2>2 DEF TypeOK
  <2> QED BY <1>1, <2>1, <2>3, CloseShape DEF LetGo
<1>2. CASE ~live[h]
  BY <1>2 DEF Release
<1> QED BY <1>1, <1>2

LEMMA StdinShape ==
  ASSUME TypeOK, NEW h \in HandleSet, CloseProcessStdin(h)
  PROVE  /\ UNCHANGED live
         /\ \/ live[h] /\ kind[h] = "process" /\ stdin[h] /\ LetGo(h, {"stdin"})
            \/ ~(live[h] /\ kind[h] = "process" /\ stdin[h]) /\ UNCHANGED <<closes, stdin>>
<1>1. CASE live[h] /\ kind[h] = "process" /\ stdin[h]
  <2>1. CloseObjects(h, {"stdin"})
    BY <1>1 DEF CloseProcessStdin
  <2>2. UNCHANGED live /\ stdin' = [stdin EXCEPT ![h] = FALSE]
    BY <1>1 DEF CloseProcessStdin
  <2>3. /\ live' \in [HandleSet -> BOOLEAN]
        /\ stdin' \in [HandleSet -> BOOLEAN]
        /\ \A g \in HandleSet : g # h => live'[g] = live[g] /\ stdin'[g] = stdin[g]
        /\ ~stdin'[h]
    BY <2>2 DEF TypeOK
  <2> QED BY <1>1, <2>1, <2>2, <2>3, CloseShape DEF LetGo
<1>2. CASE ~(live[h] /\ kind[h] = "process" /\ stdin[h])
  BY <1>2 DEF CloseProcessStdin
<1> QED BY <1>1, <1>2

LEMMA TypeStep == TypeOK /\ [Next]_vars => TypeOK'
<1> SUFFICES ASSUME TypeOK, [Next]_vars PROVE TypeOK'
  OBVIOUS
<1> USE HandlesBound
<1>1. ASSUME NEW w \in Workers, NEW k \in {"socket", "process"}, Open(w, k) PROVE TypeOK'
  BY <1>1, AllocTypes DEF Open, TypeOK
<1>2. ASSUME NEW w \in Workers, TlsDial(w) PROVE TypeOK'
  BY <1>2, AllocTypes DEF TlsDial, TypeOK, Calls
<1>3. ASSUME NEW w \in Workers, NEW o \in Calls, NEW h \in HandleSet, Begin(w, o, h)
      PROVE  TypeOK'
  BY <1>3 DEF Begin, TypeOK
<1>4. ASSUME NEW w \in Workers, TlsLeftover(w) PROVE TypeOK'
  BY <1>4 DEF TlsLeftover, TypeOK
<1>5. ASSUME NEW w \in Workers, Lookup(w) PROVE TypeOK'
  BY <1>5 DEF Lookup, TypeOK
<1>6. ASSUME NEW w \in Workers, Touch(w) PROVE TypeOK'
  <2>1. UsesFields(op[w]) \subseteq AllFields
    BY DEF UsesFields, AllFields
  <2>2. obj' \in [Workers -> AllFields]
    BY <1>6, <2>1 DEF Touch, TypeOK
  <2>3. pc' \in [Workers -> {"idle", "leftover", "lookup", "have", "os", "exitcode",
                             "eof", "release"}]
    BY <1>6 DEF Touch, TypeOK
  <2> QED BY <1>6, <2>2, <2>3 DEF Touch, TypeOK
<1>7. ASSUME NEW w \in Workers, OsReturn(w) PROVE TypeOK'
  BY <1>7 DEF OsReturn, TypeOK
<1>8. ASSUME NEW w \in Workers, AcceptReturn(w) PROVE TypeOK'
  BY <1>8, AllocTypes DEF AcceptReturn, TypeOK
<1>9. ASSUME NEW w \in Workers, ExitCode(w) PROVE TypeOK'
  BY <1>9 DEF ExitCode, TypeOK
<1>10. ASSUME NEW w \in Workers, ReleaseCall(w) \/ StdinClose(w) PROVE TypeOK'
  <2>1. arg[w] \in HandleSet
    BY <1>10 DEF ReleaseCall, StdinClose, TypeOK, HandleSet
  <2>2. /\ live' \in [HandleSet -> BOOLEAN]
        /\ stdin' \in [HandleSet -> BOOLEAN]
        /\ closes' \in [HandleSet -> [AllFields -> Nat]]
    <3>1. CASE ReleaseCall(w)
      BY <3>1, <2>1, ReleaseShape DEF ReleaseCall, LetGo, TypeOK
    <3>2. CASE StdinClose(w)
      BY <3>2, <2>1, StdinShape DEF StdinClose, LetGo, TypeOK
    <3> QED BY <1>10, <3>1, <3>2
  <2> QED BY <1>10, <2>2 DEF ReleaseCall, StdinClose, TypeOK
<1>11. CASE UNCHANGED vars
  BY <1>11 DEF TypeOK
<1> QED BY <1>1, <1>2, <1>3, <1>4, <1>5, <1>6, <1>7, <1>8, <1>9, <1>10, <1>11
        DEF Next, Dial, ExecStart

-----------------------------------------------------------------------------
(* Closing, whatever calls overlap.                                        *)

LEMMA TableInit == Init => TableInv
<1> SUFFICES ASSUME Init PROVE TableInv
  OBVIOUS
<1>1. FreshAbove /\ StdinOwned
  BY DEF Init, FreshAbove, StdinOwned
<1>2. ClosedExactlyOnce
  BY DEF Init, ClosedExactlyOnce
<1> QED BY <1>1, <1>2, TypeInit DEF TableInv

(* Opening a resource: the new handle's objects are open, the old ones     *)
(* keep their count.                                                       *)
LEMMA AllocTable ==
  ASSUME TableInv, NEW k \in {"socket", "process", "tls"}, Alloc(k), UNCHANGED closes
  PROVE  FreshAbove' /\ StdinOwned' /\ ClosedExactlyOnce'
<1> USE HandlesBound
<1>0. TypeOK
  BY DEF TableInv
<1>1. /\ NewHandle = next + 1 /\ next' = next + 1 /\ next \in Nat /\ NewHandle \in HandleSet
  BY <1>0, AllocTypes
<1>2. \A h \in HandleSet :
          /\ kind'[h] = IF h = NewHandle THEN k ELSE kind[h]
          /\ live'[h] = IF h = NewHandle THEN TRUE ELSE live[h]
          /\ stdin'[h] = IF h = NewHandle THEN (k = "process") ELSE stdin[h]
  BY <1>0, <1>1 DEF Alloc, TypeOK
<1>3. FreshAbove'
  <2>1. ASSUME NEW h \in HandleSet, h > next' PROVE h # NewHandle /\ h > next
    BY <1>1, <2>1 DEF HandleSet
  <2> QED BY <1>2, <2>1 DEF FreshAbove, TableInv
<1>4. StdinOwned'
  BY <1>2 DEF StdinOwned, TableInv
<1>5. ASSUME NEW h \in 1 .. next', NEW f \in Fields(kind'[h])
      PROVE  closes'[h][f] = IF live'[h] /\ (f = "stdin" => stdin'[h]) THEN 0 ELSE 1
  <2>1. h \in HandleSet
    BY <1>0, <1>1, <1>5, AllocTypes DEF HandleSet
  <2>2. CASE h = NewHandle
    <3>1. f \in AllFields
      BY <1>5, FieldsKnown
    <3>2. closes'[h][f] = 0
      BY <2>1, <2>2, <3>1, <1>1 DEF TableInv, FreshAbove
    <3>3. f = "stdin" => k = "process"
      BY <1>2, <1>5, <2>1, <2>2 DEF Fields
    <3> QED BY <1>2, <2>1, <2>2, <3>2, <3>3
  <2>3. CASE h # NewHandle
    <3>1. h \in 1 .. next
      BY <1>1, <1>5, <2>3
    <3> QED BY <1>2, <1>5, <2>1, <2>3, <3>1 DEF TableInv, ClosedExactlyOnce
  <2> QED BY <2>2, <2>3
<1>6. ClosedExactlyOnce'
  BY <1>5 DEF ClosedExactlyOnce
<1> QED BY <1>3, <1>4, <1>6

(* Letting go of a handle closes what it still owns, and nothing twice.    *)
LEMMA ReleaseTable ==
  ASSUME TableInv, NEW h \in 1 .. next, Release(h), UNCHANGED <<next, kind>>
  PROVE  FreshAbove' /\ StdinOwned' /\ ClosedExactlyOnce'
<1> USE HandlesBound
<1>0. TypeOK /\ h \in HandleSet
  BY DEF TableInv, TypeOK, HandleSet
<1>1. CASE ~live[h] /\ UNCHANGED <<closes, live, stdin>>
  BY <1>1 DEF TableInv, FreshAbove, StdinOwned, ClosedExactlyOnce
<1>2. CASE live[h] /\ ~live'[h] /\ LetGo(h, Owned(h))
  <2>1. FreshAbove'
    BY <1>0, <1>2 DEF TableInv, TypeOK, FreshAbove, LetGo, HandleSet
  <2>2. StdinOwned'
    BY <1>2 DEF TableInv, StdinOwned, LetGo
  <2>3. ASSUME NEW g \in 1 .. next, NEW f \in Fields(kind[g])
        PROVE  closes'[g][f] = IF live'[g] /\ (f = "stdin" => stdin'[g]) THEN 0 ELSE 1
    <3>1. g \in HandleSet /\ f \in AllFields
      BY <1>0, <2>3, FieldsKnown DEF TypeOK, HandleSet
    <3>2. closes[g][f] = IF live[g] /\ (f = "stdin" => stdin[g]) THEN 0 ELSE 1
      BY <2>3 DEF TableInv, ClosedExactlyOnce
    <3>3. CASE g # h
      BY <1>2, <3>1, <3>2, <3>3 DEF LetGo
    <3>4. CASE g = h
      <4>1. f \in Owned(h) <=> (f = "stdin" => stdin[h])
        BY <2>3, <3>4 DEF Owned
      <4>2. closes'[g][f] = IF f \in Owned(h) THEN closes[g][f] + 1 ELSE closes[g][f]
        BY <1>2, <3>1, <3>4 DEF LetGo
      <4> QED BY <1>2, <3>2, <3>4, <4>1, <4>2
    <3> QED BY <3>3, <3>4
  <2>4. ClosedExactlyOnce'
    BY <2>3 DEF ClosedExactlyOnce
  <2> QED BY <2>1, <2>2, <2>4
<1> QED BY <1>0, <1>1, <1>2, ReleaseShape

LEMMA StdinTable ==
  ASSUME TableInv, NEW h \in 1 .. next, CloseProcessStdin(h), UNCHANGED <<next, kind>>
  PROVE  FreshAbove' /\ StdinOwned' /\ ClosedExactlyOnce'
<1> USE HandlesBound
<1>0. TypeOK /\ h \in HandleSet
  BY DEF TableInv, TypeOK, HandleSet
<1>1. CASE UNCHANGED <<live, closes, stdin>>
  BY <1>1 DEF TableInv, FreshAbove, StdinOwned, ClosedExactlyOnce
<1>2. CASE UNCHANGED live /\ live[h] /\ stdin[h] /\ LetGo(h, {"stdin"})
  <2>1. FreshAbove'
    BY <1>0, <1>2 DEF TableInv, TypeOK, FreshAbove, LetGo, HandleSet
  <2>2. StdinOwned'
    BY <1>2 DEF TableInv, StdinOwned, LetGo
  <2>3. ASSUME NEW g \in 1 .. next, NEW f \in Fields(kind[g])
        PROVE  closes'[g][f] = IF live'[g] /\ (f = "stdin" => stdin'[g]) THEN 0 ELSE 1
    <3>1. g \in HandleSet /\ f \in AllFields
      BY <1>0, <2>3, FieldsKnown DEF TypeOK, HandleSet
    <3>2. closes[g][f] = IF live[g] /\ (f = "stdin" => stdin[g]) THEN 0 ELSE 1
      BY <2>3 DEF TableInv, ClosedExactlyOnce
    <3> QED BY <1>2, <3>1, <3>2 DEF LetGo
  <2>4. ClosedExactlyOnce'
    BY <2>3 DEF ClosedExactlyOnce
  <2> QED BY <2>1, <2>2, <2>4
<1> QED BY <1>0, <1>1, <1>2, StdinShape

(* Every step of every call keeps the table's invariant.                   *)
LEMMA TableStep == TableInv /\ [Next]_vars => TableInv'
<1> SUFFICES ASSUME TableInv, [Next]_vars PROVE FreshAbove' /\ StdinOwned' /\ ClosedExactlyOnce'
  BY TypeStep DEF TableInv
<1>0. TypeOK
  BY DEF TableInv
<1>1. CASE UNCHANGED <<next, kind, live, stdin, closes>>
  BY <1>1 DEF TableInv, FreshAbove, StdinOwned, ClosedExactlyOnce
<1>2. ASSUME NEW w \in Workers, Dial(w) \/ ExecStart(w) \/ TlsDial(w) \/ AcceptReturn(w)
      PROVE  FreshAbove' /\ StdinOwned' /\ ClosedExactlyOnce'
  BY <1>2, AllocTable DEF Dial, ExecStart, Open, TlsDial, AcceptReturn
<1>3. ASSUME NEW w \in Workers, ReleaseCall(w) \/ StdinClose(w)
      PROVE  FreshAbove' /\ StdinOwned' /\ ClosedExactlyOnce'
  <2>1. arg[w] \in 1 .. next
    BY <1>0, <1>3 DEF ReleaseCall, StdinClose, TypeOK
  <2> QED BY <1>3, <2>1, ReleaseTable, StdinTable DEF ReleaseCall, StdinClose
<1>4. ASSUME NEW w \in Workers,
             \/ \E o \in Calls, h \in HandleSet : Begin(w, o, h)
             \/ TlsLeftover(w) \/ Lookup(w) \/ Touch(w) \/ OsReturn(w) \/ ExitCode(w)
      PROVE  UNCHANGED <<next, kind, live, stdin, closes>>
  BY <1>4 DEF Begin, TlsLeftover, Lookup, Touch, OsReturn, ExitCode
<1> QED BY <1>1, <1>2, <1>3, <1>4 DEF Next

(* The types, and that the program and the workers only hold handles the   *)
(* table has given out.                                                    *)
THEOREM TypeCorrect == Spec => []TypeOK
<1>1. TableInv => TypeOK
  BY DEF TableInv
<1> QED BY <1>1, TableInit, TableStep, PTL DEF Spec

(* No OS object of a resource is ever closed twice or leaked by Release    *)
(* and CloseProcessStdin, whatever calls the program runs side by side.    *)
THEOREM Closed == Spec => []ClosedExactlyOnce
<1>1. TableInv => ClosedExactlyOnce
  BY DEF TableInv
<1> QED BY <1>1, TableInit, TableStep, PTL DEF Spec

(* The only entry a step can add to the table is that of a number above    *)
(* all the program knows.                                                  *)
LEMMA NoRevival ==
  ASSUME TableInv, Next, NEW h \in known, ~live[h]
  PROVE  ~live'[h]
<1> USE HandlesBound
<1>0. TypeOK /\ h \in 1 .. next /\ h \in HandleSet /\ next \in Nat
  BY DEF TableInv, TypeOK, HandleSet
<1>1. ASSUME NEW k \in {"socket", "process", "tls"}, Alloc(k) PROVE ~live'[h]
  <2>1. NewHandle = next + 1
    BY <1>0, <1>1, AllocTypes
  <2> QED BY <1>0, <1>1, <2>1 DEF Alloc, TypeOK
<1>2. ASSUME NEW g \in HandleSet, Release(g) \/ CloseProcessStdin(g) PROVE ~live'[h]
  BY <1>0, <1>2, ReleaseShape, StdinShape DEF LetGo
<1>3. ASSUME NEW w \in Workers, ReleaseCall(w) \/ StdinClose(w) PROVE ~live'[h]
  <2>1. arg[w] \in HandleSet
    BY <1>0, <1>3 DEF ReleaseCall, StdinClose, TypeOK, HandleSet
  <2> QED BY <1>2, <1>3, <2>1 DEF ReleaseCall, StdinClose
<1>4. ASSUME NEW w \in Workers,
             \/ \E o \in Calls, g \in HandleSet : Begin(w, o, g)
             \/ TlsLeftover(w) \/ Lookup(w) \/ Touch(w) \/ OsReturn(w) \/ ExitCode(w)
      PROVE  UNCHANGED live
  BY <1>4 DEF Begin, TlsLeftover, Lookup, Touch, OsReturn, ExitCode
<1> QED BY <1>1, <1>3, <1>4 DEF Next, Dial, ExecStart, Open, TlsDial, AcceptReturn

(* A handle the program knows and that was released is never found again:  *)
(* next_handle() only counts up.                                           *)
THEOREM Unrevived == Spec => ReleasedStaysReleased
<1>1. TableInv /\ [Next]_vars => [\A h \in known : ~live[h] => ~live'[h]]_vars
  BY NoRevival
<1> QED BY <1>1, TableInit, TableStep, PTL DEF Spec, ReleasedStaysReleased

-----------------------------------------------------------------------------
(* Pointers, when no call that releases a handle overlaps another on it.   *)

(* Which call a worker is in, by where it is in it.                        *)
Situated ==
    \A w \in Workers :
        /\ pc[w] = "release" => Releases(op[w])
        /\ pc[w] = "exitcode" => op[w] = "wait"
        /\ pc[w] = "eof" => op[w] = "eof"
        /\ pc[w] = "leftover" => op[w] = "tls"

(* A worker in a call that releases h is alone on h.                       *)
Apart ==
    \A v, w \in Workers :
        v # w /\ pc[v] # "idle" /\ pc[w] # "idle" /\ arg[v] = arg[w] => ~Releases(op[v])

(* The entry a worker holds a pointer to is in the map it looked in.       *)
Held ==
    \A w \in Workers : pc[w] \in {"have", "os", "exitcode", "leftover"} =>
        live[arg[w]] /\ kind[arg[w]] = LooksIn(op[w])

CallInv == TableInv /\ Situated /\ Apart /\ Held

LEMMA CallInit == Init => CallInv
<1> SUFFICES ASSUME Init PROVE Situated /\ Apart /\ Held
  BY TableInit DEF CallInv
<1> QED BY DEF Init, Situated, Apart, Held

(* Alloc* leaves every handle alone that was given out before.             *)
LEMMA AllocKeeps ==
  ASSUME TypeOK, NEW k \in {"socket", "process", "tls"}, Alloc(k)
  PROVE  /\ \A h \in 1 .. next :
                live'[h] = live[h] /\ kind'[h] = kind[h] /\ stdin'[h] = stdin[h]
         /\ live'[NewHandle] /\ kind'[NewHandle] = k
         /\ NewHandle \notin 1 .. next
<1>1. NewHandle = next + 1 /\ next \in Nat /\ NewHandle \in HandleSet /\ 1 .. next \subseteq HandleSet
  BY AllocTypes, HandlesBound DEF TypeOK, HandleSet
<1>2. NewHandle \notin 1 .. next
  BY <1>1
<1>3. \A h \in HandleSet :
          /\ h # NewHandle => live'[h] = live[h] /\ kind'[h] = kind[h] /\ stdin'[h] = stdin[h]
          /\ h = NewHandle => live'[h] /\ kind'[h] = k
  BY <1>1 DEF Alloc, TypeOK
<1> QED BY <1>1, <1>2, <1>3

(* A step that moves worker w, which is in its call already, and leaves    *)
(* the table alone.                                                        *)
LEMMA MoveApart ==
  ASSUME TypeOK, Apart, NEW w \in Workers, pc[w] # "idle", UNCHANGED <<op, arg>>,
         NEW l, pc' = [pc EXCEPT ![w] = l]
  PROVE  Apart'
BY DEF Apart, TypeOK

LEMMA CallStep ==
  ASSUME "release" \in Discipline, CallInv, [Next]_vars
  PROVE  CallInv'
<1> SUFFICES Situated' /\ Apart' /\ Held'
  BY TableStep DEF CallInv
<1>0. TypeOK /\ Situated /\ Apart /\ Held
  BY DEF CallInv, TableInv
<1>a. \A w \in Workers : pc[w] # "idle" => arg[w] \in 1 .. next
  BY <1>0 DEF TypeOK
<1>1. ASSUME NEW w \in Workers, NEW k \in {"socket", "process"}, Open(w, k)
      PROVE  Situated' /\ Apart' /\ Held'
  <2>1. \A h \in 1 .. next : live'[h] = live[h] /\ kind'[h] = kind[h]
    BY <1>0, <1>1, AllocKeeps DEF Open
  <2>2. UNCHANGED <<pc, op, arg>>
    BY <1>1 DEF Open
  <2> QED BY <1>0, <1>a, <2>1, <2>2 DEF Situated, Apart, Held
<1>2. ASSUME NEW w \in Workers, TlsDial(w) PROVE Situated' /\ Apart' /\ Held'
  <2>1. /\ \A h \in 1 .. next : live'[h] = live[h] /\ kind'[h] = kind[h]
        /\ live'[NewHandle] /\ kind'[NewHandle] = "tls" /\ NewHandle \notin 1 .. next
    BY <1>0, <1>2, AllocKeeps DEF TlsDial
  <2>2. \A v \in Workers :
            /\ pc'[v] = IF v = w THEN "leftover" ELSE pc[v]
            /\ op'[v] = IF v = w THEN "tls" ELSE op[v]
            /\ arg'[v] = IF v = w THEN NewHandle ELSE arg[v]
    BY <1>0, <1>2 DEF TlsDial, TypeOK
  <2>3. Situated'
    BY <1>0, <2>2 DEF Situated
  <2>4. Apart'
    BY <1>0, <1>a, <2>1, <2>2 DEF Apart
  <2>5. Held'
    BY <1>0, <1>a, <2>1, <2>2 DEF Held, LooksIn
  <2> QED BY <2>3, <2>4, <2>5
<1>3. ASSUME NEW w \in Workers, NEW o \in Calls, NEW h \in HandleSet, Begin(w, o, h)
      PROVE  Situated' /\ Apart' /\ Held'
  <2>1. \A v \in Workers :
            /\ pc'[v] = IF v = w THEN (IF o = "close" THEN "release" ELSE "lookup") ELSE pc[v]
            /\ op'[v] = IF v = w THEN o ELSE op[v]
            /\ arg'[v] = IF v = w THEN h ELSE arg[v]
    BY <1>0, <1>3 DEF Begin, TypeOK
  <2>2. \A v \in Workers : pc[v] # "idle" /\ arg[v] = h => ~Releases(o) /\ ~Releases(op[v])
    BY <1>3 DEF Begin, MayBegin, InFlight
  <2>3. UNCHANGED <<live, kind>>
    BY <1>3 DEF Begin
  <2>4. Situated'
    BY <1>0, <2>1 DEF Situated, Releases
  <2>5. Apart'
    BY <1>0, <2>1, <2>2 DEF Apart
  <2>6. Held'
    BY <1>0, <2>1, <2>3 DEF Held
  <2> QED BY <2>4, <2>5, <2>6
<1>4. ASSUME NEW w \in Workers,
             TlsLeftover(w) \/ Lookup(w) \/ Touch(w) \/ OsReturn(w) \/ ExitCode(w)
      PROVE  Situated' /\ Apart' /\ Held'
  <2>1. /\ pc[w] # "idle" /\ UNCHANGED <<op, arg, live, kind>>
        /\ \E l : pc' = [pc EXCEPT ![w] = l]
    BY <1>4 DEF TlsLeftover, Lookup, Touch, OsReturn, ExitCode
  <2>2. Apart'
    BY <1>0, <2>1, MoveApart
  <2>3. \A v \in Workers : v # w => pc'[v] = pc[v]
    BY <1>0, <2>1 DEF TypeOK
  <2>4. \/ pc'[w] = "idle"
        \/ pc[w] = "lookup" /\ op[w] = "eof" /\ pc'[w] = "eof"
        \/ pc'[w] = "have" /\ live[arg[w]] /\ kind[arg[w]] = LooksIn(op[w])
        \/ pc[w] = "have" /\ pc'[w] = "os"
        \/ pc[w] = "os" /\ op[w] = "wait" /\ pc'[w] = "exitcode"
        \/ pc[w] = "exitcode" /\ pc'[w] = "release"
    <3>1. CASE TlsLeftover(w) \/ ExitCode(w)
      BY <1>0, <3>1 DEF TlsLeftover, ExitCode, TypeOK
    <3>2. CASE Lookup(w)
      <4> DEFINE found == live[arg[w]] /\ kind[arg[w]] = LooksIn(op[w])
      <4>1. CASE ~found
        BY <1>0, <3>2, <4>1 DEF Lookup, TypeOK
      <4>2. CASE found /\ op[w] = "eof"
        BY <1>0, <3>2, <4>2 DEF Lookup, TypeOK
      <4>3. CASE found /\ op[w] # "eof"
        BY <1>0, <3>2, <4>3 DEF Lookup, TypeOK
      <4> QED BY <4>1, <4>2, <4>3
    <3>3. CASE Touch(w)
      BY <1>0, <3>3 DEF Touch, TypeOK
    <3>4. CASE OsReturn(w)
      BY <1>0, <3>4 DEF OsReturn, TypeOK, Held
    <3> QED BY <1>4, <3>1, <3>2, <3>3, <3>4
  <2>5. Situated'
    BY <1>0, <2>1, <2>3, <2>4 DEF Situated, Releases
  <2>6. Held'
    BY <1>0, <2>1, <2>3, <2>4 DEF Held
  <2> QED BY <2>2, <2>5, <2>6
<1>5. ASSUME NEW w \in Workers, AcceptReturn(w) PROVE Situated' /\ Apart' /\ Held'
  <2>1. \A h \in 1 .. next : live'[h] = live[h] /\ kind'[h] = kind[h]
    BY <1>0, <1>5, AllocKeeps DEF AcceptReturn
  <2>2. UNCHANGED <<op, arg>> /\ pc' = [pc EXCEPT ![w] = "idle"] /\ pc[w] # "idle"
    BY <1>5 DEF AcceptReturn
  <2>3. \A v \in Workers : pc'[v] = IF v = w THEN "idle" ELSE pc[v]
    BY <1>0, <2>2 DEF TypeOK
  <2>4. Apart'
    BY <1>0, <2>2, MoveApart
  <2>5. Situated' /\ Held'
    BY <1>0, <1>a, <2>1, <2>2, <2>3 DEF Situated, Held
  <2> QED BY <2>4, <2>5
<1>6. ASSUME NEW w \in Workers, ReleaseCall(w) PROVE Situated' /\ Apart' /\ Held'
  <2>1. /\ UNCHANGED <<op, arg, kind>> /\ pc' = [pc EXCEPT ![w] = "idle"]
        /\ pc[w] # "idle" /\ Releases(op[w])
    BY <1>0, <1>6 DEF ReleaseCall, Situated
  <2>2. \A v \in Workers : pc'[v] = IF v = w THEN "idle" ELSE pc[v]
    BY <1>0, <2>1 DEF TypeOK
  <2>3. arg[w] \in HandleSet /\ 1 .. next \subseteq HandleSet
    BY <1>0, <1>a, <2>1, HandlesBound DEF TypeOK, HandleSet
  <2>4. \A h \in 1 .. next : h # arg[w] => live'[h] = live[h]
    BY <1>0, <1>6, <2>3, ReleaseShape DEF ReleaseCall, LetGo
  <2>5. \A v \in Workers : v # w /\ pc[v] # "idle" => arg[v] # arg[w]
    BY <1>0, <2>1 DEF Apart
  <2>6. Apart'
    BY <1>0, <2>1, MoveApart
  <2>7. Situated'
    BY <1>0, <2>1, <2>2 DEF Situated
  <2>8. Held'
    BY <1>0, <1>a, <2>1, <2>2, <2>4, <2>5 DEF Held
  <2> QED BY <2>6, <2>7, <2>8
<1>7. ASSUME NEW w \in Workers, StdinClose(w) PROVE Situated' /\ Apart' /\ Held'
  <2>1. /\ UNCHANGED <<op, arg, kind, live>> /\ pc' = [pc EXCEPT ![w] = "idle"] /\ pc[w] # "idle"
    BY <1>0, <1>7 DEF StdinClose, CloseProcessStdin
  <2>2. \A v \in Workers : pc'[v] = IF v = w THEN "idle" ELSE pc[v]
    BY <1>0, <2>1 DEF TypeOK
  <2>3. Apart'
    BY <1>0, <2>1, MoveApart
  <2>4. Situated' /\ Held'
    BY <1>0, <2>1, <2>2 DEF Situated, Held
  <2> QED BY <2>3, <2>4
<1>8. CASE UNCHANGED vars
  BY <1>0, <1>8 DEF Situated, Apart, Held
<1> QED BY <1>1, <1>2, <1>3, <1>4, <1>5, <1>6, <1>7, <1>8 DEF Next, Dial, ExecStart

(* The one residual caller obligation of handles.h is enough: a program    *)
(* that overlaps no releasing call with another on the same handle never   *)
(* makes a worker follow a pointer to an erased entry.                     *)
THEOREM Undangling ==
  ASSUME "release" \in Discipline
  PROVE  Spec => []NoDanglingEntry
<1>1. CallInv => NoDanglingEntry
  BY DEF CallInv, Held, NoDanglingEntry
<1>2. CallInv /\ [Next]_vars => CallInv'
  BY CallStep
<1> QED BY <1>1, <1>2, CallInit, PTL DEF Spec

-----------------------------------------------------------------------------
(* System calls, when ExecStdinClose does not overlap ExecStdinWrite too.  *)

StdinApart ==
    \A v, w \in Workers :
        pc[v] # "idle" /\ pc[w] # "idle" /\ arg[v] = arg[w] =>
            ~(op[v] = "feed" /\ op[w] = "eof")

(* The object under a system call is one the call uses, and a write to     *)
(* stdin found stdin_write there.                                          *)
Using ==
    \A w \in Workers : pc[w] = "os" =>
        obj[w] \in UsesFields(op[w]) /\ (op[w] = "feed" => stdin[arg[w]])

UseInv == CallInv /\ StdinApart /\ Using

LEMMA UseInit == Init => UseInv
<1> SUFFICES ASSUME Init PROVE StdinApart /\ Using
  BY CallInit DEF UseInv
<1> QED BY DEF Init, StdinApart, Using

LEMMA MoveStdinApart ==
  ASSUME TypeOK, StdinApart, NEW w \in Workers, pc[w] # "idle", UNCHANGED <<op, arg>>,
         NEW l, pc' = [pc EXCEPT ![w] = l]
  PROVE  StdinApart'
BY DEF StdinApart, TypeOK

LEMMA UseStep ==
  ASSUME "release" \in Discipline, "stdin" \in Discipline, UseInv, [Next]_vars
  PROVE  UseInv'
<1> SUFFICES StdinApart' /\ Using'
  BY CallStep DEF UseInv
<1>0. TypeOK /\ Situated /\ Apart /\ Held /\ StdinApart /\ Using
  BY DEF UseInv, CallInv, TableInv
<1>a. \A w \in Workers : pc[w] # "idle" => arg[w] \in 1 .. next
  BY <1>0 DEF TypeOK
<1>1. ASSUME NEW w \in Workers, NEW k \in {"socket", "process"}, Open(w, k)
      PROVE  StdinApart' /\ Using'
  <2>1. \A h \in 1 .. next : stdin'[h] = stdin[h]
    BY <1>0, <1>1, AllocKeeps DEF Open
  <2>2. UNCHANGED <<pc, op, arg, obj>>
    BY <1>1 DEF Open
  <2> QED BY <1>0, <1>a, <2>1, <2>2 DEF StdinApart, Using
<1>2. ASSUME NEW w \in Workers, TlsDial(w) PROVE StdinApart' /\ Using'
  <2>1. \A h \in 1 .. next : stdin'[h] = stdin[h]
    BY <1>0, <1>2, AllocKeeps DEF TlsDial
  <2>2. \A v \in Workers :
            /\ pc'[v] = IF v = w THEN "leftover" ELSE pc[v]
            /\ op'[v] = IF v = w THEN "tls" ELSE op[v]
            /\ v # w => arg'[v] = arg[v]
            /\ obj'[v] = obj[v]
    BY <1>0, <1>2 DEF TlsDial, TypeOK
  <2>3. StdinApart'
    BY <1>0, <2>2 DEF StdinApart
  <2>4. Using'
    BY <1>0, <1>a, <2>1, <2>2 DEF Using
  <2> QED BY <2>3, <2>4
<1>3. ASSUME NEW w \in Workers, NEW o \in Calls, NEW h \in HandleSet, Begin(w, o, h)
      PROVE  StdinApart' /\ Using'
  <2>1. \A v \in Workers :
            /\ v = w => pc'[v] # "os"
            /\ v # w => pc'[v] = pc[v]
            /\ op'[v] = IF v = w THEN o ELSE op[v]
            /\ arg'[v] = IF v = w THEN h ELSE arg[v]
            /\ obj'[v] = obj[v]
    BY <1>0, <1>3 DEF Begin, TypeOK
  <2>2. \A v \in Workers : pc[v] # "idle" /\ arg[v] = h =>
            ~(o = "feed" /\ op[v] = "eof") /\ ~(o = "eof" /\ op[v] = "feed")
    BY <1>3 DEF Begin, MayBegin, InFlight
  <2>3. UNCHANGED stdin
    BY <1>3 DEF Begin
  <2>4. StdinApart'
    BY <1>0, <2>1, <2>2 DEF StdinApart
  <2>5. Using'
    BY <1>0, <2>1, <2>3 DEF Using
  <2> QED BY <2>4, <2>5
<1>4. ASSUME NEW w \in Workers, TlsLeftover(w) \/ Lookup(w) \/ OsReturn(w) \/ ExitCode(w)
      PROVE  StdinApart' /\ Using'
  <2>1. /\ pc[w] # "idle" /\ UNCHANGED <<op, arg, stdin, obj>>
        /\ \E l : pc' = [pc EXCEPT ![w] = l]
    BY <1>4 DEF TlsLeftover, Lookup, OsReturn, ExitCode
  <2>2. StdinApart'
    BY <1>0, <2>1, MoveStdinApart
  <2>3. \A v \in Workers : v # w => pc'[v] = pc[v]
    BY <1>0, <2>1 DEF TypeOK
  <2>4. pc'[w] # "os"
    <3>1. CASE Lookup(w)
      <4>1. \E l \in {"idle", "eof", "have"} : pc' = [pc EXCEPT ![w] = l]
        BY <3>1 DEF Lookup
      <4> QED BY <1>0, <4>1 DEF TypeOK
    <3>2. CASE TlsLeftover(w) \/ OsReturn(w) \/ ExitCode(w)
      BY <1>0, <3>2 DEF TlsLeftover, OsReturn, ExitCode, TypeOK
    <3> QED BY <1>4, <3>1, <3>2
  <2>5. Using'
    BY <1>0, <2>1, <2>3, <2>4 DEF Using
  <2> QED BY <2>2, <2>5
<1>5. ASSUME NEW w \in Workers, Touch(w) PROVE StdinApart' /\ Using'
  <2>1. /\ pc[w] # "idle" /\ UNCHANGED <<op, arg, stdin>>
        /\ \E l : pc' = [pc EXCEPT ![w] = l]
    BY <1>5 DEF Touch
  <2>2. StdinApart'
    BY <1>0, <2>1, MoveStdinApart
  <2>3. \A v \in Workers : v # w => pc'[v] = pc[v] /\ obj'[v] = obj[v]
    BY <1>0, <1>5 DEF Touch, TypeOK
  <2>4. pc'[w] = "os" => obj'[w] \in UsesFields(op[w]) /\ (op[w] = "feed" => stdin[arg[w]])
    BY <1>0, <1>5 DEF Touch, TypeOK
  <2>5. Using'
    BY <1>0, <2>1, <2>3, <2>4 DEF Using
  <2> QED BY <2>2, <2>5
<1>6. ASSUME NEW w \in Workers, AcceptReturn(w) PROVE StdinApart' /\ Using'
  <2>1. \A h \in 1 .. next : stdin'[h] = stdin[h]
    BY <1>0, <1>6, AllocKeeps DEF AcceptReturn
  <2>2. UNCHANGED <<op, arg, obj>> /\ pc' = [pc EXCEPT ![w] = "idle"] /\ pc[w] # "idle"
    BY <1>6 DEF AcceptReturn
  <2>3. \A v \in Workers : pc'[v] = IF v = w THEN "idle" ELSE pc[v]
    BY <1>0, <2>2 DEF TypeOK
  <2>4. StdinApart'
    BY <1>0, <2>2, MoveStdinApart
  <2>5. Using'
    BY <1>0, <1>a, <2>1, <2>2, <2>3 DEF Using
  <2> QED BY <2>4, <2>5
<1>7. ASSUME NEW w \in Workers, ReleaseCall(w) \/ StdinClose(w) PROVE StdinApart' /\ Using'
  <2>1. /\ UNCHANGED <<op, arg, obj>> /\ pc' = [pc EXCEPT ![w] = "idle"] /\ pc[w] # "idle"
        /\ Releases(op[w]) \/ op[w] = "eof"
    BY <1>0, <1>7 DEF ReleaseCall, StdinClose, Situated
  <2>2. \A v \in Workers : pc'[v] = IF v = w THEN "idle" ELSE pc[v]
    BY <1>0, <2>1 DEF TypeOK
  <2>3. arg[w] \in HandleSet /\ 1 .. next \subseteq HandleSet
    BY <1>0, <1>a, <2>1, HandlesBound DEF TypeOK, HandleSet
  <2>4. \A h \in 1 .. next : h # arg[w] => stdin'[h] = stdin[h]
    BY <1>0, <1>7, <2>3, ReleaseShape, StdinShape DEF ReleaseCall, StdinClose, LetGo
  <2>5. \A v \in Workers : v # w /\ pc[v] # "idle" /\ op[v] = "feed" => arg[v] # arg[w]
    BY <1>0, <2>1 DEF Apart, StdinApart
  <2>6. StdinApart'
    BY <1>0, <2>1, MoveStdinApart
  <2>7. Using'
    BY <1>0, <1>a, <2>1, <2>2, <2>4, <2>5 DEF Using
  <2> QED BY <2>6, <2>7
<1>8. CASE UNCHANGED vars
  BY <1>0, <1>8 DEF StdinApart, Using
<1> QED BY <1>1, <1>2, <1>3, <1>4, <1>5, <1>6, <1>7, <1>8 DEF Next, Dial, ExecStart

(* With the stdin calls of a process kept apart as well, no system call of *)
(* any topic runs on an object that was closed since it was read.          *)
THEOREM Fresh ==
  ASSUME "release" \in Discipline, "stdin" \in Discipline
  PROVE  Spec => []NoStaleUse
<1>1. UseInv => NoStaleUse
  <2> SUFFICES ASSUME UseInv, NEW w \in Workers, pc[w] = "os"
               PROVE  closes[arg[w]][obj[w]] = 0
    BY DEF NoStaleUse
  <2>1. /\ obj[w] \in UsesFields(op[w]) /\ (op[w] = "feed" => stdin[arg[w]])
        /\ live[arg[w]] /\ kind[arg[w]] = LooksIn(op[w])
        /\ arg[w] \in 1 .. next
    BY DEF UseInv, Using, CallInv, Held, TableInv, TypeOK
  <2>2. obj[w] \in Fields(kind[arg[w]]) /\ (obj[w] = "stdin" => op[w] = "feed")
    BY <2>1 DEF UsesFields, LooksIn, Fields
  <2> QED BY <2>1, <2>2 DEF UseInv, CallInv, TableInv, ClosedExactlyOnce
<1>2. UseInv /\ [Next]_vars => UseInv'
  BY UseStep
<1> QED BY <1>1, <1>2, UseInit, PTL DEF Spec
=============================================================================

--------------------------- MODULE OpeningProofs ---------------------------
(***************************************************************************)
(* Proofs about Opening, for any number of workers, calls and addresses:   *)
(* what a call has open at each of its system calls, and with it that no   *)
(* failure leaves anything behind and that every entry is whole; and, when *)
(* launches do not overlap, that no process inherits another's pipe.       *)
(***************************************************************************)
EXTENDS Opening, FiniteSetTheorems, TLAPS

USE DEF vars

AllTopics == {"dial", "listen", "probe", "exec", "start", "tls"}
Names == {"res", "sock", "cred", "ctx", "nul", "process", "thread",
          "outR", "outW", "errR", "errW", "inR", "inW"}
Stages == {"idle", "resolve", "socket", "connect", "bind", "listen", "credentials",
           "handshake", "sizes", "pipe1", "pipe2", "pipe3", "seal", "nul", "create",
           "read", "wait", "alloc"}

(* No two workers run the same call, and the table owns only what no       *)
(* worker runs.                                                            *)
TypeOK ==
    /\ calls \in 0 .. MaxCalls
    /\ pc \in [Workers -> Stages]
    /\ id \in [Workers -> 0 .. calls]
    /\ topic \in [Calls -> AllTopics \cup {"none"}]
    /\ left \in [Workers -> 0 .. MaxAddrs]
    /\ host \subseteq (1 .. calls) \X Names
    /\ table \subseteq 1 .. calls
    /\ child \in [Calls -> SUBSET (Calls \X (Names \cup {"self"}))]
    /\ \A w \in Workers : pc[w] # "idle" => id[w] \in 1 .. calls /\ id[w] \notin table
    /\ \A w \in Workers : pc[w] \in {"socket", "connect"} /\ topic[id[w]] \in {"dial", "tls"} =>
           left[w] # 0
    /\ \A v, w \in Workers : id[v] = id[w] /\ id[v] # 0 => v = w

(* OpenOf, as an operator on any set of named objects.                     *)
OpenIn(objects, c) == {o[2] : o \in {x \in objects : x[1] = c}}

(* What a call on topic t has open when it is about to make the system     *)
(* call p, by the names of the objects.                                    *)
AllPipes == ParentEnds \cup ChildEnds
Holds(t, p, open) ==
    /\ p = "resolve" => t \in {"dial", "tls", "listen", "probe"} /\ open = {}
    /\ p = "socket" => t \in {"dial", "tls", "listen", "probe"} /\ open = {"res"}
    /\ p = "connect" => t \in {"dial", "tls"} /\ open = {"res", "sock"}
    /\ p = "bind" => t \in {"listen", "probe"} /\ open = {"res", "sock"}
    /\ p = "listen" => t \in {"listen", "probe"} /\ open = {"sock"}
    /\ p = "credentials" => t = "tls" /\ open = {"sock"}
    /\ p = "handshake" => t = "tls" /\ open \in {{"sock", "cred"}, {"sock", "cred", "ctx"}}
    /\ p = "sizes" => t = "tls" /\ open = {"sock", "cred", "ctx"}
    /\ p = "pipe1" => t \in {"exec", "start"} /\ open = {}
    /\ p = "pipe2" => t = "start" /\ open = {"outR", "outW"}
    /\ p = "pipe3" => t = "start" /\ open = {"outR", "outW", "errR", "errW"}
    /\ p = "seal" => \/ t = "exec" /\ open = {"outR", "outW"}
                     \/ t = "start" /\ open = AllPipes
    /\ p = "nul" => t = "exec" /\ open = {"outR", "outW"}
    /\ p = "create" => \/ t = "exec" /\ open \in {{"outR", "outW"}, {"outR", "outW", "nul"}}
                       \/ t = "start" /\ open = AllPipes
    /\ p = "read" => t = "exec" /\ open = {"outR", "process", "thread"}
    /\ p = "wait" => t = "exec" /\ open = {"process", "thread"}
    /\ p = "alloc" => \/ t \in {"dial", "listen"} /\ open = {"sock"}
                      \/ t = "tls" /\ open = {"sock", "cred", "ctx"}
                      \/ t = "start" /\ open = {"process", "outR", "errR", "inW"}

Stage ==
    \A w \in Workers : pc[w] # "idle" => Holds(topic[id[w]], pc[w], OpenIn(host, id[w]))

IInv == TypeOK /\ Stage /\ NothingLeftBehind /\ EntryIsWhole

(* The ends of pipes: a parent's end is inheritable only until its own     *)
(* call has sealed it, a child's end is open only while its call launches. *)
SealedEnds ==
    \A c \in 1 .. calls :
        /\ \A n \in ParentEnds : <<c, n>> \in host =>
              \/ <<c, n>> \in sealed
              \/ \E w \in Workers : id[w] = c /\ pc[w] \in {"pipe2", "pipe3", "seal"}
        /\ \A n \in ChildEnds : <<c, n>> \in host =>
              \E w \in Launching : id[w] = c

LaunchesApart == MaxLaunching <= 1 => \A v, w \in Launching : v = w

PipeInv == IInv /\ SealedEnds /\ LaunchesApart /\ PipesAreOwn

-----------------------------------------------------------------------------
LEMMA Member ==
  ASSUME NEW S, NEW T, NEW h \in SUBSET (S \X T), NEW c, NEW n
  PROVE  n \in OpenIn(h, c) <=> <<c, n>> \in h
<1> USE DEF OpenIn
<1>1. ASSUME <<c, n>> \in h PROVE n \in OpenIn(h, c)
  <2>1. <<c, n>> \in {x \in h : x[1] = c} /\ <<c, n>>[2] = n
    BY <1>1
  <2> QED BY <2>1
<1>2. ASSUME n \in OpenIn(h, c) PROVE <<c, n>> \in h
  <2>1. PICK o \in h : o[1] = c /\ o[2] = n
    BY <1>2
  <2>2. o = <<c, n>>
    BY <2>1
  <2> QED BY <2>1, <2>2
<1> QED BY <1>1, <1>2

(* A system call of worker w changes what its own call has open, and       *)
(* nothing else.                                                           *)
Moved(w, me, to, opens, closes) ==
    /\ host' \subseteq (1 .. calls') \X Names
    /\ pc' \in [Workers -> Stages]
    /\ \A v \in Workers : pc'[v] = IF v = w THEN to ELSE pc[v]
    /\ OpenIn(host', me) = (OpenIn(host, me) \cup opens) \ closes
    /\ \A c : c # me => OpenIn(host', c) = OpenIn(host, c)
    /\ \A c, n : <<c, n>> \in host' <=> n \in OpenIn(host', c)
    /\ \A c, n : <<c, n>> \in host <=> n \in OpenIn(host, c)
    /\ \A c, n : <<c, n>> \in sealed' <=>
                    <<c, n>> \in sealed /\ ~(c = me /\ n \in closes)

LEMMA GoShape ==
  ASSUME TypeOK, NEW w \in Workers, pc[w] # "idle", NEW me, me = id[w],
         NEW to \in Stages, NEW opens \in SUBSET Names, NEW closes,
         Go(w, to, opens, closes), UNCHANGED <<calls, id>>
  PROVE  Moved(w, me, to, opens, closes)
<1>0. host \in SUBSET ((1 .. calls) \X Names) /\ me \in 1 .. calls
  BY DEF TypeOK
<1>1. /\ host' = (host \cup ({me} \X opens)) \ ({me} \X closes)
      /\ sealed' = sealed \ ({me} \X closes)
      /\ pc' = [pc EXCEPT ![w] = to]
  BY DEF Go, Own
<1>2. host' \in SUBSET ((1 .. calls) \X Names)
  BY <1>0, <1>1
<1>3. \A c, n : <<c, n>> \in host' <=>
          (<<c, n>> \in host \/ (c = me /\ n \in opens)) /\ ~(c = me /\ n \in closes)
  BY <1>1
<1>4. \A c, n : n \in OpenIn(host, c) <=> <<c, n>> \in host
  BY <1>0, Member
<1>5. \A c, n : n \in OpenIn(host', c) <=> <<c, n>> \in host'
  BY <1>2, Member
<1>6. OpenIn(host', me) = (OpenIn(host, me) \cup opens) \ closes
  BY <1>3, <1>4, <1>5
<1>7. ASSUME NEW c, c # me PROVE OpenIn(host', c) = OpenIn(host, c)
  <2>1. \A n : n \in OpenIn(host', c) <=> n \in OpenIn(host, c)
    BY <1>3, <1>4, <1>5, <1>7
  <2> QED BY <2>1 DEF OpenIn
<1>8. pc' \in [Workers -> Stages] /\ \A v \in Workers : pc'[v] = IF v = w THEN to ELSE pc[v]
  BY <1>1 DEF TypeOK
<1>9. \A c, n : <<c, n>> \in sealed' <=> <<c, n>> \in sealed /\ ~(c = me /\ n \in closes)
  BY <1>1
<1> QED BY <1>2, <1>4, <1>5, <1>6, <1>7, <1>8, <1>9 DEF Moved

(* A call may go on to the system call p, or return, with these open.      *)
Lands(t, p, open) ==
    IF p = "idle" THEN open \subseteq (IF t = "tls" THEN {"cred", "ctx"} ELSE {})
                  ELSE Holds(t, p, open)

(* One system call, from what the code opens and closes in it.             *)
LEMMA GoStep ==
  ASSUME IInv, NEW w \in Workers, pc[w] # "idle", NEW me, me = id[w],
         NEW to \in Stages, NEW opens \in SUBSET Names, NEW closes,
         Go(w, to, opens, closes), UNCHANGED <<calls, id, topic, table>>,
         left' \in [Workers -> 0 .. MaxAddrs],
         \A v \in Workers : v # w => left'[v] = left[v],
         to \in {"socket", "connect"} /\ topic[me] \in {"dial", "tls"} => left'[w] # 0,
         child' \in [Calls -> SUBSET (Calls \X (Names \cup {"self"}))],
         Lands(topic[me], to, (OpenIn(host, me) \cup opens) \ closes)
  PROVE  IInv'
<1>0. TypeOK /\ Stage /\ NothingLeftBehind /\ EntryIsWhole
  BY DEF IInv
<1>1. /\ host' \subseteq (1 .. calls') \X Names
      /\ pc' \in [Workers -> Stages]
      /\ \A v \in Workers : pc'[v] = IF v = w THEN to ELSE pc[v]
      /\ OpenIn(host', me) = (OpenIn(host, me) \cup opens) \ closes
      /\ \A c : c # me => OpenIn(host', c) = OpenIn(host, c)
  <2>1. Moved(w, me, to, opens, closes)
    BY <1>0, GoShape
  <2> QED BY <2>1 DEF Moved
<1>2. /\ me \in 1 .. calls /\ me \notin table
      /\ \A v \in Workers : v # w => id[v] # me
  BY <1>0 DEF TypeOK
<1>3. TypeOK'
  BY <1>0, <1>1, <1>2 DEF TypeOK
<1>4. Stage'
  <2> SUFFICES ASSUME NEW v \in Workers, pc'[v] # "idle"
               PROVE  Holds(topic[id[v]], pc'[v], OpenIn(host', id[v]))
    BY DEF Stage
  <2>1. CASE v = w
    BY <1>1, <2>1 DEF Lands
  <2>2. CASE v # w
    <3>1. OpenIn(host', id[v]) = OpenIn(host, id[v]) /\ pc'[v] = pc[v]
      BY <1>1, <1>2, <2>2
    <3> QED BY <1>0, <3>1 DEF Stage
  <2> QED BY <2>1, <2>2
<1>5. NothingLeftBehind'
  <2> SUFFICES ASSUME NEW c \in 1 .. calls, ~Busy(c)', c \notin table
               PROVE  OpenIn(host', c) \subseteq IF topic[c] = "tls" THEN {"cred", "ctx"} ELSE {}
    BY DEF NothingLeftBehind, OpenOf, OpenIn
  <2>1. CASE c = me
    <3>1. to = "idle"
      BY <1>1, <2>1 DEF Busy
    <3> QED BY <1>1, <2>1, <3>1 DEF Lands
  <2>2. CASE c # me
    <3>1. ~Busy(c)
      BY <1>1, <2>2 DEF Busy
    <3> QED BY <1>0, <1>1, <2>2, <3>1 DEF NothingLeftBehind, OpenOf, OpenIn
  <2> QED BY <2>1, <2>2
<1>6. EntryIsWhole'
  <2>1. \A c \in table : OpenIn(host', c) = OpenIn(host, c)
    BY <1>1, <1>2
  <2> QED BY <1>0, <2>1 DEF EntryIsWhole, OpenOf, OpenIn
<1> QED BY <1>3, <1>4, <1>5, <1>6 DEF IInv

LEMMA GoPlain ==
  ASSUME IInv, NEW w \in Workers, pc[w] # "idle", NEW me, me = id[w],
         NEW to \in Stages, to \notin {"socket", "connect"},
         NEW opens \in SUBSET Names, NEW closes,
         Go(w, to, opens, closes), UNCHANGED <<calls, id, topic, table, left, child>>,
         Lands(topic[me], to, (OpenIn(host, me) \cup opens) \ closes)
  PROVE  IInv'
<1>1. /\ left' \in [Workers -> 0 .. MaxAddrs]
      /\ \A v \in Workers : v # w => left'[v] = left[v]
      /\ child' \in [Calls -> SUBSET (Calls \X (Names \cup {"self"}))]
  BY DEF IInv, TypeOK
<1> QED BY <1>1, GoStep

(* ConnectReal's next address, or the end of its list.                     *)
LEMMA NextAddressStep ==
  ASSUME IInv, NEW w \in Workers, NEW me, me = id[w], topic[me] \in {"dial", "tls"},
         pc[w] \in {"socket", "connect"}, NEW closes,
         OpenIn(host, me) \ closes = {"res"},
         NextAddress(w, closes), UNCHANGED <<calls, id, topic, table, child>>
  PROVE  IInv'
<1>0. TypeOK /\ left[w] \in 1 .. MaxAddrs /\ MaxAddrs \in Nat
  BY BoundsAssumption DEF IInv, TypeOK
<1>1. /\ left' \in [Workers -> 0 .. MaxAddrs]
      /\ \A v \in Workers : v # w => left'[v] = left[v]
      /\ left'[w] = left[w] - 1
      /\ child' \in [Calls -> SUBSET (Calls \X (Names \cup {"self"}))]
  BY <1>0 DEF NextAddress, TypeOK
<1>2. CASE left[w] > 1
  <2>1. Go(w, "socket", {}, closes) /\ left'[w] # 0
    BY <1>0, <1>1, <1>2 DEF NextAddress
  <2>2. Lands(topic[me], "socket", (OpenIn(host, me) \cup {}) \ closes)
    BY DEF Lands, Holds
  <2> QED BY <1>1, <2>1, <2>2, GoStep DEF Stages
<1>3. CASE ~(left[w] > 1)
  <2>1. Go(w, "idle", {}, closes \cup {"res"})
    BY <1>3 DEF NextAddress
  <2>2. Lands(topic[me], "idle", (OpenIn(host, me) \cup {}) \ (closes \cup {"res"}))
    BY DEF Lands
  <2> QED BY <1>1, <2>1, <2>2, GoStep DEF Stages
<1> QED BY <1>2, <1>3

(* Every system call of every topic, succeeding or failing.                *)
LEMMA CallStepInv ==
  ASSUME IInv, NEW w \in Workers, CallStep(w)
  PROVE  IInv'
<1> USE BoundsAssumption
<1> DEFINE me == id[w]
           t == topic[me]
           open == OpenIn(host, me)
<1>0. TypeOK /\ (pc[w] # "idle" => Holds(t, pc[w], open))
  BY DEF IInv, Stage
<1>a. me = id[w]
  OBVIOUS
<1>b. Connects(w) <=> t \in {"dial", "tls"}
  BY DEF Connects, Topic
<1>c. /\ left \in [Workers -> 0 .. MaxAddrs]
      /\ child \in [Calls -> SUBSET (Calls \X (Names \cup {"self"}))]
      /\ pc[w] \in {"socket", "connect"} /\ t \in {"dial", "tls"} => left[w] # 0
  BY <1>0 DEF TypeOK
<1>1. CASE Resolve(w)
  <2>1. pc[w] = "resolve" /\ t \in {"dial", "tls", "listen", "probe"} /\ open = {}
    BY <1>0, <1>1 DEF Resolve, Holds
  <2>2. CASE Go(w, "idle", {}, {}) /\ UNCHANGED left
    <3>1. Lands(t, "idle", (open \cup {}) \ {})
      BY <2>1 DEF Lands
    <3> HIDE DEF me, t, open
    <3> QED BY <1>1, <2>1, <2>2, <3>1, GoPlain DEF Resolve, Stages, me, t, open
  <2>3. ASSUME Go(w, "socket", {"res"}, {}),
               NEW n \in (IF Connects(w) THEN 1 .. MaxAddrs ELSE {0}),
               left' = [left EXCEPT ![w] = n]
        PROVE  IInv'
    <3>1. Lands(t, "socket", (open \cup {"res"}) \ {})
      BY <2>1 DEF Lands, Holds
    <3>2. /\ left' \in [Workers -> 0 .. MaxAddrs]
          /\ \A v \in Workers : v # w => left'[v] = left[v]
          /\ t \in {"dial", "tls"} => left'[w] # 0
      BY <1>b, <1>c, <2>3
    <3>3. "socket" \in Stages /\ {"res"} \in SUBSET Names
      BY DEF Stages, Names
    <3> QED BY <1>1, <1>c, <2>1, <2>3, <3>1, <3>2, <3>3, GoStep DEF Resolve
  <2> QED BY <1>1, <2>2, <2>3 DEF Resolve
<1>2. CASE Socket(w)
  <2>1. pc[w] = "socket" /\ t \in {"dial", "tls", "listen", "probe"} /\ open = {"res"}
    BY <1>0, <1>2 DEF Socket, Holds
  <2>2. CASE Connects(w) /\ Go(w, "connect", {"sock"}, {}) /\ UNCHANGED left
    <3>1. Lands(t, "connect", (open \cup {"sock"}) \ {})
      BY <1>b, <2>1, <2>2 DEF Lands, Holds
    <3>2. "connect" \in Stages /\ {"sock"} \in SUBSET Names
      BY DEF Stages, Names
    <3> QED BY <1>2, <1>b, <1>c, <2>1, <2>2, <3>1, <3>2, GoStep DEF Socket
  <2>3. CASE ~Connects(w) /\ Go(w, "bind", {"sock"}, {}) /\ UNCHANGED left
    <3>1. Lands(t, "bind", (open \cup {"sock"}) \ {})
      BY <1>b, <2>1, <2>3 DEF Lands, Holds
    <3>2. "bind" \in Stages /\ {"sock"} \in SUBSET Names
      BY DEF Stages, Names
    <3> QED BY <1>2, <2>1, <2>3, <3>1, <3>2, GoPlain DEF Socket
  <2>4. CASE Connects(w) /\ NextAddress(w, {})
    BY <1>2, <1>b, <2>1, <2>4, NextAddressStep DEF Socket
  <2>5. CASE ~Connects(w) /\ Go(w, "idle", {}, {"res"}) /\ UNCHANGED left
    <3>1. Lands(t, "idle", (open \cup {}) \ {"res"})
      BY <2>1 DEF Lands
    <3> QED BY <1>2, <2>1, <2>5, <3>1, GoPlain DEF Socket, Stages
  <2> QED BY <1>2, <2>2, <2>3, <2>4, <2>5 DEF Socket
<1>3. CASE Connect(w)
  <2>1. pc[w] = "connect" /\ t \in {"dial", "tls"} /\ open = {"res", "sock"}
    BY <1>0, <1>3 DEF Connect, Holds
  <2>2. CASE Connected(w) /\ left' = [left EXCEPT ![w] = 0]
    <3>1. PICK to \in {"credentials", "alloc"} :
              /\ Go(w, to, {}, {"res"})
              /\ to = IF t = "tls" THEN "credentials" ELSE "alloc"
      BY <2>2 DEF Connected, Topic
    <3>2. Lands(t, to, (open \cup {}) \ {"res"})
      BY <2>1, <3>1 DEF Lands, Holds
    <3>3. left' \in [Workers -> 0 .. MaxAddrs] /\ \A v \in Workers : v # w => left'[v] = left[v]
      BY <1>c, <2>2
    <3>4. to \in Stages /\ to \notin {"socket", "connect"}
      BY <3>1 DEF Stages
    <3> QED BY <1>3, <1>c, <2>1, <3>1, <3>2, <3>3, <3>4, GoStep DEF Connect
  <2>3. CASE ConnectFails(w)
    BY <1>3, <2>1, <2>3, NextAddressStep DEF Connect, ConnectFails
  <2> QED BY <1>3, <2>2, <2>3 DEF Connect
<1>4. CASE Bind(w)
  <2>1. pc[w] = "bind" /\ t \in {"listen", "probe"} /\ open = {"res", "sock"}
    BY <1>0, <1>4 DEF Bind, Holds
  <2>2. /\ Lands(t, "idle", (open \cup {}) \ {"res", "sock"})
        /\ Lands(t, "listen", (open \cup {}) \ {"res"})
    BY <2>1 DEF Lands, Holds
  <2> QED BY <1>4, <2>1, <2>2, GoPlain DEF Bind, Stages
<1>5. CASE Listen(w)
  <2>1. pc[w] = "listen" /\ t \in {"listen", "probe"} /\ open = {"sock"}
    BY <1>0, <1>5 DEF Listen, Holds
  <2>2. /\ Lands(t, "idle", (open \cup {}) \ {"sock"})
        /\ t = "listen" => Lands(t, "alloc", (open \cup {}) \ {})
    BY <2>1 DEF Lands, Holds
  <2> QED BY <1>5, <2>1, <2>2, GoPlain DEF Listen, KeepOpen, Topic, Stages
<1>6. CASE AcquireCredentials(w)
  <2>1. pc[w] = "credentials" /\ t = "tls" /\ open = {"sock"}
    BY <1>0, <1>6 DEF AcquireCredentials, Holds
  <2>2. /\ Lands(t, "idle", (open \cup {}) \ {"sock"})
        /\ Lands(t, "handshake", (open \cup {"cred"}) \ {})
    BY <2>1 DEF Lands, Holds
  <2> QED BY <1>6, <2>1, <2>2, GoPlain DEF AcquireCredentials, Stages, Names
<1>7. CASE Handshake(w)
  <2>1. pc[w] = "handshake" /\ t = "tls" /\ open \in {{"sock", "cred"}, {"sock", "cred", "ctx"}}
    BY <1>0, <1>7 DEF Handshake, Holds
  <2>2. /\ Lands(t, "idle", (open \cup {}) \ {"sock"})
        /\ Lands(t, "handshake", (open \cup {"ctx"}) \ {})
        /\ Lands(t, "sizes", (open \cup {"ctx"}) \ {})
    BY <2>1 DEF Lands, Holds
  <2> QED BY <1>7, <2>1, <2>2, GoPlain DEF Handshake, Stages, Names
<1>8. CASE StreamSizes(w)
  <2>1. pc[w] = "sizes" /\ t = "tls" /\ open = {"sock", "cred", "ctx"}
    BY <1>0, <1>8 DEF StreamSizes, Holds
  <2>2. /\ Lands(t, "idle", (open \cup {}) \ {"ctx", "sock"})
        /\ Lands(t, "alloc", (open \cup {}) \ {})
    BY <2>1 DEF Lands, Holds
  <2> QED BY <1>8, <2>1, <2>2, GoPlain DEF StreamSizes, Stages
<1>9. ASSUME NEW n \in 1 .. 3, CreatePipe(w, n) PROVE IInv'
  <2>1. CASE n = 1
    <3>1. /\ pc[w] = "pipe1" /\ UNCHANGED <<calls, id, topic, table, left, child>>
          /\ \/ Go(w, "idle", {}, {})
             \/ Go(w, IF t = "exec" THEN "seal" ELSE "pipe2", {"outR", "outW"}, {})
      <4>1. UNION {Pipes[i] : i \in 1 .. n - 1} = {}
        BY <2>1
      <4> QED BY <1>9, <2>1, <4>1 DEF CreatePipe, Pipes, Topic
    <3>2. t \in {"exec", "start"} /\ open = {}
      BY <1>0, <3>1 DEF Holds
    <3>3. /\ Lands(t, "idle", (open \cup {}) \ {})
          /\ t = "exec" => Lands(t, "seal", (open \cup {"outR", "outW"}) \ {})
          /\ t # "exec" => Lands(t, "pipe2", (open \cup {"outR", "outW"}) \ {})
      BY <3>2 DEF Lands, Holds
    <3>4. {"outR", "outW"} \in SUBSET Names /\ {"idle", "seal", "pipe2"} \subseteq Stages
      BY DEF Names, Stages
    <3> QED BY <3>1, <3>3, <3>4, GoPlain
  <2>2. CASE n = 2
    <3>1. /\ pc[w] = "pipe2" /\ UNCHANGED <<calls, id, topic, table, left, child>>
          /\ \/ Go(w, "idle", {}, {"outR", "outW"})
             \/ t # "exec" /\ Go(w, "pipe3", {"errR", "errW"}, {})
             \/ t = "exec" /\ Go(w, "seal", {"errR", "errW"}, {})
      <4>1. UNION {Pipes[i] : i \in 1 .. n - 1} = {"outR", "outW"}
        BY <2>2 DEF Pipes
      <4> QED BY <1>9, <2>2, <4>1 DEF CreatePipe, Pipes, Topic
    <3>2. t = "start" /\ open = {"outR", "outW"}
      BY <1>0, <3>1 DEF Holds
    <3>3. /\ Lands(t, "idle", (open \cup {}) \ {"outR", "outW"})
          /\ Lands(t, "pipe3", (open \cup {"errR", "errW"}) \ {})
      BY <3>2 DEF Lands, Holds
    <3>4. {"errR", "errW"} \in SUBSET Names /\ {"idle", "pipe3"} \subseteq Stages
      BY DEF Names, Stages
    <3> QED BY <3>1, <3>2, <3>3, <3>4, GoPlain
  <2>3. CASE n = 3
    <3>1. /\ pc[w] = "pipe3" /\ UNCHANGED <<calls, id, topic, table, left, child>>
          /\ \/ Go(w, "idle", {}, {"outR", "outW", "errR", "errW"})
             \/ Go(w, "seal", {"inR", "inW"}, {})
      <4>1. UNION {Pipes[i] : i \in 1 .. n - 1} = {"outR", "outW", "errR", "errW"}
        <5>1. 1 .. n - 1 = {1, 2}
          BY <2>3
        <5>2. Pipes[1] = {"outR", "outW"} /\ Pipes[2] = {"errR", "errW"}
          BY DEF Pipes
        <5> QED BY <5>1, <5>2
      <4> QED BY <1>9, <2>3, <4>1 DEF CreatePipe, Pipes
    <3>2. t = "start" /\ open = {"outR", "outW", "errR", "errW"}
      BY <1>0, <3>1 DEF Holds
    <3>3. /\ Lands(t, "idle", (open \cup {}) \ {"outR", "outW", "errR", "errW"})
          /\ Lands(t, "seal", (open \cup {"inR", "inW"}) \ {})
      BY <3>2 DEF Lands, Holds, AllPipes, ParentEnds, ChildEnds
    <3>4. {"inR", "inW"} \in SUBSET Names /\ {"idle", "seal"} \subseteq Stages
      BY DEF Names, Stages
    <3> QED BY <3>1, <3>3, <3>4, GoPlain
  <2> QED BY <2>1, <2>2, <2>3
<1>10. CASE Seal(w)
  <2>1. /\ pc[w] = "seal" /\ UNCHANGED <<calls, id, topic, left, host, table, child>>
        /\ pc' = [pc EXCEPT ![w] = IF t = "exec" THEN "nul" ELSE "create"]
    BY <1>10 DEF Seal, Topic
  <2>2. \/ t = "exec" /\ open = {"outR", "outW"}
        \/ t = "start" /\ open = AllPipes
    BY <1>0, <2>1 DEF Holds
  <2>3. /\ pc' \in [Workers -> Stages]
        /\ \A v \in Workers : v # w => pc'[v] = pc[v]
        /\ pc'[w] = IF t = "exec" THEN "nul" ELSE "create"
    BY <1>0, <2>1 DEF TypeOK, Stages
  <2>4. TypeOK'
    BY <1>0, <2>1, <2>3 DEF TypeOK
  <2>5. Stage'
    <3>1. Holds(t, pc'[w], open)
      BY <2>2, <2>3 DEF Holds
    <3> QED BY <2>1, <2>3, <3>1 DEF Stage, IInv
  <2>6. \A c : Busy(c)' = Busy(c)
    BY <2>1, <2>3 DEF Busy
  <2>7. NothingLeftBehind' /\ EntryIsWhole'
    BY <2>1, <2>6 DEF IInv, NothingLeftBehind, EntryIsWhole, OpenOf
  <2> QED BY <2>4, <2>5, <2>7 DEF IInv
<1>11. CASE OpenNul(w)
  <2>1. pc[w] = "nul" /\ t = "exec" /\ open = {"outR", "outW"}
    BY <1>0, <1>11 DEF OpenNul, Holds
  <2>2. /\ Lands(t, "create", (open \cup {"nul"}) \ {})
        /\ Lands(t, "create", (open \cup {}) \ {})
    BY <2>1 DEF Lands, Holds
  <2> QED BY <1>11, <2>1, <2>2, GoPlain DEF OpenNul, Stages, Names
<1>12. CASE CreateProcess(w)
  <2>1. /\ pc[w] = "create" /\ UNCHANGED <<calls, id, topic, left, table>>
        /\ \/ t = "exec" /\ open \in {{"outR", "outW"}, {"outR", "outW", "nul"}}
           \/ t = "start" /\ open = AllPipes
    BY <1>0, <1>12 DEF CreateProcess, Holds
  <2>2. CASE Go(w, "idle", {}, ClosedAfterCreate \cup ParentEnds) /\ UNCHANGED child
    <3>1. Lands(t, "idle", (open \cup {}) \ (ClosedAfterCreate \cup ParentEnds))
      BY <2>1 DEF Lands, ClosedAfterCreate, AllPipes, ParentEnds, ChildEnds
    <3> QED BY <2>1, <2>2, <3>1, GoPlain DEF Stages
  <2>3. CASE /\ IF t = "exec"
                THEN Go(w, "read", {"process", "thread"}, ClosedAfterCreate)
                ELSE Go(w, "alloc", {"process"}, ClosedAfterCreate)
             /\ child' = [child EXCEPT ![id[w]] = Inherited \cup {<<id[w], "self">>}]
    <3>1. id[w] \in Calls /\ Inherited \cup {<<id[w], "self">>} \in SUBSET (Calls \X (Names \cup {"self"}))
      <4>1. id[w] \in Calls /\ 1 .. calls \subseteq Calls
        BY <1>0, <2>1 DEF TypeOK, Calls
      <4>2. Inherited \subseteq host
        BY DEF Inherited
      <4> QED BY <1>0, <4>1, <4>2 DEF TypeOK
    <3>2. child' \in [Calls -> SUBSET (Calls \X (Names \cup {"self"}))]
      BY <1>c, <2>3, <3>1
    <3>3. /\ t = "exec" => Lands(t, "read", (open \cup {"process", "thread"}) \ ClosedAfterCreate)
          /\ t # "exec" => Lands(t, "alloc", (open \cup {"process"}) \ ClosedAfterCreate)
      BY <2>1 DEF Lands, Holds, ClosedAfterCreate, AllPipes, ParentEnds, ChildEnds
    <3>4. /\ {"process", "thread"} \in SUBSET Names /\ {"process"} \in SUBSET Names
          /\ {"read", "alloc"} \subseteq Stages
      BY DEF Names, Stages
    <3>5. \A v \in Workers : v # w => left'[v] = left[v]
      BY <2>1
    <3> HIDE DEF t, open
    <3>6. CASE t = "exec"
      BY <1>c, <2>1, <2>3, <3>2, <3>3, <3>4, <3>5, <3>6, GoStep DEF t, open
    <3>7. CASE t # "exec"
      BY <1>c, <2>1, <2>3, <3>2, <3>3, <3>4, <3>5, <3>7, GoStep DEF t, open
    <3> QED BY <3>6, <3>7
  <2> QED BY <1>12, <2>2, <2>3 DEF CreateProcess, Topic
<1>13. CASE ExecRead(w)
  <2>1. pc[w] = "read" /\ t = "exec" /\ open = {"outR", "process", "thread"}
    BY <1>0, <1>13 DEF ExecRead, Holds
  <2>2. Lands(t, "wait", (open \cup {}) \ {"outR"})
    BY <2>1 DEF Lands, Holds
  <2> QED BY <1>13, <2>1, <2>2, GoPlain DEF ExecRead, Stages
<1>14. CASE ExecWaited(w)
  <2>1. pc[w] = "wait" /\ t = "exec" /\ open = {"process", "thread"}
    BY <1>0, <1>14 DEF ExecWaited, Holds
  <2>2. Lands(t, "idle", (open \cup {}) \ {"process", "thread"})
    BY <2>1 DEF Lands
  <2> QED BY <1>14, <2>1, <2>2, GoPlain DEF ExecWaited, Stages
<1>15. CASE Alloc(w)
  <2>1. /\ pc[w] = "alloc" /\ table' = table \cup {me} /\ pc' = [pc EXCEPT ![w] = "idle"]
        /\ UNCHANGED <<calls, id, topic, left, host, sealed, child>>
    BY <1>15 DEF Alloc
  <2>2. /\ pc' \in [Workers -> Stages] /\ me \in 1 .. calls
        /\ \A v \in Workers : pc'[v] = IF v = w THEN "idle" ELSE pc[v]
        /\ \A v \in Workers : v # w => id[v] # me
    BY <1>0, <2>1 DEF TypeOK, Stages
  <2>3. TypeOK'
    BY <1>0, <2>1, <2>2 DEF TypeOK
  <2>4. Stage'
    BY <2>1, <2>2 DEF IInv, Stage
  <2>5. NothingLeftBehind'
    <3>1. \A c : c # me => (Busy(c)' <=> Busy(c))
      BY <2>1, <2>2 DEF Busy
    <3> QED BY <2>1, <3>1 DEF IInv, NothingLeftBehind, OpenOf
  <2>6. EntryIsWhole'
    <3>1. \/ t \in {"dial", "listen"} /\ open = {"sock"}
          \/ t = "tls" /\ open = {"sock", "cred", "ctx"}
          \/ t = "start" /\ open = {"process", "outR", "errR", "inW"}
      BY <1>0, <2>1 DEF Holds
    <3>2. open = OpenOf(me)
      BY DEF OpenOf, OpenIn
    <3> HIDE DEF open, t, me
    <3>3. /\ t \in {"dial", "listen"} => OpenOf(me) = {"sock"}
          /\ t = "tls" => OpenOf(me) = {"sock", "cred", "ctx"}
          /\ t = "start" => OpenOf(me) \ {"inW"} = {"process", "outR", "errR"}
          /\ t \in {"dial", "listen", "tls", "start"}
      BY <3>1, <3>2
    <3>4. \A c : OpenOf(c)' = OpenOf(c)
      BY <2>1 DEF OpenOf
    <3> QED BY <2>1, <3>3, <3>4 DEF IInv, EntryIsWhole, t
  <2> QED BY <2>3, <2>4, <2>5, <2>6 DEF IInv
<1> QED BY <1>1, <1>2, <1>3, <1>4, <1>5, <1>6, <1>7, <1>8, <1>9, <1>10, <1>11, <1>12, <1>13,
           <1>14, <1>15 DEF CallStep

LEMMA IInit == Init => IInv
<1> SUFFICES ASSUME Init PROVE IInv
  OBVIOUS
<1>1. TypeOK
  BY BoundsAssumption DEF Init, TypeOK, Stages, Calls
<1>2. Stage /\ NothingLeftBehind /\ EntryIsWhole
  BY DEF Init, Stage, NothingLeftBehind, EntryIsWhole
<1> QED BY <1>1, <1>2 DEF IInv

LEMMA BeginInv ==
  ASSUME IInv, NEW w \in Workers, NEW t \in Topics, Begin(w, t)
  PROVE  IInv'
<1> USE BoundsAssumption
<1>0. TypeOK /\ t \in AllTopics /\ calls \in Nat
  BY TopicsAssumption DEF IInv, AllTopics, TypeOK
<1>1. /\ calls < MaxCalls /\ calls' = calls + 1
      /\ UNCHANGED <<left, host, sealed, table, child>>
  BY DEF Begin
<1>2. /\ calls + 1 \in Calls /\ calls' \in 0 .. MaxCalls /\ 1 .. calls' = (1 .. calls) \cup {calls + 1}
      /\ calls + 1 \notin 1 .. calls /\ 0 .. calls \subseteq 0 .. calls' /\ calls + 1 # 0
  BY <1>0, <1>1 DEF Calls, TypeOK
<1>3. /\ topic' \in [Calls -> AllTopics \cup {"none"}]
      /\ topic'[calls + 1] = t
      /\ \A c \in 1 .. calls : topic'[c] = topic[c]
  BY <1>0, <1>1, <1>2 DEF Begin, TypeOK, Calls
<1>4. /\ pc' \in [Workers -> Stages] /\ id' \in [Workers -> 0 .. calls']
      /\ \A v \in Workers : v # w => pc'[v] = pc[v] /\ id'[v] = id[v]
      /\ id'[w] = calls + 1 /\ pc'[w] = IF t \in {"exec", "start"} THEN "pipe1" ELSE "resolve"
  BY <1>0, <1>1, <1>2 DEF Begin, TypeOK, Stages
<1>5. \A v \in Workers : id[v] # calls + 1
  BY <1>0, <1>2 DEF TypeOK
<1>6. host' \subseteq (1 .. calls') \X Names /\ table' \subseteq 1 .. calls' /\ calls + 1 \notin table
  BY <1>0, <1>1, <1>2 DEF TypeOK
<1>7. TypeOK'
  <2>1. \A v \in Workers : pc'[v] # "idle" => id'[v] \in 1 .. calls' /\ id'[v] \notin table'
    BY <1>0, <1>1, <1>2, <1>4, <1>6 DEF TypeOK
  <2>2. \A v \in Workers : pc'[v] \in {"socket", "connect"} /\ topic'[id'[v]] \in {"dial", "tls"} =>
            left'[v] # 0
    BY <1>0, <1>1, <1>3, <1>4 DEF TypeOK
  <2>3. \A u, v \in Workers : id'[u] = id'[v] /\ id'[u] # 0 => u = v
    BY <1>0, <1>4, <1>5 DEF TypeOK
  <2> QED BY <1>0, <1>1, <1>2, <1>3, <1>4, <1>6, <2>1, <2>2, <2>3 DEF TypeOK
<1>8. OpenIn(host, calls + 1) = {}
  <2>1. \A n : <<calls + 1, n>> \notin host
    BY <1>0, <1>2 DEF TypeOK
  <2>2. \A n : n \in OpenIn(host, calls + 1) <=> <<calls + 1, n>> \in host
    BY <1>0, Member DEF TypeOK
  <2> QED BY <2>1, <2>2
<1>9. Stage'
  <2> SUFFICES ASSUME NEW v \in Workers, pc'[v] # "idle"
               PROVE  Holds(topic'[id'[v]], pc'[v], OpenIn(host, id'[v]))
    BY <1>1 DEF Stage
  <2>1. CASE v = w
    <3>1. Holds(t, pc'[w], {})
      BY <1>0, <1>4 DEF Holds, AllTopics
    <3> QED BY <1>3, <1>4, <1>8, <2>1, <3>1
  <2>2. CASE v # w
    <3>1. id'[v] = id[v] /\ pc'[v] = pc[v] /\ id[v] \in 1 .. calls
      BY <1>0, <1>4, <2>2 DEF TypeOK
    <3> QED BY <1>3, <3>1 DEF IInv, Stage
  <2> QED BY <2>1, <2>2
<1>10. NothingLeftBehind'
  <2> SUFFICES ASSUME NEW c \in 1 .. calls', ~Busy(c)', c \notin table
               PROVE  OpenIn(host, c) \subseteq IF topic'[c] = "tls" THEN {"cred", "ctx"} ELSE {}
    BY <1>1 DEF NothingLeftBehind, OpenOf, OpenIn
  <2>1. CASE c = calls + 1
    BY <1>8, <2>1
  <2>2. CASE c # calls + 1
    <3>1. c \in 1 .. calls
      BY <1>2, <2>2
    <3>2. ~Busy(c)
      <4>1. pc[w] = "idle"
        BY DEF Begin
      <4> QED BY <1>4, <4>1 DEF Busy
    <3> QED BY <1>3, <3>1, <3>2 DEF IInv, NothingLeftBehind, OpenOf, OpenIn
  <2> QED BY <2>1, <2>2
<1>11. EntryIsWhole'
  <2>1. \A c \in table : topic'[c] = topic[c]
    BY <1>0, <1>3 DEF TypeOK
  <2>2. \A c : OpenOf(c)' = OpenOf(c)
    BY <1>1 DEF OpenOf
  <2> QED BY <1>1, <2>1, <2>2 DEF IInv, EntryIsWhole
<1> QED BY <1>7, <1>9, <1>10, <1>11 DEF IInv

(* What the program does with an entry later.                              *)
LEMMA EntryStepInv ==
  ASSUME IInv, NEW c \in Calls, Release(c) \/ StdinClose(c)
  PROVE  IInv'
<1>0. TypeOK /\ Stage /\ NothingLeftBehind /\ EntryIsWhole
  BY DEF IInv
<1>1. /\ c \in table /\ UNCHANGED <<calls, pc, id, topic, left, child>>
      /\ host' \subseteq host /\ table' \subseteq table
  BY DEF Release, StdinClose
<1>2. \A d, n : n \in OpenIn(host, d) <=> <<d, n>> \in host
  BY <1>0, Member DEF TypeOK
<1>3. \A d, n : n \in OpenIn(host', d) <=> <<d, n>> \in host'
  <2>1. host' \in SUBSET ((1 .. calls) \X Names)
    BY <1>0, <1>1 DEF TypeOK
  <2> QED BY <2>1, Member
<1>4. \A d, n : d # c => (<<d, n>> \in host' <=> <<d, n>> \in host)
  BY <1>0 DEF Release, StdinClose, TypeOK
<1>5. ASSUME NEW d, d # c PROVE OpenIn(host', d) = OpenIn(host, d)
  <2>1. \A n : n \in OpenIn(host', d) <=> n \in OpenIn(host, d)
    BY <1>2, <1>3, <1>4, <1>5
  <2> QED BY <2>1 DEF OpenIn
<1>6. TypeOK'
  BY <1>0, <1>1 DEF TypeOK
<1>7. Stage'
  <2>1. \A v \in Workers : pc[v] # "idle" => id[v] # c
    BY <1>0, <1>1 DEF TypeOK
  <2> QED BY <1>0, <1>1, <1>5, <2>1 DEF Stage
<1>8. \A d : Busy(d)' = Busy(d)
  BY <1>1 DEF Busy
<1>9. CASE Release(c)
  <2>1. \A n : <<c, n>> \notin host'
    BY <1>9 DEF Release
  <2>2. OpenIn(host', c) = {}
    BY <1>3, <2>1
  <2>3. table' = table \ {c}
    BY <1>9 DEF Release
  <2>4. NothingLeftBehind'
    <3> SUFFICES ASSUME NEW d \in 1 .. calls, ~Busy(d), d \notin table'
                 PROVE  OpenIn(host', d) \subseteq IF topic[d] = "tls" THEN {"cred", "ctx"} ELSE {}
      BY <1>1, <1>8 DEF NothingLeftBehind, OpenOf, OpenIn
    <3>1. CASE d = c
      BY <2>2, <3>1
    <3>2. CASE d # c
      <4>1. d \notin table
        BY <2>3, <3>2
      <4>2. OpenIn(host, d) \subseteq IF topic[d] = "tls" THEN {"cred", "ctx"} ELSE {}
        BY <1>0, <4>1 DEF NothingLeftBehind, OpenOf, OpenIn
      <4> QED BY <1>5, <3>2, <4>2
    <3> QED BY <3>1, <3>2
  <2>5. EntryIsWhole'
    <3>1. \A d \in table' : d \in table /\ OpenIn(host', d) = OpenIn(host, d)
      BY <1>5, <2>3
    <3> QED BY <1>0, <1>1, <3>1 DEF EntryIsWhole, OpenOf, OpenIn
  <2> QED BY <1>6, <1>7, <2>4, <2>5 DEF IInv
<1>10. CASE StdinClose(c)
  <2>1. table' = table /\ "inW" \in OpenIn(host, c)
    BY <1>2, <1>10 DEF StdinClose
  <2>2. \A n : <<c, n>> \in host' <=> <<c, n>> \in host /\ n # "inW"
    BY <1>10 DEF StdinClose
  <2>3. OpenIn(host', c) = OpenIn(host, c) \ {"inW"}
    BY <1>2, <1>3, <2>2
  <2>4. NothingLeftBehind'
    <3> SUFFICES ASSUME NEW d \in 1 .. calls, ~Busy(d), d \notin table
                 PROVE  OpenIn(host', d) \subseteq IF topic[d] = "tls" THEN {"cred", "ctx"} ELSE {}
      BY <1>1, <1>8, <2>1 DEF NothingLeftBehind, OpenOf, OpenIn
    <3>1. OpenIn(host, d) \subseteq IF topic[d] = "tls" THEN {"cred", "ctx"} ELSE {}
      BY <1>0 DEF NothingLeftBehind, OpenOf, OpenIn
    <3> QED BY <1>1, <1>5, <3>1
  <2>5. /\ topic[c] = "start"
        /\ OpenIn(host', c) \ {"inW"} = {"process", "outR", "errR"}
    BY <1>0, <1>1, <2>1, <2>3 DEF EntryIsWhole, OpenOf, OpenIn
  <2>6. EntryIsWhole'
    <3> DEFINE Fields(t, open) ==
                   CASE t \in {"dial", "listen"} -> open = {"sock"}
                     [] t = "tls" -> open = {"sock", "cred", "ctx"}
                     [] t = "start" -> open \ {"inW"} = {"process", "outR", "errR"}
                     [] OTHER -> FALSE
    <3>1. \A d \in table : Fields(topic[d], OpenIn(host, d))
      BY <1>0 DEF EntryIsWhole, OpenOf, OpenIn
    <3>2. Fields(topic[c], OpenIn(host', c))
      BY <2>5
    <3> HIDE DEF Fields
    <3>3. \A d \in table : Fields(topic[d], OpenIn(host', d))
      BY <1>5, <3>1, <3>2
    <3> QED BY <1>1, <2>1, <3>3 DEF EntryIsWhole, OpenOf, OpenIn, Fields
  <2> QED BY <1>6, <1>7, <2>4, <2>6 DEF IInv
<1> QED BY <1>9, <1>10

LEMMA IStep == IInv /\ [Next]_vars => IInv'
<1> SUFFICES ASSUME IInv, [Next]_vars PROVE IInv'
  OBVIOUS
<1>1. ASSUME UNCHANGED <<calls, pc, id, topic, left, host, table>>,
             child' \in [Calls -> SUBSET (Calls \X (Names \cup {"self"}))]
      PROVE  IInv'
  <2>1. TypeOK' /\ Stage'
    BY <1>1 DEF IInv, TypeOK, Stage
  <2>2. NothingLeftBehind' /\ EntryIsWhole'
    BY <1>1 DEF IInv, NothingLeftBehind, EntryIsWhole, OpenOf, Busy
  <2> QED BY <2>1, <2>2 DEF IInv
<1>2. ASSUME NEW c \in Calls, ProcessEnds(c) PROVE IInv'
  <2>1. child' \in [Calls -> SUBSET (Calls \X (Names \cup {"self"}))]
    BY <1>2 DEF ProcessEnds, IInv, TypeOK
  <2> QED BY <1>1, <1>2, <2>1 DEF ProcessEnds
<1>3. CASE UNCHANGED vars
  <2>1. child' \in [Calls -> SUBSET (Calls \X (Names \cup {"self"}))]
    BY <1>3 DEF IInv, TypeOK
  <2> QED BY <1>1, <1>3, <2>1
<1> QED BY <1>2, <1>3, CallStepInv, BeginInv, EntryStepInv DEF Next

LEMMA Invariance == Spec => []IInv
BY IInit, IStep, PTL DEF Spec

(* The types, that no two workers run one call, and that the table owns no *)
(* call a worker still runs.                                               *)
THEOREM TypeCorrect == Spec => []TypeOK
<1>1. IInv => TypeOK
  BY DEF IInv
<1> QED BY <1>1, Invariance, PTL

(* Whichever system call of Dial, ListenProbe, the probes, Exec, ExecStart *)
(* or TlsDial fails, the call closes all it has opened (but Schannel's     *)
(* credentials and context), with any number of calls at work.             *)
THEOREM NoneLeft == Spec => []NothingLeftBehind
<1>1. IInv => NothingLeftBehind
  BY DEF IInv
<1> QED BY <1>1, Invariance, PTL

(* What Alloc* puts in the table is open and is all the call has open.     *)
THEOREM Whole == Spec => []EntryIsWhole
<1>1. IInv => EntryIsWhole
  BY DEF IInv
<1> QED BY <1>1, Invariance, PTL

-----------------------------------------------------------------------------
(* Pipes, when launches do not overlap.                                    *)

LaunchStages == {"pipe1", "pipe2", "pipe3", "seal", "nul", "create"}
Unsealed == {"pipe2", "pipe3", "seal"}

(* A system call opens a parent's end only on the way to SetHandle-        *)
(* Information, and none makes a call a launch that was not one.           *)
Tidy(p, to, opens) ==
    /\ to \notin {"idle"} \cup Unsealed => opens \cap ParentEnds = {} /\ p \notin Unsealed
    /\ to \in LaunchStages => p \in LaunchStages

IsTidy(w) ==
    \E to \in Stages, opens \in SUBSET Names, closes \in SUBSET Names :
        /\ Go(w, to, opens, closes)
        /\ Tidy(pc[w], to, opens)

LEMMA CallIsTidy ==
  ASSUME TypeOK, NEW w \in Workers, CallStep(w), ~Seal(w), ~Alloc(w)
  PROVE  IsTidy(w) /\ pc[w] # "idle" /\ UNCHANGED <<calls, id, topic, table>>
<1>1. pc[w] # "idle" /\ UNCHANGED <<calls, id, topic, table>>
  <2>1. ASSUME NEW n \in 1 .. 3, CreatePipe(w, n)
        PROVE  pc[w] # "idle" /\ UNCHANGED <<calls, id, topic, table>>
    BY <2>1 DEF CreatePipe
  <2> QED BY <2>1 DEF CallStep, Resolve, Socket, Connect, Bind, Listen, AcquireCredentials,
          Handshake, StreamSizes, OpenNul, CreateProcess, ExecRead, ExecWaited
<1>2. ASSUME NEW to \in Stages, NEW opens \in SUBSET Names, NEW closes \in SUBSET Names,
             Go(w, to, opens, closes), Tidy(pc[w], to, opens)
      PROVE  IsTidy(w)
  BY <1>2 DEF IsTidy
<1>3. ASSUME NEW closes \in SUBSET Names, Go(w, "idle", {}, closes) PROVE IsTidy(w)
  <2>1. "idle" \in Stages /\ {} \in SUBSET Names /\ Tidy(pc[w], "idle", {})
    BY DEF Stages, Tidy, LaunchStages
  <2> QED BY <1>2, <1>3, <2>1
<1>4. ASSUME NEW to \in Stages \ LaunchStages, NEW opens \in SUBSET Names,
             NEW closes \in SUBSET Names, Go(w, to, opens, closes),
             pc[w] \notin Unsealed, opens \cap ParentEnds = {}
      PROVE  IsTidy(w)
  <2>1. Tidy(pc[w], to, opens)
    BY <1>4 DEF Tidy
  <2> QED BY <1>2, <1>4, <2>1
<1> SUFFICES IsTidy(w)
  BY <1>1
<1> USE DEF Stages, LaunchStages, Unsealed, Names, ParentEnds
<1>5. ASSUME NEW closes \in SUBSET Names, NextAddress(w, closes), pc[w] \in {"socket", "connect"}
      PROVE  IsTidy(w)
  <2>1. CASE Go(w, "socket", {}, closes)
    BY <1>4, <1>5, <2>1
  <2>2. CASE Go(w, "idle", {}, closes \cup {"res"})
    BY <1>3, <1>5, <2>2
  <2> QED BY <1>5, <2>1, <2>2 DEF NextAddress
<1>6. CASE Resolve(w)
  BY <1>3, <1>4, <1>6 DEF Resolve
<1>7. CASE Socket(w)
  BY <1>3, <1>4, <1>5, <1>7 DEF Socket
<1>8. CASE Connect(w)
  BY <1>4, <1>5, <1>8 DEF Connect, Connected, ConnectFails
<1>9. CASE Bind(w) \/ Listen(w)
  BY <1>3, <1>4, <1>9 DEF Bind, Listen
<1>10. CASE AcquireCredentials(w)
  BY <1>3, <1>4, <1>10 DEF AcquireCredentials
<1>11. CASE Handshake(w)
  BY <1>3, <1>4, <1>11 DEF Handshake
<1>12. CASE StreamSizes(w)
  BY <1>3, <1>4, <1>12 DEF StreamSizes
<1>13. ASSUME NEW n \in 1 .. 3, CreatePipe(w, n) PROVE IsTidy(w)
  <2>1. pc[w] \in {"pipe1", "pipe2", "pipe3"} /\ Pipes[n] \in SUBSET Names
    BY <1>13 DEF CreatePipe, Pipes
  <2>2. UNION {Pipes[i] : i \in 1 .. n - 1} \in SUBSET Names
    <3>1. \A i \in 1 .. 3 : Pipes[i] \subseteq Names
      BY DEF Pipes
    <3>2. 1 .. n - 1 \subseteq 1 .. 3
      OBVIOUS
    <3> QED BY <3>1, <3>2
  <2>3. \A to \in {"seal", "pipe2", "pipe3"} : Tidy(pc[w], to, Pipes[n])
    BY <2>1 DEF Tidy
  <2>4. \/ Go(w, "idle", {}, UNION {Pipes[i] : i \in 1 .. n - 1})
        \/ \E to \in {"seal", "pipe2", "pipe3"} : Go(w, to, Pipes[n], {})
    BY <1>13 DEF CreatePipe
  <2> QED BY <1>2, <1>3, <2>1, <2>2, <2>3, <2>4
<1>14. CASE OpenNul(w)
  <2>1. Tidy(pc[w], "create", {"nul"}) /\ Tidy(pc[w], "create", {})
    BY <1>14 DEF OpenNul, Tidy
  <2> QED BY <1>2, <1>14, <2>1 DEF OpenNul
<1>15. CASE CreateProcess(w)
  <2>1. ClosedAfterCreate \in SUBSET Names /\ ClosedAfterCreate \cup ParentEnds \in SUBSET Names
    BY DEF ClosedAfterCreate, ChildEnds
  <2>2. \/ Go(w, "idle", {}, ClosedAfterCreate \cup ParentEnds)
        \/ Go(w, "read", {"process", "thread"}, ClosedAfterCreate)
        \/ Go(w, "alloc", {"process"}, ClosedAfterCreate)
    BY <1>15 DEF CreateProcess
  <2>3. pc[w] = "create"
    BY <1>15 DEF CreateProcess
  <2> QED BY <1>3, <1>4, <2>1, <2>2, <2>3
<1>16. CASE ExecRead(w) \/ ExecWaited(w)
  BY <1>3, <1>4, <1>16 DEF ExecRead, ExecWaited
<1> QED BY <1>6, <1>7, <1>8, <1>9, <1>10, <1>11, <1>12, <1>13, <1>14, <1>15, <1>16
        DEF CallStep

LEMMA GoPipes ==
  ASSUME PipeInv, IInv', NEW w \in Workers, pc[w] # "idle", NEW me, me = id[w],
         NEW to \in Stages, NEW opens \in SUBSET Names, NEW closes \in SUBSET Names,
         Go(w, to, opens, closes), Tidy(pc[w], to, opens),
         UNCHANGED <<calls, id, topic, table>>
  PROVE  SealedEnds' /\ LaunchesApart'
<1>0. TypeOK /\ SealedEnds /\ LaunchesApart
  BY DEF PipeInv, IInv
<1>1. Moved(w, me, to, opens, closes)
  BY <1>0, GoShape
<1>2. \A v \in Workers : pc'[v] = IF v = w THEN to ELSE pc[v]
  BY <1>1 DEF Moved
<1>3. ASSUME NEW c \in 1 .. calls, NEW n \in ParentEnds, <<c, n>> \in host'
      PROVE  \/ <<c, n>> \in sealed'
             \/ \E v \in Workers : id[v] = c /\ pc'[v] \in Unsealed
  <2>1. CASE c # me
    <3>1. <<c, n>> \in host
      BY <1>1, <1>3, <2>1 DEF Moved
    <3>2. CASE <<c, n>> \in sealed
      BY <1>1, <2>1, <3>2 DEF Moved
    <3>3. ASSUME NEW v \in Workers, id[v] = c, pc[v] \in Unsealed
          PROVE  \E u \in Workers : id[u] = c /\ pc'[u] \in Unsealed
      BY <1>2, <2>1, <3>3
    <3> QED BY <1>0, <1>3, <3>1, <3>2, <3>3 DEF SealedEnds, Unsealed
  <2>2. CASE c = me /\ to \in Unsealed
    BY <1>2, <2>2
  <2>3. CASE c = me /\ to \notin Unsealed
    <3>1. n \in OpenIn(host', me)
      BY <1>1, <1>3, <2>3 DEF Moved
    <3>2. to # "idle"
      <4> SUFFICES ASSUME to = "idle" PROVE FALSE
        OBVIOUS
      <4>1. ~Busy(me)' /\ me \in 1 .. calls /\ me \notin table
        BY <1>0, <1>2 DEF Busy, TypeOK
      <4>2. OpenIn(host', me) \subseteq {"cred", "ctx"}
        BY <4>1 DEF IInv, NothingLeftBehind, OpenOf, OpenIn
      <4> QED BY <3>1, <4>2 DEF ParentEnds
    <3>3. opens \cap ParentEnds = {} /\ pc[w] \notin Unsealed
      BY <2>3, <3>2 DEF Tidy
    <3>4. n \in OpenIn(host, me) /\ n \notin closes
      BY <1>1, <3>1, <3>3 DEF Moved
    <3>5. <<me, n>> \in host
      BY <1>1, <3>4 DEF Moved
    <3>6. \A v \in Workers : id[v] = me => v = w
      BY <1>0 DEF TypeOK
    <3>7. <<me, n>> \in sealed
      BY <1>0, <1>3, <2>3, <3>3, <3>5, <3>6 DEF SealedEnds, Unsealed
    <3> QED BY <1>1, <2>3, <3>4, <3>7 DEF Moved
  <2> QED BY <2>1, <2>2, <2>3
<1>4. ASSUME NEW c \in 1 .. calls, NEW n \in ChildEnds, <<c, n>> \in host'
      PROVE  \E v \in Workers : pc'[v] \in LaunchStages /\ id[v] = c
  <2>1. CASE c # me
    <3>1. <<c, n>> \in host
      BY <1>1, <1>4, <2>1 DEF Moved
    <3>2. PICK v \in Workers : pc[v] \in LaunchStages /\ id[v] = c
      BY <1>0, <1>4, <3>1 DEF SealedEnds, Launching, LaunchStages
    <3> QED BY <1>2, <2>1, <3>2
  <2>2. CASE c = me
    <3>1. n \in OpenIn(host', me)
      BY <1>1, <1>4, <2>2 DEF Moved
    <3>2. CASE to = "idle"
      <4>1. ~Busy(me)' /\ me \in 1 .. calls /\ me \notin table
        BY <1>0, <1>2, <3>2 DEF Busy, TypeOK
      <4>2. OpenIn(host', me) \subseteq {"cred", "ctx"}
        BY <4>1 DEF IInv, NothingLeftBehind, OpenOf, OpenIn
      <4> QED BY <3>1, <4>2 DEF ChildEnds
    <3>3. CASE to # "idle"
      <4>1. Holds(topic[me], to, OpenIn(host', me))
        BY <1>2, <3>3 DEF IInv, Stage
      <4>2. to \in LaunchStages
        BY <3>1, <3>3, <4>1 DEF Holds, LaunchStages, Stages, ChildEnds
      <4> QED BY <1>2, <2>2, <4>2
    <3> QED BY <3>2, <3>3
  <2> QED BY <2>1, <2>2
<1>5. SealedEnds'
  BY <1>3, <1>4 DEF SealedEnds, Launching, Unsealed, LaunchStages
<1>6. LaunchesApart'
  <2>1. Launching' \subseteq Launching
    BY <1>2 DEF Launching, Tidy, LaunchStages
  <2> QED BY <1>0, <2>1 DEF LaunchesApart
<1> QED BY <1>5, <1>6

LEMMA PipeInit == Init => PipeInv
<1> SUFFICES ASSUME Init PROVE SealedEnds /\ LaunchesApart /\ PipesAreOwn
  BY IInit DEF PipeInv
<1> QED BY DEF Init, SealedEnds, LaunchesApart, Launching, PipesAreOwn

(* CreateProcessW hands on every inheritable end in the host: only those   *)
(* of the one launch there is.                                             *)
LEMMA InheritsOwn ==
  ASSUME PipeInv, MaxLaunching <= 1, NEW w \in Workers, pc[w] = "create",
         NEW o \in Inherited, o[2] \in ParentEnds \cup ChildEnds
  PROVE  o[1] = id[w] /\ o[2] \in ChildEnds
<1>1. PICK c \in 1 .. calls, n \in Names : o = <<c, n>> /\ o \in host /\ o \notin sealed
  BY DEF Inherited, PipeInv, IInv, TypeOK
<1>2. \A v \in Workers : pc[v] \in LaunchStages => v = w
  BY DEF PipeInv, LaunchesApart, Launching, LaunchStages
<1>3. n \notin ParentEnds
  BY <1>1, <1>2 DEF PipeInv, SealedEnds, LaunchStages
<1>4. n \in ChildEnds
  BY <1>1, <1>3
<1>5. c = id[w]
  BY <1>1, <1>2, <1>4 DEF PipeInv, SealedEnds, Launching, LaunchStages
<1> QED BY <1>1, <1>4, <1>5

LEMMA BeginPipes ==
  ASSUME PipeInv, NEW w \in Workers, NEW t \in Topics, Begin(w, t)
  PROVE  SealedEnds' /\ LaunchesApart' /\ PipesAreOwn'
<1>0. TypeOK /\ SealedEnds /\ LaunchesApart /\ PipesAreOwn /\ calls \in Nat
  BY BoundsAssumption DEF PipeInv, IInv, TypeOK
<1>1. /\ pc[w] = "idle" /\ calls' = calls + 1 /\ UNCHANGED <<host, sealed, child>>
      /\ t \in {"exec", "start"} => Cardinality(Launching) < MaxLaunching
  BY DEF Begin
<1>2. /\ \A v \in Workers : v # w => pc'[v] = pc[v] /\ id'[v] = id[v]
      /\ pc'[w] = IF t \in {"exec", "start"} THEN "pipe1" ELSE "resolve"
  BY <1>0 DEF Begin, TypeOK
<1>3. SealedEnds'
  <2>1. ASSUME NEW c \in 1 .. calls', NEW n \in ParentEnds \cup ChildEnds, <<c, n>> \in host
        PROVE  c \in 1 .. calls
    BY <1>0, <2>1 DEF TypeOK
  <2>2. ASSUME NEW c \in 1 .. calls, NEW v \in Workers, id[v] = c, pc[v] # "idle"
        PROVE  id'[v] = c /\ pc'[v] = pc[v]
    BY <1>1, <1>2, <2>2
  <2> QED BY <1>0, <1>1, <2>1, <2>2 DEF SealedEnds, Launching
<1>4. LaunchesApart'
  <2> SUFFICES ASSUME MaxLaunching <= 1, NEW u \in Launching', NEW v \in Launching' PROVE u = v
    BY DEF LaunchesApart
  <2>1. CASE t \in {"exec", "start"}
    <3>1. IsFiniteSet(Launching)
      <4>1. Launching \subseteq Workers
        BY DEF Launching
      <4> QED BY <4>1, WorkersAssumption, FS_Subset
    <3>2. Cardinality(Launching) \in Nat /\ (Cardinality(Launching) = 0 <=> Launching = {})
      BY <3>1, FS_CardinalityType, FS_EmptySet
    <3>3. Launching = {}
      BY <1>1, <2>1, <3>2, BoundsAssumption
    <3> QED BY <1>2, <3>3 DEF Launching
  <2>2. CASE t \notin {"exec", "start"}
    <3>1. Launching' \subseteq Launching
      BY <1>2, <2>2 DEF Launching
    <3> QED BY <1>0, <3>1 DEF LaunchesApart
  <2> QED BY <2>1, <2>2
<1> QED BY <1>0, <1>1, <1>3, <1>4 DEF PipesAreOwn

LEMMA PipeStep == PipeInv /\ [Next]_vars => PipeInv'
<1> SUFFICES ASSUME PipeInv, [Next]_vars, IInv'
             PROVE  SealedEnds' /\ LaunchesApart' /\ PipesAreOwn'
  BY IStep DEF PipeInv
<1>0. TypeOK /\ SealedEnds /\ LaunchesApart /\ PipesAreOwn
  BY DEF PipeInv, IInv
<1>1. ASSUME NEW w \in Workers, CallStep(w), ~Seal(w), ~Alloc(w)
      PROVE  SealedEnds' /\ LaunchesApart' /\ PipesAreOwn'
  <2>1. IsTidy(w) /\ pc[w] # "idle" /\ UNCHANGED <<calls, id, topic, table>>
    BY <1>0, <1>1, CallIsTidy
  <2>2. SealedEnds' /\ LaunchesApart'
    <3>1. PICK to \in Stages, opens \in SUBSET Names, closes \in SUBSET Names :
              Go(w, to, opens, closes) /\ Tidy(pc[w], to, opens)
      BY <2>1 DEF IsTidy
    <3> QED BY <2>1, <3>1, GoPipes
  <2> SUFFICES PipesAreOwn'
    BY <2>2
  <2>3. CASE UNCHANGED child
    BY <1>0, <2>3 DEF PipesAreOwn
  <2>4. CASE pc[w] = "create" /\ child' = [child EXCEPT ![id[w]] = Inherited \cup {<<id[w], "self">>}]
    <3> SUFFICES ASSUME MaxLaunching <= 1, NEW c \in Calls, NEW o \in child'[c],
                        o[2] \in ParentEnds \cup ChildEnds
                 PROVE  o[1] = c /\ o[2] \in ChildEnds
      BY DEF PipesAreOwn
    <3>1. child'[c] = IF c = id[w] THEN Inherited \cup {<<id[w], "self">>} ELSE child[c]
      BY <1>0, <2>4 DEF TypeOK
    <3>2. CASE c = id[w] /\ o \in Inherited
      BY <2>4, <3>2, InheritsOwn
    <3>3. CASE c = id[w] /\ o = <<id[w], "self">>
      BY <3>3 DEF ParentEnds, ChildEnds
    <3>4. CASE c # id[w]
      BY <1>0, <3>1, <3>4 DEF PipesAreOwn
    <3> QED BY <3>1, <3>2, <3>3, <3>4
  <2>5. UNCHANGED child \/ CreateProcess(w)
    <3>1. ASSUME NEW n \in 1 .. 3, CreatePipe(w, n) PROVE UNCHANGED child
      BY <3>1 DEF CreatePipe
    <3> QED BY <1>1, <3>1 DEF CallStep, Resolve, Socket, Connect, Bind, Listen,
            AcquireCredentials, Handshake, StreamSizes, OpenNul, ExecRead, ExecWaited
  <2> QED BY <2>3, <2>4, <2>5 DEF CreateProcess
<1>2. ASSUME NEW w \in Workers, Seal(w) PROVE SealedEnds' /\ LaunchesApart' /\ PipesAreOwn'
  <2>1. /\ pc[w] = "seal" /\ UNCHANGED <<calls, id, host, child>>
        /\ \A v \in Workers : v # w => pc'[v] = pc[v]
        /\ pc'[w] \in {"nul", "create"}
    BY <1>0, <1>2 DEF Seal, TypeOK
  <2>2. /\ sealed \subseteq sealed'
        /\ \A n \in ParentEnds : <<id[w], n>> \in host => <<id[w], n>> \in sealed'
    BY <1>2 DEF Seal, Sealed, Own
  <2>3. SealedEnds'
    <3>1. ASSUME NEW c \in 1 .. calls, NEW n \in ParentEnds, <<c, n>> \in host, <<c, n>> \notin sealed'
          PROVE  \E v \in Workers : id[v] = c /\ pc'[v] \in {"pipe2", "pipe3", "seal"}
      <4>1. c # id[w] /\ <<c, n>> \notin sealed
        BY <2>2, <3>1
      <4>2. PICK v \in Workers : id[v] = c /\ pc[v] \in {"pipe2", "pipe3", "seal"}
        BY <1>0, <3>1, <4>1 DEF SealedEnds
      <4> QED BY <2>1, <4>1, <4>2
    <3>2. ASSUME NEW c \in 1 .. calls, NEW n \in ChildEnds, <<c, n>> \in host
          PROVE  \E v \in Launching' : id[v] = c
      <4>1. Launching \subseteq Launching'
        BY <2>1 DEF Launching
      <4> QED BY <1>0, <3>2, <4>1 DEF SealedEnds
    <3> QED BY <2>1, <3>1, <3>2 DEF SealedEnds
  <2>4. LaunchesApart'
    <3>1. Launching' \subseteq Launching
      BY <2>1 DEF Launching
    <3> QED BY <1>0, <3>1 DEF LaunchesApart
  <2> QED BY <1>0, <2>1, <2>3, <2>4 DEF PipesAreOwn
<1>3. ASSUME NEW w \in Workers, Alloc(w) PROVE SealedEnds' /\ LaunchesApart' /\ PipesAreOwn'
  <2>1. /\ pc[w] = "alloc" /\ UNCHANGED <<calls, id, host, sealed, child>>
        /\ \A v \in Workers : v # w => pc'[v] = pc[v]
        /\ pc'[w] = "idle"
    BY <1>0, <1>3 DEF Alloc, TypeOK
  <2>2. Launching' = Launching
    BY <2>1 DEF Launching
  <2>3. SealedEnds'
    BY <1>0, <2>1, <2>2 DEF SealedEnds
  <2> QED BY <1>0, <2>1, <2>2, <2>3 DEF LaunchesApart, PipesAreOwn
<1>4. ASSUME NEW c \in Calls, Release(c) \/ StdinClose(c)
      PROVE  SealedEnds' /\ LaunchesApart' /\ PipesAreOwn'
  <2>1. UNCHANGED <<calls, pc, id, child>>
    BY <1>4 DEF Release, StdinClose
  <2>2. \A d, n : <<d, n>> \in host' => <<d, n>> \in host /\ (<<d, n>> \in sealed => <<d, n>> \in sealed')
    BY <1>4 DEF Release, StdinClose
  <2>3. SealedEnds' /\ LaunchesApart'
    BY <1>0, <2>1, <2>2 DEF SealedEnds, LaunchesApart, Launching
  <2> QED BY <1>0, <2>1, <2>3 DEF PipesAreOwn
<1>5. ASSUME NEW c \in Calls, ProcessEnds(c) PROVE SealedEnds' /\ LaunchesApart' /\ PipesAreOwn'
  <2>1. UNCHANGED <<calls, pc, id, host, sealed>>
    BY <1>5 DEF ProcessEnds
  <2>2. \A d \in Calls : child'[d] \subseteq child[d]
    BY <1>0, <1>5 DEF ProcessEnds, TypeOK
  <2>3. PipesAreOwn'
    BY <1>0, <2>2 DEF PipesAreOwn
  <2> QED BY <1>0, <2>1, <2>3 DEF SealedEnds, LaunchesApart, Launching
<1>6. CASE UNCHANGED vars
  BY <1>0, <1>6 DEF SealedEnds, LaunchesApart, Launching, PipesAreOwn
<1> QED BY <1>1, <1>2, <1>3, <1>4, <1>5, <1>6, BeginPipes DEF Next

(* A program that starts one process at a time: the process gets the ends  *)
(* of its own pipes that are the child's, and no end of another process's, *)
(* whatever other calls, releases and exits are under way.                 *)
THEOREM OwnPipes == Spec => []PipesAreOwn
<1>1. PipeInv => PipesAreOwn
  BY DEF PipeInv
<1> QED BY <1>1, PipeInit, PipeStep, PTL DEF Spec
=============================================================================

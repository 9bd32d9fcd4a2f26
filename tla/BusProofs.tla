----------------------------- MODULE BusProofs ------------------------------
(***************************************************************************)
(* What the bus promises for any number of layers, coroutines, topics and  *)
(* messages: what a Publish without an error has delivered, whose answer a *)
(* Call returns, and that an open layer is served.                         *)
(***************************************************************************)
EXTENDS Bus, TLAPS

USE DEF vars

-----------------------------------------------------------------------------
(* The state of the bus.                                                   *)

Ids == 0 .. MaxId
Frames == [id : Ids, topic : Requests \X {"request", "reply"}, from : Layers,
           payload : Payloads \cup {"good"}]
Msgs == Frames \cup {NoMsg}
Pcs == {"idle", "off", "exit", "recving", "sending", "sent", "got"}

TypeOK ==
    /\ layers \in Seq(Layers)
    /\ subs \in [Layers -> SUBSET Topics]
    /\ closed \in [Layers -> BOOLEAN]
    /\ nextId \in Ids /\ ops \in Nat
    /\ pc \in [Tasks -> Pcs]
    /\ out \in [Tasks -> Msgs] /\ in \in [Tasks -> Msgs]
    /\ todo \in [Tasks -> SUBSET Layers]
    /\ goal \in [Tasks -> SUBSET Layers] /\ reached \in [Tasks -> SUBSET Layers]
    /\ pub \in [Tasks -> {"none", "busy", "ok", "err"}]
    /\ served \in SUBSET (Servers \X Frames)

(* A coroutine publishes and handles only real messages.                   *)
Situated ==
    \A t \in Tasks :
        /\ pub[t] = "busy" <=> pc[t] \in {"sending", "sent"}
        /\ pc[t] \in {"sending", "sent"} => out[t] \in Frames
        /\ pc[t] = "got" => in[t] \in Frames

(* Whom Publish of t has not reached is closed or still on its list.       *)
Owed ==
    \A t \in Tasks : pub[t] \in {"busy", "ok"} =>
        \A l \in goal[t] \ reached[t] : closed[l] \/ (pub[t] = "busy" /\ l \in todo[t])

(* A caller holds no message while it publishes and waits, and waits only  *)
(* in a Call.                                                              *)
Asking ==
    \A c \in Callers :
        /\ pc[c] \notin {"off", "exit"}
        /\ out[c].topic[2] = "request"
        /\ pc[c] \in {"sending", "sent", "recving"} => in[c] = NoMsg
        /\ pc[c] \in {"recving", "got"} => out[c].id # 0

(* Every reply in the system answers a request that was served.            *)
Answered(m, past) ==
    m.topic[2] = "reply" =>
        \E x \in Frames : /\ <<m.from, x>> \in past
                          /\ x.id = m.id /\ x.topic[2] = "request"
                          /\ ReplyOf(x.topic) = m.topic
Replied == \A t \in Tasks : Answered(out[t], served) /\ Answered(in[t], served)

BusInv == TypeOK /\ Situated /\ Owed /\ Asking /\ Replied

(* The requests of Calls that anybody holds or has answered.               *)
Seen(o, i, past) == {o[t] : t \in Tasks} \cup {i[t] : t \in Tasks} \cup {x[2] : x \in past}
Numbered(msgs) == {m \in msgs : m.id # 0 /\ m.topic[2] = "request"}

(* Until next_id_ wraps, an id belongs to one request.                     *)
OneRequest(S, id) ==
    \A x \in Numbered(S) : x.id <= id /\ \A y \in Numbered(S) : x.id = y.id => x = y
IdsApart == nextId <= ops /\ OneRequest(Seen(out, in, served), nextId)

CallInv == BusInv /\ IdsApart /\ ReplyAnswersCall

(* One layer at most, besides the one that answers, takes the replies to a *)
(* request.                                                                *)
TakesReply(l, q) == <<q, "reply">> \in Subscribed[l] \/ Star \in Subscribed[l]
OneTaker == \A q \in Requests : \A k, l \in Layers : TakesReply(k, q) /\ TakesReply(l, q) => k = l

(* A layer that answers has one layer to write to, and writes what fits.   *)
Answering ==
    \A l \in Servers :
        /\ pc[l] \in {"sending", "sent"} => out[l].payload = "good"
        /\ pc[l] = "sending" => \E k \in 1 .. Len(layers) : todo[l] = {layers[k]}
        /\ pc[l] = "sent" => todo[l] = {}
Attached ==
    /\ \A l \in Layers : subs[l] \subseteq Subscribed[l]
    /\ \A j, k \in 1 .. Len(layers) : layers[j] = layers[k] => j = k

ServeInv == BusInv /\ Attached /\ Answering /\ OpenLayerIsServed

(* The set-up of DefaultStubs with one coroutine that only Calls: one      *)
(* layer takes each request, and no layer with a ServeLayer takes replies  *)
(* or is the caller's.                                                     *)
TakesRequest(l, q) == <<q, "request">> \in Subscribed[l] \/ Star \in Subscribed[l]
Wired ==
    /\ OneTaker
    /\ \A q \in Requests : \A k, l \in Layers : TakesRequest(k, q) /\ TakesRequest(l, q) => k = l
    /\ \A q \in Requests : \A l \in Servers : ~TakesReply(l, q)
    /\ \A c \in Callers : CallerLayer[c] \notin Servers /\ PublishesOf[c] = {}
    /\ \A c, d \in Callers : c = d

(* The caller writes to one layer, not its own, what it can frame; replies *)
(* go to no layer that serves.                                             *)
Calling ==
    \A c \in Callers :
        /\ pc[c] \in {"sending", "sent"} => out[c].id # 0 /\ out[c].payload # "huge"
        /\ pc[c] = "sending" =>
              \E k \in 1 .. Len(layers) : todo[c] = {layers[k]} /\ layers[k] # CallerLayer[c]
        /\ pc[c] = "sent" => todo[c] = {}
Replying == \A l \in Servers : pc[l] = "sending" => todo[l] \cap Servers = {}

(* The caller and the layers that serve it take turns.                     *)
Pending(l) == pc[l] \in {"got", "sending"}
Turns ==
    \A c \in Callers : IsOpen(CallerLayer[c]) =>
        \A l \in Servers : Pending(l) =>
            pc[c] \in {"sent", "recving"} /\ \A k \in Servers : Pending(k) => k = l

TurnInv == ServeInv /\ Calling /\ Replying /\ Turns

-----------------------------------------------------------------------------
(* Facts about the operators of Bus.                                       *)

LEMMA TaskFacts ==
    /\ \A c \in Callers : c \in Tasks /\ c \notin Servers /\ LayerOf(c) \in Layers
    /\ \A l \in Servers : l \in Tasks /\ l \notin Callers /\ LayerOf(l) = l /\ l \in Layers
    /\ \A t \in Tasks : LayerOf(t) \in Layers /\ (t \in Callers \/ t \in Servers)
BY BusAssumption DEF Tasks, LayerOf

LEMMA FrameFacts ==
    /\ NoMsg \in Msgs /\ NoMsg.id = 0 /\ NoMsg.topic[2] = "request"
    /\ \A past : Answered(NoMsg, past)
    /\ \A m \in Frames : m \in Msgs
BY DEF NoMsg, Star, Msgs, Answered

(* Where a coroutine is when its Publish is over.                          *)
LEMMA PcFacts ==
  ASSUME NEW t \in Tasks, NEW m
  PROVE  /\ GiveUp(t) \in {"idle", "exit"} /\ (t \in Callers => GiveUp(t) = "idle")
         /\ EnterRecv(t) \in {"recving", GiveUp(t)}
         /\ AfterPublish(t, m) \in {"recving", "idle", "exit"}
         /\ t \in Callers => AfterPublish(t, m) \in {"recving", "idle"}
         /\ t \in Callers /\ m.id = 0 => AfterPublish(t, m) = "idle"
BY DEF GiveUp, EnterRecv, AfterPublish

(* What RunPublish of m to ts does: write on, fail, or be done.            *)
Ran(t, m, ts) ==
    /\ pc' \in [Tasks -> Pcs] /\ pub' \in [Tasks -> {"none", "busy", "ok", "err"}]
    /\ todo' \in [Tasks -> SUBSET Layers]
    /\ \A u \in Tasks : u # t => pc'[u] = pc[u] /\ pub'[u] = pub[u] /\ todo'[u] = todo[u]
    /\ \/ pub'[t] = "busy" /\ pc'[t] = "sending" /\ todo'[t] = ts /\ ts # {} /\ m.payload # "huge"
       \/ /\ pub'[t] = "err" /\ pc'[t] = GiveUp(t)
          /\ m.payload = "huge" \/ (ts # {} /\ closed[First(ts)])
       \/ pub'[t] = "ok" /\ pc'[t] = AfterPublish(t, m) /\ ts = {}

LEMMA RunPublishRuns ==
  ASSUME TypeOK, NEW t \in Tasks, NEW m, NEW ts \in SUBSET Layers, RunPublish(t, m, ts)
  PROVE  Ran(t, m, ts)
<1> DEFINE st == WriteNext(m, ts)
           at == CASE st = "busy" -> "sending"
                   [] st = "err"  -> GiveUp(t)
                   [] st = "ok"   -> AfterPublish(t, m)
<1>1. /\ st \in {"err", "ok", "busy"}
      /\ st = "err" => m.payload = "huge" \/ (ts # {} /\ closed[First(ts)])
      /\ st = "ok" => ts = {}
      /\ st = "busy" => ts # {} /\ m.payload # "huge"
  BY DEF WriteNext
<1>2. /\ pub' = [pub EXCEPT ![t] = st]
      /\ todo' = [todo EXCEPT ![t] = IF st = "busy" THEN ts ELSE {}]
      /\ pc' = [pc EXCEPT ![t] = at]
  BY DEF RunPublish
<1> HIDE DEF st
<1>3. at \in Pcs
  BY <1>1, PcFacts DEF Pcs
<1>4. /\ st = "busy" => at = "sending"
      /\ st = "err" => at = GiveUp(t)
      /\ st = "ok" => at = AfterPublish(t, m)
  OBVIOUS
<1> HIDE DEF at
<1>5. /\ pc' \in [Tasks -> Pcs] /\ pc'[t] = at
      /\ \A u \in Tasks : u # t => pc'[u] = pc[u]
  BY <1>2, <1>3 DEF TypeOK
<1>6. /\ pub' \in [Tasks -> {"none", "busy", "ok", "err"}] /\ pub'[t] = st
      /\ \A u \in Tasks : u # t => pub'[u] = pub[u]
  BY <1>1, <1>2 DEF TypeOK
<1>7. /\ todo' \in [Tasks -> SUBSET Layers] /\ todo'[t] = IF st = "busy" THEN ts ELSE {}
      /\ \A u \in Tasks : u # t => todo'[u] = todo[u]
  BY <1>2 DEF TypeOK
<1> QED BY <1>1, <1>4, <1>5, <1>6, <1>7 DEF Ran

(* A new Publish.                                                          *)
Started(t, m) ==
    /\ Ran(t, m, Targets(m))
    /\ out' \in [Tasks -> Msgs] /\ out'[t] = m
    /\ in' \in [Tasks -> Msgs] /\ in'[t] = NoMsg
    /\ goal' \in [Tasks -> SUBSET Layers] /\ goal'[t] = Targets(m)
    /\ reached' \in [Tasks -> SUBSET Layers]
    /\ \A u \in Tasks : u # t => /\ out'[u] = out[u] /\ in'[u] = in[u]
                                /\ goal'[u] = goal[u] /\ reached'[u] = reached[u]

LEMMA StartPublishStarts ==
  ASSUME TypeOK, NEW t \in Tasks, NEW m \in Frames, StartPublish(t, m)
  PROVE  Started(t, m)
<1>1. Targets(m) \in SUBSET Layers
  BY DEF Targets
<1>2. Ran(t, m, Targets(m))
  <2> DEFINE ts == Targets(m)
  <2>1. RunPublish(t, m, ts) /\ ts \in SUBSET Layers
    BY <1>1 DEF StartPublish
  <2> HIDE DEF ts
  <2>2. Ran(t, m, ts)
    BY <2>1, RunPublishRuns
  <2> QED BY <2>2 DEF ts
<1>3. /\ out' = [out EXCEPT ![t] = m]
      /\ in' = [in EXCEPT ![t] = NoMsg]
      /\ goal' = [goal EXCEPT ![t] = Targets(m)]
      /\ reached' = [reached EXCEPT ![t] = {}]
  BY DEF StartPublish
<1>4. /\ out' \in [Tasks -> Msgs] /\ out'[t] = m /\ \A u \in Tasks : u # t => out'[u] = out[u]
  BY <1>3, FrameFacts DEF TypeOK
<1>5. /\ in' \in [Tasks -> Msgs] /\ in'[t] = NoMsg /\ \A u \in Tasks : u # t => in'[u] = in[u]
  BY <1>3, FrameFacts DEF TypeOK
<1>6. /\ goal' \in [Tasks -> SUBSET Layers] /\ goal'[t] = Targets(m)
      /\ \A u \in Tasks : u # t => goal'[u] = goal[u]
  BY <1>1, <1>3 DEF TypeOK
<1>7. /\ reached' \in [Tasks -> SUBSET Layers]
      /\ \A u \in Tasks : u # t => reached'[u] = reached[u]
  BY <1>3 DEF TypeOK
<1> QED BY <1>2, <1>4, <1>5, <1>6, <1>7 DEF Started

(* What was answered stays so.                                             *)
LEMMA AnsweredGrows ==
  ASSUME NEW m, NEW past, NEW more, past \subseteq more, Answered(m, past)
  PROVE  Answered(m, more)
BY DEF Answered

-----------------------------------------------------------------------------
(* BusInv holds at the start and after every step.                         *)

LEMMA BusInitInv == Init => BusInv
<1> SUFFICES ASSUME Init PROVE BusInv
  OBVIOUS
<1>1. TypeOK
  <2>1. layers \in Seq(Layers) /\ subs \in [Layers -> SUBSET Topics]
    BY BusAssumption DEF Init
  <2>2. pc \in [Tasks -> Pcs]
    BY DEF Init, Pcs
  <2>3. nextId \in Ids /\ ops \in Nat
    BY BusAssumption DEF Init, Ids
  <2> QED BY <2>1, <2>2, <2>3, FrameFacts DEF Init, TypeOK
<1>2. Situated /\ Owed
  BY DEF Init, Situated, Owed
<1>3. Asking
  BY TaskFacts, FrameFacts DEF Init, Asking
<1>4. Replied
  BY FrameFacts DEF Init, Replied
<1> QED BY <1>1, <1>2, <1>3, <1>4 DEF BusInv

LEMMA StartInv ==
  ASSUME BusInv, NEW t \in Tasks, NEW m \in Frames, Started(t, m),
         UNCHANGED <<layers, subs, closed>>, nextId' \in Ids, ops' \in Nat,
         served \subseteq served', served' \in SUBSET (Servers \X Frames),
         Answered(m, served'), t \in Callers => m.topic[2] = "request"
  PROVE  BusInv'
<1>0. TypeOK /\ Situated /\ Owed /\ Asking /\ Replied /\ Ran(t, m, Targets(m))
  BY DEF BusInv, Started
<1>1. TypeOK'
  BY <1>0 DEF TypeOK, Started, Ran
<1>2. pc'[t] \in {"sending", "recving", "idle", "exit"} /\ (pub'[t] = "busy" <=> pc'[t] = "sending")
  BY <1>0, PcFacts DEF Ran
<1>3. Situated'
  BY <1>0, <1>2 DEF Situated, Started, Ran
<1>4. Owed'
  <2>1. ASSUME NEW u \in Tasks, u # t PROVE
          pub'[u] = pub[u] /\ goal'[u] = goal[u] /\ reached'[u] = reached[u] /\ todo'[u] = todo[u]
    BY <1>0, <2>1 DEF Started, Ran
  <2>2. pub'[t] \in {"busy", "ok"} => \A l \in goal'[t] : pub'[t] = "busy" /\ l \in todo'[t]
    BY <1>0 DEF Started, Ran
  <2> QED BY <1>0, <2>1, <2>2 DEF Owed
<1>5. Asking'
  <2> SUFFICES ASSUME NEW c \in Callers
               PROVE  /\ pc'[c] \notin {"off", "exit"}
                      /\ out'[c].topic[2] = "request"
                      /\ pc'[c] \in {"sending", "sent", "recving"} => in'[c] = NoMsg
                      /\ pc'[c] \in {"recving", "got"} => out'[c].id # 0
    BY DEF Asking
  <2>0. c \in Tasks
    BY TaskFacts
  <2>1. CASE c # t
    BY <1>0, <2>0, <2>1 DEF Asking, Started, Ran
  <2>2. CASE c = t
    <3>1. pc'[t] \in {"sending", "recving", "idle"} /\ (m.id = 0 => pc'[t] # "recving")
      BY <1>0, <2>2, PcFacts DEF Ran
    <3> QED BY <2>2, <3>1 DEF Started
  <2> QED BY <2>1, <2>2
<1>6. Replied'
  <2> SUFFICES ASSUME NEW u \in Tasks PROVE Answered(out'[u], served') /\ Answered(in'[u], served')
    BY DEF Replied, Answered
  <2>1. CASE u # t
    BY <1>0, <2>1, AnsweredGrows DEF Replied, Started
  <2>2. CASE u = t
    BY <2>2, FrameFacts DEF Started
  <2> QED BY <2>1, <2>2
<1> QED BY <1>1, <1>3, <1>4, <1>5, <1>6 DEF BusInv

LEMMA RequestIsFrame ==
  ASSUME NEW c \in Callers, NEW id \in Ids, NEW q \in Requests, NEW p \in Payloads
  PROVE  /\ Request(c, id, q, p) \in Frames /\ Request(c, id, q, p).topic[2] = "request"
         /\ Request(c, id, q, p).id = id /\ Request(c, id, q, p).from = CallerLayer[c]
BY BusAssumption DEF Request, Frames

LEMMA NewIdIsId == TypeOK => NewCallId \in Ids /\ NewCallId # 0
BY BusAssumption DEF TypeOK, NewCallId, Ids

(* Call and Publish start with a request.                                  *)
Begins(c, m) ==
    /\ m \in Frames /\ m.topic[2] = "request" /\ m.id \in Ids
    /\ Started(c, m) /\ pc[c] = "idle"
    /\ m.from = CallerLayer[c] /\ (m.id = 0 => PublishesOf[c] # {})
    /\ UNCHANGED <<layers, subs, closed, served>>
    /\ ops < MaxOps /\ ops' = ops + 1
    /\ \/ m.id = NewCallId /\ nextId' = NewCallId
       \/ m.id = 0 /\ nextId' = nextId

LEMMA CallerBegins ==
  ASSUME TypeOK, NEW c \in Callers, NEW p \in Payloads,
         \/ \E q \in CallsOf[c] : Call(c, q, p)
         \/ \E q \in PublishesOf[c] : Publish(c, q, p)
  PROVE  \E m \in Frames : Begins(c, m)
<1>0. c \in Tasks /\ NewCallId \in Ids /\ 0 \in Ids
  BY TaskFacts, NewIdIsId, BusAssumption DEF Ids
<1>1. ASSUME NEW q \in CallsOf[c], Call(c, q, p) PROVE \E m \in Frames : Begins(c, m)
  <2> DEFINE m == Request(c, NewCallId, q, p)
  <2>1. m \in Frames /\ m.topic[2] = "request" /\ m.id = NewCallId /\ m.from = CallerLayer[c]
    <3>1. q \in Requests
      BY BusAssumption
    <3>2. PICK id \in Ids : id = NewCallId
      BY <1>0
    <3> QED BY <3>1, <3>2, RequestIsFrame
  <2>2. StartPublish(c, m)
    BY <1>1 DEF Call
  <2>3. /\ pc[c] = "idle" /\ ops < MaxOps /\ ops' = ops + 1 /\ nextId' = NewCallId
        /\ UNCHANGED <<layers, subs, closed, served>>
    BY <1>1 DEF Call
  <2> HIDE DEF m
  <2>4. Started(c, m)
    BY <1>0, <2>1, <2>2, StartPublishStarts
  <2>5. Begins(c, m)
    BY <1>0, <2>1, <2>3, <2>4, NewIdIsId DEF Begins
  <2> QED BY <2>1, <2>5
<1>2. ASSUME NEW q \in PublishesOf[c], Publish(c, q, p) PROVE \E m \in Frames : Begins(c, m)
  <2> DEFINE m == Request(c, 0, q, p)
  <2>1. m \in Frames /\ m.topic[2] = "request" /\ m.id = 0 /\ m.from = CallerLayer[c]
    <3>1. q \in Requests
      BY BusAssumption
    <3> QED BY <1>0, <3>1, RequestIsFrame
  <2>2. StartPublish(c, m)
    BY <1>2 DEF Publish
  <2>3. /\ pc[c] = "idle" /\ ops < MaxOps /\ ops' = ops + 1 /\ nextId' = nextId
        /\ UNCHANGED <<layers, subs, closed, served>>
    BY <1>2 DEF Publish
  <2> HIDE DEF m
  <2>4. Started(c, m)
    BY <1>0, <2>1, <2>2, StartPublishStarts
  <2>5. Begins(c, m)
    BY <1>0, <2>1, <2>3, <2>4, NewIdIsId DEF Begins
  <2> QED BY <2>1, <2>5
<1> QED BY <1>1, <1>2

LEMMA BeginInv ==
  ASSUME BusInv, NEW c \in Callers, NEW m \in Frames, Begins(c, m)
  PROVE  BusInv'
<1>1. TypeOK /\ c \in Tasks
  BY TaskFacts DEF BusInv
<1>2. nextId' \in Ids /\ ops' \in Nat
  BY <1>1, NewIdIsId DEF Begins, TypeOK
<1>3. Answered(m, served')
  BY DEF Begins, Answered
<1>4. served' = served /\ served \in SUBSET (Servers \X Frames)
  BY <1>1 DEF Begins, TypeOK
<1> QED BY <1>1, <1>2, <1>3, <1>4, StartInv DEF Begins

(* Answer replies to a request it has received.                            *)
Answers(l, m) ==
    /\ m \in Frames /\ m.topic[2] = "reply" /\ m.payload = "good"
    /\ Started(l, m) /\ pc[l] = "got" /\ in[l] \in Frames
    /\ served' = served \cup {<<l, in[l]>>}
    /\ Answered(m, served')
    /\ UNCHANGED <<layers, subs, closed, nextId, ops>>

LEMMA ServeAnswers ==
  ASSUME BusInv, NEW l \in Servers, Answer(l)
  PROVE  \E m \in Frames : Answers(l, m)
<1> DEFINE x == in[l]
           m == Reply(l, x)
<1>0. TypeOK /\ Situated /\ l \in Tasks /\ l \in Layers
  BY TaskFacts DEF BusInv
<1>1. /\ pc[l] = "got" /\ StartPublish(l, m) /\ served' = served \cup {<<l, x>>}
      /\ UNCHANGED <<layers, subs, closed, nextId, ops>>
  BY DEF Answer
<1>2. x \in Frames /\ x.topic[2] = "request"
  BY <1>0, <1>1 DEF Situated, MayReply, Answer
<1>3. /\ m \in Frames /\ m.topic[2] = "reply" /\ m.payload = "good" /\ m.id = x.id
      /\ m.topic = ReplyOf(x.topic) /\ m.from = l
  <2> HIDE DEF x
  <2> QED BY <1>0, <1>2 DEF Reply, ReplyOf, Frames
<1> HIDE DEF x, m
<1>4. Answered(m, served')
  BY <1>1, <1>2, <1>3 DEF Answered
<1>5. Started(l, m)
  BY <1>0, <1>1, <1>3, StartPublishStarts
<1>6. Answers(l, m)
  BY <1>1, <1>2, <1>3, <1>4, <1>5 DEF Answers, x
<1> QED BY <1>3, <1>6

LEMMA AnswerInv ==
  ASSUME BusInv, NEW l \in Servers, NEW m \in Frames, Answers(l, m)
  PROVE  BusInv'
<1>1. TypeOK /\ l \in Tasks /\ l \notin Callers
  BY TaskFacts DEF BusInv
<1>2. /\ nextId' \in Ids /\ ops' \in Nat
      /\ served \subseteq served' /\ served' \in SUBSET (Servers \X Frames)
  BY <1>1 DEF Answers, TypeOK
<1> QED BY <1>1, <1>2, StartInv DEF Answers

(* The next target of a Publish.                                           *)
SentOn(t) ==
    /\ pc[t] = "sent" /\ out[t] \in Frames
    /\ Ran(t, out[t], todo[t])
    /\ UNCHANGED <<layers, subs, closed, nextId, out, in, goal, reached, served, ops>>

LEMMA SentRuns ==
  ASSUME BusInv, NEW t \in Tasks, Sent(t)
  PROVE  SentOn(t)
<1>0. TypeOK /\ Situated
  BY DEF BusInv
<1>1. /\ pc[t] = "sent" /\ RunPublish(t, out[t], todo[t])
      /\ UNCHANGED <<layers, subs, closed, nextId, out, in, goal, reached, served, ops>>
  BY DEF Sent
<1>2. out[t] \in Frames /\ todo[t] \in SUBSET Layers
  BY <1>0, <1>1 DEF Situated, TypeOK
<1>3. PICK m, ts : m = out[t] /\ ts = todo[t]
  OBVIOUS
<1>4. Ran(t, m, ts)
  BY <1>0, <1>1, <1>2, <1>3, RunPublishRuns
<1> QED BY <1>1, <1>2, <1>3, <1>4 DEF SentOn

LEMMA SentInv ==
  ASSUME BusInv, NEW t \in Tasks, SentOn(t)
  PROVE  BusInv'
<1>0. /\ TypeOK /\ Situated /\ Owed /\ Asking /\ Replied /\ Ran(t, out[t], todo[t])
      /\ pc[t] = "sent" /\ pub[t] = "busy"
      /\ UNCHANGED <<layers, subs, closed, nextId, out, in, goal, reached, served, ops>>
  BY DEF BusInv, SentOn, Situated
<1>1. TypeOK'
  BY <1>0 DEF TypeOK, Ran
<1>2. pc'[t] \in {"sending", "recving", "idle", "exit"} /\ (pub'[t] = "busy" <=> pc'[t] = "sending")
  BY <1>0, PcFacts DEF Ran
<1>3. Situated'
  <2>1. ASSUME NEW u \in Tasks PROVE
          /\ pub'[u] = "busy" <=> pc'[u] \in {"sending", "sent"}
          /\ pc'[u] \in {"sending", "sent"} => out[u] \in Frames
          /\ pc'[u] = "got" => in[u] \in Frames
    <3>1. CASE u = t
      BY <1>2, <3>1 DEF SentOn
    <3>2. CASE u # t
      BY <1>0, <3>2 DEF Ran, Situated
    <3> QED BY <3>1, <3>2
  <2> QED BY <1>0, <2>1 DEF Situated
<1>4. Owed'
  BY <1>0 DEF Owed, Ran
<1>5. Asking'
  <2> SUFFICES ASSUME NEW c \in Callers
               PROVE  /\ pc'[c] \notin {"off", "exit"}
                      /\ pc'[c] \in {"sending", "sent", "recving"} => in[c] = NoMsg
                      /\ pc'[c] \in {"recving", "got"} => out[c].id # 0
    BY <1>0 DEF Asking
  <2>0. c \in Tasks
    BY TaskFacts
  <2>1. CASE c # t
    BY <1>0, <2>0, <2>1 DEF Asking, Ran
  <2>2. CASE c = t
    <3>1. pc'[t] \in {"sending", "recving", "idle"} /\ (out[t].id = 0 => pc'[t] # "recving")
      BY <1>0, <2>2, PcFacts DEF Ran
    <3> QED BY <1>0, <2>2, <3>1 DEF Asking
  <2> QED BY <2>1, <2>2
<1>6. Replied'
  BY <1>0 DEF Replied, Answered
<1> QED BY <1>1, <1>3, <1>4, <1>5, <1>6 DEF BusInv

(* Deliver.                                                                *)
LEMMA DeliverInv ==
  ASSUME BusInv, NEW s \in Tasks, NEW r \in Tasks, Deliver(s, r)
  PROVE  BusInv'
<1> DEFINE l == LayerOf(r)
<1>0. TypeOK /\ Situated /\ Owed /\ Asking /\ Replied /\ l \in Layers
  BY TaskFacts DEF BusInv
<1>1. /\ pc[s] = "sending" /\ pc[r] = "recving" /\ s # r
      /\ in' = [in EXCEPT ![r] = out[s]]
      /\ reached' = [reached EXCEPT ![s] = @ \cup {l}]
      /\ todo' = [todo EXCEPT ![s] = @ \ {l}]
      /\ pc' = [pc EXCEPT ![s] = "sent", ![r] = "got"]
      /\ UNCHANGED <<layers, subs, closed, nextId, out, pub, goal, served, ops>>
  BY DEF Deliver, SendsTo, ReceivesOn
<1> HIDE DEF l
<1>2. out[s] \in Frames
  BY <1>0, <1>1 DEF Situated
<1>3. /\ in' \in [Tasks -> Msgs] /\ in'[r] = out[s] /\ \A u \in Tasks : u # r => in'[u] = in[u]
  BY <1>0, <1>1 DEF TypeOK
<1>4. /\ reached' \in [Tasks -> SUBSET Layers] /\ reached'[s] = reached[s] \cup {l}
      /\ todo' \in [Tasks -> SUBSET Layers] /\ todo'[s] = todo[s] \ {l}
      /\ \A u \in Tasks : u # s => reached'[u] = reached[u] /\ todo'[u] = todo[u]
  BY <1>0, <1>1 DEF TypeOK
<1>5. /\ pc' \in [Tasks -> Pcs] /\ pc'[s] = "sent" /\ pc'[r] = "got"
      /\ \A u \in Tasks : u # s /\ u # r => pc'[u] = pc[u]
  BY <1>0, <1>1 DEF TypeOK, Pcs
<1>6. TypeOK'
  BY <1>0, <1>1, <1>3, <1>4, <1>5 DEF TypeOK
<1>7. Situated'
  BY <1>0, <1>1, <1>2, <1>3, <1>5 DEF Situated
<1>8. Owed'
  BY <1>0, <1>1, <1>4 DEF Owed
<1>9. Asking'
  BY <1>0, <1>1, <1>3, <1>5, TaskFacts DEF Asking
<1>10. Replied'
  <2>1. \A u \in Tasks : Answered(out[u], served) /\ Answered(in'[u], served)
    BY <1>0, <1>3 DEF Replied
  <2> QED BY <1>1, <2>1 DEF Replied, Answered
<1> QED BY <1>6, <1>7, <1>8, <1>9, <1>10 DEF BusInv

(* The steps that only move one coroutine: CallReceived, Ignore, Eof.      *)
Moves(t, at) ==
    /\ pc[t] \in {"got", "recving"} /\ at \in {"recving", "idle", "exit"}
    /\ t \in Callers => at # "exit"
    /\ pc' = [pc EXCEPT ![t] = at]
    /\ in' \in {in, [in EXCEPT ![t] = NoMsg]}
    /\ at = "recving" => in' = [in EXCEPT ![t] = NoMsg]
    /\ UNCHANGED <<layers, subs, closed, nextId, out, todo, pub, goal, reached, served, ops>>

LEMMA MoveInv ==
  ASSUME BusInv, NEW t \in Tasks, NEW at, Moves(t, at)
  PROVE  BusInv'
<1>0. /\ TypeOK /\ Situated /\ Owed /\ Asking /\ Replied
      /\ pc[t] \in {"got", "recving"} /\ at \in {"recving", "idle", "exit"}
      /\ t \in Callers => at # "exit"
      /\ UNCHANGED <<layers, subs, closed, nextId, out, todo, pub, goal, reached, served, ops>>
  BY DEF BusInv, Moves
<1>1. pc' \in [Tasks -> Pcs] /\ pc'[t] = at /\ \A u \in Tasks : u # t => pc'[u] = pc[u]
  BY <1>0 DEF Moves, TypeOK, Pcs
<1>2. /\ in' \in [Tasks -> Msgs] /\ \A u \in Tasks : u # t => in'[u] = in[u]
      /\ in'[t] \in {in[t], NoMsg} /\ (at = "recving" => in'[t] = NoMsg)
  BY <1>0, FrameFacts DEF Moves, TypeOK
<1>3. TypeOK'
  BY <1>0, <1>1, <1>2 DEF TypeOK
<1>4. Situated'
  BY <1>0, <1>1, <1>2 DEF Situated
<1>5. Owed'
  BY <1>0 DEF Owed
<1>6. Asking'
  BY <1>0, <1>1, <1>2, TaskFacts DEF Asking
<1>7. Replied'
  <2>1. \A u \in Tasks : Answered(out[u], served) /\ Answered(in'[u], served)
    BY <1>0, <1>2, FrameFacts DEF Replied
  <2> QED BY <1>0, <2>1 DEF Replied, Answered
<1> QED BY <1>3, <1>4, <1>5, <1>6, <1>7 DEF BusInv

LEMMA CallReceivedMoves ==
  ASSUME TypeOK, NEW c \in Callers, CallReceived(c)
  PROVE  /\ \E at \in {"recving", "idle"} : Moves(c, at)
         /\ pc[c] = "got"
         /\ IsReply(c, in[c]) => in' = in
         /\ ~IsReply(c, in[c]) => in' = [in EXCEPT ![c] = NoMsg]
<1>0. c \in Tasks
  BY TaskFacts
<1>1. EnterRecv(c) \in {"recving", "idle"}
  BY <1>0, PcFacts
<1>2. CASE IsReply(c, in[c])
  <2>1. Moves(c, "idle") /\ in' = in /\ pc[c] = "got"
    BY <1>2 DEF CallReceived, Moves
  <2> QED BY <1>2, <2>1
<1>3. CASE ~IsReply(c, in[c])
  <2>1. Moves(c, EnterRecv(c)) /\ in' = [in EXCEPT ![c] = NoMsg] /\ pc[c] = "got"
    BY <1>1, <1>3 DEF CallReceived, Moves
  <2> QED BY <1>1, <1>3, <2>1
<1> QED BY <1>2, <1>3

LEMMA ServeMoves ==
  ASSUME NEW l \in Servers, Ignore(l)
  PROVE  EnterRecv(l) \in {"recving", "exit"} /\ Moves(l, EnterRecv(l))
<1>0. l \in Tasks /\ l \notin Callers
  BY TaskFacts
<1>1. EnterRecv(l) \in {"recving", "exit"}
  BY <1>0 DEF EnterRecv, GiveUp
<1> QED BY <1>0, <1>1 DEF Ignore, Moves

LEMMA EofMoves ==
  ASSUME NEW t \in Tasks, Eof(t)
  PROVE  GiveUp(t) \in {"idle", "exit"} /\ Moves(t, GiveUp(t))
BY PcFacts DEF Eof, Moves

LEMMA DroppedInv ==
  ASSUME BusInv, NEW t \in Tasks, SendDropped(t)
  PROVE  BusInv'
<1>0. TypeOK /\ Situated /\ Owed /\ Asking /\ Replied
  BY DEF BusInv
<1>1. /\ pc[t] = "sending" /\ closed[First(todo[t])]
      /\ pc' = [pc EXCEPT ![t] = "sent"]
      /\ todo' = [todo EXCEPT ![t] = @ \ {First(todo[t])}]
      /\ UNCHANGED <<layers, subs, closed, nextId, out, in, pub, goal, reached, served, ops>>
  BY DEF SendDropped
<1>2. /\ pc' \in [Tasks -> Pcs] /\ pc'[t] = "sent" /\ \A u \in Tasks : u # t => pc'[u] = pc[u]
  BY <1>0, <1>1 DEF TypeOK, Pcs
<1>3. /\ todo' \in [Tasks -> SUBSET Layers] /\ todo'[t] = todo[t] \ {First(todo[t])}
      /\ \A u \in Tasks : u # t => todo'[u] = todo[u]
  BY <1>0, <1>1 DEF TypeOK
<1>4. TypeOK'
  BY <1>0, <1>1, <1>2, <1>3 DEF TypeOK
<1>5. Situated'
  BY <1>0, <1>1, <1>2 DEF Situated
<1>6. Owed'
  BY <1>0, <1>1, <1>3 DEF Owed
<1>7. Asking'
  BY <1>0, <1>1, <1>2, TaskFacts DEF Asking
<1>8. Replied'
  BY <1>0, <1>1 DEF Replied, Answered
<1> QED BY <1>4, <1>5, <1>6, <1>7, <1>8 DEF BusInv

LEMMA CloseInv ==
  ASSUME BusInv, NEW l \in Closable, CloseLayer(l)
  PROVE  BusInv' /\ \A k \in Layers : closed[k] => closed'[k]
<1>0. TypeOK /\ Situated /\ Owed /\ Asking /\ Replied
  BY DEF BusInv
<1>1. /\ closed' = [closed EXCEPT ![l] = TRUE]
      /\ UNCHANGED <<layers, subs, nextId, pc, out, todo, in, pub, goal, reached, served, ops>>
  BY DEF CloseLayer
<1>2. closed' \in [Layers -> BOOLEAN] /\ \A k \in Layers : closed[k] => closed'[k]
  BY <1>0, <1>1 DEF TypeOK
<1>3. TypeOK'
  BY <1>0, <1>1, <1>2 DEF TypeOK
<1>4. Situated' /\ Asking'
  BY <1>0, <1>1 DEF Situated, Asking
<1>5. Owed'
  BY <1>0, <1>1, <1>2 DEF Owed, TypeOK
<1>6. Replied'
  BY <1>0, <1>1 DEF Replied, Answered
<1> QED BY <1>2, <1>3, <1>4, <1>5, <1>6 DEF BusInv

(* Install appends the layer or leaves layers_ as it is.                   *)
Installed(l) ==
    /\ pc[l] \in {"off", "exit"}
    /\ layers' \in Seq(Layers) /\ closed' = closed
    /\ subs' \in [Layers -> SUBSET Topics]
    /\ \A k \in Layers : subs'[k] \subseteq subs[k] \cup Subscribed[k]
    /\ pc' \in [Tasks -> Pcs] /\ pc'[l] \in {"recving", "exit"}
    /\ pc'[l] = "exit" => ~IsOpen(l)'
    /\ \A u \in Tasks : u # l => pc'[u] = pc[u]
    /\ UNCHANGED <<nextId, out, todo, in, pub, goal, reached, served, ops>>

LEMMA InstallInstalls ==
  ASSUME TypeOK, NEW l \in Servers, Install(l)
  PROVE  /\ Installed(l)
         /\ layers' = layers \/ (~Find(l) /\ layers' = Append(layers, l))
<1>0. l \in Tasks /\ l \in Layers
  BY TaskFacts
<1>1. layers' = layers \/ (~Find(l) /\ layers' = Append(layers, l))
  BY DEF Install, Attach
<1>2. layers' \in Seq(Layers)
  BY <1>0, <1>1 DEF TypeOK
<1>3. /\ subs' \in [Layers -> SUBSET Topics]
      /\ \A k \in Layers : subs'[k] \subseteq subs[k] \cup Subscribed[k]
  <2>1. PICK b \in BOOLEAN : subs' = [subs EXCEPT ![l] = IF b THEN @ \cup Subscribed[l] ELSE @]
    <3>1. CASE Find(l)'
      BY <3>1 DEF Install
    <3>2. CASE ~Find(l)'
      BY <3>2 DEF Install
    <3> QED BY <3>1, <3>2
  <2> QED BY <1>0, <2>1, BusAssumption DEF TypeOK
<1>4. /\ pc' \in [Tasks -> Pcs] /\ pc'[l] \in {"recving", "exit"}
      /\ pc'[l] = "exit" => ~IsOpen(l)'
      /\ \A u \in Tasks : u # l => pc'[u] = pc[u]
  <2>1. CASE IsOpen(l)'
    BY <1>0, <2>1 DEF Install, TypeOK, Pcs
  <2>2. CASE ~IsOpen(l)'
    BY <1>0, <2>2 DEF Install, TypeOK, Pcs
  <2> QED BY <2>1, <2>2
<1>5. /\ closed' = closed /\ pc[l] \in {"off", "exit"}
      /\ UNCHANGED <<nextId, out, todo, in, pub, goal, reached, served, ops>>
  BY DEF Install
<1> QED BY <1>1, <1>2, <1>3, <1>4, <1>5 DEF Installed

LEMMA InstallInv ==
  ASSUME BusInv, NEW l \in Servers, Installed(l)
  PROVE  BusInv'
<1>0. /\ TypeOK /\ Situated /\ Owed /\ Asking /\ Replied /\ l \in Tasks /\ l \notin Callers
  BY TaskFacts DEF BusInv
<1>1. TypeOK'
  BY <1>0 DEF TypeOK, Installed
<1>2. Situated' /\ Asking'
  <2>1. Situated'
    BY <1>0 DEF Situated, Installed
  <2>2. Asking'
    BY <1>0, TaskFacts DEF Asking, Installed
  <2> QED BY <2>1, <2>2
<1>3. Owed'
  BY <1>0 DEF Owed, Installed
<1>4. Replied'
  BY <1>0 DEF Replied, Answered, Installed
<1> QED BY <1>1, <1>2, <1>3, <1>4 DEF BusInv

-----------------------------------------------------------------------------
(* The steps of the bus, by what the lemmas above say of them.             *)
BusStep ==
    \/ \E c \in Callers : \E m \in Frames : Begins(c, m)
    \/ \E c \in Callers : CallReceived(c)
    \/ \E l \in Servers : \E m \in Frames : Answers(l, m)
    \/ \E l \in Servers : Ignore(l)
    \/ \E l \in Servers : Install(l)
    \/ \E s, r \in Tasks : Deliver(s, r)
    \/ \E t \in Tasks : SentOn(t)
    \/ \E t \in Tasks : Eof(t)
    \/ \E t \in Tasks : SendDropped(t)
    \/ \E l \in Closable : CloseLayer(l)

LEMMA NextIsBusStep == BusInv /\ Next => BusStep
<1> SUFFICES ASSUME BusInv, Next PROVE BusStep
  OBVIOUS
<1>0. TypeOK
  BY DEF BusInv
<1>1. ASSUME NEW c \in Callers, NEW p \in Payloads,
             \/ \E q \in CallsOf[c] : Call(c, q, p)
             \/ \E q \in PublishesOf[c] : Publish(c, q, p)
      PROVE  BusStep
  BY <1>0, <1>1, CallerBegins DEF BusStep
<1>2. ASSUME NEW l \in Servers, Serve(l) PROVE BusStep
  BY <1>2, ServeAnswers DEF Serve, BusStep
<1>3. ASSUME NEW t \in Tasks, Sent(t) PROVE BusStep
  BY <1>3, SentRuns DEF BusStep
<1> QED BY <1>1, <1>2, <1>3 DEF Next, BusStep

LEMMA BusInvStep == BusInv /\ [Next]_vars => BusInv'
<1> SUFFICES ASSUME BusInv, [Next]_vars PROVE BusInv'
  OBVIOUS
<1>0. TypeOK
  BY DEF BusInv
<1>1. CASE UNCHANGED vars
  BY <1>1 DEF BusInv, TypeOK, Situated, Owed, Asking, Replied, Answered
<1>2. CASE BusStep
  <2>1. ASSUME NEW c \in Callers, CallReceived(c) PROVE BusInv'
    BY <1>0, <2>1, CallReceivedMoves, MoveInv, TaskFacts
  <2>2. ASSUME NEW l \in Servers, Ignore(l) PROVE BusInv'
    BY <2>2, ServeMoves, MoveInv, TaskFacts
  <2>3. ASSUME NEW t \in Tasks, Eof(t) PROVE BusInv'
    BY <2>3, EofMoves, MoveInv
  <2>4. ASSUME NEW l \in Servers, Install(l) PROVE BusInv'
    BY <1>0, <2>4, InstallInstalls, InstallInv
  <2> QED BY <1>2, <2>1, <2>2, <2>3, <2>4, BeginInv, AnswerInv, DeliverInv, SentInv, DroppedInv,
             CloseInv DEF BusStep
<1> QED BY <1>1, <1>2, NextIsBusStep

LEMMA BusInvHolds == Spec => []BusInv
BY BusInitInv, BusInvStep, PTL DEF Spec

(* The bus keeps its state well formed.                                    *)
THEOREM TypeCorrect == Spec => []TypeOK
<1>1. BusInv => TypeOK
  BY DEF BusInv
<1> QED BY <1>1, BusInvHolds, PTL

(* A Publish without an error has handed its message to every layer that   *)
(* matched when it started, except to those closed since - whatever else   *)
(* attaches, publishes and closes while Publish waits in its Writes.       *)
THEOREM Delivered == Spec => []DeliveredOrClosed
<1>1. BusInv => DeliveredOrClosed
  BY DEF BusInv, Owed, DeliveredOrClosed
<1> QED BY <1>1, BusInvHolds, PTL

-----------------------------------------------------------------------------
(* ReplyAnswersCall, while next_id_ has not wrapped.                       *)

(* A message without a number of its own disturbs no other.                *)
LEMMA UnnumberedKeeps ==
  ASSUME NEW S, NEW T, NEW m, NEW id, OneRequest(S, id), T \subseteq S \cup {NoMsg, m},
         m.id = 0 \/ m.topic[2] # "request"
  PROVE  OneRequest(T, id)
<1>1. \A x \in Numbered(T) : x \in Numbered(S)
  BY FrameFacts DEF Numbered
<1> QED BY <1>1 DEF OneRequest

(* Nor does a request under a new number.                                  *)
LEMMA NewNumberKeeps ==
  ASSUME NEW S, NEW T, NEW m, NEW id \in Nat, OneRequest(S, id), T \subseteq S \cup {NoMsg, m},
         m.id = id + 1, \A x \in S : x.id \in Nat
  PROVE  OneRequest(T, id + 1)
<1>1. \A x \in Numbered(T) : x \in Numbered(S) \/ x = m
  BY FrameFacts DEF Numbered
<1>2. \A x \in Numbered(S) : x.id \in Nat /\ x.id <= id
  BY DEF OneRequest, Numbered
<1>3. \A x \in Numbered(T) : x.id <= id + 1
  BY <1>1, <1>2
<1>4. ASSUME NEW x \in Numbered(T), NEW y \in Numbered(T), x.id = y.id PROVE x = y
  <2>1. CASE x \in Numbered(S) /\ y \in Numbered(S)
    BY <1>4, <2>1 DEF OneRequest
  <2>2. CASE x = m \/ y = m
    BY <1>1, <1>2, <1>4, <2>2
  <2> QED BY <1>1, <2>1, <2>2
<1> QED BY <1>3, <1>4 DEF OneRequest

(* What a step adds to the messages in the system.                         *)
Adds(m) == Seen(out', in', served') \subseteq Seen(out, in, served) \cup {NoMsg, m}

LEMMA StartedAdds ==
  ASSUME NEW t \in Tasks, NEW m, Started(t, m),
         served' = served \/ served' = served \cup {<<t, in[t]>>}
  PROVE  Adds(m)
<1>1. ASSUME NEW u \in Tasks PROVE /\ out'[u] \in Seen(out, in, served) \cup {NoMsg, m}
                                   /\ in'[u] \in Seen(out, in, served) \cup {NoMsg, m}
  <2>1. CASE u = t
    BY <2>1 DEF Started
  <2>2. CASE u # t
    BY <2>2 DEF Started, Seen
  <2> QED BY <2>1, <2>2
<1>2. ASSUME NEW x \in served' PROVE x[2] \in Seen(out, in, served)
  BY <1>2 DEF Seen
<1> QED BY <1>1, <1>2 DEF Adds, Seen

LEMMA ReceivedAdds ==
  ASSUME NEW m \in Seen(out, in, served) \cup {NoMsg},
         \A u \in Tasks : out'[u] = out[u], \A u \in Tasks : in'[u] \in {in[u], m},
         served' = served
  PROVE  Adds(NoMsg)
<1>1. \A u \in Tasks : /\ out'[u] \in Seen(out, in, served) \cup {NoMsg}
                       /\ in'[u] \in Seen(out, in, served) \cup {NoMsg}
  BY DEF Seen
<1>2. \A x \in served : x[2] \in Seen(out, in, served)
  BY DEF Seen
<1> QED BY <1>1, <1>2 DEF Adds, Seen

LEMMA SeenIds == TypeOK => \A x \in Seen(out, in, served) : x.id \in Nat
<1> SUFFICES ASSUME TypeOK, NEW x \in Seen(out, in, served) PROVE x.id \in Nat
  OBVIOUS
<1>1. x \in Msgs
  BY DEF TypeOK, Seen, Msgs
<1>2. \A m \in Frames : m.id \in Nat
  BY BusAssumption DEF Frames, Ids
<1> QED BY <1>1, <1>2, FrameFacts DEF Msgs

(* A step that adds no request of a Call.                                  *)
LEMMA IdsStayApart ==
  ASSUME IdsApart, NEW m, Adds(m), m.id = 0 \/ m.topic[2] # "request",
         nextId' = nextId, nextId \in Nat, ops \in Nat, ops' = ops \/ ops' = ops + 1
  PROVE  IdsApart'
<1>1. OneRequest(Seen(out', in', served'), nextId)
  <2> DEFINE S == Seen(out, in, served)
             T == Seen(out', in', served')
  <2>1. OneRequest(S, nextId) /\ T \subseteq S \cup {NoMsg, m}
    BY DEF IdsApart, Adds
  <2> HIDE DEF S, T
  <2>2. OneRequest(T, nextId)
    BY <2>1, UnnumberedKeeps
  <2> QED BY <2>2 DEF T
<1>2. nextId' <= ops'
  BY DEF IdsApart
<1> QED BY <1>1, <1>2 DEF IdsApart, Seen, OneRequest, Numbered

LEMMA BeginCall ==
  ASSUME MaxOps <= MaxId, CallInv, NEW c \in Callers, NEW m \in Frames, Begins(c, m)
  PROVE  IdsApart' /\ ReplyAnswersCall'
<1>0. /\ TypeOK /\ IdsApart /\ ReplyAnswersCall /\ c \in Tasks /\ nextId \in Nat /\ ops \in Nat
      /\ nextId <= ops /\ ops < MaxOps
  BY TaskFacts, BusAssumption DEF CallInv, BusInv, TypeOK, Ids, IdsApart, Begins
<1>1. Started(c, m) /\ served' = served /\ ops' = ops + 1
  BY DEF Begins
<1>2. Adds(m)
  BY <1>0, <1>1, StartedAdds
<1>3. IdsApart'
  <2>1. CASE m.id = 0 /\ nextId' = nextId
    BY <1>0, <1>1, <1>2, <2>1, IdsStayApart
  <2>2. CASE m.id = NewCallId /\ nextId' = NewCallId
    <3>1. NewCallId = nextId + 1
      BY <1>0, BusAssumption DEF NewCallId
    <3> DEFINE S == Seen(out, in, served)
               T == Seen(out', in', served')
    <3>2. OneRequest(S, nextId) /\ T \subseteq S \cup {NoMsg, m} /\ \A x \in S : x.id \in Nat
      BY <1>0, <1>2, SeenIds DEF IdsApart, Adds
    <3> HIDE DEF S, T
    <3>3. OneRequest(T, nextId + 1)
      BY <1>0, <2>2, <3>1, <3>2, NewNumberKeeps
    <3>4. nextId' = nextId + 1 /\ nextId' <= ops'
      BY <1>0, <1>1, <2>2, <3>1
    <3>5. OneRequest(T, nextId')
      BY <3>3, <3>4
    <3> QED BY <3>4, <3>5 DEF IdsApart, T, Seen, OneRequest, Numbered
  <2> QED BY <2>1, <2>2 DEF Begins
<1>4. ReplyAnswersCall'
  <2> SUFFICES ASSUME NEW d \in Callers, pc'[d] = "idle", in'[d] # NoMsg
               PROVE  <<in'[d].from, out'[d]>> \in served'
    BY DEF ReplyAnswersCall
  <2>1. d # c /\ d \in Tasks
    BY <1>1, TaskFacts DEF Started
  <2>2. pc'[d] = pc[d] /\ in'[d] = in[d] /\ out'[d] = out[d]
    BY <1>1, <2>1 DEF Started, Ran
  <2> QED BY <1>0, <1>1, <2>2 DEF ReplyAnswersCall
<1> QED BY <1>3, <1>4

LEMMA AnswerCall ==
  ASSUME CallInv, NEW l \in Servers, NEW m \in Frames, Answers(l, m)
  PROVE  IdsApart' /\ ReplyAnswersCall'
<1>0. /\ TypeOK /\ IdsApart /\ ReplyAnswersCall /\ l \in Tasks /\ nextId \in Nat /\ ops \in Nat
  BY TaskFacts, BusAssumption DEF CallInv, BusInv, TypeOK, Ids
<1>1. /\ Started(l, m) /\ served' = served \cup {<<l, in[l]>>} /\ m.topic[2] # "request"
      /\ nextId' = nextId /\ ops' = ops
  BY DEF Answers
<1>2. IdsApart'
  BY <1>0, <1>1, StartedAdds, IdsStayApart
<1>3. ReplyAnswersCall'
  <2>1. \A d \in Callers : pc'[d] = pc[d] /\ in'[d] = in[d] /\ out'[d] = out[d]
    BY <1>1, TaskFacts DEF Started, Ran
  <2> QED BY <1>0, <1>1, <2>1 DEF ReplyAnswersCall
<1> QED BY <1>2, <1>3

(* A Call that returns a message returns the reply to its own request:     *)
(* the id leads to one request only.                                       *)
LEMMA ReceivedCall ==
  ASSUME CallInv, NEW c \in Callers, CallReceived(c)
  PROVE  IdsApart' /\ ReplyAnswersCall'
<1>0. /\ TypeOK /\ Asking /\ Replied /\ IdsApart /\ ReplyAnswersCall /\ c \in Tasks
      /\ nextId \in Nat /\ ops \in Nat
  BY TaskFacts, BusAssumption DEF CallInv, BusInv, TypeOK, Ids
<1>1. /\ pc[c] = "got" /\ UNCHANGED <<out, served, nextId, ops>>
      /\ \A u \in Tasks : u # c => pc'[u] = pc[u] /\ in'[u] = in[u]
      /\ in'[c] \in {in[c], NoMsg} /\ (in'[c] # NoMsg => IsReply(c, in[c]))
  BY <1>0 DEF CallReceived, TypeOK
<1>2. Adds(NoMsg)
  BY <1>1, ReceivedAdds
<1>3. IdsApart'
  BY <1>0, <1>1, <1>2, FrameFacts, IdsStayApart
<1>4. ASSUME IsReply(c, in[c]) PROVE <<in[c].from, out[c]>> \in served
  <2>1. in[c].id = out[c].id /\ in[c].topic = ReplyOf(out[c].topic) /\ in[c].topic[2] = "reply"
    BY <1>4 DEF IsReply, ReplyOf
  <2>2. PICK x \in Frames : <<in[c].from, x>> \in served /\ x.id = in[c].id /\ x.topic[2] = "request"
    BY <1>0, <2>1 DEF Replied, Answered
  <2>3. out[c].id # 0 /\ out[c].topic[2] = "request"
    BY <1>0, <1>1 DEF Asking
  <2>4. out[c] \in Seen(out, in, served) /\ x \in Seen(out, in, served)
    <3>1. out[c] \in Seen(out, in, served)
      BY <1>0 DEF Seen
    <3>2. <<in[c].from, x>>[2] = x
      OBVIOUS
    <3>3. x \in Seen(out, in, served)
      BY <2>2, <3>2 DEF Seen
    <3> QED BY <3>1, <3>3
  <2>5. out[c] \in Numbered(Seen(out, in, served)) /\ x \in Numbered(Seen(out, in, served))
    BY <2>1, <2>2, <2>3, <2>4 DEF Numbered
  <2>6. x = out[c]
    BY <1>0, <2>1, <2>2, <2>5 DEF IdsApart, OneRequest
  <2> QED BY <2>2, <2>6
<1>5. ReplyAnswersCall'
  <2> SUFFICES ASSUME NEW d \in Callers, pc'[d] = "idle", in'[d] # NoMsg
               PROVE  <<in'[d].from, out[d]>> \in served
    BY <1>1 DEF ReplyAnswersCall
  <2>0. d \in Tasks
    BY TaskFacts
  <2>1. CASE d = c
    BY <1>1, <1>4, <2>1
  <2>2. CASE d # c
    BY <1>0, <1>1, <2>0, <2>2 DEF ReplyAnswersCall
  <2> QED BY <2>1, <2>2
<1> QED BY <1>3, <1>5

(* The steps that make no caller idle with a message in hand and bring no  *)
(* new message.                                                            *)
LEMMA OtherCall ==
  ASSUME CallInv, UNCHANGED <<out, served, nextId, ops>>,
         NEW m \in Seen(out, in, served) \cup {NoMsg},
         \A u \in Tasks : in'[u] \in {in[u], m},
         \A d \in Callers : pc'[d] = "idle" /\ in'[d] # NoMsg => pc[d] = "idle" /\ in'[d] = in[d]
  PROVE  IdsApart' /\ ReplyAnswersCall'
<1>0. TypeOK /\ IdsApart /\ ReplyAnswersCall /\ nextId \in Nat /\ ops \in Nat
  BY BusAssumption DEF CallInv, BusInv, TypeOK, Ids
<1>1. Adds(NoMsg)
  BY ReceivedAdds
<1>2. IdsApart'
  BY <1>0, <1>1, FrameFacts, IdsStayApart
<1>3. ReplyAnswersCall'
  BY <1>0 DEF ReplyAnswersCall
<1> QED BY <1>2, <1>3

LEMMA CallInvStep == ASSUME MaxOps <= MaxId PROVE CallInv /\ [Next]_vars => CallInv'
<1> SUFFICES ASSUME CallInv, [Next]_vars PROVE CallInv'
  OBVIOUS
<1>0. /\ BusInv /\ TypeOK /\ Asking /\ Situated /\ BusInv'
      /\ NoMsg \in Seen(out, in, served) \cup {NoMsg}
      /\ \A u \in Tasks : out[u] \in Seen(out, in, served) \cup {NoMsg}
  BY BusInvStep DEF CallInv, BusInv, Seen
<1> SUFFICES IdsApart' /\ ReplyAnswersCall'
  BY <1>0 DEF CallInv
<1>1. CASE UNCHANGED vars
  BY <1>0, <1>1, OtherCall
<1>2. CASE BusStep
  <2>1. ASSUME NEW l \in Servers, Ignore(l) PROVE IdsApart' /\ ReplyAnswersCall'
    <3>1. /\ UNCHANGED <<out, served, nextId, ops>>
          /\ \A u \in Tasks : in'[u] \in {in[u], NoMsg}
          /\ \A d \in Callers : pc'[d] = pc[d] /\ in'[d] = in[d]
      BY <1>0, <2>1, TaskFacts DEF Ignore, TypeOK
    <3> QED BY <1>0, <3>1, OtherCall
  <2>2. ASSUME NEW l \in Servers, Install(l) PROVE IdsApart' /\ ReplyAnswersCall'
    <3>1. /\ UNCHANGED <<out, served, nextId, ops, in>> /\ \A d \in Callers : pc'[d] = pc[d]
      BY <1>0, <2>2, TaskFacts, InstallInstalls DEF Installed
    <3> QED BY <1>0, <3>1, OtherCall
  <2>3. ASSUME NEW s \in Tasks, NEW r \in Tasks, Deliver(s, r) PROVE IdsApart' /\ ReplyAnswersCall'
    <3>1. /\ UNCHANGED <<out, served, nextId, ops>>
          /\ \A u \in Tasks : in'[u] \in {in[u], out[s]} /\ (u # r => in'[u] = in[u])
          /\ \A u \in Tasks : pc'[u] = "idle" => pc[u] = "idle" /\ u # r
      BY <1>0, <2>3 DEF Deliver, SendsTo, ReceivesOn, TypeOK
    <3> QED BY <1>0, <3>1, OtherCall, TaskFacts
  <2>4. ASSUME NEW t \in Tasks, SentOn(t) PROVE IdsApart' /\ ReplyAnswersCall'
    <3>1. /\ UNCHANGED <<out, served, nextId, ops, in>> /\ pc[t] = "sent"
          /\ \A u \in Tasks : u # t => pc'[u] = pc[u]
      BY <2>4 DEF SentOn, Ran
    <3>2. \A d \in Callers : in'[d] # NoMsg => d # t /\ d \in Tasks
      BY <1>0, <3>1, TaskFacts DEF Asking
    <3> QED BY <1>0, <3>1, <3>2, OtherCall
  <2>5. ASSUME NEW t \in Tasks, Eof(t) PROVE IdsApart' /\ ReplyAnswersCall'
    <3>1. /\ UNCHANGED <<out, served, nextId, ops, in>> /\ pc[t] = "recving"
          /\ \A u \in Tasks : u # t => pc'[u] = pc[u]
      BY <1>0, <2>5 DEF Eof, TypeOK
    <3>2. \A d \in Callers : in'[d] # NoMsg => d # t /\ d \in Tasks
      BY <1>0, <3>1, TaskFacts DEF Asking
    <3> QED BY <1>0, <3>1, <3>2, OtherCall
  <2>6. ASSUME NEW t \in Tasks, SendDropped(t) PROVE IdsApart' /\ ReplyAnswersCall'
    <3>1. /\ UNCHANGED <<out, served, nextId, ops, in>>
          /\ \A d \in Callers : pc'[d] = "idle" => pc[d] = "idle"
      BY <1>0, <2>6, TaskFacts DEF SendDropped, TypeOK
    <3> QED BY <1>0, <3>1, OtherCall
  <2>7. ASSUME NEW l \in Closable, CloseLayer(l) PROVE IdsApart' /\ ReplyAnswersCall'
    <3>1. UNCHANGED <<out, served, nextId, ops, in, pc>>
      BY <2>7 DEF CloseLayer
    <3> QED BY <1>0, <3>1, OtherCall
  <2> QED BY <1>2, <2>1, <2>2, <2>3, <2>4, <2>5, <2>6, <2>7, BeginCall, AnswerCall, ReceivedCall
          DEF BusStep
<1> QED BY <1>0, <1>1, <1>2, NextIsBusStep

(* As long as next_id_ has not wrapped - fewer Calls than it has values -  *)
(* what a Call returns is the answer to its own request, whoever else      *)
(* calls, answers or publishes under the same layer and topics.            *)
THEOREM Correlated == ASSUME MaxOps <= MaxId PROVE Spec => []ReplyAnswersCall
<1>1. Init => CallInv
  <2> SUFFICES ASSUME Init PROVE IdsApart /\ ReplyAnswersCall
    BY BusInitInv DEF CallInv
  <2>1. \A t \in Tasks : out[t] = NoMsg /\ in[t] = NoMsg
    BY DEF Init
  <2>2. \A x \in Seen(out, in, served) : x = NoMsg
    BY <2>1 DEF Seen, Init
  <2>3. IdsApart
    BY <2>2, FrameFacts DEF IdsApart, OneRequest, Numbered, Init
  <2>4. ReplyAnswersCall
    BY <2>1, TaskFacts DEF ReplyAnswersCall
  <2> QED BY <2>3, <2>4
<1>2. CallInv => ReplyAnswersCall
  BY DEF CallInv
<1> QED BY <1>1, <1>2, CallInvStep, PTL DEF Spec

-----------------------------------------------------------------------------
(* OpenLayerIsServed, where each reply has one taker.                      *)

LEMMA FirstOfOne ==
  ASSUME TypeOK, Attached, NEW k \in 1 .. Len(layers)
  PROVE  First({layers[k]}) = layers[k]
<1> DEFINE P(i) == layers[i] \in {layers[k]} /\ \A j \in 1 .. i - 1 : layers[j] \notin {layers[k]}
<1>1. P(k)
  BY DEF Attached, TypeOK
<1>2. \A i \in 1 .. Len(layers) : P(i) => layers[i] = layers[k]
  OBVIOUS
<1> HIDE DEF P
<1>3. layers[CHOOSE i \in 1 .. Len(layers) : P(i)] = layers[k]
  BY <1>1, <1>2
<1> QED BY <1>3 DEF First, P

(* A reply goes to nobody or to one open layer.                            *)
LEMMA ReplyTargets ==
  ASSUME OneTaker, TypeOK, Attached, NEW m \in Frames, m.topic[2] = "reply"
  PROVE  \/ Targets(m) = {}
         \/ \E k \in 1 .. Len(layers) : Targets(m) = {layers[k]} /\ ~closed[layers[k]]
<1>1. PICK q \in Requests : m.topic = <<q, "reply">>
  BY DEF Frames
<1>2. \A l \in Targets(m) : l \in Layers /\ IsOpen(l) /\ TakesReply(l, q)
  BY <1>1 DEF Targets, Matches, TakesReply, Attached
<1>3. \A k, l \in Targets(m) : k = l
  BY <1>2 DEF OneTaker
<1>4. ASSUME Targets(m) # {} PROVE \E k \in 1 .. Len(layers) : Targets(m) = {layers[k]} /\ ~closed[layers[k]]
  <2>1. PICK l \in Targets(m) : TRUE
    BY <1>4
  <2>2. PICK k \in 1 .. Len(layers) : layers[k] = l
    BY <1>2, <2>1 DEF IsOpen, Find
  <2>3. Targets(m) = {l} /\ ~closed[l]
    BY <1>2, <1>3, <2>1 DEF IsOpen
  <2> QED BY <2>2, <2>3
<1> QED BY <1>4

(* A layer's state is kept, or is what its own step makes it.              *)
ServedBy(l) ==
    /\ pc'[l] \in {"sending", "sent"} => out'[l].payload = "good"
    /\ pc'[l] = "sending" => \E k \in 1 .. Len(layers) : todo'[l] = {layers[k]}
    /\ pc'[l] = "sent" => todo'[l] = {}
    /\ pc'[l] = "exit" => ~IsOpen(l)

LEMMA ServedByAll ==
  ASSUME ServeInv, UNCHANGED <<layers, subs, closed>>, \A l \in Servers : ServedBy(l)
  PROVE  Attached' /\ Answering' /\ OpenLayerIsServed'
<1>1. Attached'
  BY DEF ServeInv, Attached
<1>2. Answering'
  BY DEF ServedBy, Answering
<1>3. OpenLayerIsServed'
  BY DEF ServedBy, OpenLayerIsServed, IsOpen, Find
<1> QED BY <1>1, <1>2, <1>3

LEMMA ServedAsBefore ==
  ASSUME ServeInv, NEW l \in Servers, pc'[l] = pc[l], out'[l] = out[l], todo'[l] = todo[l]
  PROVE  ServedBy(l)
BY DEF ServeInv, Answering, OpenLayerIsServed, ServedBy

LEMMA StepServed ==
  ASSUME OneTaker, ServeInv, BusStep, UNCHANGED <<layers, subs, closed>>
  PROVE  \A l \in Servers : ServedBy(l)
<1>0. BusInv /\ TypeOK /\ Situated /\ Attached /\ Answering /\ OpenLayerIsServed
  BY DEF ServeInv, BusInv
<1> TAKE l \in Servers
<1>a. l \in Tasks /\ l \notin Callers /\ LayerOf(l) = l /\ l \in Layers
  BY TaskFacts
<1>b. ASSUME NEW m PROVE /\ AfterPublish(l, m) \in {"recving", "exit"}
                         /\ AfterPublish(l, m) = "exit" => ~IsOpen(l)
                         /\ EnterRecv(l) \in {"recving", "exit"}
                         /\ EnterRecv(l) = "exit" => ~IsOpen(l)
  BY <1>a DEF AfterPublish, EnterRecv, GiveUp
<1>1. ASSUME NEW c \in Callers, NEW m \in Frames, Begins(c, m) PROVE ServedBy(l)
  <2>1. l # c
    BY <1>a
  <2> QED BY <1>1, <1>a, <2>1, ServedAsBefore DEF Begins, Started, Ran
<1>2. ASSUME NEW c \in Callers, CallReceived(c) PROVE ServedBy(l)
  <2>1. l # c
    BY <1>a
  <2>2. pc'[l] = pc[l] /\ out' = out /\ todo' = todo
    BY <1>0, <1>2, <1>a, <2>1 DEF CallReceived, TypeOK
  <2> QED BY <2>2, ServedAsBefore
<1>3. ASSUME NEW k \in Servers, NEW m \in Frames, Answers(k, m) PROVE ServedBy(l)
  <2>1. CASE k # l
    BY <1>3, <1>a, <2>1, ServedAsBefore DEF Answers, Started, Ran
  <2>2. CASE k = l
    <3>1. /\ Ran(l, m, Targets(m)) /\ out'[l] = m /\ m.payload = "good" /\ m.topic[2] = "reply"
      BY <1>3, <2>2 DEF Answers, Started
    <3>2. CASE Targets(m) = {}
      BY <1>b, <3>1, <3>2 DEF Ran, ServedBy
    <3>3. ASSUME NEW i \in 1 .. Len(layers), Targets(m) = {layers[i]}, ~closed[layers[i]]
          PROVE  ServedBy(l)
      <4>1. First(Targets(m)) = layers[i]
        BY <1>0, <3>3, FirstOfOne
      <4>2. pc'[l] = "sending" /\ todo'[l] = {layers[i]}
        BY <3>1, <3>3, <4>1 DEF Ran
      <4> QED BY <3>1, <4>2 DEF ServedBy
    <3> QED BY <1>0, <3>1, <3>2, <3>3, ReplyTargets
  <2> QED BY <2>1, <2>2
<1>4. ASSUME NEW k \in Servers, Ignore(k) PROVE ServedBy(l)
  <2>0. k \in Tasks
    BY TaskFacts
  <2>1. /\ pc'[l] = IF k = l THEN EnterRecv(l) ELSE pc[l]
        /\ out' = out /\ todo' = todo
    BY <1>0, <1>4, <1>a, <2>0 DEF Ignore, TypeOK
  <2>2. CASE k = l
    BY <1>b, <2>1, <2>2 DEF ServedBy
  <2>3. CASE k # l
    BY <2>1, <2>3, ServedAsBefore
  <2> QED BY <2>2, <2>3
<1>5. ASSUME NEW k \in Servers, Install(k) PROVE ServedBy(l)
  <2>0. Installed(k)
    BY <1>0, <1>5, InstallInstalls
  <2>1. CASE k # l
    BY <1>a, <2>0, <2>1, ServedAsBefore DEF Installed
  <2>2. CASE k = l
    <3>1. pc'[l] \in {"recving", "exit"} /\ (pc'[l] = "exit" => ~IsOpen(l))
      BY <2>0, <2>2 DEF Installed, IsOpen, Find
    <3> QED BY <3>1 DEF ServedBy
  <2> QED BY <2>1, <2>2
<1>6. ASSUME NEW s \in Tasks, NEW r \in Tasks, Deliver(s, r) PROVE ServedBy(l)
  <2>1. /\ pc[s] = "sending" /\ pc[r] = "recving" /\ First(todo[s]) = LayerOf(r) /\ out' = out
        /\ pc'[l] = IF l = s THEN "sent" ELSE IF l = r THEN "got" ELSE pc[l]
        /\ todo'[l] = IF l = s THEN todo[l] \ {LayerOf(r)} ELSE todo[l]
    BY <1>0, <1>6, <1>a DEF Deliver, SendsTo, ReceivesOn, TypeOK
  <2>2. CASE l = s
    <3>1. PICK k \in 1 .. Len(layers) : todo[l] = {layers[k]}
      BY <1>0, <2>1, <2>2 DEF Answering
    <3>2. First(todo[l]) = layers[k]
      BY <1>0, <3>1, FirstOfOne
    <3>3. todo'[l] = {} /\ pc'[l] = "sent" /\ out[l].payload = "good"
      BY <1>0, <2>1, <2>2, <3>1, <3>2 DEF Answering
    <3> QED BY <2>1, <3>3 DEF ServedBy
  <2>3. CASE l # s /\ l = r
    BY <2>1, <2>3 DEF ServedBy
  <2>4. CASE l # s /\ l # r
    BY <2>1, <2>4, ServedAsBefore
  <2> QED BY <2>2, <2>3, <2>4
<1>7. ASSUME NEW t \in Tasks, SentOn(t) PROVE ServedBy(l)
  <2>1. CASE l # t
    BY <1>7, <1>a, <2>1, ServedAsBefore DEF SentOn, Ran
  <2>2. CASE l = t
    <3>1. todo[l] = {} /\ out[l].payload = "good" /\ Ran(l, out[l], todo[l])
      BY <1>0, <1>7, <2>2 DEF SentOn, Answering
    <3>2. pc'[l] = AfterPublish(l, out[l])
      BY <3>1 DEF Ran
    <3> QED BY <1>b, <3>2 DEF ServedBy
  <2> QED BY <2>1, <2>2
<1>8. ASSUME NEW t \in Tasks, Eof(t) PROVE ServedBy(l)
  <2>1. /\ pc'[l] = IF l = t THEN GiveUp(l) ELSE pc[l]
        /\ out' = out /\ todo' = todo /\ (l = t => closed[l])
    BY <1>0, <1>8, <1>a DEF Eof, TypeOK
  <2>2. CASE l = t
    BY <1>a, <2>1, <2>2 DEF ServedBy, GiveUp, IsOpen
  <2>3. CASE l # t
    BY <2>1, <2>3, ServedAsBefore
  <2> QED BY <2>2, <2>3
<1>9. ASSUME NEW t \in Tasks, SendDropped(t) PROVE ServedBy(l)
  <2>1. /\ pc[t] = "sending" /\ out' = out
        /\ pc'[l] = IF l = t THEN "sent" ELSE pc[l]
        /\ todo'[l] = IF l = t THEN todo[l] \ {First(todo[l])} ELSE todo[l]
    BY <1>0, <1>9, <1>a DEF SendDropped, TypeOK
  <2>2. CASE l = t
    <3>1. PICK k \in 1 .. Len(layers) : todo[l] = {layers[k]}
      BY <1>0, <2>1, <2>2 DEF Answering
    <3>2. First(todo[l]) = layers[k]
      BY <1>0, <3>1, FirstOfOne
    <3>3. todo'[l] = {} /\ pc'[l] = "sent" /\ out[l].payload = "good"
      BY <1>0, <2>1, <2>2, <3>1, <3>2 DEF Answering
    <3> QED BY <2>1, <3>3 DEF ServedBy
  <2>3. CASE l # t
    BY <2>1, <2>3, ServedAsBefore
  <2> QED BY <2>2, <2>3
<1>10. ASSUME NEW k \in Closable, CloseLayer(k) PROVE ServedBy(l)
  BY <1>10, ServedAsBefore DEF CloseLayer
<1> QED BY <1>1, <1>2, <1>3, <1>4, <1>5, <1>6, <1>7, <1>8, <1>9, <1>10 DEF BusStep

(* Install of a new layer and CloseLayer change layers_.                   *)
LEMMA InstallServed ==
  ASSUME ServeInv, NEW l \in Servers, Install(l)
  PROVE  Attached' /\ Answering' /\ OpenLayerIsServed'
<1>0. BusInv /\ TypeOK /\ Situated /\ Attached /\ Answering /\ OpenLayerIsServed /\ l \in Layers
  BY TaskFacts DEF ServeInv, BusInv
<1>1. Installed(l) /\ (layers' = layers \/ (~Find(l) /\ layers' = Append(layers, l)))
  BY <1>0, InstallInstalls
<1>2. /\ Len(layers') >= Len(layers) /\ Len(layers) \in Nat /\ Len(layers') \in Nat
      /\ \A k \in 1 .. Len(layers) : layers'[k] = layers[k]
      /\ \A k \in 1 .. Len(layers') : k \notin 1 .. Len(layers) => layers'[k] = l
      /\ \A j, k \in 1 .. Len(layers') : j \notin 1 .. Len(layers) /\ k \notin 1 .. Len(layers) => j = k
      /\ Len(layers') # Len(layers) => ~Find(l)
  BY <1>0, <1>1 DEF TypeOK
<1>3. Attached'
  <2>1. \A k \in Layers : subs'[k] \subseteq Subscribed[k]
    BY <1>0, <1>1 DEF Attached, Installed
  <2>2. ASSUME NEW j \in 1 .. Len(layers'), NEW k \in 1 .. Len(layers'), layers'[j] = layers'[k]
        PROVE  j = k
    <3>1. CASE j \in 1 .. Len(layers) /\ k \in 1 .. Len(layers)
      BY <1>0, <1>2, <2>2, <3>1 DEF Attached
    <3>2. CASE j \in 1 .. Len(layers) /\ k \notin 1 .. Len(layers)
      <4>1. layers[j] = l /\ ~Find(l)
        BY <1>2, <2>2, <3>2
      <4> QED BY <3>2, <4>1 DEF Find
    <3>3. CASE j \notin 1 .. Len(layers) /\ k \in 1 .. Len(layers)
      <4>1. layers[k] = l /\ ~Find(l)
        BY <1>2, <2>2, <3>3
      <4> QED BY <3>3, <4>1 DEF Find
    <3>4. CASE j \notin 1 .. Len(layers) /\ k \notin 1 .. Len(layers)
      BY <1>2, <3>4
    <3> QED BY <3>1, <3>2, <3>3, <3>4
  <2> QED BY <2>1, <2>2 DEF Attached
<1>4. Answering'
  <2> SUFFICES ASSUME NEW s \in Servers
               PROVE  /\ pc'[s] \in {"sending", "sent"} => out[s].payload = "good"
                      /\ pc'[s] = "sending" => \E k \in 1 .. Len(layers') : todo[s] = {layers'[k]}
                      /\ pc'[s] = "sent" => todo[s] = {}
    BY <1>1 DEF Answering, Installed
  <2>0. s \in Tasks
    BY TaskFacts
  <2>1. CASE s = l
    BY <1>1, <2>1 DEF Installed
  <2>2. CASE s # l
    <3>1. pc'[s] = pc[s]
      BY <1>1, <2>0, <2>2 DEF Installed
    <3>2. \A k \in 1 .. Len(layers) : k \in 1 .. Len(layers') /\ layers'[k] = layers[k]
      BY <1>2
    <3> QED BY <1>0, <3>1, <3>2 DEF Answering
  <2> QED BY <2>1, <2>2
<1>5. OpenLayerIsServed'
  <2> SUFFICES ASSUME NEW s \in Servers, pc'[s] = "exit" PROVE ~IsOpen(s)'
    BY DEF OpenLayerIsServed
  <2>0. s \in Tasks
    BY TaskFacts
  <2>1. CASE s = l
    BY <1>1, <2>1 DEF Installed
  <2>2. CASE s # l
    <3>1. ~IsOpen(s)
      BY <1>0, <1>1, <2>0, <2>2 DEF Installed, OpenLayerIsServed
    <3>2. Find(s)' => Find(s)
      BY <1>2, <2>2 DEF Find
    <3>3. closed' = closed
      BY <1>1 DEF Installed
    <3> QED BY <3>1, <3>2, <3>3 DEF IsOpen
  <2> QED BY <2>1, <2>2
<1> QED BY <1>3, <1>4, <1>5

LEMMA CloseServed ==
  ASSUME ServeInv, NEW l \in Closable, CloseLayer(l)
  PROVE  Attached' /\ Answering' /\ OpenLayerIsServed'
<1>0. BusInv /\ TypeOK /\ Attached /\ Answering /\ OpenLayerIsServed
  BY DEF ServeInv, BusInv
<1>1. UNCHANGED <<layers, subs, pc, out, todo>> /\ \A k \in Layers : closed[k] => closed'[k]
  BY <1>0, CloseInv DEF CloseLayer
<1>2. Attached' /\ Answering'
  BY <1>0, <1>1 DEF Attached, Answering
<1>3. OpenLayerIsServed'
  BY <1>0, <1>1, TaskFacts DEF OpenLayerIsServed, IsOpen, Find
<1> QED BY <1>2, <1>3

LEMMA ServeInitInv == Init => ServeInv
<1> SUFFICES ASSUME Init PROVE Attached /\ Answering /\ OpenLayerIsServed
  BY BusInitInv DEF ServeInv
<1>1. Attached
  BY BusAssumption DEF Init, Attached
<1>2. Answering /\ OpenLayerIsServed
  BY TaskFacts DEF Init, Answering, OpenLayerIsServed
<1> QED BY <1>1, <1>2

LEMMA ServeInvStep == ASSUME OneTaker PROVE ServeInv /\ [Next]_vars => ServeInv'
<1> SUFFICES ASSUME ServeInv, [Next]_vars PROVE Attached' /\ Answering' /\ OpenLayerIsServed'
  BY BusInvStep DEF ServeInv
<1>0. BusInv
  BY DEF ServeInv
<1>1. CASE UNCHANGED vars
  BY <1>1, ServedAsBefore, ServedByAll
<1>2. CASE Next
  <2>1. BusStep
    BY <1>0, <1>2, NextIsBusStep
  <2>2. CASE UNCHANGED <<layers, subs, closed>>
    BY <2>1, <2>2, StepServed, ServedByAll
  <2>3. CASE ~UNCHANGED <<layers, subs, closed>>
    <3>1. \/ \E l \in Servers : Install(l)
          \/ \E l \in Closable : CloseLayer(l)
      BY <2>1, <2>3 DEF BusStep, Begins, CallReceived, Answers, Ignore, Deliver, SentOn, Eof, SendDropped
    <3> QED BY <3>1, InstallServed, CloseServed
  <2> QED BY <2>2, <2>3
<1> QED BY <1>1, <1>2

(* While an extra layer is open its ServeLayer runs, however its requests, *)
(* replies and other layers' Attach and CloseLayer interleave, provided    *)
(* that no reply has two takers.  With two, the second may be closed       *)
(* during the Write to the first: Publish fails and ServeLayer returns.    *)
THEOREM Served == ASSUME OneTaker PROVE Spec => []OpenLayerIsServed
<1>1. ServeInv => OpenLayerIsServed
  BY DEF ServeInv
<1> QED BY <1>1, ServeInitInv, ServeInvStep, PTL DEF Spec

-----------------------------------------------------------------------------
(* NoMutualWrite, where one coroutine calls layers wired as by             *)
(* DefaultStubs.                                                           *)

CallingNow(c) ==
    /\ pc'[c] \in {"sending", "sent"} => out'[c].id # 0 /\ out'[c].payload # "huge"
    /\ pc'[c] = "sending" =>
          \E k \in 1 .. Len(layers) : todo'[c] = {layers[k]} /\ layers[k] # CallerLayer[c]
    /\ pc'[c] = "sent" => todo'[c] = {}
ReplyingNow(l) == pc'[l] = "sending" => todo'[l] \cap Servers = {}
TurnNow(c) ==
    IsOpen(CallerLayer[c]) =>
        \A l \in Servers : pc'[l] \in {"got", "sending"} =>
            /\ pc'[c] \in {"sent", "recving"}
            /\ \A k \in Servers : pc'[k] \in {"got", "sending"} => k = l
InTurn == /\ \A c \in Callers : CallingNow(c) /\ TurnNow(c)
          /\ \A l \in Servers : ReplyingNow(l)

LEMMA InTurnKeeps ==
  ASSUME InTurn, UNCHANGED <<layers, closed>>
  PROVE  Calling' /\ Replying' /\ Turns'
<1>1. Calling'
  BY DEF InTurn, CallingNow, Calling
<1>2. Replying'
  BY DEF InTurn, ReplyingNow, Replying
<1>3. Turns'
  BY DEF InTurn, TurnNow, Turns, Pending, IsOpen, Find
<1> QED BY <1>1, <1>2, <1>3

LEMMA CallingAsBefore ==
  ASSUME TurnInv, NEW c \in Callers, pc'[c] = pc[c], out'[c] = out[c], todo'[c] = todo[c]
  PROVE  CallingNow(c)
BY DEF TurnInv, Calling, CallingNow

LEMMA ReplyingAsBefore ==
  ASSUME TurnInv, NEW l \in Servers, pc'[l] = pc[l], todo'[l] = todo[l]
  PROVE  ReplyingNow(l)
BY DEF TurnInv, Replying, ReplyingNow

(* No layer starts to be pending, and the caller stays where it is.        *)
LEMMA TurnAsBefore ==
  ASSUME TurnInv, NEW c \in Callers, pc'[c] = pc[c],
         \A l \in Servers : pc'[l] \in {"got", "sending"} => pc[l] \in {"got", "sending"}
  PROVE  TurnNow(c)
BY DEF TurnInv, Turns, TurnNow, Pending

(* No layer is pending when the caller leaves its turn.                    *)
LEMMA NonePending ==
  ASSUME TurnInv, NEW c \in Callers, pc[c] \notin {"sent", "recving"},
         \A l \in Servers : pc'[l] \in {"got", "sending"} => pc[l] \in {"got", "sending"}
  PROVE  TurnNow(c)
BY DEF TurnInv, Turns, TurnNow, Pending

LEMMA RequestTargets ==
  ASSUME Wired, TypeOK, Attached, NEW m \in Frames, m.topic[2] = "request"
  PROVE  \/ Targets(m) = {}
         \/ \E k \in 1 .. Len(layers) :
               Targets(m) = {layers[k]} /\ ~closed[layers[k]] /\ layers[k] # m.from
<1>1. PICK q \in Requests : m.topic = <<q, "request">>
  BY DEF Frames
<1>2. \A l \in Targets(m) : l \in Layers /\ IsOpen(l) /\ TakesRequest(l, q) /\ l # m.from
  BY <1>1 DEF Targets, Matches, TakesRequest, Attached
<1>3. \A k, l \in Targets(m) : k = l
  BY <1>2 DEF Wired
<1>4. ASSUME Targets(m) # {}
      PROVE  \E k \in 1 .. Len(layers) :
               Targets(m) = {layers[k]} /\ ~closed[layers[k]] /\ layers[k] # m.from
  <2>1. PICK l \in Targets(m) : TRUE
    BY <1>4
  <2>2. PICK k \in 1 .. Len(layers) : layers[k] = l
    BY <1>2, <2>1 DEF IsOpen, Find
  <2>3. Targets(m) = {l} /\ ~closed[l] /\ l # m.from
    BY <1>2, <1>3, <2>1 DEF IsOpen
  <2> QED BY <2>2, <2>3
<1> QED BY <1>4

(* A layer that is done with a request.                                    *)
LEMMA ServerRests ==
  ASSUME TurnInv, NEW t \in Servers, pc'[t] \in {"recving", "exit", "sent"},
         \A u \in Tasks : u # t => pc'[u] = pc[u] /\ out'[u] = out[u] /\ todo'[u] = todo[u]
  PROVE  InTurn
<1>1. ASSUME NEW c \in Callers PROVE CallingNow(c) /\ TurnNow(c)
  <2>1. pc'[c] = pc[c] /\ out'[c] = out[c] /\ todo'[c] = todo[c]
    BY TaskFacts
  <2>2. \A k \in Servers : pc'[k] \in {"got", "sending"} => pc[k] \in {"got", "sending"}
    BY TaskFacts
  <2> QED BY <2>1, <2>2, CallingAsBefore, TurnAsBefore
<1>2. ASSUME NEW k \in Servers PROVE ReplyingNow(k)
  <2>1. CASE k # t
    BY <2>1, ReplyingAsBefore, TaskFacts
  <2>2. CASE k = t
    BY <2>2 DEF ReplyingNow
  <2> QED BY <2>1, <2>2
<1> QED BY <1>1, <1>2 DEF InTurn

LEMMA StepInTurn ==
  ASSUME Wired, TurnInv, BusStep, UNCHANGED <<layers, closed>>
  PROVE  InTurn
<1>0. /\ TypeOK /\ Situated /\ Attached /\ Answering
      /\ Calling /\ Replying /\ Turns
  BY DEF TurnInv, ServeInv, BusInv
<1>1. ASSUME NEW c \in Callers, NEW m \in Frames, Begins(c, m) PROVE InTurn
  <2>0. c \in Tasks /\ m.id # 0 /\ m.from = CallerLayer[c] /\ m.topic[2] = "request"
    BY <1>1, TaskFacts DEF Begins, Wired
  <2>1. /\ \A l \in Servers : pc'[l] = pc[l] /\ todo'[l] = todo[l]
        /\ pc[c] = "idle" /\ Ran(c, m, Targets(m)) /\ out'[c] = m
    BY <1>1, TaskFacts DEF Begins, Started, Ran
  <2>2. CallingNow(c)
    <3>1. CASE pc'[c] # "sending"
      <4>1. pc'[c] # "sent"
        BY <2>0, <2>1, <3>1, PcFacts DEF Ran
      <4> QED BY <3>1, <4>1 DEF CallingNow
    <3>2. CASE pc'[c] = "sending"
      <4>1. pub'[c] = "busy" /\ todo'[c] = Targets(m) /\ Targets(m) # {}
        BY <2>0, <2>1, <3>2, PcFacts DEF Ran
      <4>2. m.payload # "huge"
        BY <2>1, <4>1 DEF Ran
      <4>3. PICK k \in 1 .. Len(layers) : Targets(m) = {layers[k]} /\ layers[k] # m.from
        BY <1>0, <2>0, <4>1, RequestTargets
      <4> QED BY <2>0, <2>1, <3>2, <4>1, <4>2, <4>3 DEF CallingNow
    <3> QED BY <3>1, <3>2
  <2>3. TurnNow(c)
    BY <2>1, NonePending
  <2>4. \A l \in Servers : ReplyingNow(l)
    BY <2>1, ReplyingAsBefore
  <2>5. \A d \in Callers : d = c
    BY DEF Wired
  <2> QED BY <2>2, <2>3, <2>4, <2>5 DEF InTurn
<1>2. ASSUME NEW c \in Callers, CallReceived(c) PROVE InTurn
  <2>0. c \in Tasks
    BY TaskFacts
  <2>1. /\ \A l \in Servers : pc'[l] = pc[l] /\ todo'[l] = todo[l]
        /\ pc[c] = "got" /\ pc'[c] \in {"idle", "recving"}
    <3>1. EnterRecv(c) \in {"idle", "recving"}
      BY <2>0, PcFacts
    <3> QED BY <1>0, <1>2, <2>0, <3>1, TaskFacts DEF CallReceived, TypeOK
  <2>2. CallingNow(c) /\ TurnNow(c)
    BY <2>1, NonePending DEF CallingNow
  <2>3. \A l \in Servers : ReplyingNow(l)
    BY <2>1, ReplyingAsBefore
  <2>4. \A d \in Callers : d = c
    BY DEF Wired
  <2> QED BY <2>2, <2>3, <2>4 DEF InTurn
<1>3. ASSUME NEW l \in Servers, NEW m \in Frames, Answers(l, m) PROVE InTurn
  <2>0. l \in Tasks
    BY TaskFacts
  <2>1. /\ \A u \in Tasks : u # l => pc'[u] = pc[u] /\ out'[u] = out[u] /\ todo'[u] = todo[u]
        /\ Ran(l, m, Targets(m)) /\ m.topic[2] = "reply" /\ pc[l] = "got"
    BY <1>3 DEF Answers, Started, Ran
  <2>2. \A c \in Callers : CallingNow(c) /\ TurnNow(c)
    <3> TAKE c \in Callers
    <3>1. pc'[c] = pc[c] /\ out'[c] = out[c] /\ todo'[c] = todo[c]
      BY <2>1, TaskFacts
    <3>2. \A k \in Servers : pc'[k] \in {"got", "sending"} => pc[k] \in {"got", "sending"}
      BY <2>1, TaskFacts
    <3> QED BY <3>1, <3>2, CallingAsBefore, TurnAsBefore
  <2>3. ASSUME NEW k \in Servers PROVE ReplyingNow(k)
    <3>1. CASE k # l
      BY <2>1, <3>1, ReplyingAsBefore, TaskFacts
    <3>2. CASE k = l
      <4>1. PICK q \in Requests : m.topic = <<q, "reply">>
        BY <2>1 DEF Frames
      <4>2. \A x \in Targets(m) : TakesReply(x, q)
        BY <1>0, <4>1 DEF Targets, Matches, TakesReply, Attached
      <4>3. Targets(m) \cap Servers = {}
        BY <4>2 DEF Wired
      <4>4. pc'[l] = "sending" => todo'[l] = Targets(m)
        BY <2>0, <2>1, PcFacts DEF Ran
      <4> QED BY <3>2, <4>3, <4>4 DEF ReplyingNow
    <3> QED BY <3>1, <3>2
  <2> QED BY <2>2, <2>3 DEF InTurn
<1>4. ASSUME NEW l \in Servers, Ignore(l) PROVE InTurn
  <2>0. l \in Tasks /\ l \notin Callers
    BY TaskFacts
  <2>1. EnterRecv(l) \in {"recving", "exit"}
    BY <2>0 DEF EnterRecv, GiveUp
  <2>2. /\ pc'[l] = EnterRecv(l) /\ out' = out /\ todo' = todo
        /\ \A u \in Tasks : u # l => pc'[u] = pc[u]
    BY <1>0, <1>4, <2>0 DEF Ignore, TypeOK
  <2> QED BY <2>1, <2>2, ServerRests
<1>5. ASSUME NEW l \in Servers, Install(l) PROVE InTurn
  BY <1>0, <1>5, InstallInstalls, ServerRests DEF Installed
<1>6. ASSUME NEW s \in Tasks, NEW r \in Tasks, Deliver(s, r) PROVE InTurn
  <2>0. /\ pc[s] = "sending" /\ pc[r] = "recving" /\ First(todo[s]) = LayerOf(r) /\ out' = out
        /\ s # r /\ pc'[s] = "sent" /\ pc'[r] = "got"
        /\ \A u \in Tasks : u # s /\ u # r => pc'[u] = pc[u]
        /\ todo'[s] = todo[s] \ {LayerOf(r)} /\ \A u \in Tasks : u # s => todo'[u] = todo[u]
    <3>1. /\ pc[s] = "sending" /\ pc[r] = "recving" /\ First(todo[s]) = LayerOf(r) /\ out' = out
          /\ pc' = [pc EXCEPT ![s] = "sent", ![r] = "got"]
          /\ todo' = [todo EXCEPT ![s] = @ \ {LayerOf(r)}]
      BY <1>6 DEF Deliver, SendsTo, ReceivesOn
    <3> QED BY <1>0, <3>1 DEF TypeOK
  <2>1. \A l \in Servers : ReplyingNow(l)
    <3> TAKE l \in Servers
    <3>1. pc'[l] = "sending" => pc'[l] = pc[l] /\ todo'[l] = todo[l]
      BY <2>0, TaskFacts
    <3> QED BY <1>0, <3>1 DEF ReplyingNow, Replying
  <2>2. CASE s \in Callers
    <3>1. PICK k \in 1 .. Len(layers) : todo[s] = {layers[k]} /\ layers[k] # CallerLayer[s]
      BY <1>0, <2>0, <2>2 DEF Calling
    <3>2. First(todo[s]) = layers[k]
      BY <1>0, <3>1, FirstOfOne
    <3>3. r \in Servers /\ r # s
      <4>1. r \in Callers => r = s /\ LayerOf(r) = CallerLayer[s]
        BY <2>2 DEF Wired, LayerOf
      <4> QED BY <2>0, <3>1, <3>2, <4>1, TaskFacts
    <3>4. CallingNow(s)
      BY <1>0, <2>0, <2>2, <3>1, <3>2 DEF CallingNow, Calling
    <3>5. TurnNow(s)
      <4>1. IsOpen(CallerLayer[s]) => \A l \in Servers : pc[l] \notin {"got", "sending"}
        BY <1>0, <2>0, <2>2 DEF Turns, Pending
      <4>2. \A l \in Servers : l # r => pc'[l] = pc[l]
        BY <2>0, <2>2, TaskFacts
      <4>3. pc'[s] = "sent"
        BY <2>0
      <4> QED BY <4>1, <4>2, <4>3 DEF TurnNow
    <3>6. \A d \in Callers : d = s
      BY <2>2 DEF Wired
    <3> QED BY <2>1, <3>4, <3>5, <3>6 DEF InTurn
  <2>3. CASE s \in Servers
    <3>1. PICK k \in 1 .. Len(layers) : todo[s] = {layers[k]}
      BY <1>0, <2>0, <2>3 DEF Answering
    <3>2. LayerOf(r) = layers[k] /\ layers[k] \notin Servers
      BY <1>0, <2>0, <2>3, <3>1, FirstOfOne DEF Replying
    <3>3. r \in Callers
      BY <3>2, TaskFacts
    <3>4. CallingNow(r)
      BY <2>0, <2>3, <3>3, TaskFacts DEF CallingNow
    <3>5. TurnNow(r)
      <4>1. IsOpen(CallerLayer[r]) => \A l \in Servers : pc[l] \in {"got", "sending"} => l = s
        BY <1>0, <2>0, <2>3, <3>3 DEF Turns, Pending
      <4>2. \A l \in Servers : l # s => pc'[l] = pc[l]
        BY <2>0, <3>3, TaskFacts
      <4>3. pc'[s] = "sent"
        BY <2>0
      <4> QED BY <4>1, <4>2, <4>3 DEF TurnNow
    <3>6. \A d \in Callers : d = r
      BY <3>3 DEF Wired
    <3> QED BY <2>1, <3>4, <3>5, <3>6 DEF InTurn
  <2> QED BY <2>2, <2>3, TaskFacts
<1>7. ASSUME NEW t \in Tasks, SentOn(t) PROVE InTurn
  <2>0. /\ pc[t] = "sent" /\ Ran(t, out[t], todo[t]) /\ out' = out
        /\ \A u \in Tasks : u # t => pc'[u] = pc[u] /\ todo'[u] = todo[u]
    BY <1>7 DEF SentOn, Ran
  <2>1. CASE t \in Servers
    <3>1. todo[t] = {} /\ out[t].payload = "good"
      BY <1>0, <2>0, <2>1 DEF Answering
    <3>2. pc'[t] = AfterPublish(t, out[t])
      BY <2>0, <3>1 DEF Ran
    <3>3. pc'[t] \in {"recving", "exit"}
      BY <2>1, <3>2, TaskFacts DEF AfterPublish, EnterRecv, GiveUp
    <3> QED BY <2>0, <2>1, <3>3, ServerRests
  <2>2. CASE t \in Callers
    <3>1. todo[t] = {} /\ out[t].payload # "huge" /\ out[t].id # 0
      BY <1>0, <2>0, <2>2 DEF Calling
    <3>2. pc'[t] = AfterPublish(t, out[t])
      BY <2>0, <3>1 DEF Ran
    <3>3. pc'[t] = IF IsOpen(CallerLayer[t]) THEN "recving" ELSE "idle"
      BY <2>2, <3>1, <3>2 DEF AfterPublish, EnterRecv, GiveUp, LayerOf
    <3>4. \A l \in Servers : pc'[l] = pc[l] /\ todo'[l] = todo[l]
      BY <2>0, <2>2, TaskFacts
    <3>5. CallingNow(t) /\ TurnNow(t)
      BY <1>0, <2>2, <3>3, <3>4 DEF CallingNow, TurnNow, Turns, Pending
    <3>6. (\A d \in Callers : d = t) /\ \A l \in Servers : ReplyingNow(l)
      BY <2>2, <3>4, ReplyingAsBefore DEF Wired
    <3> QED BY <3>5, <3>6 DEF InTurn
  <2> QED BY <2>1, <2>2, TaskFacts
<1>8. ASSUME NEW t \in Tasks, Eof(t) PROVE InTurn
  <2>0. /\ closed[LayerOf(t)] /\ out' = out /\ todo' = todo
        /\ \A u \in Tasks : pc'[u] = IF u = t THEN GiveUp(u) ELSE pc[u]
    BY <1>0, <1>8 DEF Eof, TypeOK
  <2>1. CASE t \in Servers
    <3>1. pc'[t] = "exit"
      BY <2>0, <2>1, TaskFacts DEF GiveUp
    <3> QED BY <2>0, <2>1, <3>1, ServerRests
  <2>2. CASE t \in Callers
    <3>1. pc'[t] = "idle" /\ ~IsOpen(CallerLayer[t])
      BY <2>0, <2>2 DEF GiveUp, LayerOf, IsOpen
    <3>2. CallingNow(t) /\ TurnNow(t)
      BY <3>1 DEF CallingNow, TurnNow
    <3>3. \A l \in Servers : ReplyingNow(l)
      BY <2>0, <2>2, TaskFacts, ReplyingAsBefore
    <3>4. \A d \in Callers : d = t
      BY <2>2 DEF Wired
    <3> QED BY <3>2, <3>3, <3>4 DEF InTurn
  <2> QED BY <2>1, <2>2, TaskFacts
<1>9. ASSUME NEW t \in Tasks, SendDropped(t) PROVE InTurn
  <2>0. /\ pc[t] = "sending" /\ out' = out
        /\ pc'[t] = "sent" /\ todo'[t] = todo[t] \ {First(todo[t])}
        /\ \A u \in Tasks : u # t => pc'[u] = pc[u] /\ todo'[u] = todo[u]
    <3>1. /\ pc[t] = "sending" /\ out' = out
          /\ pc' = [pc EXCEPT ![t] = "sent"]
          /\ todo' = [todo EXCEPT ![t] = @ \ {First(todo[t])}]
      BY <1>9 DEF SendDropped
    <3> QED BY <1>0, <3>1 DEF TypeOK
  <2>1. CASE t \in Servers
    BY <2>0, <2>1, ServerRests
  <2>2. CASE t \in Callers
    <3>1. PICK k \in 1 .. Len(layers) : todo[t] = {layers[k]}
      BY <1>0, <2>0, <2>2 DEF Calling
    <3>2. todo'[t] = {}
      BY <1>0, <2>0, <3>1, FirstOfOne
    <3>3. \A l \in Servers : pc'[l] = pc[l] /\ todo'[l] = todo[l]
      BY <2>0, <2>2, TaskFacts
    <3>4. CallingNow(t)
      BY <1>0, <2>0, <2>2, <3>2 DEF CallingNow, Calling
    <3>5. TurnNow(t)
      BY <2>0, <2>2, <3>3, NonePending
    <3>6. (\A d \in Callers : d = t) /\ \A l \in Servers : ReplyingNow(l)
      BY <2>2, <3>3, ReplyingAsBefore DEF Wired
    <3> QED BY <3>4, <3>5, <3>6 DEF InTurn
  <2> QED BY <2>1, <2>2, TaskFacts
<1>10. ASSUME NEW l \in Closable, CloseLayer(l) PROVE InTurn
  BY <1>10, CallingAsBefore, ReplyingAsBefore, TurnAsBefore DEF CloseLayer, InTurn
<1> QED BY <1>1, <1>2, <1>3, <1>4, <1>5, <1>6, <1>7, <1>8, <1>9, <1>10 DEF BusStep

(* Install and CloseLayer: the caller's layer is not attached by Install.  *)
LEMMA InstallTurns ==
  ASSUME Wired, TurnInv, NEW l \in Servers, Install(l)
  PROVE  Calling' /\ Replying' /\ Turns'
<1>0. TypeOK /\ Calling /\ Replying /\ Turns
  BY DEF TurnInv, ServeInv, BusInv
<1>1. Installed(l) /\ (layers' = layers \/ (~Find(l) /\ layers' = Append(layers, l)))
  BY <1>0, InstallInstalls
<1>2. /\ \A k \in 1 .. Len(layers) : k \in 1 .. Len(layers') /\ layers'[k] = layers[k]
      /\ \A k \in 1 .. Len(layers') : k \in 1 .. Len(layers) \/ layers'[k] = l
  <2>1. CASE layers' = layers
    BY <2>1
  <2>2. CASE layers' = Append(layers, l)
    <3>1. layers \in Seq(Layers) /\ l \in Layers
      BY <1>0, TaskFacts DEF TypeOK
    <3>2. /\ Len(layers') = Len(layers) + 1 /\ Len(layers) \in Nat /\ layers'[Len(layers) + 1] = l
          /\ \A k \in 1 .. Len(layers) : layers'[k] = layers[k]
      BY <2>2, <3>1
    <3> QED BY <3>2
  <2> QED BY <1>1, <2>1, <2>2
<1>3. /\ out' = out /\ todo' = todo /\ closed' = closed /\ pc'[l] \in {"recving", "exit"}
      /\ \A u \in Tasks : u # l => pc'[u] = pc[u]
  BY <1>1 DEF Installed
<1>4. Calling'
  <2> SUFFICES ASSUME NEW c \in Callers
               PROVE  /\ pc'[c] \in {"sending", "sent"} => out[c].id # 0 /\ out[c].payload # "huge"
                      /\ pc'[c] = "sending" =>
                            \E k \in 1 .. Len(layers') :
                                todo[c] = {layers'[k]} /\ layers'[k] # CallerLayer[c]
                      /\ pc'[c] = "sent" => todo[c] = {}
    BY <1>3 DEF Calling
  <2>1. pc'[c] = pc[c]
    BY <1>3, TaskFacts
  <2> QED BY <1>0, <1>2, <2>1 DEF Calling
<1>5. Replying'
  <2>1. \A k \in Servers : pc'[k] = "sending" => pc[k] = "sending"
    BY <1>3, TaskFacts
  <2> QED BY <1>0, <1>3, <2>1 DEF Replying
<1>6. Turns'
  <2> SUFFICES ASSUME NEW c \in Callers, IsOpen(CallerLayer[c])'
               PROVE  \A k \in Servers : pc'[k] \in {"got", "sending"} =>
                          /\ pc'[c] \in {"sent", "recving"}
                          /\ \A j \in Servers : pc'[j] \in {"got", "sending"} => j = k
    BY DEF Turns, Pending
  <2>1. IsOpen(CallerLayer[c])
    BY <1>2, <1>3 DEF IsOpen, Find, Wired
  <2>2. pc'[c] = pc[c]
    BY <1>3, TaskFacts
  <2>3. \A k \in Servers : pc'[k] \in {"got", "sending"} => pc[k] \in {"got", "sending"}
    BY <1>3, TaskFacts
  <2> QED BY <1>0, <2>1, <2>2, <2>3 DEF Turns, Pending
<1> QED BY <1>4, <1>5, <1>6

LEMMA CloseTurns ==
  ASSUME TurnInv, NEW l \in Closable, CloseLayer(l)
  PROVE  Calling' /\ Replying' /\ Turns'
<1>0. BusInv /\ TypeOK /\ Calling /\ Replying /\ Turns
  BY DEF TurnInv, ServeInv, BusInv
<1>1. UNCHANGED <<layers, pc, out, todo>> /\ \A k \in Layers : closed[k] => closed'[k]
  BY <1>0, CloseInv DEF CloseLayer
<1>2. Calling' /\ Replying'
  BY <1>0, <1>1 DEF Calling, Replying
<1>3. Turns'
  <2>1. \A c \in Callers : CallerLayer[c] \in Layers
    BY BusAssumption
  <2> QED BY <1>0, <1>1, <2>1 DEF Turns, Pending, IsOpen, Find
<1> QED BY <1>2, <1>3

LEMMA TurnInvNoMutualWrite == Wired /\ TurnInv => NoMutualWrite
<1> SUFFICES ASSUME Wired, TurnInv, NEW s \in Tasks, NEW t \in Tasks,
                    SendsTo(s, LayerOf(t)), SendsTo(t, LayerOf(s))
             PROVE  closed[LayerOf(s)] \/ closed[LayerOf(t)]
  BY DEF NoMutualWrite
<1>0. /\ TypeOK /\ Attached /\ Answering /\ Calling /\ Replying /\ Turns
      /\ pc[s] = "sending" /\ First(todo[s]) = LayerOf(t)
      /\ pc[t] = "sending" /\ First(todo[t]) = LayerOf(s)
  BY DEF TurnInv, ServeInv, BusInv, SendsTo
<1>1. ASSUME NEW u \in Servers, pc[u] = "sending"
      PROVE  /\ First(todo[u]) \notin Servers
             /\ \E k \in 1 .. Len(layers) : First(todo[u]) = layers[k]
  <2>1. PICK k \in 1 .. Len(layers) : todo[u] = {layers[k]}
    BY <1>0, <1>1 DEF Answering
  <2>2. First(todo[u]) = layers[k]
    BY <1>0, <2>1, FirstOfOne
  <2> QED BY <1>0, <1>1, <2>1, <2>2 DEF Replying
<1>2. ASSUME NEW u \in Callers, pc[u] = "sending" PROVE First(todo[u]) # LayerOf(u)
  <2>1. PICK k \in 1 .. Len(layers) : todo[u] = {layers[k]} /\ layers[k] # CallerLayer[u]
    BY <1>0, <1>2 DEF Calling
  <2>2. First(todo[u]) = layers[k]
    BY <1>0, <2>1, FirstOfOne
  <2> QED BY <2>1, <2>2 DEF LayerOf
<1>3. ASSUME NEW c \in Callers, NEW l \in Servers, pc[c] = "sending", pc[l] = "sending",
             First(todo[l]) = LayerOf(c)
      PROVE  closed[LayerOf(c)]
  <2>1. Find(LayerOf(c))
    BY <1>1, <1>3 DEF Find
  <2>2. ~IsOpen(LayerOf(c))
    BY <1>0, <1>3 DEF Turns, Pending, LayerOf
  <2> QED BY <2>1, <2>2 DEF IsOpen
<1>4. CASE s \in Servers /\ t \in Servers
  BY <1>0, <1>1, <1>4, TaskFacts
<1>5. CASE s \in Callers /\ t \in Callers
  <2>1. s = t
    BY <1>5 DEF Wired
  <2> QED BY <1>0, <1>2, <1>5, <2>1
<1>6. CASE s \in Callers /\ t \in Servers
  BY <1>0, <1>3, <1>6
<1>7. CASE s \in Servers /\ t \in Callers
  BY <1>0, <1>3, <1>7
<1> QED BY <1>4, <1>5, <1>6, <1>7, TaskFacts

(* A coroutine that calls, and the layers that answer it, are never parked *)
(* in Writes to each other unless one of the two layers was closed, with   *)
(* any number of layers, requests and payloads: the caller writes only     *)
(* when every layer it has asked is back in Recv or on its way there.      *)
THEOREM Unlocked == ASSUME Wired PROVE Spec => []NoMutualWrite
<1>0. OneTaker
  BY DEF Wired
<1>1. Init => TurnInv
  <2> SUFFICES ASSUME Init PROVE TurnInv
    OBVIOUS
  <2>1. ServeInv
    BY ServeInitInv
  <2>2. Calling /\ Replying /\ Turns
    BY TaskFacts DEF Init, Calling, Replying, Turns, Pending
  <2> QED BY <2>1, <2>2 DEF TurnInv
<1>2. TurnInv /\ [Next]_vars => TurnInv'
  <2> SUFFICES ASSUME TurnInv, [Next]_vars PROVE Calling' /\ Replying' /\ Turns'
    BY <1>0, ServeInvStep DEF TurnInv
  <2>0. BusInv
    BY DEF TurnInv, ServeInv
  <2>1. CASE UNCHANGED vars
    <3>1. InTurn
      BY <2>1, CallingAsBefore, ReplyingAsBefore, TurnAsBefore DEF InTurn
    <3> QED BY <2>1, <3>1, InTurnKeeps
  <2>2. CASE Next
    <3>1. BusStep
      BY <2>0, <2>2, NextIsBusStep
    <3>2. CASE UNCHANGED <<layers, closed>>
      BY <3>1, <3>2, StepInTurn, InTurnKeeps
    <3>3. CASE ~UNCHANGED <<layers, closed>>
      <4>1. \/ \E l \in Servers : Install(l)
            \/ \E l \in Closable : CloseLayer(l)
        BY <3>1, <3>3 DEF BusStep, Begins, CallReceived, Answers, Ignore, Deliver, SentOn, Eof, SendDropped
      <4> QED BY <4>1, InstallTurns, CloseTurns
    <3> QED BY <3>2, <3>3
  <2> QED BY <2>1, <2>2
<1> QED BY <1>1, <1>2, TurnInvNoMutualWrite, PTL DEF Spec
=============================================================================

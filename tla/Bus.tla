-------------------------------- MODULE Bus --------------------------------
(***************************************************************************)
(* The in-process pub/sub bus (src/bus.cc, include/w2g/pipe.h) with the    *)
(* coroutines that use it: WasiNet callers (src/wasi.cc -> Bus::Call),     *)
(* plain publishers, and the extra G++ layers' ServeLayer / ServeGxx loops *)
(* (src/layer.cc, src/stub.cc).                                            *)
(*                                                                         *)
(* Coroutines share one thread and lose it only where they park on a       *)
(* channel, so an action runs one coroutine from one channel operation to  *)
(* the next.  Of each layer's Pipe() pair only hub -> self is used: hub is *)
(* written by Publish, self is read by Recv.  wasigo's channels are not    *)
(* part of this repository; they are modelled as unbuffered Go channels.   *)
(***************************************************************************)
EXTENDS Naturals, Sequences

CONSTANTS
    Layers,        \* layer names
    AttachOrder,   \* the layers attached before the coroutines start, in order
    Subscribed,    \* [Layers -> SUBSET Topics]: what each one subscribes to
    MaxLayers,     \* kMaxLayers
    Servers,       \* layers with a ServeLayer or ServeGxx coroutine
    Callers,       \* coroutines that call or publish
    CallerLayer,   \* [Callers -> Layers]: the `from` each one uses
    CallsOf,       \* [Callers -> SUBSET Requests]: the topics each one Calls
    PublishesOf,   \* [Callers -> SUBSET Requests]: the topics each one Publishes
    Requests,      \* request topics
    Payloads,      \* \subseteq {"good", "bad", "huge"}
    Closable,      \* layers some coroutine may CloseLayer
    MaxId,         \* largest value of next_id_ (2^32 - 1)
    MaxOps         \* bound: calls and publications in a behaviour

Star == <<"*", "request">>
Topics == (Requests \X {"request", "reply"}) \cup {Star}
ReplyOf(topic) == <<topic[1], "reply">>

(* A layer has one name, a coroutine one layer; Attach refuses a name that *)
(* is there.                                                               *)
ASSUME BusAssumption ==
    /\ Servers \subseteq Layers /\ Callers \cap Servers = {}
    /\ CallerLayer \in [Callers -> Layers]
    /\ CallsOf \in [Callers -> SUBSET Requests]
    /\ PublishesOf \in [Callers -> SUBSET Requests]
    /\ Subscribed \in [Layers -> SUBSET Topics]
    /\ AttachOrder \in Seq(Layers)
    /\ \A j, k \in 1 .. Len(AttachOrder) : AttachOrder[j] = AttachOrder[k] => j = k
    /\ {MaxId, MaxOps, MaxLayers} \subseteq Nat /\ MaxId # 0

Tasks == Callers \cup Servers
NoMsg == [id |-> 0, topic |-> Star, from |-> "none", payload |-> "none"]

VARIABLES
    layers,    \* layers_: names in attach order, closed ones included
    subs,      \* Layer::topics
    closed,    \* Layer::closed, and with it both of its Conns
    nextId,    \* next_id_
    pc,        \* what each coroutine is parked on or about to do
    out,       \* the message a coroutine publishes or last published
    todo,      \* the targets Publish has not written, in attach order (First)
    in,        \* the message a coroutine has received: a caller's last reply
    pub,       \* how the coroutine's last Publish ended, "busy" while it runs
    goal,      \* history: the targets of that Publish
    reached,   \* history: the layers that took its message
    served,    \* history: the requests a layer answered, with that layer
    ops        \* calls and publications so far

vars == <<layers, subs, closed, nextId, pc, out, todo, in, pub, goal, reached,
          served, ops>>

LayerOf(t) == IF t \in Callers THEN CallerLayer[t] ELSE t

Find(l) == \E k \in 1 .. Len(layers) : layers[k] = l
IsOpen(l) == Find(l) /\ ~closed[l]
Matches(l, topic) == topic \in subs[l] \/ Star \in subs[l]

Init ==
    /\ layers = AttachOrder
    /\ subs = [l \in Layers |-> IF Find(l) THEN Subscribed[l] ELSE {}]
    /\ closed = [l \in Layers |-> FALSE]
    /\ nextId = 0
    /\ pc = [t \in Tasks |-> IF t \in Callers THEN "idle"
                             ELSE IF Find(t) THEN "recving" ELSE "off"]
    /\ out = [t \in Tasks |-> NoMsg]
    /\ todo = [t \in Tasks |-> {}]
    /\ in = [t \in Tasks |-> NoMsg]
    /\ pub = [t \in Tasks |-> "none"]
    /\ goal = [t \in Tasks |-> {}]
    /\ reached = [t \in Tasks |-> {}]
    /\ served = {}
    /\ ops = 0

-----------------------------------------------------------------------------
(* What a coroutine runs between two channel operations.                   *)

(* A coroutine whose Recv or Publish failed: Call returns the error,       *)
(* ServeLayer returns.                                                     *)
GiveUp(t) == IF t \in Callers THEN "idle" ELSE "exit"

(* Recv up to its first await: no such layer and closed layers fail.       *)
EnterRecv(t) == IF IsOpen(LayerOf(t)) THEN "recving" ELSE GiveUp(t)

(* Call and ServeLayer go on to Recv; a plain Publish (id 0) is over.      *)
(* Mutant: Call does not wait for its reply.                               *)
AfterPublishNoWait(t, m) == IF t \in Callers THEN "idle" ELSE EnterRecv(t)
AfterPublish(t, m) == IF t \in Callers /\ m.id = 0 THEN "idle" ELSE EnterRecv(t)

(* Publish's targets: every open, matching layer but the sender.           *)
Targets(m) == {l \in Layers : IsOpen(l) /\ l # m.from /\ Matches(l, m.topic)}

(* They are written in attach order; layers_ only grows at its end.        *)
First(ts) ==
    layers[CHOOSE k \in 1 .. Len(layers) :
               layers[k] \in ts /\ \A j \in 1 .. k - 1 : layers[j] \notin ts]

(* How Publish of m goes on with ts left to write: an unencodable frame    *)
(* and a closed hub end it with an error, else Write parks on the hub.     *)
(* Mutants: a failed Write ends Publish without an error; nobody to write  *)
(* to is an error.                                                         *)
WriteNextNobody(m, ts) ==
    CASE m.payload = "huge" \/ ts = {}   -> "err"
      [] OTHER -> IF closed[First(ts)] THEN "err" ELSE "busy"
WriteNextUnchecked(m, ts) ==
    CASE m.payload = "huge"              -> "err"
      [] ts = {} \/ closed[First(ts)]    -> "ok"
      [] OTHER                           -> "busy"
WriteNext(m, ts) ==
    CASE m.payload = "huge"              -> "err"
      [] m.payload # "huge" /\ ts = {}   -> "ok"
      [] OTHER -> IF closed[First(ts)] THEN "err" ELSE "busy"

RunPublish(t, m, ts) ==
    LET st == WriteNext(m, ts) IN
    /\ pub' = [pub EXCEPT ![t] = st]
    /\ todo' = [todo EXCEPT ![t] = IF st = "busy" THEN ts ELSE {}]
    /\ pc' = [pc EXCEPT ![t] = CASE st = "busy" -> "sending"
                                 [] st = "err"  -> GiveUp(t)
                                 [] st = "ok"   -> AfterPublish(t, m)]

(* Publish from its start.                                                 *)
StartPublish(t, m) ==
    /\ out' = [out EXCEPT ![t] = m]
    /\ in' = [in EXCEPT ![t] = NoMsg]
    /\ goal' = [goal EXCEPT ![t] = Targets(m)]
    /\ reached' = [reached EXCEPT ![t] = {}]
    /\ RunPublish(t, m, Targets(m))

-----------------------------------------------------------------------------
(* Callers.                                                                *)

(* out.id = ++next_id_, and once more if that wrapped to 0.                *)
NewCallId == IF nextId = MaxId THEN 1 ELSE nextId + 1

Request(c, id, q, p) ==
    [id |-> id, topic |-> <<q, "request">>, from |-> CallerLayer[c], payload |-> p]

(* Bus::Call, up to its first await.                                       *)
Call(c, q, p) ==
    /\ pc[c] = "idle" /\ ops < MaxOps
    /\ nextId' = NewCallId
    /\ StartPublish(c, Request(c, NewCallId, q, p))
    /\ ops' = ops + 1
    /\ UNCHANGED <<layers, subs, closed, served>>

(* Bus::Publish outside a Call: its id is 0 and nobody waits for a reply.  *)
Publish(c, q, p) ==
    /\ pc[c] = "idle" /\ ops < MaxOps
    /\ StartPublish(c, Request(c, 0, q, p))
    /\ ops' = ops + 1
    /\ UNCHANGED <<layers, subs, closed, nextId, served>>

(* Does a received message end the Call?  Mutant: the id is not compared.  *)
IsReplyAnyId(c, m) == m.topic = ReplyOf(out[c].topic)
IsReply(c, m) == m.id = out[c].id /\ m.topic = ReplyOf(out[c].topic)

(* Call's Recv came back with a message: return it, or drop it and Recv    *)
(* again.                                                                  *)
CallReceived(c) ==
    /\ pc[c] = "got"
    /\ IF IsReply(c, in[c])
       THEN pc' = [pc EXCEPT ![c] = "idle"] /\ UNCHANGED in
       ELSE /\ pc' = [pc EXCEPT ![c] = EnterRecv(c)]
            /\ in' = [in EXCEPT ![c] = NoMsg]
    /\ UNCHANGED <<layers, subs, closed, nextId, out, todo, pub, goal, reached,
                   served, ops>>

-----------------------------------------------------------------------------
(* Extra G++ layers.                                                       *)

(* StubLayer::Handle and CombinedReplyTopic: a known request gets a reply  *)
(* (also "abac deny" and the system-disabled text).  An unknown topic gets *)
(* none, and neither does a malformed payload (INVALID_ARGUMENT) that      *)
(* comes as far as the backend: ServeGxx, a denial and a disabled topic    *)
(* answer it.                                                              *)
MayReply(m) == m.topic[2] = "request"
MustReply(m) == MayReply(m) /\ m.payload # "bad"

(* The reply copies the request's id.  Mutant: the id is left at 0.        *)
ReplyWithoutId(l, m) ==
    [id |-> 0, topic |-> ReplyOf(m.topic), from |-> l, payload |-> "good"]
Reply(l, m) ==
    [id |-> m.id, topic |-> ReplyOf(m.topic), from |-> l, payload |-> "good"]

(* ServeLayer with a message in hand: Handle it and Publish the reply, or  *)
(* go back to Recv.                                                        *)
Answer(l) ==
    /\ pc[l] = "got" /\ MayReply(in[l])
    /\ StartPublish(l, Reply(l, in[l]))
    /\ served' = served \cup {<<l, in[l]>>}
    /\ UNCHANGED <<layers, subs, closed, nextId, ops>>

Ignore(l) ==
    /\ pc[l] = "got" /\ ~MustReply(in[l])
    /\ pc' = [pc EXCEPT ![l] = EnterRecv(l)]
    /\ in' = [in EXCEPT ![l] = NoMsg]
    /\ UNCHANGED <<layers, subs, closed, nextId, out, todo, pub, goal, reached,
                   served, ops>>

Serve(l) == Answer(l) \/ Ignore(l)

(* Bus::Attach: no second layer of a name, closed or not, and no more than *)
(* kMaxLayers.                                                             *)
Attach(l) ==
    IF Find(l) \/ Len(layers) >= MaxLayers THEN layers ELSE Append(layers, l)

(* Registry::Install and GoServe for one extra layer: AttachLayer attaches *)
(* it unless it is there, subscribes it, and a ServeLayer is started (a    *)
(* Registry of one layer; nothing in either awaits).                       *)
Install(l) ==
    /\ pc[l] \in {"off", "exit"}
    /\ layers' = Attach(l)
    /\ closed' = closed
    /\ subs' = [subs EXCEPT ![l] = IF Find(l)' THEN @ \cup Subscribed[l] ELSE @]
    /\ pc' = [pc EXCEPT ![l] = IF IsOpen(l)' THEN "recving" ELSE "exit"]
    /\ UNCHANGED <<nextId, out, todo, in, pub, goal, reached, served, ops>>

-----------------------------------------------------------------------------
(* Channels.                                                               *)

SendsTo(t, l) == pc[t] = "sending" /\ First(todo[t]) = l
ReceivesOn(t, l) == pc[t] = "recving" /\ LayerOf(t) = l

(* A parked Write and a parked ReadMsg on one pipe meet.                   *)
Deliver(s, r) ==
    LET l == LayerOf(r) IN
    /\ SendsTo(s, l) /\ ReceivesOn(r, l) /\ ~closed[l]
    /\ in' = [in EXCEPT ![r] = out[s]]
    /\ reached' = [reached EXCEPT ![s] = @ \cup {l}]
    /\ todo' = [todo EXCEPT ![s] = @ \ {l}]
    /\ pc' = [pc EXCEPT ![s] = "sent", ![r] = "got"]
    /\ UNCHANGED <<layers, subs, closed, nextId, out, pub, goal, served, ops>>

(* The writer's send is over: on to the next target.                       *)
Sent(t) ==
    /\ pc[t] = "sent"
    /\ RunPublish(t, out[t], todo[t])
    /\ UNCHANGED <<layers, subs, closed, nextId, out, in, goal, reached, served, ops>>

(* A reader parked on a pipe whose hub end was closed gets EOF.            *)
Eof(t) ==
    /\ pc[t] = "recving" /\ closed[LayerOf(t)]
    /\ pc' = [pc EXCEPT ![t] = GiveUp(t)]
    /\ UNCHANGED <<layers, subs, closed, nextId, out, todo, in, pub, goal, reached,
                   served, ops>>

(* A writer parked on a channel that is closed under it: whether it ever   *)
(* wakes is the runtime's business; Write does not look at the result.     *)
SendDropped(t) ==
    /\ pc[t] = "sending" /\ closed[First(todo[t])]
    /\ pc' = [pc EXCEPT ![t] = "sent"]
    /\ todo' = [todo EXCEPT ![t] = @ \ {First(@)}]
    /\ UNCHANGED <<layers, subs, closed, nextId, out, in, pub, goal, reached, served, ops>>

(* Bus::CloseLayer, from any coroutine.  A pair that can meet has met.     *)
CloseLayer(l) ==
    /\ IsOpen(l)
    /\ ~ \E s, r \in Tasks : SendsTo(s, l) /\ ReceivesOn(r, l)
    /\ closed' = [closed EXCEPT ![l] = TRUE]
    /\ UNCHANGED <<layers, subs, nextId, pc, out, todo, in, pub, goal, reached,
                   served, ops>>

-----------------------------------------------------------------------------
Next ==
    \/ \E c \in Callers, p \in Payloads :
           \/ \E q \in CallsOf[c] : Call(c, q, p)
           \/ \E q \in PublishesOf[c] : Publish(c, q, p)
    \/ \E c \in Callers : CallReceived(c)
    \/ \E l \in Servers : Serve(l) \/ Install(l)
    \/ \E s, r \in Tasks : Deliver(s, r)
    \/ \E t \in Tasks : Sent(t) \/ Eof(t) \/ SendDropped(t)
    \/ \E l \in Closable : CloseLayer(l)

Spec == Init /\ [][Next]_vars

(* The scheduler runs every coroutine that is ready; callers need not call *)
(* and nobody need close a layer.                                          *)
Fairness ==
    /\ \A c \in Callers : WF_vars(CallReceived(c))
    /\ \A l \in Servers : WF_vars(Serve(l))
    /\ \A t \in Tasks : /\ WF_vars(Sent(t))
                        /\ WF_vars(Eof(t))
                        /\ WF_vars(\E r \in Tasks : Deliver(t, r))

FairSpec == Spec /\ Fairness

-----------------------------------------------------------------------------
(* Properties.                                                             *)

(* A Call that returned a message returned the answer to its own request:  *)
(* the layer that sent it was asked for exactly this, by this caller's     *)
(* layer and under this id - whoever else calls, answers or publishes on   *)
(* the bus meanwhile (bus.cc Call, layer.cc ServeLayer).                   *)
ReplyAnswersCall ==
    \A c \in Callers :
        pc[c] = "idle" /\ in[c] # NoMsg => <<in[c].from, out[c]>> \in served

(* A Publish that returned no error handed its message to every layer that *)
(* matched when it started, except to those closed since.                  *)
DeliveredOrClosed ==
    \A t \in Tasks :
        pub[t] = "ok" => \A l \in goal[t] \ reached[t] : closed[l]

(* No two coroutines of open layers are parked writing to each other: a    *)
(* caller never publishes to a layer still trying to reply to it.          *)
NoMutualWrite ==
    \A s, t \in Tasks :
        SendsTo(s, LayerOf(t)) /\ SendsTo(t, LayerOf(s))
            => closed[LayerOf(s)] \/ closed[LayerOf(t)]

(* While an extra layer is open its ServeLayer is running, so that what is *)
(* published to it can be read: a coroutine ends only with its layer.      *)
OpenLayerIsServed ==
    \A l \in Servers : pc[l] = "exit" => ~IsOpen(l)

(* A Call ends, unless no open layer serves its topic, its own layer is    *)
(* closed - Call publishes without asking whether it can receive - or the  *)
(* backend finds the request malformed, which nobody answers.              *)
CallReturns ==
    \A c \in Callers :
        (pc[c] # "idle") ~>
            (\/ pc[c] = "idle"
             \/ closed[LayerOf(c)]
             \/ out[c].payload = "bad"
             \/ \A l \in Servers : ~(IsOpen(l) /\ Matches(l, out[c].topic)))

(* A coroutine parked writing to a layer that was closed under it: nothing *)
(* in this code wakes it.                                                  *)
Stranded(t) == pc[t] = "sending" /\ closed[First(todo[t])]

(* A Call whose own layer is closed, before it began or at any point of    *)
(* it, ends: with an error or, if it was there already, with its reply.    *)
(* Malformed requests and topics that nobody serves are no exception here. *)
(* It takes servers that outlive their replies to the closed layer: only a *)
(* Write that was under way when its layer was closed, the Call's or that  *)
(* of the server the Call is writing to, may keep it.                      *)
ClosedCallEnds ==
    \A c \in Callers :
        (pc[c] # "idle" /\ closed[LayerOf(c)]) ~>
            (\/ pc[c] = "idle"
             \/ Stranded(c)
             \/ \E l \in Servers : SendsTo(c, l) /\ Stranded(l))

(* bus.h:55-56 and pipe-bus.md:29: the id "correlates Bus::Call with its   *)
(* reply".  Every Call to a layer that is there comes back.                *)
EveryCallReturns == \A c \in Callers : (pc[c] # "idle") ~> (pc[c] = "idle")
=============================================================================

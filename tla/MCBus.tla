------------------------------- MODULE MCBus -------------------------------
(* Instances of Bus for TLC.  Every layer name used by a configuration is  *)
(* in Wiring: WASI layers listen to the replies, extra layers to requests. *)
EXTENDS Bus, TLC

(* One WASI layer, one extra layer per topic: the DefaultStubs set-up.     *)
StubsOrder == <<"wasi", "g1", "g2">>
StubsWiring ==
    [l \in {"wasi", "g1", "g2"} |->
        CASE l = "wasi" -> {ReplyOf(<<q, "request">>) : q \in Requests}
          [] l = "g1"   -> {<<"q1", "request">>}
          [] l = "g2"   -> {<<"q2", "request">>}]
OnWasi == [c \in Callers |-> "wasi"]
EachAll == [c \in Callers |-> Requests]
EachNone == [c \in Callers |-> {}]
EachOwn == [c \in Callers |-> IF c = "c1" THEN {"q1"} ELSE {"q2"}]

(* A WASI layer that also listens to requests, two layers that both take   *)
(* every request, one of them by "*", and one attached late.               *)
FanOrder == <<"wasi", "g1", "g2">>
FanWiring ==
    [l \in {"wasi", "g1", "g2", "g3"} |->
        CASE l = "wasi" -> {<<"q1", "reply">>, <<"q1", "request">>}
          [] l = "g1" -> {<<"q1", "request">>}
          [] l = "g2" -> {Star}
          [] l = "g3" -> {<<"q1", "request">>}]
CallerCalls == [c \in Callers |-> IF c = "c1" THEN Requests ELSE {}]
PublisherPublishes == [c \in Callers |-> IF c = "p1" THEN Requests ELSE {}]
=============================================================================

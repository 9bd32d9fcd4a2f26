-------------------------------- MODULE Msg ---------------------------------
(***************************************************************************)
(* The bus's message format (include/w2g/msg.h): Encode and Decode.  A     *)
(* byte is a digit 0 .. Radix - 1, so U16 and U32 keep their two and four  *)
(* bytes and hold less.  Decode returns the message, or NoMsg for false.   *)
(* A frame grows byte by byte so that Decode meets all of them.            *)
(***************************************************************************)
EXTENDS Naturals, SequencesExt

CONSTANTS
    Radix,             \* 256
    MaxPayloadBytes,   \* kMaxPayloadBytes
    MaxFrame,          \* bound: the bytes of a frame
    Ids                \* bound: the ids in the messages encoded

ASSUME MsgAssumption ==
    /\ {Radix, MaxPayloadBytes, MaxFrame} \subseteq Nat /\ Radix > 1
    /\ MaxPayloadBytes < Radix * Radix * Radix * Radix
    /\ Ids \subseteq 0 .. Radix * Radix * Radix * Radix - 1

VARIABLES
    frame,    \* bytes that came in
    msg       \* a message to send, or NoMsg

msgVars == <<frame, msg>>

Byte == 0 .. Radix - 1
NoMsg == <<>>

PutU16(v) == <<v % Radix, (v \div Radix) % Radix>>
PutU32(v) ==
    <<v % Radix, (v \div Radix) % Radix,
      (v \div (Radix * Radix)) % Radix, (v \div (Radix * Radix * Radix)) % Radix>>
U16Max == Radix * Radix - 1

(* Mutant: a name that is too long is let through, its length wraps.       *)
NamesFitAlways(m) == TRUE
NamesFit(m) == Len(m.from) <= U16Max /\ Len(m.topic) <= U16Max

Encode(m) ==
    IF ~NamesFit(m) \/ Len(m.payload) > MaxPayloadBytes
    THEN <<>>
    ELSE <<1>> \o PutU16(Len(m.from)) \o m.from \o PutU16(Len(m.topic)) \o m.topic
         \o PutU32(m.id) \o PutU32(Len(m.payload)) \o m.payload

(* A reader over s: the place it is at, or 0 once a Get returned false.    *)
GetU16(s, i) ==
    IF i = 0 \/ i + 1 > Len(s) THEN [v |-> 0, i |-> 0]
    ELSE [v |-> s[i] + Radix * s[i + 1], i |-> i + 2]
GetU32(s, i) ==
    IF i = 0 \/ i + 3 > Len(s) THEN [v |-> 0, i |-> 0]
    ELSE [v |-> s[i] + Radix * (s[i + 1] + Radix * (s[i + 2] + Radix * s[i + 3])), i |-> i + 4]
GetBytes(s, i, n) ==
    IF i = 0 \/ i + n - 1 > Len(s) THEN [v |-> <<>>, i |-> 0]
    ELSE [v |-> SubSeq(s, i, i + n - 1), i |-> i + n]

Decode(s) ==
    LET fromLen == GetU16(s, 2)
        from == GetBytes(s, fromLen.i, fromLen.v)
        topicLen == GetU16(s, from.i)
        topic == GetBytes(s, topicLen.i, topicLen.v)
        id == GetU32(s, topic.i)
        payloadLen == GetU32(s, id.i)
        payload == GetBytes(s, payloadLen.i, payloadLen.v)
    IN IF /\ Len(s) >= 1 /\ s[1] = 1
          /\ payloadLen.v <= MaxPayloadBytes
          /\ payload.i = Len(s) + 1
       THEN [from |-> from.v, topic |-> topic.v, id |-> id.v, payload |-> payload.v]
       ELSE NoMsg

(* Messages with names around the limit of a u16 and payloads around       *)
(* kMaxPayloadBytes.                                                       *)
Text(n) == [k \in 1 .. n |-> k % Radix]
Msgs ==
    {[from |-> Text(f), topic |-> Text(t), id |-> id, payload |-> Text(p)] :
        f \in 0 .. U16Max + 1, t \in 0 .. U16Max + 1, id \in Ids, p \in 0 .. MaxPayloadBytes + 1}

MsgInit == frame = <<>> /\ msg = NoMsg
MsgNext ==
    /\ msg = NoMsg
    /\ \/ Len(frame) < MaxFrame /\ (\E b \in Byte : frame' = Append(frame, b)) /\ UNCHANGED msg
       \/ frame = <<>> /\ msg' \in Msgs /\ UNCHANGED frame

-----------------------------------------------------------------------------
(* Bus::Publish and Bus::Recv trust the codec with message boundaries and  *)
(* ids: what Encode accepts Decode gives back, and a frame that Decode     *)
(* accepts is the one Encode makes of that message, with no byte over.     *)
DecodeInvertsEncode ==
    /\ Decode(frame) # NoMsg => Encode(Decode(frame)) = frame
    /\ msg # NoMsg /\ Encode(msg) # <<>> => Decode(Encode(msg)) = msg
=============================================================================

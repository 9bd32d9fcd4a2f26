------------------------------- MODULE Comms -------------------------------
(***************************************************************************)
(* w2g::s2::Comms (src/s2/comms.cc) between a host and its sandboxee: TLV  *)
(* frames over the two byte pipes of os::MakeDuplex, through os::Write and *)
(* os::Read with their short transfers, ends of file and closed peers.     *)
(* One thread at each end (the class has no lock).                         *)
(*                                                                         *)
(* Bytes are digits below ByteBase, in the wire's order: a frame is 4      *)
(* digits of tag, 4 of length and the payload.  Send calls that refuse     *)
(* their argument (too long, null) or find w_ invalid change nothing and   *)
(* are not steps.                                                          *)
(*                                                                         *)
(* Writing to a pipe nobody reads fails.  On POSIX that takes a program    *)
(* that ignores SIGPIPE, which this library does not do for it.            *)
(***************************************************************************)
EXTENDS Integers, Sequences, FiniteSetsExt

CONSTANTS
    ByteBase,    \* how many values a byte has (256)
    Capacity,    \* bytes a pipe holds
    MaxMsg,      \* [Ends -> Nat]: max_msg_bytes() of each end
    Sendable,    \* [Ends -> set of messages]: see Payload
    Receivable,  \* [Ends -> SUBSET Kinds]: the Recv calls each end makes
    MaxSends,    \* bound: [Ends -> Nat], Send calls of each end
    MaxRecvs     \* bound: [Ends -> Nat], Recv calls of each end

Ends == {"host", "child"}
Other(e) == IF e = "host" THEN "child" ELSE "host"
Kinds == {"bool", "u32", "u64", "string", "bytes"}
Word == ByteBase * ByteBase * ByteBase * ByteBase

ASSUME ByteBaseAssumption == ByteBase \in Nat \ {0, 1}
ASSUME CapacityAssumption == Capacity \in Nat \ {0}
ASSUME BoundsAssumption ==
    /\ MaxMsg \in [Ends -> 0 .. Word - 1]
    /\ MaxSends \in [Ends -> Nat] /\ MaxRecvs \in [Ends -> Nat]
    /\ Receivable \in [Ends -> SUBSET Kinds]

-----------------------------------------------------------------------------
(* The wire format.                                                        *)

PutU32(v) == <<v % ByteBase,
               (v \div ByteBase) % ByteBase,
               (v \div (ByteBase * ByteBase)) % ByteBase,
               (v \div (ByteBase * ByteBase * ByteBase)) % ByteBase>>
GetU32(p) == p[1] + ByteBase * (p[2] + ByteBase * (p[3] + ByteBase * p[4]))

Tag(kind) == CASE kind = "bool" -> 1 [] kind = "u32" -> 2 [] kind = "u64" -> 3
               [] kind = "string" -> 4 [] kind = "bytes" -> 5

(* SendU64, low word first.                                                *)
PutU64(v) == PutU32(v % Word) \o PutU32(v \div Word)

(* A message is [kind, value], or a raw SendTLV of [kind = "raw", tag,     *)
(* value]; the value of a string, of bytes and of raw is its bytes.        *)
Payload(m) ==
    CASE m.kind = "bool" -> <<IF m.value THEN 1 ELSE 0>>
      [] m.kind = "u32" -> PutU32(m.value)
      [] m.kind = "u64" -> PutU64(m.value)
      [] OTHER -> m.value
TagOf(m) == IF m.kind = "raw" THEN m.tag ELSE Tag(m.kind)
Frame(m) == PutU32(TagOf(m)) \o PutU32(Len(Payload(m))) \o Payload(m)

(* Arguments have the widths the Send functions declare.                   *)
ASSUME SendableAssumption ==
    \A e \in Ends : \A m \in Sendable[e] :
        /\ m.kind \in Kinds \cup {"raw"}
        /\ m.kind = "bool" => m.value \in BOOLEAN
        /\ m.kind = "u32" => m.value \in 0 .. Word - 1
        /\ m.kind = "u64" => m.value \in 0 .. Word * Word - 1
        /\ m.kind \in {"string", "bytes", "raw"} => m.value \in Seq(0 .. ByteBase - 1)
        /\ m.kind = "raw" => m.tag \in 0 .. Word - 1

(* What RecvBool .. RecvBytes make of a frame.                             *)
Accepts(kind, tag, b) ==
    /\ tag = Tag(kind)
    /\ kind = "bool" => Len(b) = 1
    /\ kind = "u32" => Len(b) = 4
    /\ kind = "u64" => Len(b) = 8
Value(kind, b) ==
    CASE kind = "bool" -> b[1] # 0
      [] kind = "u32" -> GetU32(b)
      [] kind = "u64" -> GetU32(b) + Word * GetU32(SubSeq(b, 5, 8))
      [] OTHER -> b

-----------------------------------------------------------------------------
VARIABLES
    pipe,    \* [Ends -> bytes]: written by that end, not yet read
    r_, w_,  \* [Ends -> BOOLEAN]: the end's handles are valid
    copies,  \* \subseteq {"r", "w"}: child_r_, child_w_ the Executor holds
    child,   \* the sandboxee: "none", "up", "gone"
    run,     \* RunAsync: "before", "spawned", "returned"
    op,      \* [Ends -> the call it is in]
    sent,    \* history: messages each end started to send
    got      \* history: outcomes of each end's Recv calls

vars == <<pipe, r_, w_, copies, child, run, op, sent, got>>

Idle == [call |-> "none"]
Sending(left) == [call |-> "send", left |-> left]
(* A ReadAll of need bytes, have of them here: the header's, tag unknown   *)
(* (-1), or the payload's.                                                 *)
Receiving(kind, tag, need, have) ==
    [call |-> "recv", kind |-> kind, tag |-> tag, need |-> need, have |-> have]
Failed(kind) == [ok |-> FALSE, kind |-> kind]

(* os::MakeDuplex: all pipe ends or none.                                  *)
MakeDuplex == {{}, {"r", "w"}}

(* MakeCommsPair: two ends in the host's Comms, two kept by the Executor.  *)
Init ==
    /\ pipe = [e \in Ends |-> <<>>]
    /\ copies \in MakeDuplex
    /\ r_ = [e \in Ends |-> e = "host" /\ copies # {}]
    /\ w_ = [e \in Ends |-> e = "host" /\ copies # {}]
    /\ child = "none" /\ run = "before"
    /\ op = [e \in Ends |-> Idle]
    /\ sent = [e \in Ends |-> <<>>] /\ got = [e \in Ends |-> <<>>]

(* Somebody can still read what e writes, or write what e reads.           *)
Readable(e) == r_[Other(e)] \/ (e = "host" /\ "r" \in copies)
Writable(e) == w_[Other(e)] \/ (e = "host" /\ "w" \in copies)

-----------------------------------------------------------------------------
(* The sandboxee's life, and what RunAsync does with the pipe ends.        *)

(* os::Spawn: the child inherits both ends and its Client wraps them.      *)
Spawn ==
    /\ run = "before"
    /\ run' = "spawned" /\ child' = "up"
    /\ r_' = [r_ EXCEPT !["child"] = "r" \in copies]
    /\ w_' = [w_ EXCEPT !["child"] = "w" \in copies]
    /\ UNCHANGED <<pipe, copies, op, sent, got>>

(* RunAsync drops its copies.  Mutant: only the read end.                  *)
DropReadOnly == copies \ {"r"}
Drop == {}
RunAsyncReturns ==
    /\ run = "spawned"
    /\ run' = "returned" /\ copies' = Drop
    /\ UNCHANGED <<pipe, r_, w_, child, op, sent, got>>

(* Exit, crash or kill, in whatever call it is.                            *)
ChildEnds ==
    /\ child = "up"
    /\ child' = "gone"
    /\ r_' = [r_ EXCEPT !["child"] = FALSE]
    /\ w_' = [w_ EXCEPT !["child"] = FALSE]
    /\ op' = [op EXCEPT !["child"] = Idle]
    /\ UNCHANGED <<pipe, copies, run, sent, got>>

(* The ends may make a call: the host once RunAsync has returned.          *)
Ready(e) ==
    /\ op[e].call = "none"
    /\ IF e = "host" THEN run = "returned" ELSE child = "up"

Close(e) == /\ r_' = [r_ EXCEPT ![e] = FALSE]
            /\ w_' = [w_ EXCEPT ![e] = FALSE]

Terminate(e) ==
    /\ Ready(e) /\ (r_[e] \/ w_[e])
    /\ Close(e)
    /\ UNCHANGED <<pipe, copies, child, run, op, sent, got>>

-----------------------------------------------------------------------------
(* SendTLV, and the typed Sends that end in it.                            *)

(* The header and the payload, one WriteAll after the other: if the first  *)
(* fails so would the second.                                              *)
SendTLV(e, m) ==
    /\ Ready(e) /\ w_[e]
    /\ Len(sent[e]) < MaxSends[e]
    /\ Len(Payload(m)) <= MaxMsg[e]
    /\ op' = [op EXCEPT ![e] = Sending(Frame(m))]
    /\ sent' = [sent EXCEPT ![e] = Append(@, m)]
    /\ UNCHANGED <<pipe, r_, w_, copies, child, run, got>>

(* os::Write's loop: the rest after k bytes went out.                      *)
AfterWrite(left, k) ==
    IF k = Len(left) THEN Idle ELSE Sending(SubSeq(left, k + 1, Len(left)))

WriteSome(e) ==
    /\ op[e].call = "send" /\ Readable(e)
    /\ \E k \in 1 .. Min({Len(op[e].left), Capacity - Len(pipe[e])}) :
          /\ pipe' = [pipe EXCEPT ![e] = @ \o SubSeq(op[e].left, 1, k)]
          /\ op' = [op EXCEPT ![e] = AfterWrite(op[e].left, k)]
    /\ UNCHANGED <<r_, w_, copies, child, run, sent, got>>

WriteBroken(e) ==
    /\ op[e].call = "send" /\ ~Readable(e)
    /\ op' = [op EXCEPT ![e] = Idle]
    /\ UNCHANGED <<pipe, r_, w_, copies, child, run, sent, got>>

-----------------------------------------------------------------------------
(* RecvTLV, under the typed Recv of a kind.                                *)

Return(e, outcome) ==
    /\ op' = [op EXCEPT ![e] = Idle]
    /\ got' = [got EXCEPT ![e] = Append(@, outcome)]

(* A whole frame is here.                                                  *)
Outcome(kind, tag, b) ==
    IF Accepts(kind, tag, b)
    THEN [ok |-> TRUE, kind |-> kind, value |-> Value(kind, b)]
    ELSE Failed(kind)

RecvStart(e, kind) ==
    /\ Ready(e) /\ Len(got[e]) < MaxRecvs[e]
    /\ IF r_[e]
       THEN op' = [op EXCEPT ![e] = Receiving(kind, -1, 8, <<>>)] /\ UNCHANGED got
       ELSE Return(e, Failed(kind))
    /\ UNCHANGED <<pipe, r_, w_, copies, child, run, sent>>

(* The header is here: tag t and length n.  Too long: Terminate; no memory *)
(* for it: the same.  Mutants: an oversize frame is refused and the channel *)
(* kept; a frame of another kind is refused at its header.                 *)
HeaderKept(e, kind, t, n) ==
    IF n > MaxMsg[e]
    THEN Return(e, Failed(kind)) /\ UNCHANGED <<r_, w_>>
    ELSE op' = [op EXCEPT ![e] = Receiving(kind, t, n, <<>>)]
         /\ UNCHANGED <<r_, w_, got>>
HeaderTagFirst(e, kind, t, n) ==
    IF t # Tag(kind) THEN Return(e, Failed(kind)) /\ UNCHANGED <<r_, w_>>
    ELSE op' = [op EXCEPT ![e] = Receiving(kind, t, n, <<>>)]
         /\ UNCHANGED <<r_, w_, got>>
Header(e, kind, t, n) ==
    \/ n > MaxMsg[e] /\ Close(e) /\ Return(e, Failed(kind))
    \/ n \in 1 .. MaxMsg[e] /\ Close(e) /\ Return(e, Failed(kind))
    \/ /\ n \in 1 .. MaxMsg[e]
       /\ op' = [op EXCEPT ![e] = Receiving(kind, t, n, <<>>)]
       /\ UNCHANGED <<r_, w_, got>>
    \/ /\ n = 0
       /\ Return(e, Outcome(kind, t, <<>>))
       /\ UNCHANGED <<r_, w_>>

(* os::Read's loop: have, of the need bytes asked for.                     *)
ReadSome(e) ==
    /\ op[e].call = "recv"
    /\ \E k \in 1 .. Min({op[e].need - Len(op[e].have), Len(pipe[Other(e)])}) :
          LET o == op[e]
              in == pipe[Other(e)]
              have == o.have \o SubSeq(in, 1, k)
          IN  /\ pipe' = [pipe EXCEPT ![Other(e)] = SubSeq(in, k + 1, Len(in))]
              /\ CASE Len(have) < o.need ->
                         /\ op' = [op EXCEPT ![e].have = have]
                         /\ UNCHANGED <<r_, w_, got>>
                   [] Len(have) = o.need /\ o.tag = -1 ->
                         Header(e, o.kind, GetU32(have), GetU32(SubSeq(have, 5, 8)))
                   [] OTHER ->
                         /\ Return(e, Outcome(o.kind, o.tag, have))
                         /\ UNCHANGED <<r_, w_>>
    /\ UNCHANGED <<copies, child, run, sent>>

(* read() = 0, ERROR_BROKEN_PIPE: false, and the handles stay as they are. *)
ReadEof(e) ==
    /\ op[e].call = "recv"
    /\ pipe[Other(e)] = <<>> /\ ~Writable(e)
    /\ Return(e, Failed(op[e].kind))
    /\ UNCHANGED <<pipe, r_, w_, copies, child, run, sent>>

-----------------------------------------------------------------------------
Io(e) == WriteSome(e) \/ WriteBroken(e) \/ ReadSome(e) \/ ReadEof(e)

Next ==
    \/ Spawn \/ RunAsyncReturns \/ ChildEnds
    \/ \E e \in Ends :
          \/ Terminate(e)
          \/ \E m \in Sendable[e] : SendTLV(e, m)
          \/ \E kind \in Receivable[e] : RecvStart(e, kind)
          \/ Io(e)

Spec == Init /\ [][Next]_vars

(* A blocking read or write that can go on does; RunAsync returns.  Nobody *)
(* has to call anything.                                                   *)
FairSpec == Spec /\ WF_vars(RunAsyncReturns) /\ \A e \in Ends : WF_vars(Io(e))

-----------------------------------------------------------------------------
(* Properties.                                                             *)

(* A Recv that returns true returns what the matching Send was given: the  *)
(* i-th Recv of an end answers to the i-th frame of the other, whatever    *)
(* frames of other kinds, short reads and writes came before - and no      *)
(* frame longer than the receiver allows was among them.                   *)
RecvMatchesSend ==
    \A e \in Ends : \A i \in DOMAIN got[e] :
        LET g == got[e][i]
            from == sent[Other(e)]
        IN g.ok => /\ i <= Len(from)
                   /\ TagOf(from[i]) = Tag(g.kind)
                   /\ from[i].kind = g.kind => from[i].value = g.value
                   /\ \A j \in 1 .. i : Len(Payload(from[j])) <= MaxMsg[e]

(* A Recv returns false only of a frame it does not accept, of a peer that *)
(* can write no more, or on a channel that is shut on this side.           *)
RecvFailsForCause ==
    \A e \in Ends : \A i \in DOMAIN got[e] :
        LET g == got[e][i]
            from == sent[Other(e)]
        IN g.ok \/ ~r_[e] \/ ~Writable(e)
           \/ (i <= Len(from) /\ ~Accepts(g.kind, TagOf(from[i]), Payload(from[i])))

(* docs/sandbox.md, "Oversize length from the sandboxee closes the         *)
(* channel" - and whoever is left at the other end of a closed channel,    *)
(* blocked in a Send or a Recv, comes back from it: nobody hangs on a dead *)
(* or terminated peer.                                                     *)
DeadPeerReleases ==
    \A e \in Ends :
        (run = "returned" /\ ~r_[Other(e)] /\ ~w_[Other(e)] /\ op[e].call # "none")
            ~> (op[e].call = "none")
=============================================================================

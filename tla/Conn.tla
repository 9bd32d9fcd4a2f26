-------------------------------- MODULE Conn --------------------------------
(***************************************************************************)
(* The pair of Conns that Pipe() makes (include/w2g/pipe.h): two           *)
(* unbuffered channels, one each way, and at each end a leftover of the    *)
(* last chunk that a Read took only part of.  Coroutines share one thread  *)
(* and lose it only at the channel operations, so Read and ReadMsg are two *)
(* steps - up to recv_ok() and after it - and so is Write.                 *)
(*                                                                         *)
(* Bytes are numbered in the order a direction's Writes began.  One        *)
(* coroutine writes at each end; several may read.  A Conn that is not     *)
(* valid, and a call on a closed one, return an error and are no steps.    *)
(* wasigo's channels are external.                                         *)
(***************************************************************************)
EXTENDS Naturals, SequencesExt

CONSTANTS
    Readers,     \* coroutines that read, at each end
    Sizes,       \* lengths of the slices passed to Write and Read
    MaxWrites,   \* bound: Write calls, both ends together
    KeepApart    \* a Read overlaps no other read of its end

ASSUME SizesAssumption == Sizes \subseteq Nat

Ends == {"a", "b"}
Peer(e) == IF e = "a" THEN "b" ELSE "a"

VARIABLES
    isClosed,   \* Conn::closed
    shut,       \* wasigo::close was called on the channel this end sends on
    leftover,   \* Conn::leftover
    chunk,      \* the copy the writer is parked with
    writer,     \* [Ends -> {"idle", "parked"}]
    reader,     \* [Ends \X Readers -> what the coroutine is parked in]
    handed,     \* [Ends -> bytes of this end's Writes that were taken]
    taken,      \* [Ends -> the bytes of this end's Writes that reads returned]
    atEof,      \* [Ends -> a read at the other end returned errEOF]
    writes      \* Write calls so far

connVars == <<isClosed, shut, leftover, chunk, writer, reader, handed, taken, atEof, writes>>

Resting == [op |-> "none", cap |-> 0]

ConnInit ==
    /\ isClosed = [e \in Ends |-> FALSE] /\ shut = [e \in Ends |-> FALSE]
    /\ leftover = [e \in Ends |-> <<>>] /\ chunk = [e \in Ends |-> <<>>]
    /\ writer = [e \in Ends |-> "idle"]
    /\ reader = [er \in Ends \X Readers |-> Resting]
    /\ handed = [e \in Ends |-> 0] /\ taken = [e \in Ends |-> <<>>]
    /\ atEof = [e \in Ends |-> FALSE]
    /\ writes = 0

(* Write up to send().                                                     *)
Write(e, n) ==
    /\ writer[e] = "idle" /\ ~isClosed[e]
    /\ writes < MaxWrites
    /\ chunk' = [chunk EXCEPT ![e] = [i \in 1 .. n |-> handed[e] + i]]
    /\ writer' = [writer EXCEPT ![e] = "parked"]
    /\ writes' = writes + 1
    /\ UNCHANGED <<isClosed, shut, leftover, reader, handed, taken, atEof>>

(* What a read returns of the bytes at hand, and what it leaves.           *)
Copied(op, cap, bytes) ==
    SubSeq(bytes, 1, IF op = "ReadMsg" THEN Len(bytes) ELSE Min({cap, Len(bytes)}))
(* Mutant: a Read forgets what did not fit.                                *)
KeptNothing(op, cap, bytes) == <<>>
Kept(op, cap, bytes) == SubSeq(bytes, Len(Copied(op, cap, bytes)) + 1, Len(bytes))

(* The end of Read and ReadMsg, with leftover set to bytes.                *)
TakeFrom(e, op, cap, bytes) ==
    /\ taken' = [taken EXCEPT ![Peer(e)] = @ \o Copied(op, cap, bytes)]
    /\ leftover' = [leftover EXCEPT ![e] = Kept(op, cap, bytes)]

MayRead(e, r, op) ==
    KeepApart => \A s \in Readers \ {r} :
        reader[<<e, s>>] # Resting => op = "ReadMsg" /\ reader[<<e, s>>].op = "ReadMsg"

(* Read and ReadMsg: at once from the leftover, or up to recv_ok().        *)
ReadLeftover(e, r, op, cap) ==
    /\ reader[<<e, r>>] = Resting /\ ~isClosed[e] /\ MayRead(e, r, op)
    /\ leftover[e] # <<>>
    /\ TakeFrom(e, op, cap, leftover[e])
    /\ UNCHANGED <<isClosed, shut, chunk, writer, reader, handed, atEof, writes>>

ReadParks(e, r, op, cap) ==
    /\ reader[<<e, r>>] = Resting /\ ~isClosed[e] /\ MayRead(e, r, op)
    /\ leftover[e] = <<>>
    /\ reader' = [reader EXCEPT ![<<e, r>>] = [op |-> op, cap |-> cap]]
    /\ UNCHANGED <<isClosed, shut, leftover, chunk, writer, handed, taken, atEof, writes>>

(* The channel passes the chunk on: the Write is over, the read goes on.   *)
HandOver(e, r) ==
    /\ reader[<<e, r>>] # Resting /\ writer[Peer(e)] = "parked"
    /\ TakeFrom(e, reader[<<e, r>>].op, reader[<<e, r>>].cap, chunk[Peer(e)])
    /\ handed' = [handed EXCEPT ![Peer(e)] = @ + Len(chunk[Peer(e)])]
    /\ writer' = [writer EXCEPT ![Peer(e)] = "idle"]
    /\ chunk' = [chunk EXCEPT ![Peer(e)] = <<>>]
    /\ reader' = [reader EXCEPT ![<<e, r>>] = Resting]
    /\ UNCHANGED <<isClosed, shut, atEof, writes>>

(* recv_ok() on a closed channel: errEOF.                                  *)
ReadEof(e, r) ==
    /\ reader[<<e, r>>] # Resting /\ shut[Peer(e)] /\ writer[Peer(e)] = "idle"
    /\ atEof' = [atEof EXCEPT ![Peer(e)] = TRUE]
    /\ reader' = [reader EXCEPT ![<<e, r>>] = Resting]
    /\ UNCHANGED <<isClosed, shut, leftover, chunk, writer, handed, taken, writes>>

(* What becomes of a sender parked on a channel that is closed under it is *)
(* wasigo's: the chunk may also be dropped.                                *)
SenderDropped(e) ==
    /\ shut[e] /\ writer[e] = "parked"
    /\ writer' = [writer EXCEPT ![e] = "idle"]
    /\ chunk' = [chunk EXCEPT ![e] = <<>>]
    /\ UNCHANGED <<isClosed, shut, leftover, reader, handed, taken, atEof, writes>>

(* Close, from any coroutine of the end.  Mutant: the channel stays open.  *)
CloseChannelNot(e) == shut
CloseChannel(e) == [shut EXCEPT ![e] = TRUE]
Close(e) ==
    /\ ~isClosed[e]
    /\ isClosed' = [isClosed EXCEPT ![e] = TRUE]
    /\ shut' = CloseChannel(e)
    /\ UNCHANGED <<leftover, chunk, writer, reader, handed, taken, atEof, writes>>

ReadGoesOn(e, r) == HandOver(e, r) \/ ReadEof(e, r)

ConnNext ==
    \E e \in Ends :
        \/ \E n \in Sizes : Write(e, n)
        \/ \E r \in Readers : \E op \in {"Read", "ReadMsg"} :
              \E cap \in (IF op = "Read" THEN Sizes ELSE {0}) :
                  ReadLeftover(e, r, op, cap) \/ ReadParks(e, r, op, cap)
        \/ \E r \in Readers : ReadGoesOn(e, r)
        \/ SenderDropped(e)
        \/ Close(e)

(* The scheduler resumes a read whose channel operation can complete.      *)
ConnFairness == \A e \in Ends, r \in Readers : WF_connVars(ReadGoesOn(e, r))

ConnSpec == ConnInit /\ [][ConnNext]_connVars /\ ConnFairness

-----------------------------------------------------------------------------
(* Properties.                                                             *)

FromA == INSTANCE ByteStream WITH
    sent <- handed["a"], got <- taken["a"], told <- atEof["a"],
    closed <- shut["a"] /\ writer["a"] = "idle"
FromB == INSTANCE ByteStream WITH
    sent <- handed["b"], got <- taken["b"], told <- atEof["b"],
    closed <- shut["b"] /\ writer["b"] = "idle"

(* Each direction of a Pipe is a byte stream: whatever the sizes of Writes *)
(* and reads, whoever closes when, no byte is lost, doubled or out of      *)
(* order, and errEOF comes after the last one.  Needs KeepApart: two Reads *)
(* parked on one end overwrite each other's leftover.                      *)
ConnIsStreams == FromA!Spec /\ FromB!Spec

(* pipe.h: "Closing either end delivers EOF to the peer's next Read once   *)
(* leftover is drained": a read that waits for an end that is closed comes *)
(* back.                                                                   *)
CloseDeliversEof ==
    \A e \in Ends, r \in Readers :
        (reader[<<e, r>>] # Resting /\ isClosed[Peer(e)]) ~> (reader[<<e, r>>] = Resting)
=============================================================================

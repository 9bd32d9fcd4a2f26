----------------------------- MODULE TlsSession -----------------------------
(***************************************************************************)
(* One TLS session (src/sapi/tls_win.cc) from the end of its handshake: a  *)
(* TlsIoRead that turns the bytes of the socket into records and records   *)
(* into plaintext, with raw_extra and plaintext kept in the TlsEntry from  *)
(* one call to the next, and a TlsIoWrite that goes on at the same time.   *)
(* One call of each kind runs at a time (the code locks neither buffer).   *)
(*                                                                         *)
(* A record is a header and one cell for each byte of plaintext; the bytes *)
(* of a direction are the numbers 1, 2, ... in the order they are sent.    *)
(* The peer, the sockets and Schannel are external: recv may return any    *)
(* part of what has arrived, send may take any part of what it is given,   *)
(* DecryptMessage wants a whole record at the front of its buffer.         *)
(***************************************************************************)
EXTENDS Naturals, SequencesExt

CONSTANTS
    Header,             \* cells of a record that carry no plaintext (sizes.cbHeader)
    MaxMessage,         \* sizes.cbMaximumMessage
    DefaultMax,         \* 60000
    MaxPlaintextRead,   \* kMaxPlaintextRead
    Lengths,            \* maxlen of a TlsIoRead, length of a TlsIoWrite
    MaxTraffic          \* bound: records of the peer and bytes passed to TlsIoWrite

ASSUME TlsAssumption ==
    /\ {Header, MaxMessage, DefaultMax} \subseteq Nat \ {0}
    /\ {MaxPlaintextRead, MaxTraffic} \subseteq Nat
    /\ Lengths \subseteq Nat

VARIABLES
    peerSent,     \* plaintext in the whole records of the peer
    records,      \* records the peer sent
    over,         \* the peer sent close_notify or its side of the connection ended
    link,         \* "open", "fin" or "reset": what recv finds behind the bytes
    wire,         \* cells that arrived and were not received
    dialed,       \* TlsDial has returned
    raw_extra,
    plaintext,
    reading,      \* where TlsIoRead is: "idle", "loop" or "recv"
    maxlen,
    got,          \* the bytes TlsIoRead returned
    told,         \* TlsIoRead returned "" and the connection was not reset
    sealed,       \* records EncryptMessage made, in order
    written,      \* bytes passed to TlsIoWrite
    data,         \* what TlsIoWrite still has to encrypt
    unsent,       \* what SendAll still has to send
    outWire,      \* cells send took
    lost          \* a TlsIoWrite returned an error

peerVars == <<peerSent, records, over, link>>
readVars == <<raw_extra, plaintext, reading, maxlen, got, told>>
writeVars == <<sealed, written, data, unsent, outWire, lost>>
tlsVars == <<peerVars, wire, dialed, readVars, writeVars>>

Bytes(n, k) == [i \in 1 .. k |-> n + i]
Cells(rec) == [k \in 1 .. Header + Len(rec.bytes) |-> <<rec, k>>]

TlsInit ==
    /\ peerSent = 0 /\ records = 0 /\ over = FALSE /\ link = "open"
    /\ wire = <<>> /\ dialed = FALSE
    /\ raw_extra = <<>> /\ plaintext = <<>> /\ reading = "idle" /\ maxlen = 0
    /\ got = <<>> /\ told = FALSE
    /\ sealed = <<>> /\ written = 0 /\ data = <<>> /\ unsent = <<>>
    /\ outWire = <<>> /\ lost = FALSE

-----------------------------------------------------------------------------
(* The peer.                                                               *)

Record(kind, n) == [kind |-> kind, bytes |-> Bytes(peerSent, n)]

PeerSend(kind, n) ==
    /\ ~over /\ records + written < MaxTraffic
    /\ wire' = wire \o Cells(Record(kind, n))
    /\ records' = records + 1
    /\ peerSent' = peerSent + n
    /\ over' = (kind = "close")
    /\ UNCHANGED <<link, dialed, readVars, writeVars>>

(* The connection ends, after a part of a record that never gets whole.    *)
PeerFin(k) ==
    /\ link = "open"
    /\ wire' = wire \o SubSeq(Cells(Record("data", 1)), 1, IF over THEN 0 ELSE k)
    /\ link' = "fin" /\ over' = TRUE
    /\ UNCHANGED <<peerSent, records, dialed, readVars, writeVars>>

PeerReset ==
    /\ link # "reset"
    /\ link' = "reset" /\ over' = TRUE
    /\ UNCHANGED <<peerSent, records, wire, dialed, readVars, writeVars>>

-----------------------------------------------------------------------------
(* TlsDial: what the handshake received past its own end is kept.          *)
TlsDial(k) ==
    /\ ~dialed
    /\ dialed' = TRUE
    /\ raw_extra' = SubSeq(wire, 1, k)
    /\ wire' = SubSeq(wire, k + 1, Len(wire))
    /\ UNCHANGED <<peerVars, plaintext, reading, maxlen, got, told, writeVars>>

-----------------------------------------------------------------------------
(* TlsIoRead.                                                              *)

TlsIoRead(m) ==
    /\ dialed /\ reading = "idle"
    /\ maxlen' = IF m = 0 \/ m > MaxPlaintextRead THEN DefaultMax ELSE m
    /\ reading' = "loop"
    /\ UNCHANGED <<peerVars, wire, dialed, raw_extra, plaintext, got, told, writeVars>>

(* The front of raw_extra is a record, all of it there.                    *)
FirstRecord == raw_extra[1][1]
HasRecord == raw_extra # <<>> /\ Len(raw_extra) >= Len(Cells(FirstRecord))
Intact == IsPrefix(Cells(FirstRecord), raw_extra)

(* Too little for DecryptMessage to work on: the code finds out from       *)
(* cbHeader before the call or from SEC_E_INCOMPLETE_MESSAGE after it.     *)
(* Mutant: every turn of the loop receives.                                *)
AlwaysMore == reading = "loop"
NeedsMore == Len(raw_extra) < Header \/ ~HasRecord

WaitMore ==
    /\ reading = "loop" /\ plaintext = <<>> /\ NeedsMore
    /\ reading' = "recv"
    /\ UNCHANGED <<peerVars, wire, dialed, raw_extra, plaintext, maxlen, got, told, writeVars>>

(* RecvMore.                                                               *)
RecvMore(k) ==
    /\ reading = "recv"
    /\ raw_extra' = raw_extra \o SubSeq(wire, 1, k)
    /\ wire' = SubSeq(wire, k + 1, Len(wire))
    /\ reading' = "loop"
    /\ UNCHANGED <<peerVars, dialed, plaintext, maxlen, got, told, writeVars>>

(* A failed recv and an orderly end look the same to the caller: "".       *)
RecvFails ==
    /\ reading = "recv"
    /\ link = "reset" \/ (link = "fin" /\ wire = <<>>)
    /\ told' = (told \/ link = "fin")
    /\ reading' = "idle"
    /\ UNCHANGED <<peerVars, wire, dialed, raw_extra, plaintext, maxlen, got, writeVars>>

(* What follows the record.  Mutant: it is dropped.                        *)
NoExtra == <<>>
Extra == SubSeq(raw_extra, Len(Cells(FirstRecord)) + 1, Len(raw_extra))

Decrypts == reading = "loop" /\ plaintext = <<>> /\ ~NeedsMore

(* SEC_E_OK.                                                               *)
DecryptData ==
    /\ Decrypts /\ Intact /\ FirstRecord.kind = "data"
    /\ plaintext' = FirstRecord.bytes
    /\ raw_extra' = Extra
    /\ UNCHANGED <<peerVars, wire, dialed, reading, maxlen, got, told, writeVars>>

(* SEC_I_CONTEXT_EXPIRED: close_notify.                                    *)
DecryptClose ==
    /\ Decrypts /\ Intact /\ FirstRecord.kind = "close"
    /\ raw_extra' = <<>>
    /\ told' = TRUE
    /\ reading' = "idle"
    /\ UNCHANGED <<peerVars, wire, dialed, plaintext, maxlen, got, writeVars>>

(* SEC_I_RENEGOTIATE: an error, but the bytes behind it are kept.          *)
DecryptRenegotiate ==
    /\ Decrypts /\ Intact /\ FirstRecord.kind = "renegotiate"
    /\ raw_extra' = Extra
    /\ reading' = "idle"
    /\ UNCHANGED <<peerVars, wire, dialed, plaintext, maxlen, got, told, writeVars>>

(* Any other status: an error, and the record stays where it is.           *)
DecryptFails ==
    /\ Decrypts /\ (~Intact \/ FirstRecord.kind = "alert")
    /\ reading' = "idle"
    /\ UNCHANGED <<peerVars, wire, dialed, raw_extra, plaintext, maxlen, got, told, writeVars>>

ReadReturns ==
    /\ reading = "loop" /\ plaintext # <<>>
    /\ LET n == Min({maxlen, Len(plaintext)}) IN
          /\ got' = got \o SubSeq(plaintext, 1, n)
          /\ plaintext' = SubSeq(plaintext, n + 1, Len(plaintext))
    /\ reading' = "idle"
    /\ UNCHANGED <<peerVars, wire, dialed, raw_extra, maxlen, told, writeVars>>

-----------------------------------------------------------------------------
(* TlsIoWrite.  The call is over when data and unsent are empty.           *)

TlsIoWrite(n) ==
    /\ dialed /\ data = <<>> /\ unsent = <<>>
    /\ n > 0 /\ records + written + n <= MaxTraffic
    /\ data' = Bytes(written, n)
    /\ written' = written + n
    /\ UNCHANGED <<peerVars, wire, dialed, readVars, sealed, unsent, outWire, lost>>

(* One turn of its loop up to SendAll.                                     *)
EncryptMessage ==
    /\ data # <<>> /\ unsent = <<>>
    /\ LET n == Min({MaxMessage, Len(data)})
           rec == [kind |-> "data", bytes |-> SubSeq(data, 1, n)]
       IN /\ sealed' = Append(sealed, rec)
          /\ unsent' = Cells(rec)
          /\ data' = SubSeq(data, n + 1, Len(data))
    /\ UNCHANGED <<peerVars, wire, dialed, readVars, written, outWire, lost>>

(* What is left after send took k.  Mutant: a short send counts as whole.  *)
SentAll(k) == <<>>
Unsent(k) == SubSeq(unsent, k + 1, Len(unsent))

SendSome(k) ==
    /\ unsent # <<>>
    /\ outWire' = outWire \o SubSeq(unsent, 1, k)
    /\ unsent' = Unsent(k)
    /\ UNCHANGED <<peerVars, wire, dialed, readVars, sealed, written, data, lost>>

(* send or EncryptMessage failed, on an open connection too: the call      *)
(* returns an error.                                                       *)
WriteFails ==
    /\ data # <<>> \/ unsent # <<>>
    /\ data' = <<>> /\ unsent' = <<>> /\ lost' = TRUE
    /\ UNCHANGED <<peerVars, wire, dialed, readVars, sealed, written, outWire>>

-----------------------------------------------------------------------------
RecvReturns == RecvFails \/ \E k \in 1 .. Len(wire) : RecvMore(k)

ReadStep ==
    \/ WaitMore \/ RecvReturns
    \/ DecryptData \/ DecryptClose \/ DecryptRenegotiate \/ DecryptFails
    \/ ReadReturns

TlsNext ==
    \/ \E n \in Lengths : PeerSend("data", n)
    \/ \E kind \in {"close", "renegotiate", "alert"} : PeerSend(kind, 0)
    \/ \E k \in 0 .. Header : PeerFin(k)
    \/ PeerReset
    \/ \E k \in 0 .. Len(wire) : TlsDial(k)
    \/ \E m \in Lengths : TlsIoRead(m)
    \/ ReadStep
    \/ \E n \in Lengths : TlsIoWrite(n)
    \/ EncryptMessage
    \/ \E k \in 1 .. Len(unsent) : SendSome(k)
    \/ WriteFails

(* The worker thread that runs TlsIoRead is scheduled, and recv returns    *)
(* when there is something to return.  The peer and send owe nothing.      *)
TlsFairness == WF_tlsVars(ReadStep)

-----------------------------------------------------------------------------
(* Properties.                                                             *)

Inbound == INSTANCE ByteStream WITH sent <- peerSent, closed <- over

(* The plaintext of the peer's records comes out of TlsIoRead as a byte    *)
(* stream however recv cuts the records up, wherever the handshake left    *)
(* off and whatever the maxlen of each call; the end is reported only      *)
(* behind the last byte, unless the connection is reset.                   *)
TlsIsStream == Inbound!Spec

(* What the peer can decrypt: the records that are whole, in order.        *)
Arrived ==
    LET Whole(j) == FlattenSeq([i \in 1 .. j |-> Cells(sealed[i])])
        n == Max({j \in 0 .. Len(sealed) : IsPrefix(Whole(j), outWire)})
    IN FlattenSeq([i \in 1 .. n |-> sealed[i].bytes])

(* A TlsIoWrite that reported its bytes written has put records on the     *)
(* wire that the peer decrypts to those bytes, with short sends too.       *)
WrittenIsWhole == data = <<>> /\ unsent = <<>> /\ ~lost => Arrived = Bytes(0, written)

(* A TlsIoRead returns when there is plaintext it has not returned or the  *)
(* connection ended: it never waits for the socket on top of bytes that it *)
(* has received already.                                                   *)
TlsReadReturns ==
    (reading # "idle" /\ (Len(got) < peerSent \/ link # "open")) ~> (reading = "idle")
=============================================================================

-------------------------------- MODULE Shim --------------------------------
(***************************************************************************)
(* The host shim (include/w2g/shim.h, src/shim.cc): each call passes the   *)
(* compile-time gate and the engine before it reaches the host, and        *)
(* ReadFile takes a file in chunks that other processes may be writing.    *)
(* Of a file only its length matters.                                      *)
(***************************************************************************)
EXTENDS Abac

CONSTANTS
    MaxMsgBytes,   \* s2::kMaxMsgBytes
    ChunkBytes,    \* sizeof(buf)
    MaxFile        \* bound: the length of a file

ASSUME ShimAssumption == {MaxMsgBytes, ChunkBytes, MaxFile} \subseteq Nat

VARIABLES
    system,     \* W2G_ABAC_SYSTEM, fixed by the build
    length,     \* the file that a ReadFile is about, as it is now
    atOpen,     \* its length when fopen returned
    taken,      \* data.size()
    failed,     \* fread met an error: it returns what it has, as at the end
    outcome     \* of the last call; "reading" while one is in ReadFileHost

shimVars == <<system, length, atOpen, taken, failed, outcome>>

ShimInit ==
    /\ system \in BOOLEAN
    /\ length \in 0 .. MaxFile
    /\ atOpen = 0 /\ taken = 0 /\ failed = FALSE
    /\ outcome = "none"

(* The answers to a call: a refusal, or one of those the host may give.    *)
Gate(action, name, host) ==
    IF ~system THEN {"disabled"}
    ELSE IF ~Check("wasi", action, name) THEN {"denied"} ELSE host

Returns(answer) ==
    /\ outcome # "reading"
    /\ outcome' = answer
    /\ UNCHANGED <<system, length, atOpen, taken, failed>>

(* Open and Create.                                                        *)
Open(name) == \E answer \in Gate("os.Open", name, {"ok", "error"}) : Returns(answer)

(* Getenv: "" for a key with a NUL, which a "^" may be or not, and for one *)
(* that is refused.                                                        *)
Getenv(key) ==
    \/ system /\ Contains(key, "^") /\ Returns("denied")
    \/ \E answer \in Gate("os.Getenv", key, {"ok"}) : Returns(answer)

WriteFileHost(n) == IF n > MaxMsgBytes THEN {"write too large"} ELSE {"ok", "error"}
WriteFile(name, n) ==
    \E answer \in Gate("os.Open", name, WriteFileHost(n)) : Returns(answer)

(* ReadFile up to fopen.                                                   *)
ReadFile(name) ==
    /\ outcome # "reading"
    /\ outcome' \in Gate("os.Open", name, {"no such file", "reading"})
    /\ atOpen' = IF outcome' = "reading" THEN length ELSE atOpen
    /\ taken' = 0 /\ failed' = FALSE
    /\ UNCHANGED <<system, length>>

(* Mutant: a file of exactly the limit is refused.                         *)
TooLargeAt(n) == taken + n >= MaxMsgBytes
TooLarge(n) == taken + n > MaxMsgBytes

(* One fread of ReadFileHost and what follows it.  fread returns less than *)
(* it is asked for only at the end of the file or on an error.             *)
Fread(n) ==
    /\ outcome = "reading"
    /\ n <= Min({ChunkBytes, length - taken})
    /\ failed' = (n < Min({ChunkBytes, length - taken}))
    /\ \/ /\ n > 0 /\ TooLarge(n)
          /\ outcome' = "read too large"
          /\ UNCHANGED taken
       \/ /\ ~(n > 0 /\ TooLarge(n))
          /\ taken' = taken + n
          /\ outcome' = IF n < ChunkBytes THEN "read" ELSE "reading"
    /\ UNCHANGED <<system, length, atOpen>>

(* Another process appends to the file.                                    *)
Grow ==
    /\ outcome = "reading" /\ length < MaxFile
    /\ length' = length + 1
    /\ UNCHANGED <<system, atOpen, taken, failed, outcome>>

ShimNext ==
    \/ \E name \in Texts :
          \/ Open(name) \/ Getenv(name) \/ ReadFile(name)
          \/ \E n \in {MaxMsgBytes, MaxMsgBytes + 1} : WriteFile(name, n)
    \/ \E n \in 0 .. ChunkBytes : Fread(n)
    \/ Grow

-----------------------------------------------------------------------------
(* docs/abac.md: "ReadFile streams with a 16 MiB cap; larger files error". *)
(* A ReadFile that succeeds has all of the file it opened, whatever was    *)
(* appended meanwhile, and keeps to the limit; one that refuses the file   *)
(* as too large is right about it.  An error of fread is not noticed.      *)
ReadFileIsWhole ==
    /\ outcome = "read" => taken <= MaxMsgBytes /\ (failed \/ taken \in atOpen .. length)
    /\ outcome = "read too large" => length > MaxMsgBytes
=============================================================================

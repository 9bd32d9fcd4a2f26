# TLA+ models of shim_sandbox

This directory is a verification project for the repository beside it: TLA+
modules translated from the source, TLC configurations that check them on small
instances, and TLAPS proofs for every value of the constants. `PROJECT.json`
lists components, runs, mutants, the definition-to-source map, findings, hazards
and theorems.

Tools: `tlc -config X.cfg M` model-checks, `tlapm M.tla` checks proofs.

## 1. The system

shim_sandbox gives WASI-hosted Go++ programs a way to reach real OS services,
and hosts a way to run untrusted children.

| Component | Source | State | Operations | Talks to |
|---|---|---|---|---|
| GocVM async bridge | `src/gocvm_bridge.cc` | `jobs_`, `results_`, `next_id_`, `shutdown_`, 4 worker threads, 2 condition variables | `Submit`, `PollOne`, `WaitOne`, destructor, `WorkerLoop` | scheduler thread of wasigo; `W2gSapiHandle` |
| SAPI dispatch | `src/sapi/handle.cc`, `channel.cc` | none | `W2gSapiHandle` (topic -> backend -> code + text) | bridge, stub layers, backends |
| Handle table | `src/sapi/handles.{h,cc}` | `next_handle`, three maps, one mutex | `Alloc*`, `Lookup*`, `Release`, `CloseProcessStdin` | Windows backends, from any worker |
| Windows backends | `src/sapi/real_win.cc`, `tls_win.cc`, `net_internal.cc` | OS objects, TLS buffers in the table | 24 topics: sockets, processes, TLS, user, syscall | handle table, Win32 |
| POSIX backends | `src/sapi/real_posix.cc` | none | all UNIMPLEMENTED | - |
| Pipe / Conn | `include/w2g/pipe.h` | two unbuffered channels, `closed`, `leftover` | `Read`, `ReadMsg`, `Write`, `Close` | bus |
| Message codec | `include/w2g/msg.h` | none | `Encode`, `Decode` | bus |
| Bus | `src/bus.cc` | `layers_` (name, topics, pipe, closed), `next_id_` | `Attach`, `Subscribe`, `CloseLayer`, `Publish`, `Recv`, `Call` | layers, callers |
| Layers, Registry | `src/layer.cc` | owned layers | `AttachLayer`, `ServeLayer`, `Install`, `GoServe`, `Close` | bus |
| Stub layers | `src/stub.cc` | ABAC engine pointer | `Handle`, `ServeGxx`, `AttachStubs` | bus, SAPI |
| WasiNet | `src/wasi.cc` | layer name | `Attach`, `Dial` .. `TlsDial` | bus |
| s2 Sandbox | `src/s2/sandbox.cc`, `result.cc` | `process_`, `job_`, `pid_`, `result_`, `started_` | `Run`, `RunAsync`, `AwaitResult`, `Kill`, destructor | process backends |
| s2 process backends | `src/s2/os_win.cc`, `os_posix.cc`, `os_wasi.cc` | OS processes and jobs | `Spawn`, `Wait`, `Kill`, pipes, mappings | kernel |
| s2 Executor, Client, Policy, Limits | `src/s2/*.cc`, headers | plain fields | setters and getters | Sandbox |
| s2 Comms | `src/s2/comms.cc` | two pipe ends, `max_msg_` | TLV send and receive, `Terminate` | sandboxee |
| s2 Buffer | `src/s2/buffer.cc` | a shared mapping | `CopyTo`, `CopyFrom`, `Get`, `Set` | sandboxee |
| ABAC, Path, Shim | `src/abac.cc`, `path.cc`, `shim.cc` | rule list | `Check`, `CanonicalPath`, host calls | stubs, Sandbox |
| C ABI, system policy | `src/c/*`, `system_policy.h` | none | forwarding, compile-time switches | Shim |

What is hard here, and what correctness means:

* **Bridge.** Real threads, notifies after the unlock, a bounded pool running
  calls that may block for ever, shutdown against all of it. Correct: no call is
  lost, doubled or stranded; every call is answered while the pool has a free
  worker; the destructor drains the queue.
* **Bus.** Coroutines that block each other on unbuffered channels, layers that
  close at any moment, several readers of one layer. Correct: a reply answers the
  call it is returned from; a successful publication reached everyone it should;
  nobody blocks on each other; calls return.
* **Handle table.** Pointers used after the lock is released, by calls that
  overlap. Correct: no dangling entry, no closed object in use, everything closed
  exactly once, no handle ever reused.
* **Opening.** Calls that take up to a dozen system calls to open something, any
  of which may fail, while other workers launch processes that inherit whatever is
  inheritable. Correct: what was opened is handed over whole or closed; a child
  gets its own pipe ends and no other.
* **Sandbox.** A process that lives its own life, two backends with different
  ways of holding on to it, a result that is cached, API calls in any order.
  Correct: nothing outlives its Sandbox (Windows); a reported kill is real; no
  stranger is signalled.
* **Comms.** Two processes, two bounded pipes, transfers of any size, a peer that
  may end in the middle of a frame. Correct: a Recv returns what was sent or fails
  for a cause, and nobody hangs on a peer that is gone.
* **Conn and TLS session.** Byte streams made of chunks and records, cut up by
  whoever sends and cut again by whoever receives, with leftovers kept from one
  call to the next. Correct: no byte lost, doubled or out of order; the end comes
  after the last byte; a reader with something to get comes back.
* **Codec, ABAC, paths, Shim, Buffer.** Sequential algorithms over input from
  the sandboxee. Correct: they agree with a reference definition and refuse what
  is out of bounds, and only that.

## 2. Modules

| Module | Models | Kind |
|---|---|---|
| `AsyncCalls` | what `Submit`/`PollOne`/`WaitOne` promise | abstract specification |
| `Bridge` | `gocvm_bridge.cc` | component; implements `AsyncCalls` |
| `Bus` | `bus.cc`, `pipe.h` (as used by it), `layer.cc`, `stub.cc`, `wasi.cc` | component, composed: callers, publishers, servers |
| `Handles` | `handles.cc` and the handle-taking topics of `real_win.cc`, `tls_win.cc` | component |
| `Opening` | the topics that open OS objects: `net_internal.cc`, `real_win.cc`, `tls_win.cc` | component |
| `Sandbox` | `sandbox.cc` over `os_win.cc` / `os_posix.cc` | component |
| `Comms` | `comms.cc` with the pipes of `os_win.cc` / `os_posix.cc`, `executor.cc`, `client.cc` | component |
| `ByteStream` | one direction of a connection, from outside | abstract specification |
| `Conn` | `pipe.h`, both ends | component; implements `ByteStream` twice |
| `TlsSession` | the record buffers of `tls_win.cc` | component; its reading side implements `ByteStream` |
| `Path` | `path.cc` | operators, and a reference definition |
| `Abac` | `abac.cc`, on `Path` | component, and a reference definition |
| `Shim` | `shim.h`, `shim.cc`, on `Abac` | component |
| `Msg` | `msg.h` | operators |
| `Buffer` | `s2/buffer.cc` | component |
| `BridgeProofs`, `BusProofs`, `HandlesProofs`, `OpeningProofs`, `SandboxProofs`, `StreamProofs`, `CommsProofs`, `LibraryProofs` | theorems about these components; `StreamProofs` about `Conn` and `TlsSession`, `LibraryProofs` about `Path`, `Abac`, `Shim`, `Msg` and `Buffer` | proofs |
| `MCBridge`, `MCBus`, `MCHandles`, `MCOpening`, `MCSandbox`, `MCComms`, `MCStreams`, `MCLibrary` | instances for TLC | |

### Bridge

`jobs`, `results`, `nextId`, `shutdown` are the fields; `wpc`/`hold` is a worker's
place in `WorkerLoop` and its local `Job`; `cpc` is the scheduler thread's place
in the interface. What happens under `mu_` is one action. `notify_one` and
`notify_all` are actions of their own after it (`SubmitNotify`, `WorkerNotify`,
`DestroyNotify`), and `SpuriousWake` may wake any waiter. The real call is the
step `WorkerReturn`: of the topics only *when they can return* is kept. A `pump`
(reading a child's output) blocks until some `feed` (writing its input) returned,
which is how `os/exec` uses the pool and why its size matters. `MaxPumps` is the
program's own limit on pumps outstanding.

### Bus

One action runs one coroutine from one channel operation to the next: wasigo is
single-threaded and coroutines lose the thread only where they `co_await` a
channel. `pc` says on what a coroutine is parked; `Publish` is the pair
`StartPublish` (encode, snapshot the targets, first write) and `Sent` (next
write). `todo` is the set of targets still to be written to; `First` takes the one
that was attached first, which is the order of the loop over `layers_`. The runtime's channels are external and modelled as unbuffered Go
channels; what a sender parked on a channel sees when it is closed is left open
(`SendDropped` may or may not happen). Message contents are reduced to
`good` / `bad` (the backend answers INVALID_ARGUMENT) / `huge` (does not encode). A
`bad` request may be answered or not: `ServeGxx`, a denial and a disabled topic
answer before anyone looks at the payload, the backend path of `StubLayer` does not.

### Handles

A handle's OS objects are named by handle and field; `closes` counts how often
each was closed. `Alloc`, `Lookup`, `Release`, `CloseProcessStdin` are atomic
because they hold `mu()`; a call's use of the looked-up pointer (`Touch`), the
system call (`OsReturn`) and what follows are separate steps. `Discipline` is
what the program takes care of: `release` is the obligation `handles.h` states,
`stdin` keeps `ExecStdinWrite` and `ExecStdinClose` on one handle apart. Opening
calls start at the moment the OS has produced the resource; `Opening` is what
comes before.

### Opening

`pc[w]` is the next system call of the topic worker `w` runs; every one may fail,
and the failure step is the code's cleanup. `host` is what the process has open,
as pairs of call and object (`res` the address list, `sock`, `cred`, `ctx`, the
six pipe ends, `nul`, `process`, `thread`); `table` the calls whose objects the
handle table owns; `child[c]` what the process call `c` started was given.
`sealed` are the handles `SetHandleInformation` took the inherit flag from:
`CreateProcess` hands the child everything in `host` that is inheritable and not
sealed, from whichever call. Creating the process and closing the child's ends
after it is one step, which leaves less to inherit than the code does. `Exec`'s
read ends when nobody holds the write end (or at its 64 KiB cap). `MaxLaunching`
is how many launches the program overlaps. A child's own children, which could
hold its pipe ends longer, are left out. After the hand-over only `Release` and
`ExecStdinClose` matter here; the rest is `Handles`.

### Sandbox

`main` and `kids` are the sandboxee and its descendants; `process_`, `job_`,
`pid_`, `result`, `started_` the object's fields, `sp` the local that
`AwaitResult` moves the handles into. `setting` is chosen once, in `Init`: the
backend (the code of `os_win.cc` or `os_posix.cc`) and the program's habit. On Windows `Spawn` is two steps (created suspended; assigned
and resumed), closing the last job handle kills what is in it, and moving a new
handle into a member closes the old one. `PidReused` lets the OS give away the
pid of a process that was waited for. One thread calls the object (it has no
lock); `PoliteKill` says whether the program calls `Kill()` after the end.

### Comms

`pipe[e]` holds the bytes end `e` has written and the other has not read; `r_`,
`w_` are the handles of the two `Comms` objects and `copies` the child's ends that
the `Executor` holds until `RunAsync` has dropped them. A Send or a Recv is a
sequence of steps: each `write()` or `read()` moves any number of bytes the pipe
allows (`WriteSome`, `ReadSome`), or finds the other side closed (`WriteBroken`,
`ReadEof`). A frame is really encoded and decoded, digit by digit, so that a reader
out of step reads garbage as the code would; only the number of values of a byte
is smaller. `Sendable` includes raw `SendTLV` frames with a tag and a size that do
not belong together. Assumed of the programs: one thread per end, the host calls
after `RunAsync`, Recv calls pass somewhere to put the value, and on POSIX SIGPIPE
is ignored.

### ByteStream, Conn, TlsSession

`ByteStream` numbers the bytes of one direction 1, 2, ... and says what its two
ends may see: `got` is always a prefix of what was sent, the end is told once
`closed` and with everything delivered. `Conn` and `TlsSession` number their bytes
the same way, so a lost, doubled or swapped byte is a step `ByteStream` cannot
take.

In `Conn` a coroutine is parked in a channel operation (`writer`, `reader`) or
resting; `leftover` is the field. `Read` and `ReadMsg` return at once from the
leftover (`ReadLeftover`) or park (`ReadParks`) and go on when the channel hands
them a chunk (`HandOver`) or is closed (`ReadEof`). Up to two coroutines read at an
end. `KeepApart` is what the program takes care of: a `Read` and another read do
not overlap at one end. Without it two parked `Read`s overwrite each other's
leftover; `ReadMsg`s may overlap freely, as the bus lets them.

In `TlsSession` a record is a header and one cell per byte. `wire` is what has
arrived; recv takes any part of it (`RecvMore`), also while the handshake still
runs (`TlsDial` keeps what it received too much). `raw_extra` and `plaintext` are
the fields of `TlsEntry`; the `Decrypt...` actions are the branches on what
DecryptMessage returns. The writing side goes on at the same time: `EncryptMessage`
is one turn of the loop of `TlsIoWrite`, `SendSome` one `send` of `SendAll`. The
peer sends records of data, close_notify, renegotiation requests and garbage, ends
the connection inside a record, or resets it. One `TlsIoRead` and one `TlsIoWrite`
at a time: the code locks neither buffer, and two `TlsIoRead`s would race on
`std::vector`s.

### Path, Abac, Shim

`CanonicalPath` is translated as the stack it is, its loops as functions of how far
they got (`Split`, `Resolved`, `Joined`); `Place` says without a stack
which root and names a path means, from the runs of characters between separators
and from which names no later `..` takes back. `Path` lets two paths grow character
by character so that the forms of two spellings are compared. `Abac` adds rules of
every form of pattern and asks; `Covers` says what a pattern is meant to cover by
where a resource is. `os.Open` stands for the path actions, `os.Getenv` for the
others. In `Shim` every call passes the compile-time switch and the engine; a
`ReadFile` is a sequence of `Fread` steps while another process appends (`Grow`).
Of a file only the length is kept.

### Msg, Buffer

`Msg` is `Encode` and `Decode` with bytes of a smaller radix: u16 and u32 keep two
and four bytes. A frame grows byte by byte so that `Decode` meets every frame up to
the bound, and messages with names and payloads at and over their limits are
encoded. In `Buffer` a `size_t` has `Width` bits, memory goes on behind the mapping,
and host and sandboxee have views of their own size.

## 3. Runs

| Run | Shows | Instance |
|---|---|---|
| `bridge` | no lost, doubled or stranded call; no lost wake-up; shutdown drains and ends; `Bridge` implements `AsyncCalls`; calls answered, completions collected | 2 workers, 3 calls, at most 1 pump outstanding |
| `bus_stubs` | calls return, on closed layers too, no mutual blocking, open layers served | 1 caller, 2 servers, 4 calls, ids wrap at 2 |
| `bus_fan` | replies matched, publications complete | caller + publisher on one layer, 3 servers, one late, one on `*` |
| `bus_shared` | violated: every Call returns | 2 callers on one layer |
| `handles_calls` | no dangling, stale, double or revived handle | 2 workers, 2 handles, all kinds |
| `opening_calls` | opened means handed over whole or closed; children get their own pipes; `Exec` returns | 2 workers, 3 calls of all topics, 2 addresses, launches one at a time |
| `opening_overlap` | violated: closing stdin is an end of file | 2 overlapping `ExecStart` |
| `sandbox_both` | Windows: alive means held, awaited means gone; both: kills are real and hit only own children | both backends, 3 spawns |
| `comms_frames` | Recv matches Send, fails only for cause; nobody hangs on a closed peer | pipes of 3 bytes, 4 values a byte, 1 frame to and 2 from the sandboxee |
| `sandbox_walltime` | violated: the wall limit ends the child | 4 spawns |
| `streams` | both directions of a Pipe and of a TLS session are byte streams; parked reads hear of the end; whole records are written | 3 Writes of 0 to 2 bytes, 2 readers per end; 3 records of 0 to 3 bytes or as many bytes written |
| `library` | paths, policy, ReadFile, codec and buffer agree with what they are for | two paths of 6 characters together, 2 rules over 7 spellings, files of up to 6 bytes at a limit of 4, all frames of up to 16 bits, 3-bit `size_t` |

**Bounds.** Every wake-up hazard of the bridge needs at most two workers (one
parked, one on its way) and two jobs; the third call leaves one to be queued while
both are busy, and the proofs of section 5 cover every size. Bus hazards need a caller, a responder and one more
coroutine; in `bus_stubs` `MaxId` is small so that the id wraps within the run, in
`bus_fan` it is not, because replies are told apart by their ids only. A handle hazard
is between two calls on one handle; the second handle is there so that numbers
can be confused. Opening: two workers overlap in every pair of steps,
a third call comes after one of them, and two addresses make the loop go round. A
Sandbox hazard is between one spawn and the next; three allow
two such pairs. A pipe of 3 bytes is shorter than a header, so that every frame is
written and read in pieces while both sides run, and two frames are what it takes
for the first to spoil the second; 8 bytes as the host's limit and 9 as the
sandboxee's make one frame legal to send and too long to receive. In `streams` a behaviour is of one of the two components (`under`), which share
nothing; three writes are a chunk read in part, one behind it and one in the other
direction; `MaxTraffic` bounds what the two directions of a TLS session carry
together, and a record of 3 bytes is longer than `MaxMessage` and than a read.
`library` likewise runs one part at a time (`part`): six characters are enough for
a drive, a step up past the root and a name that another one starts with; two
rules for an Allow and a Deny in either order; the file limit is crossed in the
middle and at the end of a chunk. `MaxCalls`,
`MaxOps`, `MaxHandles`, `MaxSpawns`, `MaxSends` and `MaxRecvs` only bound the
length of behaviours; `CHECK_DEADLOCK FALSE` is set where a bounded program has
simply finished, or where a coroutine may wait for ever by design.

**Fairness.** Bridge: worker threads keep running and a system call that can
return does (`WorkerStep`, `WorkerReturn`); the scheduler finishes what it began
and polls for completions, which is wasigo's idle loop; nothing forces it to
submit or shut down. Bus: the scheduler runs every coroutine that is ready;
nothing forces a call, a close, or a sender on a closed channel to wake. Comms: a
blocking read or write that can go on does, and `RunAsync` returns; nobody has to
call anything and nothing has to end. Opening: a system call that can return does;
no process has to end and nobody has to call anything. Conn: the scheduler resumes
a read whose channel operation can complete. TlsSession: the worker that runs
`TlsIoRead` is scheduled and recv returns when there is something to return; peer
and send owe nothing. All of it is weak fairness on single steps.

**Liveness has exceptions in its statement, on purpose.** `CallsAnswered` and
`ShutdownEnds` exclude a pump nothing feeds: with as many pumps as workers the
feed that would release them never runs (allowing two pumps with two workers
violates `CallsAnswered`). `CallReturns` excludes a caller whose own layer is
closed, a topic without an open server (`Call` has no timeout) and a malformed
request (`StubLayer::Handle` answers none). `ClosedCallEnds` is about the first of
these: a Call on a closed layer comes back even for the other two, unless its own
Write, or the reply of the server it writes to, was under way to a layer when that
was closed; what wakes such a sender is the runtime's business. It needs servers
that survive a reply to nobody. `ExecReturns` speaks of a process that
has ended, `CloseDeliversEof` of an end that is closed, `TlsReadReturns` of plaintext
or an end that has arrived. `NothingLeftBehind`, a safety property, has an exception too: the
Schannel credentials, and mostly the context, of a handshake that failed.

## 4. Findings

1. **Concurrent Calls on one layer** receive and drop each other's replies
   (`bus_shared`).
2. **Overlapping launches share pipe ends**: `CreateProcessW` inherits without a
   handle list, so a process started meanwhile on another worker may hold the
   write end of this one's stdin, and `os.exec.stdin.close` does not signal EOF
   (`opening_overlap`).
3. **POSIX wall time is not enforced**: TIMEOUT leaves the child running
   (`sandbox_walltime`).

Also visible in the models, without a run of their own:

* Bridge: up to four calls run at once (`kWorkerCount`), where `README.md:59-66`
  still describes "exactly one" worker thread that serialises them.
* Handles: `handles.h:17-19` names "the one residual caller obligation", about
  `Release`. There is a second: `ExecStdinClose` closes the pipe that an
  `ExecStdinWrite` on another worker is using.
* TLS: a reset connection is reported as a plain end of file, although
  `real.h:63-67` keeps that for a clean close; a failed handshake leaks its
  credentials, mostly its context too.
* Opening: sockets are inheritable, so a started process also holds the sockets
  open at that moment.
* Conn: `Close` does not release a `Write` parked at the other end; two parked
  `Read`s of one end lose bytes.
* Bus: a malformed request mostly gets no reply, so its Call waits for ever; installing a
  closed layer again succeeds and serves nothing; `Publish` stops at the first
  target that was closed after its snapshot, with an error but before the open
  subscribers behind it.
* Paths and policy: `"."` and `"a/.."` are refused too, which the list at
  `path.h:9` does not say; `"./a:"` comes out as a drive; `docs/abac.md:38` lists
  the path actions without `os.Exec`, which is one.
* Shim: `ReadFile` takes an error of fread for the end of the file.
* Buffer: on POSIX a mapping has no handle to pass on, and `CreateFromHandle` does
  not ask how large the object is.
* Sandbox: on POSIX a second `RunAsync` orphans the first child and `Kill()` leaves
  a zombie; `Kill()` after the end may signal a recycled pid; the loop that closes
  descriptors stops at the lowered `RLIMIT_NOFILE` (`os_posix.cc:135`).
* Comms: two ends that both send more than a pipe holds block each other.

## 5. Proofs

Every theorem is about the specification TLC runs, for every value of the
constants that satisfies the module's named assumptions (sizes are natural
numbers, sets of workers finite, sets of topics and kinds as the code has them);
TLC evaluates those on every run. A hypothesis beyond them is part of the theorem
and named here. Where a property speaks of a habit of the program itself
(`MaxLaunching` in `PipesAreOwn`, `PoliteKill` in `NoStrangerShot`), so does the
theorem.

### BridgeProofs

* `TypeCorrect`, `OnePlace` (`ExactlyOnePlace`). `IInv` is the two together: that a
  popped job is new to every other place follows from `QueueIsNewest` (the queue is
  the interval of newest ids) and `NothingLost` (everything older is held, ready or
  collected).
* `Hears` (`WaiterWillHear`): inductive by itself over `IInv`.
* `Taken` (`EveryJobHasATaker`): a counting argument over finite sets. `Coming` are
  the workers on their way to the queue, `Owed` is the notify still owed to it; `TakerStep` follows both through every action, with
  `FiniteSetTheorems`.
* `Drains` (`ShutdownDrains`). `DrainInv`: a worker exits only with the queue empty
  and shutdown set, after which nothing is queued any more; when all have exited
  nobody holds a job, and `NothingLost` gives the rest.
* `Refinement` (`ImplementsAsyncCalls`): `Submit` is `Issue`, `WorkerPush` is
  `Answer`, `PollOne`/`WaitOne` are `Collect`, all else stutters.

### BusProofs

The actions are first brought into one form (`BusStep`: somebody starts to publish,
goes on, receives, moves, a layer is closed, a layer is installed), so that an
invariant needs one argument per form.

* `TypeCorrect`, `Delivered` (`DeliveredOrClosed`), from `BusInv`: whom a Publish has
  not reached is closed or still on its list (`Owed`), and every reply in the system
  answers a request that was served (`Replied`).
* `Correlated` (`ReplyAnswersCall`), if `MaxOps <= MaxId`: there are no more Calls
  than `next_id_` has values. `IdsApart` is the fact behind it: an id belongs to one
  request. After a wrap it does not.
* `Served` (`OpenLayerIsServed`), if `OneTaker`: no reply has two takers. With two,
  closing the second while the reply is being written to the first makes Publish
  fail and ServeLayer return although its layer is open.
* `Unlocked` (`NoMutualWrite`), if `Wired`: one calling coroutine, and layers wired
  as `DefaultStubs` wires them. `Turns` is the fact behind it: the caller writes
  only when every layer it asked is back in Recv or on its way there.

### HandlesProofs

* `TypeCorrect`, `Closed` (`ClosedExactlyOnce`), `Unrevived`
  (`ReleasedStaysReleased`): from `TableInv`, whatever calls overlap.
* `Undangling` (`NoDanglingEntry`), if `"release" \in Discipline`: `CallInv` adds that
  no handle is being released while a call has it (`Apart`) and that a call past its
  Lookup has a live entry (`Held`).
* `Fresh` (`NoStaleUse`), if `"stdin"` is in `Discipline` too: `UseInv` adds that a
  stdin call is alone on its handle and that what a call uses was open when read.

The two theorems say that the discipline is enough. It is also needed: with
`"release"` taken out of the instance TLC finds both properties violated, with
`"stdin"` taken out `NoStaleUse`.

### OpeningProofs

* `TypeCorrect`, `NoneLeft` (`NothingLeftBehind`), `Whole` (`EntryIsWhole`): `Stage`
  says for each topic and each system call which objects are open before it; every
  cleanup is then checked against that table.
* `OwnPipes` (`PipesAreOwn`): `SealedEnds` adds which pipe ends are inheritable, and
  that a child's end is open only while its call launches; with `MaxLaunching <= 1`
  that is one call.

### SandboxProofs

* `TypeCorrect`, `Held` (`AliveIsHeld`), `Gone` (`AwaitedIsGone`), `Dead`
  (`KilledIsDead`), `Unshot` (`NoStrangerShot`), and `Outlived`: on Windows nothing
  started in a Sandbox is alive after its destructor. `IInv` adds where the object
  is in its protocol (`Protocol`), that it holds what `Kill` needs while no result is
  set (`HoldsUnset`), and which pids may have been reused (`Pids`).

### StreamProofs

* `Streams` (`ConnIsStreams`), if `KeepApart`: what was read, the leftover, the chunk
  of a parked writer and the bytes still to come are consecutive runs (`Span`), in
  each direction.
* `TlsStream` (`TlsIsStream`). `Layout` places every cell of what has arrived
  (`raw_extra \o wire`): it lies in a run that is its record, it knows how much
  plaintext comes before it, the next record starts where the plaintext of this one
  ends, and only the last may be cut off or a close_notify. `Accounted` adds that
  what was returned, the plaintext buffer and the layout make up what the peer sent.
* `WholeWritten` (`WrittenIsWhole`), from `WriteInv`: until a call fails, what send
  took and what it still has to take are the sealed records one after the other, and
  their plaintext is all that was passed to `TlsIoWrite` but for the data that is not
  sealed yet. What concatenating the records gives is shown by induction over them.

### CommsProofs

* `Matched` (`RecvMatchesSend`), `FailsForCause` (`RecvFailsForCause`), from
  `CommsInv`. The bytes of a direction are what its receiver has of a header or a
  payload, what is in the pipe and what its sender has left (`Unread`). `Layout` says
  where in them each message's frame starts, and that only a sender that is gone may
  have cut the last one; `InStep` that the receiver stands at the start of a frame or
  behind a header whose tag and length it holds. `Flow`: a direction is in step, shut
  by its receiver, or empty with nobody left to write. Neither property is inductive
  without it: what a Recv returns depends on where the bytes it reads were cut before.
* The lemmas below it: `GetPut` (`GetU32` inverts `PutU32` for any number of byte
  values), `PayloadValue` (every typed Recv inverts its Send), `FrameShape` and
  `HeaderRead` (a header read from the first 8 bytes of a frame is its tag and length).
* Assumed: `SendableAssumption`, arguments have the widths the Send functions declare,
  and `max_msg_` fits its `uint32_t`. The second is why a length survives `PutU32`.

### LibraryProofs

* `Inside` (`CopiesStayInside`), for every width of `size_t`: the check
  `off <= size_ && n <= size_ - off` cannot wrap, and a view is never larger than
  the mapping (`ViewsFit`).
* `WholeFile` (`ReadFileIsWhole`), for every limit, chunk size and file and whatever
  the engine's rules. `StillReading` is the strengthening: before the end is seen the
  bytes taken are within the limit and within the file, and the file does not shrink.
* `RoundTrips`, and `CodecInverts` (`DecodeInvertsEncode`) of the specification, for
  any number of byte values and any limits. `Layout` says where in a frame each field
  stands. `Encode` makes the layout, what `Decode` accepts has it, and a frame is
  determined by its layout and the other way round. Assumed: `kMaxPayloadBytes` fits
  a u32.
* `FormsAreLexical` (`CanonicalIsLexical`), for paths of any length over any letters.
  Four facts make it up.
    * The parts: the loop that cuts at slashes finds the longest runs without one
      (`SplitRuns`, by `RunsInv`: which runs are over and which one is open after `k`
      characters).
    * The stack: what is on it after `j` parts are the names that no later `..` among
      these parts takes back (`ResolvedNames`, by `StackInv`). That is not inductive
      by itself: it needs that the height of the stack above a name is the balance of
      names and steps up behind it (`Heights`), and the balance of all parts while the
      path has not gone above its start (`Surface`).
    * The form: cutting it gives the names back (`SplitJoined`), so a bounded prefix of
      a form is a front of its names (`JoinedBound`).
    * The roots: how a form starts tells its root (`FormHead`), unless its first name
      is spelt like a drive.
* `RulesGovern` (`RulesGovernPlaces`), for any number of rules in any order, if
  `PlainlySpelt`: the paths in rules and requests are no longer than a path may be and
  none is a relative name spelt like a drive (`"./a:"`), which `CanonicalPath` takes
  for the drive. TLC evaluates the hypothesis on its instance. It rests on the path
  theorem's lemmas and on one more, `NoFront`: a pattern that has no canonical form,
  with which `Match` falls back to its text, is no prefix of any form. The length
  matters there: `"a:"` followed by as many characters as still fit has a form one
  character longer than a path may be, and a pattern spelt like that form is compared
  as text.

### Only model-checked

Liveness: `CallsAnswered`, `ResultsCollected`, `ShutdownEnds`, `CallReturns`,
`ClosedCallEnds`, `DeadPeerReleases`, `ExecReturns`, `CloseDeliversEof`,
`TlsReadReturns`. Fairness and ENABLED are out of the prover's reach.

Induction over data is done with sets: the library's induction theorems take an
operator as a parameter, which the provers cannot instantiate, but that a non-empty
set of numbers has a least member (`WFMin`) they can, and `Induct` follows. What a
recursive function computes is then stated of its table (`Cuts`, `Resolves`, `Joins`):
that there is one, and what holds of any up to `k`.

## 6. Plan

1. `Comms` against an abstract specification, a FIFO of frames that ends, with
   `CommsInv` as the invariant behind the mapping.
2. Composition of `Bridge` and `Handles` (who may overlap given the pool).

## 7. Not modelled

Reply texts, address formatting and argument quoting (data no property depends
on); the stateless Windows topics (`User`, `Syscall`, `ExecLookPath`: one Win32
query each); the C ABI and `system_policy.h` (forwarding and compile-time
switches, of which `Shim` has the one that matters); memory, CPU and file limits as quantities; the
environment passed to children; `real_posix.cc` and `os_wasi.cc`, which refuse
everything; the wasigo runtime, except as the channels and scheduler the code
relies on.

Hazards the code has and no property here covers:

* `sapi/handles.cc:68`: a `Release` during a call on its handle frees the entry the
  call uses; `handles.h` leaves it to the caller (`Discipline`).
* `sapi/real_win.cc:514`: an `ExecStdinClose` during an `ExecStdinWrite` (`Discipline`).
* `pipe.h:67`: two overlapping `Read`s of one end overwrite each other's leftover
  (`KeepApart`).
* `bus.cc:137`: a reply parked for 2^32 calls would match a call that has its id
  again.
* `sapi/tls_win.cc:142`: the credentials, and mostly the context, of a failed handshake
  are leaked.
* `layer.cc:27`: with two takers of a reply, closing one of them can end a server whose
  layer is open (`OneTaker` in section 5).
* `gocvm_bridge.cc:93`: `WaitOne` with nothing submitted waits for ever; it is called
  by wasigo's scheduler, which `Bridge` takes to wait only while a call is out.
* `tls_win.cc:186`: two `TlsIoRead`s on one session share its buffers without a lock.
* `s2/sandbox.cc:63`: `AwaitResult` moves `process_` away, so a `Kill()` from another
  thread during the wait has no handle to terminate on Windows and still reports a
  kill. `Sandbox` has one calling thread: the class has no lock.
* `s2/os_win.cc:226`: `ApplyJobLimits` retries without the memory limits.
* `s2/os_posix.cc:57`: a write to a sandboxee that is gone raises SIGPIPE before
  `write()` can report EPIPE. `Comms` takes the write to fail.
* `s2/comms.cc:55`: `RecvBytes(nullptr)` returns after the header and leaves the
  payload to be taken for the next one; no caller in the repository does so.
* `s2/os_posix.cc:98`: `MapExisting` maps as many bytes as it is told; a copy behind
  the end of the object raises SIGBUS. `Buffer` has Windows's MapViewOfFile, which
  refuses.

# A TLA+ model of goodix-5120-linux

The repository holds two hosts for one fingerprint sensor, Goodix 27c6:5120, which sits behind an
ITE embedded controller (the EC): a libfprint driver in C (`libfprint/goodix5120/`) and a Go probe
(`cmd/goodix-probe` with `internal/`). Both speak the same protocol, half duplex, over two USB bulk
endpoints. A command sent to an EC in the wrong state has cost the laptop its keyboard until a cold
power cycle, so the order of what is sent, and what each answer is taken for, is the core of the
program. This directory models the C driver, the Go stack from the private files and the TLS
endpoint up to a run of the probe, and the parties they talk to; it checks them with TLC and proves
all of their safety properties with TLAPS.

## The system

| component | state it keeps | operations | interacts with |
|---|---|---|---|
| exchange machine (`goodix5120.c`, "One command exchange") | the `x_*` fields | send, receive, drain, listen | started by every other machine; calls the TLS server |
| open, handshake, close | `init_idx`, `hs_*`, `interface_*`, `session_valid`, `tls` | `dev_open`, 16 open states, 4 handshake states, `dev_close` | exchange machine, TLS server, USB interface |
| actions and touch loop | `fdt_mode`, thresholds, `touch_images`, `probe`, `gallery`, `cancelling`, `ssm`, ... | enroll, verify, identify, capture, cancel; finger-detect, re-check and capture machines | exchange machine, TLS server, matcher, libfprint |
| C TLS endpoint (`goodix5120_tls.c`) | input header and remainder, output queue, OpenSSL | feed, handshake, pop, read | OpenSSL |
| C wire codec (`goodix5120_proto.c`) | none (tables) | frames, the opcode gate, finger-detect payloads | |
| C matcher (`goodix5120_match.c`, SIGFM) | templates | extract, score, parse | |
| Go native session (`internal/tlspsk`) | two bounded queues, deadlines, one error | Read, Write, Device, Close, cancellation | goroutines on one mutex and one channel |
| Go bridge (`internal/session`) | flight tracking, plaintext buffer | Handshake, Deliver, PumpHost, ReadApplicationData | native session, transport, one reader goroutine |
| Go transport (`internal/transport`) | options, what libusb holds | OpenUSB, Send, SendTLS, Recv, Close behind the safety gate | USB, a replay script or the loopback EC |
| Go codec (`internal/proto`) | none | packs, messages, TLS records, finger-detect payloads | |
| Go probe (`cmd/goodix-probe`) | the run's steps, the touch | bisect, health check, read-state, TLS capture, capture on touch | transport, bridge, private files |
| private files (`internal/privatefile`) | a temporary file | create, chmod, chown, write, sync, close, rename | file system |
| parsers (`capture`, `image`, `dpapi`, `evtx`, `winreg`) | none | sequential decoding; `Frames` shows a transfer | Go codec |

The C driver is event driven. Between two callbacks exactly one USB transfer is outstanding, every
callback runs to the submission of the next transfer or to the end of the libfprint call, and
libfprint runs one call at a time, with `dev_cancel` free to come between any two callbacks. The EC
is the concurrent party: it answers late or never, stays armed for a finger across sessions and
across crashes of the host, and sends events nobody asked for. What is hard, and what the
properties are about:

* replies out of order, late replies of an earlier command, events of an earlier arm;
* cancellation at any point, in particular with an image on its way;
* one step of many failing, with a TLS server, an interface, a gallery or an image half made;
* a crash of the process at any step, and what its successor then reads, or finds in a file;
* goroutines that share a lock, a channel or a buffer, and who ends them;
* a byte stream that the EC cuts where it likes, and two codecs in two languages that must agree about it;
* checks made before anything is opened that must agree with the gate asked before every write;
* counters at their limits: reads, drains, images of a touch, "base invalid" replies;
* time: the listening window, the pacing of host records, the budget of the handshake;
* progress: no exchange, handshake, re-check or capture may go on for ever.

`PROJECT.json` lists each of these as a hazard at its line, with the properties that cover it.

## Modules

```
ExchangeRules   constant operators: how an exchange judges a transfer
  Exchange      the exchange machine alone          -> Exchange_proofs
  TouchLoop     actions, finger detection, re-check, capture  -> TouchLoop_proofs
    TouchSystem   + an EC with a FIFO, an arm and a finger that comes and goes  -> TouchLoop_proofs
  OpenDevice    open, handshake, close              -> OpenDevice_proofs
    OpenSystem    + an EC that remembers, crashes, power cycles  -> OpenDevice_proofs
DeviceActions   what the driver promises libfprint; TouchLoop implements it
SecureStream    what a TLS endpoint promises: two bounded streams that fail once
  NativeSession   tlspsk.Session; implements SecureStream  -> NativeSession_proofs
  Bridge          session.Bridge over a SecureStream, an EC and a goroutine  -> Bridge_proofs
SafetyGate      operators: the opcode registry, the gate, the probe's tables and checks
  Probe           a --bisect run, from its flags to its exit status  -> Probe_proofs
PrivateFile     privatefile.Write, its callers, kills and power failures  -> PrivateFile_proofs
Packets         operators: packs, messages and TLS records of the Go library, byte for byte
  FingerDetect    operators: its finger-detect events, arms and thresholds
DriverCodec     operators: the same of the C driver, with its send table
  RecordStream    the EC's bytes through the driver, read along by the library  -> RecordStream_proofs
MC*             the modules TLC runs
```

**ExchangeRules.** A transfer is reduced to what `rx_classify` makes of it, relative to the command
waited on: `ack` or `nack` (status other than 1), `data` or `baddata` (`validate_data_reply`),
`tls` or `badtls` (`g5120_tls_feed`), `fdt` (a finger event), `noise`. `Refuses`, `Satisfies`,
`Received` and `TimedOut` are `xchg_recv_cb`; `Noted` is what it remembers in `x_got_ack`,
`x_got_tls` and `x_reads`.

**Exchange.** The machine `XCHG_SEND`, `XCHG_RECV` with every contract the driver begins.
`heard` and `last` are history variables: what was really read.

**TouchLoop.** One action is one whole callback: from the completion of the outstanding transfer,
through every state entered and every `session_done` run on the way, to the next submission. `st`
is the state of the running machine, `io` the outstanding transfer. A reading of the six zones, a
template and an image are abstracted to where they come from; `downThr`, `upThr` and `manualThr`
hold the reading their thresholds are made from. The matcher is an input: an image is usable or
not, and one that is usable matches a print of the gallery or none. Opening is one step here, and
assumes that the handshake left no record unread (see the finding of `open_settle`).
`finger`, `lastImage` and `shots` are history.

**TouchSystem.** The EC acknowledges each command, holds one arm, fires it at once if its condition
holds (`docs/protocol.md`, Runs 20 and 49), answers `0x36` and `0x20` in its own time, and queues
its packets. A timeout of the driver happens only while the queue is empty, but the answer may come
after it. Two manual answers owed at once are merged into one, and opening empties the queue, as
its drains do; the arm survives it.

**OpenDevice.** The open machine, which the handshake machine and the exchanges run under.
TLS is reduced to counted records: the EC sends ClientHello, then ClientKeyExchange,
ChangeCipherSpec and Finished, in any grouping of whole and partial records; the host answers each
flight with two records. The EC's second flight comes only after the whole of the host's first: the
server rejects anything else (`badtls`). A deadline is `open` or `over`, and passes at any moment.

**OpenSystem.** The EC answers commands in order, late if it likes; inside an unfinished handshake
it answers nothing but `0xae`; only a power cycle takes it out of it. The process may die at any
step and leave what the EC had sent, or an image still to come, to the next one.

**SecureStream, NativeSession.** `Session` is one mutex around an OpenSSL endpoint, two queues and a
channel that is closed and replaced to wake whoever waits. A critical section is one action, except
`driveLocked` and `Write`, which loop over calls into OpenSSL: there an action is one turn and `mu`
says whose. `s.waiting` holds those parked on the current channel, `due` the deadline their timers
run for. OpenSSL is external: a flight answers a flight, a record decrypts to one plaintext, garbage
fails. SecureStream is the same endpoint without lock, queue or waiting: `arrived` and `emitted`
grow, `delivered` and `collected` follow them within `QueueLimit`, and the first failure stands. Queues
hold records where the code holds bytes; a reader takes any non-empty beginning of one, which is
what a buffer of any size does.

**Bridge.** The other side of that promise. `EndpointTakes` is `Device().Write` as SecureStream allows
it, so what is shown of the bridge is shown over any endpoint that implements SecureStream
(`UsesAStream`, proved). A transfer is a sequence of pieces of records: whole, a head, a tail. `Recv`
is the polling of the device with `Deliver` up to the write; records of a transfer that does not
split are forwarded without being tracked, as `Deliver` does. `PumpRecord`, `PumpIdle` and
`sendFlight` are `PumpHost`; `GoroutineReads` and `GoroutineAppends` are the two halves of the
goroutine of `startPlaintextReader`, between which `ReadApplicationData` may poll. The header comment
of `session.go` says that a turn ends when a flight does. A head of the ClientKeyExchange that
arrives alone does not split, is not tracked, and the bridge turns to the host early; `HonestNeverFails`
shows that nothing worse than an idle window comes of it.

**SafetyGate, Probe.** SafetyGate holds what decides whether a frame may leave: `checkOpcode` and
`checkPayload` over the registry, the catalogue of vendor frames, `parseSteps`, `validate`, `opcodes` and
`Allow`. Probe is one run: the checks, the key and the endpoint, the log, `OpenUSB` one resource at a
time, `drain`, the health check and `readStuckState`, the steps with `collect`, `runTLS` with the
handshake, `0xd4`, `captureOnTouch` and `touchOnce`, then the deferred calls in their order. On USB a read
may return anything at any time; the replay script and the rehearsal answer as `replay.go` and
`loopback.go` do. Readings are named by the event they came with, so an arm says whose thresholds it
carries. A call of the bridge or of `privatefile.Write` works or fails: those have modules of their own.
The comment of `touchOnce` leaves a late lift event to the drain; there is no drain after the hook, so
it stays for the drain that the next run starts with. `--steps 20 --wait-finger --allow-image` is a legal
command line, and asks for an image before the session with no finger in sight: `TouchesInOrder` speaks of the
images of the session, those that follow `0xd0`. `--touches` may be any number; `validate` refuses a negative
one and one above its limit.

**PrivateFile.** Each system call of `Write` is an action and may fail; a process may be killed, and the
power fail, between any two. `disk` is what the directory names after a power failure, and what was
not synced may come back whole, in part or empty. Both callers are there: `writeCapture`, with the
owner sudo left in the environment, and `goodix-dpapi`.

**Packets, FingerDetect, DriverCodec, RecordStream.** The codec exists twice: in Go (`EncodePack`,
`DecodePack`, `DecodeMessage`, `SplitTLSRecords`, `DecodeFDTEvent`, `DownThresholds`, `Frames`, ...) and
in C (`g5120_pack_decode`, `g5120_message_decode`, `g5120_tls_frame`, `g5120_fdt_decode_event`, ...), each
translated on its own to sequences of bytes. RecordStream sends a stream of records in pieces cut
anywhere, each in a pack that USB pads, with messages, events and junk in between, to the driver:
`rx_classify`, then `g5120_tls_feed`, which has a five-byte header, a count and two bytes of memory
(`p`), or the event handlers, which keep thresholds (`thr`) and send an arm (`armed`). The driver is
taken to wait for whatever event comes; which it waits for is TouchLoop's. `ParsersAgree` reads
the same bytes with the library:

* `StreamIsUnderstood`: the incremental parser sees what `SplitTLSRecords` sees in the whole;
* `MessagesArrive`, `CaptureShowsIt`: a message is neither lost nor made up, and `Frames` shows in each
  transfer what `rx_classify` made of it, with the two differences its comment names;
* `ArmsFollow`: the library decodes an arm of the driver, and it is the one the probe would
  have sent after the same events: the right command, the right readings, halved and saturated;
* `RecordsAreFramed`: `g5120_tls_frame` accepts what is one record for the library, and no more.

## Runs

| run | question | bounds |
|---|---|---|
| `exchange` | does an exchange succeed only with its replies, and always end? | the driver's own limits, 4 and 8 reads |
| `exchange_drain` | (violation) is the device quiet after a drain? | the same |
| `touch` | do actions keep their promises under any transfer and any cancellation? | 3 reads, 2 stages, 3 images, 1 "base invalid", 1 print |
| `touch_system` | with a real EC and a user, are images and arms the right ones, and do touches end? | 4 reads, 2 stages, 3 images, 1 "base invalid", 1 print |
| `open` | is a session earned, are records paced, does a failure clean up, does an open end? | the driver's own limits |
| `open_settle` | (violation) is every record read before `0xd4`? | the same |
| `open_system` | what reaches a stuck EC, and what of an earlier session reaches a new one? | 4 reads, drains of 2, at most 3 packets unread at an open |
| `native_session` | is no wake-up lost, the endpoint freed once, the session two streams, and does its end release everybody? | a reader of each stream, a writer of 2 chunks, 3 transfers, queues of 2, 1 tick of the clock |
| `bridge` | is a handshake earned, an honest EC never refused, no image lost, and does every call return? | every cutting of 4 records into transfers of at most 2 whole ones, 2 images, 1 message, 2 calls |
| `probe` | what reaches the EC, in which order, what stays open, what does the exit status mean, does a run end? | the code's limits of 4, 8 and 3; 17 920 command lines; at most 2 touches (`--touches -1` and `3` are refused) |
| `private_file` | is the path whole and private, and an error true, whatever is killed? | 2 writers of one path |
| `records` | do the driver and the Go library agree about every byte, and derive the same arms? | 15 streams, pieces of at most 7 bytes or all the rest; 1 aside, or 2 with no stream; 12 messages, 8 of them events |

Why these bounds are enough. The read limits matter only as "more left" or "the last one", and 3
already separates the first read, a middle one and the last. Two enrollment stages give a first, a
repeated and a last view. Three images are the driver's own number. One "base invalid" reply is
tolerated and the second fails, as eight and nine do. The gallery is absent, empty or of one print;
which print of several matched is one index. In `open_system` a drain reads 2 packets and 3 may
wait: the backlog can outlast the first drain, which is what makes a stale packet reach the health
check and the drain after it. Counters that the code does not bound (`x_reads` and `recheck_reads`
in between) are reset by every machine.

A queue of 2 records overflows on `<<"data", "data", "data">>` and not before, and 3 transfers are a
handshake and one that overflows or ends the session, or the two that fill and drain a queue. One
tick separates "no deadline", "not yet" and "over". In `bridge` a limit of one record and two images make
a burst end with something buffered, and the second call starts with it. The command lines of
`probe` are all combinations of the flags with seven lists of steps and four sets of `--allow-*`, of
which one holds an opcode that only a destructive build registers. The streams of `records` meet
every branch of the parser: each type, a length at its limit and one above, a wrong version, alerts
of two bytes and of one or three, before and after ChangeCipherSpec, and a record longer than 256
bytes; a piece of 7 bytes can hold a header and its neighbours. Its readings are those of a capture,
the largest that do not saturate and the smallest that do, with the margin and without, 65535 and
zeroes; two messages in a row let a base without readings follow one with them.

Deadlock is checked in the runs of the C driver, which always has a next call. The Go runs say
`CHECK_DEADLOCK FALSE`: a run of the probe exits, calls return, streams come to their end. What must
not stop early there is stated as a property (`ProbeEnds`, `CallsReturn`, `OperationsReturn`).

**Fairness.** libusb completes every write and every read that has a timeout or is cancelled, and
time passes: `WriteDone`, `ReadTimesOut`, `WaitCancelled` and the deadlines are weakly fair, the EC
and libfprint are not. The wait for a finger has no timeout and gets none. `TouchEnds` is the one
property that needs the world: the EC answers (weak fairness), the user keeps touching and lifting
(weak), and an arm fires if its condition holds again and again (strong, since a finger may lift
before it does).

In `native_session` Go runs every goroutine that can run: the holder of the mutex, the watcher and each
caller that has something to proceed with are weakly fair; cancellation, Close, the device and the
clock are not. In `bridge` the bridge and its goroutine run and an EC that has records sends them; that
a deadline passes is not assumed (`CallsReturn` says what follows once it has). In `probe` the one
goroutine of the run goes on, since each read returns by its timeout, and the wait for a finger has
a deadline (`WaitExpires`); the EC owes nothing.

Each property of a passing run has a mutant in `PROJECT.json`: a change of the model as a plausible
bug would make it, under which the run finds the property violated. The mutants stand in the
modules before the definitions they change.

## Findings

* `exchange_drain`: `start_drain` promises a quiet device ("so no reply is left queued in the EC"),
  but a drain ends after 8 transfers whatever is still coming. `open_system` shows that what
  follows copes: each exchange counts only the replies of its own command.
* `open_settle`: `hs_settle_check` promises that any record after the handshake is processed before
  `0xd4`. A record in the same transfer as the EC's Finished is fed to the server, and nothing reads
  it: the settling interval only looks at records that arrive in a transfer of their own. It would
  be read by the first capture.

## Proofs

Every safety property that a passing run checks is proved with TLAPS for every value of the constants;
so is that `TouchLoop` implements `DeviceActions`, that `NativeSession` implements
`SecureStream`, and that `Bridge` takes only steps that `SecureStream` allows. Each proof has one
invariant, lemmas that the initial states satisfy it and every step keeps it, and the properties as
corollaries. TLC checked the parts of each invariant that it can evaluate before they were proved. A type
invariant that is proved is not run again. The assumptions:

* `ReadLimits`, `ReadBounds`: read limits are at least 1, re-arms are bounded;
* `TouchAssumption`: at least one stage, one image and one print; a reading of zeroes and a factory
  reading; images are told apart from the other contents of a record;
* `SystemAssumption`: in TouchSystem images and readings are named for where they come from;
* `BacklogAssumption`: at most 19 packets are unread when a device is opened. It is about the EC, and no code
  bounds it: an open waits for 20 answers before `0xd0`, and an EC that had held back those twenty, in
  this order and of one earlier open after another, would be opened without answering anything;
* `Distinct`, `Limits`: callers are distinct, limits are numbers;
* `Room`, for `HonestNeverFails` alone: the endpoint's queues, of 64 KiB each, hold its own four records and
  the images that are sent. A caller that leaves them unread for longer makes the endpoint fail
  (`ErrOverflow`) with nobody at fault;
* `StepsAreLists`, `Touches`, `BuildTag`: `--bisect` is a list of names, the limit of `--touches` a number, and
  what a `goodix_destructive` build adds is none of the registered opcodes;
* `WritersAssumption`: a writer is not one of the names that say where a file comes from;
* `StreamsAssumption`, `MessagesAssumption`, `JunkAssumption`, `ClocksAssumption`: streams are bytes, any bytes;
  a message is a command and a payload that fit in a pack, named with what it acknowledges if it is
  an acknowledgement; junk is what the library cannot decode or has no use for; a clock fits in two bytes.

The machines that run exchanges rest on three lemmas about `ExchangeRules`, that an exchange keeps its type
and its contract through every transfer (`BegunType`, `NotedType`, `ExpiredType`); each of their modules
proves those it needs.

`Exchange_proofs`. What a completed exchange has heard (`Contract`) is not inductive. It rests on what
the exchange remembered on the way (`MemoryIsFaithful`), on `Fresh` (nothing is heard before the
command is out), and on `Shape`, the contracts the driver begins: a drain or a listen sends
nothing and waits for no reply, no command draws both a data reply and a TLS record, and only an
exchange with something to read submits a read. A command with both replies would break it: its
data reply ends the exchange with the record unread. `ReceiveInvariant` is the heart of the proof.

`TouchLoop_proofs`. The properties lean on each other, so the invariant is their conjunction and four
more parts: `Running` (a session has its TLS server; in an action no outcome is known yet and the
"base invalid" replies are not used up), `Replies` (only a capture wants a TLS record, so only a
capture can leave one unread), `Shots` (before each machine of a touch as many images were asked for
as were counted) and `Judged` (after an image that did not match, `probe_retry` says whether it could
be read, until the touch is reported). A callback is a composition of operators, and so is the
proof: `CompleteStep` and `GoesOn` are the two ways a callback can end, with what each needs;
`CaptureStep`, `ArmStep`, `LiftStep`, `FingerUpStep`, `ImageStep`, `CapReadStep` and `EnterStep` say it
of the operators above them; one lemma per callback and per call of libfprint follows. Each of
them shows both that the invariant holds next and that the step is one of `DeviceActions` or none
(`AStep`), so the refinement (`TouchImplementsDeviceActions`) needs no second pass.

With the EC and the finger (`TouchSystem`), every step is one of the loop or leaves it alone, so its invariant is
there already. What is added: `Arms` (the up thresholds are the finger's from the down event to the lift,
the down thresholds never); `OneUnderWay` (an image is owed by the EC, in its queue or decrypted and unread, in
a capture only, and in one of the three places only); and `Distinct`, for an enrollment. There the lift
that ends a touch was sent after the image of that touch, since the queue keeps the order and no lift is
in it behind an image while the finger imaged stays (`NoLiftBehind`); the finger that comes next is
therefore another placement. A cancelled touch is where it could fail: its image
may still be on its way. A capture that was begun is read to its end before the cancellation is reported, or
fails and takes the session with it; so `OneUnderWay` and `Distinct` hold of every session, across its actions.

`OpenDevice_proofs`. The properties speak of the moments where they matter; `Place` (where the open
machine and the handshake machine are, and that a transfer is outstanding), `Holds` (interface, server
and session go with the phase), `Server` (how far the server is by then) and `Pace` carry them there.
`Pace` is the argument of the inter-record interval: wherever the interval is over the host has
rested, except in `HS_READ`, where the next record is written only after a flight of the EC; and a
partial record holds up `HS_PACE` and `HS_SETTLE` but not the deadline. `FedSound` says what a
transfer does to the server, `EnterInvariant` what entering a handshake state does.

With the EC (`OpenSystem`) the question is which of the packets unread are answers of this open. They cannot be
told apart one by one: a stale answer to the same command looks the same, and the exchange takes it. The
argument is about all of them at once. `Awaited` lists the 20 answers an open waits for; `Behind` says that
what is unread, in the queue or owed, does not hold the rest of that list in order, from where the open is.
It holds at the start, since 19 packets are too few, and each exchange that ends takes one packet of
the list out. So when `0xd0` is sent the EC itself has answered, and whatever is left of before is
harmless (`Harmful`): no record, nor a second answer to the health check for the next open to trust.
`Spared` (past the health check the EC is in no handshake) and `Counted` (the records the EC took are those the
server made) give the properties.

`NativeSession_proofs`. `NothingMissed` is about those parked on the current channel; the invariant adds
that the session is good (`GoodSession`: an error means an endpoint freed once and `done` closed once,
no error means neither), that the mutex is held only in a live session and by a caller inside it
(`CallsOK`), and what the queues hold (`HistoryOK`). A critical section that changes anything replaces the
channel, so `waiting` is empty after it; one that does not leaves everything a waiter looked at. The
refinement comes with the same pass: each lemma shows a step of SecureStream or a stutter.

`Bridge_proofs`. `EndpointOK`: the endpoint has answered the records it took, and the fourth only with
the EC's key. `FlightOK`: as long as the handshake goes on, what the EC has and what `PumpHost` has gathered
are together what was read of the endpoint, so a Finished at the end of a flight can only be the last
of four records. `StreamsOK` and `PlainOK` carry both streams through every cut of a read.

For `HonestNeverFails` the invariant says where each record of the EC is (`Coming`): some were taken by the
endpoint, and the others are, each once and in their order, in the transfer that is being delivered, in
those on the wire and with the EC. The cuts between transfers are existential (`Cuts`), since the EC chooses them,
and a head of a record at the end of a transfer is counted with the tail that follows it. The next piece is
then always the one the endpoint wants, and a call has nothing to fail on (`Untroubled`).

`Probe_proofs`. `WireOK` says what has been sent at each point of a run and where the shared loops `drain` and
`collect` return to; `OwnedOK` what was checked and opened before something is held. Both rest on a
single goroutine with one place at a time: `WorkingStep` and `OwnedStays` are the steps of a run under way,
whatever the EC answers. `GateOK` rests on them: `PlaceOK` says that from `open` on the checks on the command line
have passed, that the flags of each place in the run are given, and that a replay is at the exchange of
the step it is at; a run in TLS has sent its 0xd0. `CatalogueIsLegal` and `ArmsAreLegal` say what a frame
looks like, `Flags` what the checks say of the flags, and `LegalSend` that both together pass `Policy.check`,
so no send can be refused or leave its script.

`TouchOK`, for `TouchesInOrder`: the order of the frames sent so far, each with what came before it, and for each place
of a touch what the next frame will carry; `Follows` says of a frame what `OrderGrows` needs to append it.
`TruthOK`, for `ExitTellsTheTruth`: at each place of a run that has met no error, how many of the commands asked for
are out (`Tells`), with the step and the touch that come next (`CountsOK`). Once there is an error only the
exit status is left, and it is not 0.

`PrivateFile_proofs`. `PlaceOf` says how far the temporary file of a call is at each step; `IsPublished`, that a
file at the path, or in the directory on disk, was whole, synced and private when it was renamed, and
that its writer returned without an error. A power failure can only bring back a published file.

`RecordStream_proofs`. Three parts, for bytes that nobody has bounded. First the codecs: `PackRoundTrip`,
`MessageRoundTrip` and their like say that a decoder gets back what an encoder of either language made, and
the `...Agree` theorems that the C and the Go decoder take or refuse any bytes alike, those no encoder made
included. `CaptureShowsBytes` and `OneRecordIsFramed` are two of the five parts of `ParsersAgree`, and hold of
any bytes.

Then the stream. `Cut(s, c, k)` says that the first `k` records of `s` are whole and end at `c[1]` to `c[k]`.
`SplitTLSRecords` finds those records in the bytes up to `c[k]` (`SplitOfCut`), and fails while the record
after them is not whole (`SplitOfMore`). `Stands(s, p, verdict,
c, k, fed)` says what the parser holds once it has taken `fed` bytes: it is in the header or in the body of record
`k + 1`, with the bytes taken of it, or stopped at a header that is none; it is encrypted if one of the `k`
was a ChangeCipherSpec; and it has ended the session if the last of them, and none before, was an alert in the
clear. `HeaderStands` and `BodyStands` show that a turn of the loop keeps this, however many bytes it has,
`StandsWhereItSplits` that it is `StreamIsUnderstood`.

The inductive invariant puts the two together. `Understood`: some `fed` bytes are taken, and the others that have
left the EC are on the wire, in a pack with padding, or in the hands of the host, in order and once; a
message on the wire is the one said and not decoded yet. `Answered`: the down thresholds are those of
`Base`, and the last arm is one that the library reads back with the right command and readings. TLC
had checked `Stands` on the states of the run, with the cut it can compute, before it was proved. Two
attempts failed because of the model, which was corrected: a header was read on after an error, where the
loop of `g5120_tls_feed` returns, and a transfer could be longer than the two bytes of a pack's length can say.

The folds of the checksums, the search for the last untouched event and the recursive function inside
`SplitTLSRecords` are unrolled by induction over a set of numbers (`NatSetInduction`), from the
well-foundedness of `<`: `IsFold` and `Splits` say of a function what its recursion says. `Base` is
therefore an operator without recursion.

What stays with TLC: liveness (`ExchangeEnds`, `DriverSettles`, `TouchEnds`, `OpenEnds`, `OperationsReturn`,
`CallsReturn`, `ProbeEnds`), since the proofs cannot reason about fairness and ENABLED.

## Not modelled

* The decoding of the state report: the code reads one bit of it for a log. TouchLoop, TouchSystem and
  Probe follow where a reading comes from; its arithmetic is in DriverCodec and FingerDetect.
* The conversions of an image (12-bit samples, stretching to grey levels): functions of one buffer
  that no state depends on.
* The vendor payloads byte for byte; SafetyGate has their sizes, which the gate checks.
* Feature extraction and scoring (floating-point image processing), OpenSSL, libusb inside a transfer
  of several 64-byte packets (a frame is written whole or the write fails).
* Logging, the secrecy of logs and the wiping of memory; `Wait` and `Backend` of the native session,
  `--dry-run` and the host counters, which change no state.
* That a rename survives a power failure: the directory is not synced, and `Write` does not promise it.
* The parsers of recorded evidence (`capture` but for `Frames`, `image`, `dpapi`, `evtx`, `winreg`) and their
  commands: sequential decoders without state; byte formats are best tested against samples.

libfprint is taken at its word: one call at a time, an action only on an open device. The Go
session has one reader per stream at a time in the code, and the proofs allow any number.

## Plan

Done: the C driver with its systems, the native session and its refinement, the bridge over it, the gate and
the probe, the private files, both wire codecs, and the proofs of every safety property. What could follow,
in order:

1. Action properties: what no step of an exchange, an open or a run may undo (a consumed reply, the order of
   the deferred calls, a published file).
2. The matcher's template format, if its parser is to be trusted with a stored print from elsewhere.

# Formal models of the Audio Kontrol 1 driver

TLA+ modules, model-checking runs and machine-checked proofs about this repository:
the ACX kernel driver (`driver/ak1-acx`), the protocol crate it shares with user mode
(`crates/ak1-proto`), the ASIO driver (`asio`), the control panel (`panel`) and the
setup program (`setup`).
`PROJECT.json` lists every run, mutant, mapped line, hazard, finding and theorem;
this file explains them.

## 1. The system

Two programs stream on one USB sound card. Windows opens up to three realtime
streams (outputs 1/2, outputs 3/4, inputs 1/2) of the kernel driver through ACX,
and one ASIO host opens a session through a private property set. Both are mixed
and played by one USB engine, at one rate.

| Part | State | Operations | Talks to |
|---|---|---|---|
| Control plane, `ak1-acx/src/audio.rs` | `shared` (streams, rate), `running`, `asio`, `hardware` (engine, prepared); control lock (wait lock), audio lock (spin lock) | `claim_rate`, `release_rate`, `prepare`, `release`, `run`, `pause`, `start_asio`, `stop_asio`, `suspend`, `resume` | called by ACX callbacks (`rt.rs`, `circuit.rs`), property handlers (`asio.rs`), power callbacks (`lib.rs`); starts and stops the engine |
| USB engine, `stream.rs` | 16 captures and 16 playbacks, `running`, `in_flight`, `busy` | `start`, `stop`, completion routines | the USB stack; calls into the running streams and the session under the audio lock |
| Session buffers, `ak1-proto/src/asio.rs` | two rings, `captured`, two counters, the period event | `capture`, `render`, `read`, `write` | completion routine on one side, the ASIO driver's streaming thread on the other |
| ASIO driver, `asio/src/driver.rs`, `duplex.rs` | driver mutex, session, streaming thread, settings thread, two events | the `IASIO` calls; `Worker::run` | the ASIO host's callbacks; the property set |
| Realtime packets, `rt.rs` | cursor, ring of packets, `current_packet` | `render`, `capture`, `SetRenderPacket`, ... | Windows' audio engine; completion routine |
| Resampler, `ak1-proto/src/resample.rs` | phase, history | `push`, `pop` | realtime packets |
| Command protocol, `usb.rs`, `ak1-proto/src/lib.rs` | toggle bit | `sync`, `set_audio_params`, `send`, `receive` | the card |
| Mode 2 format, `mode2.rs` | the bytes carried into the next packet | `decode_capture`, `encode` | engine |
| Settings and sizes, `asio/src/settings.rs`, `driver.rs`; panel, `panel/src/main.rs` | two registry values; the rate, the listed rate and the session's size; the settings thread | `change_settings`, `save`, `get_buffer_size`, `set_sample_rate`, `create_buffers`, `watch_settings` | the registry's change notification; the ASIO host |
| Control panel, `panel/src/main.rs`, `audio.rs` | the dialog's controls, the meter and its thread, `TEST_RUNNING`, `TEST_ERROR` | the timer, the test buttons, the box of the meter, closing | the card as any program sees it; the settings |
| Setup, `setup/src/main.rs`; `DllRegisterServer`, `asio/src/lib.rs` | what is installed: files, packages, certificates, registry keys, the entry in Settings > Apps | install, uninstall | Windows, which may ask for a restart |
| COM reference counts, tools, bindings | | | see `PROJECT.json` |

What makes each part correct:

* *Session buffers*: one played frame answers one captured frame at a constant
  latency; a late host hears silence, loses input only after that, and is back at
  the same latency when it has caught up; no wake-up is lost.
* *Control plane*: the counts that decide when the engine stops and when the rate
  is forgotten are right after every failure; the engine runs exactly while it is
  needed and at the clock's rate; no completion routine meets a stream that is
  gone; only its owner ends a session.
* *Engine*: when `stop` returns nothing of the engine is used any more, a playback
  transfer has one user at a time, and `stop` returns.
* *ASIO driver*: one streaming thread per session; buffers outlive the thread that
  uses them; no call waits for itself, but for the one case of section 5.
* *Packets*: a packet accepted from Windows is played as written, a packet reported to
  it is complete, and what it is notified of it can ask for, with its start.
* *Resampler*: output stays at the exact ratio for ever, and what it is made of is in
  the history.
* *Settings and sizes*: a size that was offered is taken, and a host whose session has the
  wrong rate or size, by its own doing or by the panel's, is asked to build it again.
* *Command protocol*: after `sync` nothing is dropped; the rate reported as set is the
  card's, until a command is given up before its answer came (section 5).
* *Mode 2 format*: the card hears the frames that were encoded, also where a sample is cut by
  the end of a packet, and the driver reads those the card sent.
* *Control panel*: no peak and no error is lost between threads, and the dialog never hangs.
* *Setup*: what a run says at its end is true, whatever failed before it, and at no time does
  anything visible point at what is gone.

The behaviours that are hard: two locks with different reach, completion routines
on several processors that send transfers again from inside themselves, an engine
start that may fail half way, sleep, a host that is late or calls back from
callbacks, rings that overwrite, and an installation in a dozen steps of which each may be the last.

## 2. Plan

| # | Module | Models | State |
|---|---|---|---|
| 1 | `SessionBuffers`, `Fifo`, `MCSession`, `SessionBuffersProofs` | levels of a session's rings, streaming thread; the ring itself | done, proved |
| 2 | `Audio` against `DeviceClock`, `MCAudio`, `AudioProofs` | control plane | done, proved |
| 3 | `Engine`, `MCEngine`, `EngineProofs` | transfers, start and stop | done, safety proved |
| 4 | `AsioDriver`, `MCAsioDriver`, `AsioDriverProofs` | host thread, streaming thread, settings thread, driver mutex | done, safety proved |
| 5 | `RtPackets` | cursor, packets, `current_packet` and the packet requests | done, proved in 7 |
| 6 | `Resampler` | phase and history window | done, proved in 7 |
| 7 | `RtStream`, `MCRtStream`, `RtStreamProofs` | composition of 5 and 6: `render`, `capture` and the rate of the card; implements 6 | done, proved |
| 8 | `UsbCommand`, `CardProofs` | toggles, retries, stale replies | done, proved |
| 9 | `BufferSizes`, `MCBufferSizes`, `BufferSizesProofs` | settings, sizes and rates from the panel to a session | done, proved |
| 10 | `Mode2`, `MCMode2`, `CardProofs` | layout of packets, frames of lost packets, as pure operators | done, proved |
| 11 | `Setup`, `MCSetup`, `ProgramsProofs` | installing and uninstalling with steps that fail | done, proved |
| 12 | `Panel`, `ProgramsProofs` | meter and output test: their flags, errors and ends | done, safety proved |
| 13 | composition of `Audio` sessions with `AsioDriver` | two hosts that compete for the card | planned; each side is modelled against what the other shows it |

A theorem states each safety invariant and each action property of the passing runs. Next worth
proving: that `AsioDriver` sees of the kernel driver what `Audio` lets it see (13).

## 3. Modules

### SessionBuffers, Fifo, MCSession

Frames are anonymous, so only levels are kept; both rings are FIFOs that drop
their oldest frame, so a frame's latency is the number of frames ahead of it:
`Latency == input + Held + output`, where `Held` is the period the host works on.
The completion routine holds the audio lock for a whole transfer
(`Audio::process` wraps the loop over packets), so `Answer` takes the lock
(`left > 0`) and each `Packet(n)` captures n frames and renders as many. A transfer
may find no free playback transfer (`answered = FALSE`); then it captures only,
and `overrun` remembers it. The streaming thread waits (`Wake`), reads (`Read`),
runs the host's callback for as long as it likes, and writes (`Write`), until no
period is complete.

`Fifo` is the ring as the code has it, a vector with a start and a length: `Push`, `PushOver`, `Pop`.
`Queue(ring)` is the queue it stands for. That the two rings may be kept as levels rests on it:
`SessionBuffersProofs` proves what one frame does to the queue and the level, and `MCSession` evaluates
what many frames in a row do, which `SessionBuffers` counts in one step.

### Audio, DeviceClock, MCAudio

One action per piece of code between two points where another thread can change
what it reads next. The control lock is held across engine start and stop; the
only interleavings inside that matter are during an engine start, because
`claim_rate`, `release_rate`, `run` and `pause` take the audio lock alone. So
`Prepare`/`PrepareStarts`/`PrepareFails`, `StartAsio`/`AsioStarts`/`AsioFails` and
`TakeAsio`/`AsioStopped` are separate actions with `control` naming the holder's
place, and everything else is one action. `pending` holds the stop requests that
passed the first check of `stop_asio`; a handle's cleanup and its own stop request
can both be under way (`Calls`).

Assumed of the environment: ACX calls a stream's callbacks in the order create,
prepare, run, pause, release, destroy (release directly from run is allowed, as
`release` provides for it); the framework dispatches power-managed requests in D0
only and finishes them before D0 exit, while closing a stream or a handle is
possible at any time; a handle is not closed while its own start request runs,
which is how `duplex.rs` uses it. A device whose `restore` fails stays in
"failed", so the runs do not check for deadlock.

`DeviceClock` is the abstract specification: users, session, rate. `Audio` maps to
it with the existing streams as users.

### Engine, MCEngine

A transfer is unsent, with the stack, or in its completion routine, whose steps are
the accesses to `running`, `busy`, `in_flight` and the two sends of the code.
`send` counts a request before it sends it; both halves are actions. A routine that
has sent its own transfer again has only the final decrement left; it is
counted in `leaving`, since by then the transfer can be completing again on another
processor. `stop` purges the capture pipe, then the playback pipe, each until the
target holds no request, polls `in_flight`, restarts the targets and frees the
transfers. Routines are DPCs, so no more run at once than there are processors. What the transfers
carry is in `Mode2`; `MCEngine` extends both, so that the run also evaluates `MCMode2`.

### AsioDriver, MCAsioDriver

`duplex[s]` is a session with its `Duplex`: whether its buffers and events exist,
whether its device handle still leads to a device, `running`, the thread handle, and the
two events. `call[t]` is the call a thread has under way: `Start`, `Stop`,
`CreateBuffers`, `DisposeBuffers`, `Release` are the parts up to the first point where the call waits (for the
device, the host, or a thread), `BuffersCreated`/`CreateFails`, `Started`/`StartFails`, `Stopped`, `Dropped`, `WatchJoined`
the rest. `start` and `create_buffers` keep the mutex between their two parts: the one while the device starts, the
other while it asks the host whether it takes time info and while it opens the device. The host may use a getter
from that question too (`CreateAsks`, `FromCreate`); it then waits for the mutex of its own call. A streaming thread waits, reads, is in the host's `bufferSwitch`,
writes, or is asking for a reset; in the two callbacks it may itself make the calls in
`FromSwitch` and `FromReset`. The settings thread asks for resets too. The kernel driver is
what its property set shows: whose session runs, how many periods wait, and nothing
while the card is gone, asleep or out of transfers (`stalled`).

Assumed of the host: it makes one call at a time that changes something (getters come
at any time), and releases the driver only when no call is under way, as COM has it.
WAIT_MS is many periods, so a wait runs out only when no periods come. A reset that
`start` or `set_sample_rate` request at their end, on the host's thread, is the host between two calls.

### UsbCommand

A bulk endpoint drops a transfer that carries the toggle of the one before it, and
the card keeps its toggles when the host's are reset. `host` and `firmware`
hold the toggles of both directions; `Transmit` and `Fetch` are one transfer
each. `Open` is `open` or `restore` up to the call of `sync`, whose loop is
`SyncSends` with `SyncReceives`, `SyncTimesOut` and `SyncGivesUp`;
`Ask`, `AskReceives`, `AskTimesOut` and `AskGivesUp` are `set_audio_params`.
`Reply::parse` is modelled by the kinds of message it tells apart. The firmware
takes one command at a time: what it will answer is `owed` until `Answer` queues it for
the host, before or after the timeout (`Slow`), and a command sent meanwhile is not
taken (`SyncNotSent`, `AskNotSent`). It sends reports on its own and holds `Room` messages.
These are assumptions about a device the repository knows from the outside only.
Transfers that fail otherwise mean that the card is gone.
`disturbed` and `missed` are history variables: `sync` and `set_audio_params` may fail only if a
report or a late answer took part, and `missed` says that a command since the last `sync` was given up before its
answer came.

### BufferSizes, MCBufferSizes, BufferSizesProofs

The registry holds two values (`stored`), which the panel writes one after the other
(`SaveRate`, `SaveMultiple`) and everyone reads with `Load`. `listed` is `listed_rate`;
`Accepts` is the check of `create_buffers`, `stale` the session's `stale_size`. The settings
thread is one action per step between two looks at what others change: `WatchArms` registers, `WatchWakes` takes
the event, `WatchCompares` loads, `WatchApplies` looks at the session with the driver locked,
`WatchAsks` asks without the lock. `armed` is what Windows keeps for the registered key: one
notification per registration, and one at once for what changed in between on the same handle.
`asked` says that the host was asked to reset since its session was built; a host may
answer at any time, or never. Two fields of `session` are history: the multiple at its creation, and
whether the settings thread knew it then (`followed`). How calls wait for each other and for
threads is in `AsioDriver`, which has no sizes.

### RtPackets, Resampler, RtStream, MCRtStream

`RtPackets` has the packets, `Resampler` the converter, and `RtStream` composes them.

In `RtPackets`, `advance` runs under the audio lock, but its three last steps (`StoreCurrent`,
`StoreStart`, `Notify`) are seen by requests that take no lock, so they are
actions of their own; the move of a frame before them is one (`Move`). The requests of Windows are split
where they load: `GetCapturePacket`/`GetCaptureStart`. `content` is what
Windows wrote into each place of the ring. A write that Windows announces with
`SetRenderPacket` was made after it had asked for the current packet, at any speed.
Windows allocates packets before it prepares the stream, and makes one request at a time. Numbers are
not reduced modulo 2^32.

In `Resampler`, the position of the next output is `center + phase / up` in input frames. `Reset`, `Clear`,
`Push`, `Pop` are the operations of the converter; `Next` lets `Push` happen only when `pop`
returned nothing. A frame's place in the history is its number modulo
`HISTORY`, so a frame is still there while fewer than `HISTORY` newer ones
were pushed; a frame before the first has the place of a frame not pushed yet, which is
silent under the same condition.

`RtStream` has `render` and `capture` step by step (`call` is the place in them), with the code's `gcd`
for the ratio. The rates of stream and card may agree (`Direct`) or not, and the card's changes whenever
the engine starts again (`EngineRestarts`), between two calls. `render` pops, and pushes the next frame
of the ring while there is no output; `capture` pushes, and moves every output into the ring. One call
may complete a packet, so the steps of `advance` are between the others. `Prepare` of the packets and `Clear`
of the converter are one action, `reset`. `MCRtStream` evaluates `CardFits` for the card's real
kernel, history and all 20 conversions: this is what
the proofs assume of the constants.

### Mode2, MCMode2

Operators only. A packet is a sequence of bytes; `decode_capture` and `encode` give what the functions
of `mode2.rs` return for a whole packet, as functions of the place in it, instead of the loop. `encode`
takes and returns the `tail` of the encoder, the two bytes of the sample that ends in the next packet.
`Captured` and `Heard` are the other side: the card, after the layout in mode2.rs:7-16. Samples are signed,
of 24 bits. `nominal_frames` is `Codec::nominal_frames` of `stream.rs`.

### Setup, MCSetup

A run of the setup program is one step per call that changes the computer: test signing, the driver's
files, the certificate in both stores, each published package removed, the new one added, the
programs, the registration of the ASIO driver by `regsvr32`, the shortcut, the entry; and back
(`Installing`, `Uninstalling`). Any step may fail and end the run (`Fails`; `AddPackageFails`,
`RegisterServerFails` and `RegisterUninstall(FALSE)` are failures after half of the work), and Windows may restart
between any two. Deleting a folder deletes its files one by one up to one that is in use. The installed
copy cannot delete itself, so `HandOver` goes on in a copy. The next run, of any build, begins in what is
left; `IgnoredMay` lets the calls fail whose errors the setup ignores, and `ignored`
remembers it.

Assumed: one setup runs at a time; each build has a certificate of its own; a file is written in one step;
the published INF files can be read, so `PackagesRemoved` knows when none is left. The delayed deletion of the
temporary copy is not tracked.

### Panel

`ui` is where the dialog's thread is: `waiting`, or inside a handler between two accesses to what threads
share. `update_meter` is `TickRunning`, `TickTestError`, `TickMeterFailed` or `TickMeterRuns`, and `TakePeaks`, in
the code's order. The thread of a test leaves its error (`TestFailed`), then its flag (`TestDone`). The thread
of a meter loads and exchanges the peak (`LoadPeak`, `ExchangePeak`, `ExchangeFails`, the loop of
`fetch_update`) while the dialog takes it. Dropping a `Meter` sets its flag (`BeginDrop`) and waits for the thread
(`MeterStopped`, `MeterDropped`, `Closed`); a later meter is another one. One of the two channels is modelled.
What the panel does with the settings is in `BufferSizes`. The specification has names of its own
(`PanelInit`, `PanelNext`, `PanelSpec`), for `ProgramsProofs` extends `Setup` too.

## 4. Runs

| Run | Question | Bounds and why they suffice |
|---|---|---|
| `session` | all properties of `SessionBuffers`; what many frames do to a `Fifo` | period 3, transfer 2, packets of 0..2 frames, 2 per transfer: a period that is no multiple of a transfer, a ring that fills and overflows at every alignment; the counters saturate at 9; rings of up to four places, turned to every place |
| `session_after_drops` | does the latency come back after drops? (violated) | same |
| `audio` | all safety properties of `Audio` | two streams of one slot replace each other, two handles compete, two stop requests of a handle overlap, two rates |
| `audio_clock` | does the clock follow `DeviceClock` without exception? (violated) | same |
| `engine` | all properties of `Engine`: does stop return, and is nothing used then? And the layout of packets | three captures and two playbacks, so that answers run out; three processors; packets of up to two frames with all pairs of samples from the edges of their range |
| `asio` | all properties of `AsioDriver`: safety, calls return, a lost device is noticed | one session that is created, started and disposed again and again, and two streaming threads, so that an ended one can overlap its successor; a ring of one period; a host that uses getters from every callback, the question of `createBuffers` included |
| `asio_self_stop` | do buffers outlive their use if the host stops from `bufferSwitch`? (violated) | as `asio` |
| `sizes` | all properties of `BufferSizes` | the code's rates and multiples, of which two each are used: the smallest size differs at these rates, and a multiple of one is that of another |
| `usb` | all properties of `UsbCommand` | the code's 4 and 8 attempts; room for four messages, so that reports and late answers together use up all 8 attempts |
| `stream` | all properties of `RtPackets`, `Resampler` and `RtStream` | two packets of two frames, six frames: each place of the ring is used again; three rates, of which two have a small ratio and two a large one; a converter of 8 frames of history, which wraps |
| `panel` | all properties of `Panel` | two meters, so that one can follow another; three levels |
| `setup` | all properties of `Setup` | two builds with files, to update and go back, and one without; the state is finite without further bounds |

`UsesAreCounted`, `EngineMatchesUse`, `ThreadsEndFirst`, `LatencyBounded`, `OnlyOwnerEnds`, `CountedUntilQuiet`,
`CaptureIsAnswered`, `RatioIsExact`, `ConverterFits` and `OutcomeIsTrue` are conjunctions of named parts that stand or
fall together. Each property has a mutant in the module (an operator named after the definition it
changes) that the property catches in its run.

**Fairness.** `Engine`: a thread that has begun `stop` runs on, DPCs run to
their end, and the USB stack completes transfers or cancels them at a purge: weak
fairness on each. `AsioDriver`: the device answers, callbacks make finitely many
calls and return, whoever waits for the mutex gets it in the end, and the host is not
late for ever (`HostKeepsUp`): `drain` looks at the stop event only when no period is
left, so without the last one `stop` need not return. That is a premise of `CallsReturn` and no claim about hosts;
with `SelfLocked`, where a host has locked itself out, it names the two ways in which a call does not return. `Panel`: the timer ticks again and again between the
user's clicks (strong fairness, for it has to find the dialog waiting), handlers and threads go on, a test
comes to its end, and the card sends no more packets than the meter's thread takes (strong fairness on
`NoMorePackets`: it looks at its flag only when none is left). The dialog may be closed for good, so
that run does not check for deadlock.

## 5. What the runs found

* **Latency after drops** (`session_after_drops`). `captured` counts captured
  frames, not frames in the ring. When a full ring drops frames, the event no longer comes where a
  complete period becomes available; a complete period then waits for the next event
  and the latency stays higher for the rest of the session, by up to a period minus one
  frame. The doc of `Buffers` and one test say that the latency is kept; the host of the
  test polls after every frame and cannot see it. Without drops the latency does come back
  (`LatencyRestored`, proved).
* **A stream without a rate** (`audio_clock`). `start_asio` remembers the rate from
  before it, starts the engine for as long as that takes, and when that fails restores what it remembered.
  A first stream created in between saw a rate and was counted, and now `rate` is
  `None` with a stream left.
  From there the stream is prepared at its own rate, a second stream may claim another, and a
  session at that second rate finds the shared rate unchanged and the engine running, and runs on an
  engine of the first rate.

The other properties of `Audio` are stated with the ghost `rateLost`, which is set in exactly that case.

* **Stopping from bufferSwitch** (`asio_self_stop`). `join_worker` lets a host stop
  from a callback of the streaming thread, without waiting for that thread, whose handle is
  gone then. If the host disposes its buffers before the callback has returned, the thread
  copies output from buffers that are freed. If it starts again instead, `start` resets the stop
  event before the thread has looked at it, and the thread streams on next to the new one
  (`OneStreamingThread` fails in the same instance). From a reset request both calls
  are safe (`asio`): the thread uses nothing of the session any more.

Met while modelling, without a run of their own:

* **A getter from the question of createBuffers** (`AsioDriver`). `create_buffers` takes the driver mutex at
  src/asio/src/driver.rs:431 and holds it while it calls the host (`asio_message`, 491-493) and opens the device. A host that
  uses a getter from that callback waits for its own mutex for ever, and every later call with it; TLC reaches
  `SelfLocked` in two steps. `stop` and `signal_stop` release the mutex for exactly this reason: "The streaming
  thread may be in a host callback that calls back into the driver, so it has to end without the driver locked"
  (driver.rs:282-283), "without holding locks the host's callbacks may need" (duplex.rs:217-218). `CallsReturn` holds of all
  calls until that happens and names the exception.
* **A host that is always late** (`AsioDriver`). `drain` (src/asio/src/duplex.rs:307) reads on while a period is complete and does not look at
  the stop event, so `stop`, `dispose_buffers` and `release` wait for a host that never catches up. `CallsReturn`
  assumes that it does (`HostKeepsUp`).
* **A late answer taken for another** (`UsbCommand`). An answer carries no number, and `set_audio_params`
  (src/driver/ak1-acx/src/usb.rs:119-130) takes the first one that comes. The card obeys 44100, its answer comes after the
  timeout; the driver asks for 192000, which the card refuses, and takes the old "accepted" for success: `rate` is
  192000 and the card is at 44100. `Engine::start` says that it "Configures the device for `rate`"
  (src/driver/ak1-acx/src/stream.rs:117). Nothing between the timeout and the next `sync` prevents this, so `AnswerIsOwn` excepts that
  time (`missed`): without the exception TLC finds this trace. That a `sync` ends the exception is what is left to
  show: it leaves no such answer behind, although it takes and skips whatever it finds.
* **A first packet without a start** (`RtPackets`). `advance` stores the number of a complete packet before its start
  (src/driver/ak1-acx/src/rt.rs:196-197), and `evt_get_capture_packet` reads both without a lock (378-379). A request between the two stores gets
  the start of the packet before; for packet 0 that is the 0 of `reset`. `CaptureIsAnswered` allows these two, and
  the start of the next packet for a request whose loads that packet's completion falls between. `NotifiedIsAnswered` shows that from
  its notification on a packet never has an earlier start or none.
* **What an uninstallation leaves** (`Setup`). `certificate` takes back the trust in the certificate the
  setup carries, so after an update by a build with another one the earlier build's stays in both
  stores (`RemovedIsGone` speaks of the build that says so). README.md:36-37 says that uninstalling removes all of it
  except test signing.
* **An entry without its setup** (`Setup`). The entry in Settings > Apps is the last to go (src/setup/src/main.rs:191),
  after the setup it runs: an uninstallation that fails between the two, because a file of the driver's folder
  cannot be deleted, leaves a button that does nothing. `NothingDangles` excepts this case and holds otherwise.
* **Frames read ahead** (`RtStream`). When the card goes back to a rate it had, the converter still
  holds the frames of that time and plays them first (src/driver/ak1-acx/src/rt.rs:104): `StartsOver` starts over only if
  the last rates were others.
* **Answers out of order** (`Engine`, `Mode2`). Two routines encode under the audio lock and send after it
  (src/driver/ak1-acx/src/stream.rs:328), so packets may be sent in another order than encoded, or not at all; the first sample of
  the packet that follows then ends another one. `PacketsJoin` is about packets in a row.

## 6. Proofs

`AsioDriverProofs`, `EngineProofs`, `AudioProofs`, `SessionBuffersProofs` and `BufferSizesProofs` are each about
the module they are named after; `RtStreamProofs` is about `RtPackets`, `Resampler` and `RtStream`, `CardProofs` about
`UsbCommand` and `Mode2`, and `ProgramsProofs` about `Setup` and `Panel`. Most of the inductive invariants were
first checked by TLC in the runs. `Spec` is the specification without its fairness, which safety does not need.

**SessionBuffers.** `SessionBuffersProofs` proves every property of `SessionBuffers` but the violated one for all
periods, transfers and packet sizes with `PacketMax <= Transfer`. The invariants are not
inductive alone: `IInv` adds `Aligned` (while nothing was dropped, the unread frames are
whole periods and the period under way, which is why the event comes where a period
ends), `BacklogBounded` and `OverrunSeen`. One lemma per action shows that it
preserves `IInv`; arithmetic on `%` and on sums is in lemmas about
numbers that the steps cite. `SilenceMeansLate` is an action property
that follows from `LatencyNeverShrinks`: when output has run out, the
latency is all input. Its last part proves that a ring of any capacity is a queue that drops its oldest frame when full
(`PushAppends`, `PopTakesOldest`, `PushOverDropsOldest`), from where its slots lie: `Wraps`, `Slots`, `SlotsDiffer`.

**Audio.** `AudioProofs` proves every safety property of `Audio` for all finite sets of streams
and files, any slots and rates, from `AudioAssumption`: each
stream has a slot, streams are finite, and the "no value" constants are not members. The
invariant `IInv` adds to the checked ones:

* `JobIsSafe`: what the holder of the control lock relies on between its own steps:
  the stream it prepares is still there, a session that is starting still has its
  rate in `shared`, no other session or engine has begun meanwhile. It is
  the reason why the audio lock alone may let others in during an engine start.
* `EngineStays`: `EngineRuns` also while `stop_asio` has taken the session and
  not yet finished, from where `StopAsio` returns to "free".
* `UsersHaveRates`: every stream and the session have a rate of their own, which
  becomes the shared one while they wait for the engine.
* `RateIsCounted`: the rate is `None` exactly while `streams` is 0, unless
  it was lost. With `StreamsCounted` it gives `ClockSetWhileUsed`.
* `FreshIsUnused`: before the first D0 entry nobody uses the engine.

Counting is the part that needs lemmas: `StreamsCounted` and `PreparedCounted` are about
cardinalities, and `Counting`, `Moving` and `TwoExist` say how they change when one
stream changes its state. One lemma per action shows that it keeps `IInv`
(`StartAsioKeeps`, `ReleaseKeeps`, ...), and `ClockIsFollowed` shows, action by action,
that each step is a step of `DeviceClock` or leaves its variables alone; `LastUser` says when
the step that drops the last user clears the rate.

**Engine.** `QuietWhenFreed` (`CountedUntilQuiet`) and `OneUser` (`PlaybackExclusive`) hold for any finite sets of transfers and any number of processors.
`in_flight` is a sum of five counts, four of them cardinalities, so a step that changes it has to move one transfer or
routine across the boundary that one of them counts, and a step that does not must leave their sum. That needs to know where a transfer is before the step: `SentInTurn` (start
sends each transfer once, from "unsent"), `Claims` (a routine has a playback transfer from its claim to its
answer) and `Exclusive` (no other routine has it, the stack does not, and `busy` says so). `CountOne` says how the cardinality of a
set changes with one element; `CaptureMoves` and `PlaybackMove` apply it to the sets that are counted, and `CaptureCounts`,
`PlaybackCounts` and `ControlCounts` go through the actions. `TypeCorrect` then says that `in_flight` is a natural number, which
the count gives and no step does by itself.

**AsioDriver.** `ThreadsEnd`, `KernelFollows` and `ResetsNeeded` hold for any number of sessions and streaming threads, under
one condition, `StopsElsewhere`: the host does not stop, dispose or release from `bufferSwitch`. Without it the properties are
false, as `asio_self_stop` shows; what the host does from a reset request stays free. The invariant has one control call at a time, from a thread that does not stream
(`OneControl`), what a call that waits has already done, and that there is no session while one is created (`CallsWait`), and the reason why no
thread outlives its buffers: a thread that streams is the one its session holds, or the one a call under way is waiting for
(`ThreadsAreKnown`). `KernelRuns` ties the kernel driver's session to it, whether the card is there
or not; `ObjectLast` orders the end of the object. Most steps change none of this: `Quiet` says what they leave
alone, and `QuietStep` is proved once for all of them.

**RtPackets.** `AcceptedPlays`, `CaptureAnswers`, `NotifiedAnswers` and `AcceptedEarly` hold of streams of any length, for any number and
length of packets. `Numbered` and `Stamped` say what `current_packet` and the
two starts are in terms of the frames moved, at each of the three places of `advance` where a request may
look, and `Notified` which packet Windows was notified of last; `EngineKnows` says which of what Windows was told is still true while it acts on it; `AcceptedIsKept` is why the packet
survives: Windows writes only the next one. They are proved for whatever `RtStream` does to its packets (`PacketNext`),
then `StreamMovesPackets` says that it does nothing else.

**Resampler and RtStream.** `RatioIsExact` and `ConverterFits` hold for all ratios, kernels and
histories that satisfy the `debug_assert` of `reset` (an assumption on constants that TLC
evaluates for the card's rates, `CardFits`). `IInv` adds `Ahead` (no more is pushed than the next output needs)
and `OutFollowsIn`. The products are taken apart by two lemmas about numbers, `Distributes` and `Grows`;
`Division` and `QuotientGrows` are all that is used of `\div` and `%`.
Every step of a stream is a step of `Resampler` or leaves the converter alone
(`ConverterUsedInTurn`: the stream implements the converter's specification, with the identity as refinement mapping), so
both properties hold of streams of any length, and so does `NothingOldIsHeard`. The
invariant `SInv` adds to it that within `render` and `capture` the stream runs and a
conversion is under way (`CallsConvert`), and that `capture` leaves no output behind (`Drained`), which is why its next push
is in turn.

**UsbCommand.** `SyncAlignsBoth` needs nothing of the attempts: a transfer flips the toggles of both sides, or
one side's if it is dropped, so the first transfer in a direction makes them agree
(`TransmitAligns`, `FetchAligns`); sync sends one in each attempt and ends with one it took. `AnswersAreOwn` rests on the firmware
taking one command at a time: the answer to the last command is the last answer of all that come
(`AnswerComes`, `Own`), and the only one while none was `missed` (`NoneBefore`). A `sync` ends with an answer to a `sync`, behind which
no answer to a command comes (`InfosLast`), so none is left when it returns; and a command that is given up has
taken all that came before its answer (`Leftovers`). `AttemptsAreEnough` is for
`AttemptsAssumption`: at least three attempts of `sync`, and more attempts at a reply than the firmware can
hold messages. The code's 4 and 8 are such numbers if the firmware holds at most 7, which is an assumption about the
device. An attempt of `sync` that is not answered has aligned one more direction (`SyncGains`); an attempt at a reply
uses up a message that was there when the command was sent (`Ahead`), so at the last attempt the answer comes.

**Mode2.** What the operators of `Mode2` compute, for packets of any length: a sample survives its three bytes
(`SamplesSurvive`), the card hears what was encoded (`EncodedIsHeard`), frames that are encoded packet by packet
give the same bytes as those encoded at once (`PacketsJoin`), a packet of the card is read as it was
sent (`CapturedIsRead`), and the frames of lost packets neither gain nor lose (`LostKeepPace`). `Places` takes the number of
a byte apart into block, place and stream; the rest is about sequences.

**BufferSizes.** `MismatchIsReported` and `ChangeIsAsked` hold for any rates, multiples and
sizes. `ChangeIsOnItsWay` follows a change: until the settings thread has loaded it, the thread is notified,
has been woken, or its next registration will notify it; from then on until the host is asked, the thread is
applying or asking. `WaitsArmed` says that a thread that waits will hear of the next change.
`OfferedSizesFit` (`SizesFit`) is about numbers: `next_power_of_two` takes the least power that is enough (`Least`,
from the exponents 0 to 20), so larger rates have no smaller sizes (`PowersGrow`, `TransfersGrow`, `SizesGrow`), and every size lies between 1 and the largest
multiple at the largest rate (`SizesAreBetween`). `PeriodAssumption` is what it takes of the constants: the
kernel driver's limit is at least that largest size, and no transfer is longer than 2^20 frames. TLC evaluates it for the code's rates,
multiples and limit.

**Setup.** All four properties, for any set of builds, whatever earlier runs have left and wherever a run
ends. They are about the moments between runs, so `SetupInv` says what a run knows at each of its steps: what an installation has
`Written` is its own, it has `Trusted` its certificate before it touches packages and removed all packages but its own
before it copies programs, what an uninstallation has `Removed` is gone unless an error was ignored, and a restart that is owed is
`Remembered`. Each step adds one line to these and keeps the lines before it; a
failure at any of them leaves what `PackageIsTrusted` and `NothingDangles` allow.

**Panel.** `OutcomeComesFirst` (`OutcomeIsShown`): the buttons stay disabled from the start of a test to the tick that
finds it over, and an error that was not shown is behind disabled buttons or in that tick's hands (`TestInv`).
`NoPeakIsLost` (`PeaksAreKept`): taking the peak and raising it are one step each, so the peak stays
that of the frames measured since the dialog took the last one, in any order. `InputsFollowTheBox` (`MeasuredWhileOn`): a thread that is not away belongs to
`meter`, and the box follows `meter` but for the handlers that are switching it off (`MeterInv`).

**Only model-checked:** liveness (`StopReturns`, `CallsReturn`, `LossIsReported`, `DialogAnswers`), for fairness and
ENABLED are out of the prover's reach; what a loop over many frames does to a `Fifo` (`MCSession`), which needs
induction over data; and the three properties that runs show to be violated.

## 7. Not modelled

Filter coefficients and the mixing of samples, formats offered to Windows, the layout and text of the dialogs, the
bindings (tables and declarations) and the command line tools, which are not part of the product; see the components in
`PROJECT.json` for each part's reason. Of the
modelled parts: the COM reference counts of the ASIO driver; a change of the settings that falls between
listing and creating buffers, or before the settings thread has first registered; the order in which two completion routines send their answers, and
an engine whose transfers all failed (these are listed as hazards, with their reasons); two setups at the same
time; the level the panel shows after its meter was switched off and on (src/panel/src/main.rs:273 keeps the
last one).

# rtlsdr433 native layer: verification

The repository is the native layer of an Android application that receives 433 MHz sensors with an
RTL-SDR dongle: a JNI bridge (`src/rtlsdr433.cpp`, `src/android_bridge.c`) around a copy of rtl_433
(`src/rtl433/`) whose `rtl_433.c` has an Android block in place of `main()`. This directory specifies
it in TLA+, checks the specifications with TLC on small instances, and proves the central invariants
with TLAPS for every value of their constants.

    cd tla
    tlc -config session.cfg AndroidSessionMC      # a run: see the table of runs
    tlapm AndroidSession_proofs.tla               # a proof module

`PROJECT.json` lists the components, runs, mutants, the source lines every definition stands for, the
hazards and the theorems.

## 1. The system

### How a signal becomes a line of JSON

    Java thread            start() ---------------------------------------------> blocks until the session ends
      rtl433_start():      init cfg -> open device -> create acquire thread -> loop { poll, watchdog } -> stop -> free
    acquire thread         librtlsdr -> rtlsdr_read_cb -> sdr_callback -> AM/FM demodulation
                             -> pulse_detect_package (packages of pulses) -> run_*_demods -> pulse slicer
                             -> bit buffer -> decoder -> data_t -> event_occurred_handler -> outputs
                             -> announce_output_line -> Java
    other Java threads     close(), isNativeRunning(), initNative(), releaseNative() at any time

On the desktop the acquire thread copies each buffer into a ring and sends a pointer to the main loop
with `mg_broadcast()`; the rest of the chain is the same. A raw output may pass every buffer on to the
thread of the rtl_tcp server.

### Inventory

State and operations of each part, the behaviour that is hard to test, and what makes it correct.

| part | state it keeps | operations | hard behaviour | correct means | model |
|---|---|---|---|---|---|
| Android session (`rtl_433.c` Android block, `rtlsdr433.cpp`) | `_is_running`, `exit_async`, `dev_state`, `watchdog`, `android_*` globals | `start`, `close`, `isNativeRunning`, run loop, watchdog | Java threads against the session against the acquire thread | one session at a time; a session cleans up whatever way it ends; `close()` ends it; a dead device is noticed | `AndroidSession` |
| SDR device (`sdr.c`) | `sdr_dev_t`: `exit_acquire`, `thread`, `lock`, buffer ring | open, start, stop, close, read loop, callback | cancel and join order; ring reuse while a consumer reads | the acquire thread is gone before what it uses is freed; a frame is not overwritten while it is read | `AndroidSession`, `DesktopSession` |
| Configuration (`r_api.c`) | `r_cfg_t`, `dm_state` | `r_init_cfg`, `r_free_cfg` | reused by every session of the process; a last poll in the teardown | nothing of one session is in use in the next | `AndroidSession`, `DesktopSession` |
| JNI bridge (`rtlsdr433.cpp`) | `g_javaVm`, `g_cls`, thread attachment, pending exception | `initNative`, `releaseNative`, two announcements | swaps of the class reference against announcements, JNI calls that fail | references neither leak nor are used or deleted after deletion; attach/detach balance | `JniBridge` |
| Package detector (`pulse_detect.c`) | state, counters, OOK `pulse_data_t` | `pulse_detect_package`, `pulse_detect_reset` | packages that span buffers; spurious pulses and gaps; full arrays | no sample lost, no slot outside the arrays, packages end | `PulseDetect` |
| FSK detectors (`pulse_detect_fsk.c`) | state, counter, FSK `pulse_data_t` | classic, minmax, wrap up | rewinds over earlier slots; shift when full | rewinds have something to rewind to, keep the samples | `PulseDetectFsk` |
| Frame tracking and grabber (`sdr_callback()`, `samp_grab.c`) | `frame_start_ago`, `frame_end_ago`, `frame_event_count`; byte ring | ageing, push, write | squelched buffers; unsigned ages and ring positions | a file holds the packages of the frame it is written for | `SampGrab`, `Frames` |
| Desktop loop (`main()`, `timer_handler()`, `sdr_handler()`) | `dev_state`, `exit_async`, messages | poll, timer, signals, restart | pointers into a ring in lost or late messages; handlers inside the teardown | no freed or overwritten frame is read; stopping ends | `DesktopSession` |
| rtl_tcp server (`output_rtltcp.c`) | latest frame reference, counter | frame, accept loop, stop | condition variable signalled outside the lock; a wait without timeout | no frame twice, none held back, an end noticed | `RtlTcpServer` |
| Dispatch (`r_api.c`) | device list | `register_protocol`, `run_ook_demods`, `run_fsk_demods`, test codes | priorities over an unsorted list | a lower priority only runs when none before produced an event | `Decode` |
| Slicer (`pulse_slicer.c`) | the bit buffer of a package | nine modulations, test codes | deliveries in the middle and at the end of a package | every bit is delivered, once, as it was sent | `PulseSlicer` |
| Bit buffer (`bitbuffer.c`) | cells, `num_rows`, `free_row`, widths | add bit, row, sync, invert, recode | rows that spill into the next, a full array | rows never overlap, and keep their bits | `BitBuffer` |
| Device list (`list.c`) | array with a NULL end | push, remove, clear | growth at the boundary | always terminated | `ListData` |
| HTTP server, MQTT, Influx, UDP, trigger outputs | connections, message history | handlers, reconnect timers | - | - | not modelled: mongoose's state machine and formatting |
| Event distribution (`r_api.c`) | output list | `event_occurred_handler` | - | - | not modelled: a loop over outputs, values rewritten |
| Baseband DSP | filter histories | filters, discriminator | numeric | - | not modelled: fixed-point numerics |
| 263 decoders, parsers, file formats, analysers, utilities | none across calls | - | - | - | not modelled: pure functions of their input |
| mongoose, jsmn, getopt | - | - | - | - | vendored |

librtlsdr, libusb, pthreads, sockets and JNI are external; they are modelled from how the code uses them.

Most of the repository's lines are the 263 decoders, which turn a bit buffer into a message without any
state, and the vendored mongoose. A decoder appears in `Decode` as what the code around it can tell of
it: any function that finds messages or not and may recode its buffer.

## 2. Plan, and what is left of it

Written in the order of what every user depends on: the session and its contract; the JNI bridge; the
detectors; then the rest of the path of a sample (`Frames`, `Decode`) and the two other places where
threads meet (`DesktopSession`, `RtlTcpServer`). Each component has its theorems in a module of its own.

What could be added:

- hopping and SIGHUP in `DesktopSession`, and the rtl_tcp server composed with its ring;
- the end of `rtltcp_server_stop()`, once the code has one that can be specified: it frees what the
  thread still uses;
- the HTTP server's ring of past messages and the reconnect timers of MQTT and Influx, over a model of
  mongoose's connections.

## 3. Modules

| module | models | composed with |
|---|---|---|
| `SessionContract` | abstract: what a session promises: one holder, device opened and streamed once, given up closed | refined by `AndroidSession` |
| `AndroidSession` | JNI `start`/`close`/`isNativeRunning`, `rtl433_start()`, `android_run_sdr_loop()`, `start_sdr()`, the RTLSDR paths of `sdr.c`, `r_init_cfg`/`r_free_cfg` | |
| `AndroidSessionContract`, `AndroidSessionInv` | the refinement mapping (`KeepsContract`); the inductive invariant `IInv` | |
| `JniBridge` | `rtlsdr433.cpp` without the session calls | |
| `PulseDetectFsk` | `pulse_detect_fsk.c`, `pulse_data_shift()`, as functions on a record | used by `PulseDetect` |
| `PulseDetect` | `pulse_detect_package()`, `pulse_detect_reset()` and their calls in `sdr_callback()` | |
| `SampGrab` | `samp_grab.c`: the ring and the positions of a file in it, as functions | used by `Frames` |
| `Frames` | `sdr_callback()` around the detector: ages, squelch, frames, grabbing, the end of a file | assumes of packages what `PulseDetect` shows |
| `BitBuffer` | `bitbuffer.c`, with the specification `BufferSpec` of any client | implemented by `Decode` |
| `PulseSlicer` | the slicers as sequences of calls on the buffer | used by `Decode` |
| `ListData` | `list.c` | used by `Decode` |
| `Decode` | registration, dispatch by priority, slicing, delivery | |
| `LineCodes` | what a sender does: when a train of pulses carries a message in a line code (`Sends`) | what `RoundTrip` is about |
| `DesktopSession` | `main()`, its handlers, `start_sdr()`, the acquire thread with its ring, `r_free_cfg()` | |
| `RtlTcpServer` | `rtltcp_broadcast_send()`, `accept_thread()` | |
| `PartialSums` | `SumBelow(a, n)`, the sum of the first `n` entries of an array | used by `PulseDetect`, `Decode` |
| `AndroidSessionMC`, `JniBridgeMC`, `DecodeMC` | constants for TLC | |
| `*_proofs` | theorems, in a module per component; `Decode_proofs` has those of `BitBuffer`, `PulseSlicer` and `ListData` too, `PartialSums_proofs` the lemmas about sums | |

### AndroidSession

State: `pc[s]` is where the Java thread `s` stands in `start()`; the other variables are the C globals
and fields they are named after, reduced to what the properties tell apart: `watchdog` is only zero or
not, `settings` one of the three strings the code can put there, `dev` the open device with the
descriptor and settings it was opened with, `acq` the acquire thread. `closeReq` and `ui` are history: `ui` is what the application
shows and whether that is the latest a session announced. An announcement (`Tell`) arrives or is lost, as
`announce_device_stat()` returns early without a class, a method or an attached thread. A step is a
critical section or a stretch of code touching nothing another thread changes, so `Enter` (check-and-set
of `_is_running` under `g_run_mutex`) and `ClearExit` (`exit_async = 0`, outside it) are two steps,
`WatchdogTick` reads the counter in one and acts on it in another, `start_sdr()` creates the acquire
thread in one (`StartAcquire`) and sets and announces STARTING in the next (`AnnounceStarting`), so that
frames may be decoded in between, and `sdr_stop()` is `StopSignal` (under `dev->lock`) and `StopJoin`.

Three places call `sdr_stop()` in a session (the watchdog, the loop's end, `r_free_cfg()`); `ret[s]` is
where it returns to. `pthread_create()` may fail (`StartAcquire(s, FALSE)`), the device may not open
(`OpenFails`), the read may end with an error at any time (`ReadFails`), a frame may be too short to
feed the watchdog (`FrameDone(TRUE)`), the close may come at any time (`Close`).

Left out: what `sdr_apply_settings()` does with the settings, the sample rate and gain calls, the stats
report, logging. `CancelLatches` covers both behaviours of a `rtlsdr_cancel_async()` that comes before
the read has begun, which librtlsdr decides.

### JniBridge

A thread runs one call at a time; the sections under `g_jni_mutex` are one step each. JNI is external:
`NewGlobalRef`, `FindClass`, `AttachCurrentThread` and `GetStaticMethodID` may fail, the Java method may
throw. The two announcements differ only in the method they call, so they are one sequence of steps.

### PulseDetect and PulseDetectFsk

One step is one sample. Envelope samples are `high`, `mid` or `low` against the threshold and its
hysteresis, FM samples `up`, `flat` or `down`: what the adaptive estimators make of a real signal is some
sequence of these, and every sequence is allowed. Everything the properties are about is kept: the four
states, the counters, both pulse trains, the ages, the local `eop_on_spurious`, the early returns, the
call that is repeated after each package, buffers of several sizes, resets between buffers. An FSK
detector is a record `f`, and `Classic(f, fm)` and `MinMax(f, fm)` the state after one sample.

### Frames and SampGrab

A buffer is received (`Receive`: the frame ages, the squelch decides, the bytes are pushed), its
packages come one after the other (`Begins`, `Package`), and `EndFrame` decides what is saved. `Push` is
one turn of the loop of `samp_grab_push()`, a block. A byte of the input is its number, so that a file
can be compared with the input; positions and ages are the unsigned ones of the code. `signals` (the
packages since the last frame ended) and `file` (what was written last) are history. The detector is
what `PulseDetect` shows it to be: ages exact for the buffers it has seen (`missed` counts the squelched
samples it has not). `EndOfFile` is the reset and the cleared buffer behind each input file.

### Decode, PulseSlicer, BitBuffer and ListData

`Decode` registers and unregisters devices in any order, takes a package and runs the loop over
priorities and devices of `run_ook_demods()`. For each device `PulseSlicer` says what the code does with
one pulse as a sequence of calls (`todo`): add a bit, a row, a sync, deliver. Each call is one step of
`BitBuffer`, where row `r` begins at cell `r * RowBits` of one array, and a row that outgrows its columns
goes on in the rows behind it, as in the C code. A delivery hands the buffer to a decoder, which returns
any count and may recode (invert, NRZS, NRZM) what it was given. `pend`, `first`, `ran` and `won` are
history. Before its loop `pulse_slicer_pcm()` measures the bit width over the package, and so does
`BitWidth`: a preamble of toggles, the longest first, or bits within the tolerance anywhere; a width is a
number of bits and the samples they take (`Width`). Widths are counts of samples; the devices of `DecodeMC` have limits on either side of the widths
its trains are made of.

`LineCodes` says of widths, and not of slicers, when a train carries a message: in PPM, PWM and PIWM DC each
bit has a width within its tolerance, or without one nearer to what it means than to anything else; in PCM,
PIWM raw and Manchester the pulses and gaps are the runs of ones and zeros, each nearer to its number of units
than to any other (in Manchester, on its side of one and a half; in PCM off by no more than a jitter that is
small against the bit, the smaller the longer the run, since the receiver's own unit may be off as much:
`OffBy`); in NRZS a pulse is a run of ones and the 0
behind it, in DMC a 1 is two short symbols and a 0 a long one. `DecodeMC` makes the trains of its messages with functions that are recursive in the message, and its
assumption `SentIsSent` checks that what they make is sent in the sense of `LineCodes`.

### DesktopSession

The main thread (`pc`, `ret`, `after`), the acquire thread (`acq`), the ring of the open device
(`ring.gen` is its allocation), the queue of datagrams (`ctl`) and the message each thread holds. A poll
handles at most one message and then the timer, in the handler order of mongoose; `r_free_cfg()` frees
the device, then `mg_mgr_free()` polls once more (`last`), where both handlers run with `demod` and `dev`
gone. `Broadcast(lost)` may lose the datagram. `CopyAt` is the choice of the place in the ring. The four
`-D` modes are `devMode`. The state `crash` is a write through the freed `demod`.

### RtlTcpServer

`Publish` and `Signal` are the two halves of `rtltcp_broadcast_send()`, the second behind the unlock. The
client thread stands at one of eight places; `Wait` and `Take` are the section under the lock, `woken`
a thread that `pthread_cond_wait()` has returned in, by a signal or by itself. `behind` and `served` are
history. A client may connect while another is served, send commands, stop reading, end the connection
or reset it.

## 4. Runs

Runs that pass:

| run | instance | shows |
|---|---|---|
| `session` | 2 starters, 1 querier, 2 calls, lost announcements, fair, cancel takes hold; 155 k states | `OneSession`, `AcquireSafe`, `NothingLeftBehind`, `QuietWhenStopped`, `UiShowsStopped`; `KeepsContract`: the session implements `SessionContract`; `StopEndsSession`: once the loop can see `exit_async`, the session ends; `DeadDeviceStops`: silence ends it too |
| `jni_safety` | 2 Java threads, 1 native thread, 3 references, 5 calls; 7 k states up to symmetry | `NoLeak`, `DeletedOnce`, `AttachBalance`, `NothingPending` |
| `pulse` | 3 slots, 15 samples, every FM signal, either detector, buffers of 1 and 4; 2.78 M states | `IndexSafe`, `AgeExact`, `FskSpanExact` |
| `pulse_ook` | 4 slots, 22 samples, buffers of 1 and 4; 1.13 M states | `SpanExact`, `GapBounded`, `RealPulses` |
| `decode` | rows of 4 bits in an array of 3, 20 devices of nine modulations, all trains of two pulses, all messages of up to 5 bits in their line code, a PCM preamble, test codes, lists of 3 devices with priorities; 313 k states | `DevicesListed`, `LowerFirst`, `NonePassedOver`, `RowsFit`, `RowsKept`, `CleanTail`, `DeliveredOnce`, `NothingLost`, `RoundTrip` |
| `frames` | buffers of 2 and 4 samples, ring of 20 bytes in blocks of 4, 20 samples, all modes; 269 k states | `RingExact`, `FrameExact`, `GrabWhole`, `SignalsSaved` |
| `desktop` | ring of 3 buffers of 2, 4 frames, 2 messages queued, all modes, fair; 452 k states | `FrameIntact`, `AcquireSafe`, `ExitEnds` |
| `rtltcp` | counter of 12 values, skew 9, 10 frames missed, 2 commands, fair; 34 k states | `NotHeldBack`, `NoFrameTwice`, `DisconnectNoticed` |

Runs whose property the code violates, each something a comment or the help text says:

| run | property | what happens |
|---|---|---|
| `lost_close` | `CloseEndsSession` | a `close()` between `Enter` and `ClearExit` finds a running session, sets `exit_async`, and is erased |
| `jni_use_after_delete` | `UsesLiveRef` | an announcement uses its copy of `g_cls` after `releaseNative()` deleted it |
| `ui_after_query` | `UiReflectsState` | `isNativeRunning()` finds a session running, the session ends and says STOPPED, and the STARTED of the answer comes last |
| `desktop_restart` | `RestartGoesOn` | with `-D restart` every timeout also sets `exit_async`: the device is restarted, and the program ends |

### Bounds, and why they are enough

- `session`: two starters are enough for every overlap of a call with a session, and two calls for a
  session behind another or a call ignored meanwhile; what survives a session (settings, watchdog,
  `exit_async`, log handler, what the UI shows) shows in the next one. The theorems of section 5 hold of any
  number of calls; `ui_after_query` needs one call and one query. `MaxCalls` bounds `CallStart` only. A library that
  forgets an early cancel (`CancelLatches = FALSE`) is left to the theorems, which hold of both; the
  liveness properties do not hold of it, since the join may block for ever.
- `jni_safety`: two swaps and an announcement overlap; a third reference is needed while two
  are owned. `MaxCalls` bounds the calls entered.
- Pulse runs: the constants are scaled, not the machine. With `PD_MIN_PULSE_SAMPLES = 2` there are spurious
  and real pulses; with 4 (3 for FSK) slots a package is forced to end and the FSK train shifts; `MinGap`
  2 < `MaxGap` 4 and ratio 1 make each of the three end conditions decisive; buffers of 1 and 4 samples
  cut packages at every place. `MaxSamples` bounds the signal; 22 samples fill 4 slots with real pulses and
  gaps, with some left for a spurious one. `OOK_EST_LOW_RATIO = 0` shortens the lead-in to one sample.
- `decode`: a row of 4 bits spills with the fifth bit of a message, and 3 rows are full after three row
  marks or one long row; `UINT16_MAX = 12` is not below what the array holds, as in the code. Trains of two
  pulses put every width and gap on both sides of each limit before and at the end of a package, and
  messages of 5 bits need one carry in every line code. The bits that tune the width of PCM are scaled to
  `RzPreamble = 2`, `NrzPreamble = 3`, more than `RzMeasured = 1` or `NrzMeasured = 2` (4, 12, 8 and 20 in the
  code), so that trains of two pulses already reach each way of measuring, and a message of 8 bits has a
  preamble; the devices `nrzTuned` and `rzTuned` are sent trains whose every pulse and gap is a sample too
  long. `UINT_MAX = 3` leaves three priorities and the one
  that means none; three devices make the list grow twice (`FirstSize = 2`).
- `frames`: a ring of 20 bytes holds two buffers of 4 samples of 2 bytes and half a block more, so pushes of
  both lengths wrap at every block; 20 samples are five buffers: a frame over three of them, the one that
  ends it, and one of another frame. `Marks` are the places a package begins or ends at, on, before and
  behind the edges of buffers.
- `desktop`: three buffers of up to two units wrap with every mix of lengths; four frames are one more than
  the ring, and two queued messages one more than a poll takes.
- `rtltcp`: `CountSize` is above the skew, so the counter wraps and the nine frames that hide the newest one
  from a new client happen (`MaxBehind = 10`).
- `CHECK_DEADLOCK FALSE` is set where the bound on calls, samples or frames ends the behaviour, or the
  program; not in `rtltcp`, which has no such end.
- Symmetry is used in the JNI runs only (safety properties, interchangeable Java threads and references).

### Fairness

- `session`, `lost_close`: each session thread is weakly fair: it is a thread that runs. `WatchdogTick` is
  strongly fair: the loop polls with a timeout and compares the clock, so a loop that goes round for ever
  finds the watchdog due again and again, although not at each round. A started acquire thread enters its
  read, a callback returns, an announcement in flight is made: weakly fair, for the same reason.
  `ReadCanceled` is weakly fair: `rtlsdr_read_async()` returns after a cancel that took hold. Nothing makes
  a frame arrive, a read fail, a `close()` come or a call start.
- `desktop`: weakly fair are the main thread, the start of the read, its end after a cancel and the
  broadcast of a frame that was copied. Nothing makes a frame arrive, a datagram get through, or a user
  interrupt.
- `rtltcp`: the publisher and the client thread run. That frames keep coming is part of it: the wait has no
  timeout, and without frames the end of a client is not noticed, which is what the code does. A `send()` to
  a client that is there and does not read need not end; to one that is gone it returns an error.

## 5. Theorems

All hold for every value of the constants that satisfies the named assumptions of the modules (which TLC
evaluates on every run that extends them). The argument is always the same: the property is not inductive,
so a conjunction of named parts is found that is, TLC checks it, and one lemma per action or group of
actions shows that it is kept.

**AndroidSession** (any threads, devices, options, both kinds of library). That no device is freed under
its thread depends on which of the three `sdr_stop()` calls joined it. `IInv` adds `Shape`, which gives for
each location of the session what is allocated and open, and `Stopped`, which says that once `exit_acquire`
is set the thread is gone unless its owner is at the join, which is what lets the second and third
`sdr_stop()` return without joining. `Invariance` proves `Spec => []IInv`; from it follow `TypeCorrect`,
`MutualExclusion`, `AcquireSafety`, `CleanSlate` and `QuietAfterStop`: a frame is decoded while `dev_state` is
STOPPED only between the creation of the thread and the STARTING of the same session. `UiIsTold` adds `UiInv`:
a UI that heard the latest announcement of a session shows something else than STOPPED only between the first
and the last announcement of a session. `Implementation` proves
`Spec => KeepsContract`: under `IInv` each action maps to one action of `SessionContract` or to a stutter.

**JniBridge** (any threads and references). The conjunction of the invariants is inductive:
`NoReferenceLeaks`, `NoDoubleDelete`, `ThreadsBalanced`, `ExceptionsCleared`, `TypeCorrect`.

**PartialSums** (any array). `SumBelow` is a recursive function, and the induction theorems of the library
take an operator, which the installed provers cannot instantiate. Induction over the naturals is done with
sets instead (`Induction`): if a set of naturals that holds 0, and with a number the next, did not hold all,
there would be a least one outside it (`WFMin` and `NatLessThanWellFounded` of the library), and the step
contradicts that. `SumsExist` and `SumsAgree` show so that the recursive function is there and is the only
one, from which `SumNext`, `SumSame` (equal entries, equal sums), `SumChanged` and `SumType` follow.

**PulseDetect** (any array sizes, limits, signal and buffers). Lemmas state what each detector function does to the record
(`FromHighFits`, `FromLowFits`, `MakeRoomFits`...: the state `FH` of the classic detector implies a stored
gap, a shift leaves at least one slot used and one free). `Inv` joins these with the place of the OOK train
and the age of the package; `NoOverrun`, `AgeIsExact`, `SilenceEndsPackage`, `NoSpuriousPulse`,
`TypeCorrect` follow. `EverySampleSpanned` adds `SpanInv`: at every sample of a package, not only at its end,
the stored pulses and gaps and the counter add up to the samples since its first; each place that stores a
pulse or a gap, or merges a spurious one, moves a count from one term to another. `EveryFskSampleSpanned`
does the same for the classic FSK detector, where a rewind takes back slots that were already stored
(`FskTotal`: while the first pulse of the carrier lasts and nothing was shifted out, the FSK train and its
counter add up to the samples measured).

**BitBuffer** (any size of the array). `BufferSafe` proves of `BufferSpec`, any client making any calls, that
rows stay apart and inside the array; `BitInside` that the cell a bit goes to is in the last row. On top of
it `TailsClean` and `OnlyAppended` look at the bits: what lies behind a row is zero unless a row was refused
(so a bit that is or'ed in, or uncovered by a wider width, is the one that was meant), and no call but a clear
or a recoding changes a row before the last.

**Decode** (any devices, pulses, decoders, priorities, widths and tolerances). `Fills` proves
`Spec => BufferSpec`, so `SlicedRowsFit`, `SlicedTailsClean` and `SlicedRowsKept` follow without a look at a
single slicer. `DispatchInv` is the shape of the list, where the loops stand and what they have run:
`ListTerminated`, `InOrder`, `AllHeard`.

The slicers need one more layer. A lemma for each of the nine modulations and the test codes (`PcmOk`,
`PpmOk`, ...) says what one turn of its loop asks for: a sequence of legal calls, a next index that is not
behind this one, and, in the turn that is the last, a delivery with no bit behind it. Three invariants carry
this through the steps:

- `WorkInv`: what is left to do (`todo`) is a sequence of calls of the slicer that runs, and the index, the
  memory and the counts are numbers. `TypeCorrect` follows from it and `DispatchInv`.
- `OnceInv`: the widths of the rows add up to no more than the bits counted since the last delivery, or the
  clearing is the call that comes next. `NoBitTwice` (`DeliveredOnce`) follows; the sum over the rows is where
  `PartialSums` is needed, a row that spills changing several of its terms.
- `SeenInv`, that a buffer with bits to deliver shows them to the tests "is there a row" and "is there a bit"
  before a delivery; `EndInv`, that behind the last pulse a delivery is due with no bit behind it, or nothing
  is left. `NoBitLost` (`NothingLost`) follows. `EndInv` names the exceptions the code has, as the property
  does: DMC, an Oregon Scientific v1 sync pulse with nothing behind it, a row there was no room for, and the
  0 that Manchester prepares.

`RoundTripSent` compares what is delivered with what was sent. For any device, widths, tolerances and message,
if the train of the package carries the message (`Sends`) and the buffer has room for it (`HasRoom`), then
`RoundTrip`: the first row of the first delivery is the message, in PCM with the zeros of the silence behind
it. The proof has two halves that meet in `Writes(d, tr, s, P)`: there is a set `P` of places (turn, bits
written, memory) such that the slicer begins at one, goes from each to a later one by adding exactly the bits
in between, or ends with the rest and a delivery.

- From the slicer to the buffer, for any `P`: `ScriptInv` says that a slicer that writes `s` is on its way to
  a place, on its way to the delivery, or past it, with what is in the first row so far the beginning of `s`.
  `Written` follows: in the end what was delivered first is `s`. The first row may spill over all the others.
- From the pulses to the slicer, one lemma for each line code (`PpmWrites`, `PcmWrites`, `McWrites`...): a
  sent train has such a `P`. PCM needs its measured width first: the widths that `k` bits may measure to lie
  within twice the jitter for each bit, the set of such widths is closed under what each pulse adds, and so
  (`MeasuresExist`, by `Induction`) the recursive function `Measure` stays in it (`TunedRight`); what such a
  width makes of a pulse or a gap is the bits that were sent (`CountsRight`). `Halfway`, `DivIs` and `RoundIs` are the arithmetic of the limits; Manchester
  remembers the time since the last edge inside a bit, which `McTells` ties to the parity of the half bit the
  train is at; in DMC the silence may be the second half of the last 1, and it is then looked at again.

The proofs rest on `DecodeAssumption` and on `Timed(d)`: the widths of a device are numbers, and one that its
slicer divides by is not 0. The code justifies it in three places: every decoder that uses PCM, NRZS or PIWM
raw declares a `short_width` (PCM a `long_width` too) above 0; `flex.c` refuses a specification without them
(lines 790-800); and `pulse_slicer_pcm()` and the others return at once when a width rounds to 0 at the
sample rate (lines 76-84), the field `slow` of the model. `IsPackage` says of what comes in only that pulses,
gaps and the numbers of a test code are naturals.

**Frames** (any lengths of ring, blocks, buffers and samples). `GrabInv` says where each byte of the input
lies in the ring, cell by cell; `FrameInv` relates both ages to the packages, `DetectorInv` the package
being received to what the detector missed, `FileInv` what was written. `RingIsExact`, `FrameIsExact`,
`FilesAreWhole`, `FramesAreSaved`, `TypeCorrect`. The ring must hold the two buffers a frame may reach back
(`FramesAssumption`), which the fixed `SIGNAL_GRABBER_BUFFER` does for the default buffer length.

**DesktopSession** (any ring, lengths and messages). `Thread` and `Shape` are what is joined, open and
allocated at each place of the main thread; `Once` that a device is
opened again only by a loop that is going to end; `Queue` that a message of
the ring in use names a place that has not been written since: either it lies behind the write position or
the ring has wrapped, wasting less than one buffer. `AcquireSafety`, `FramesIntact`, `TypeCorrect`.

**RtlTcpServer** (any width of the counter). `CountInv` says that `data_cnt` is `behind` frames past where
`prev_cnt` was set, modulo its width, and `WaitInv` that a thread waits without a signal on its way only if
its condition holds: `NoLostWakeup`, `EachFrameOnce`, `TypeCorrect`.

**Only model-checked.** The liveness properties `StopEndsSession`, `DeadDeviceStops`, `ExitEnds` and
`DisconnectNoticed`, since fairness and ENABLED are out of the prover's reach. `RoundTrip` for Oregon
Scientific v1 and for Manchester with a tolerance, whose line codes `LineCodes` does not have: the first
discards every other half bit, and in the second the silence makes the last pulse invalid too, so that which
messages arrive depends on their last two bits. For them the run is what there is. The four properties of the runs that
fail. Every other property of a passing run is a theorem. The mutants named in `PROJECT.json`, small
operators marked `mutant` beside the definition they replace, show that each checked property can fail.

## 6. Limits

- Not modelled, with the reason for each part, in the inventory above and in `PROJECT.json`.
- What the UI shows need not be the state. An announcement may not arrive, and the answer of
  `isNativeRunning()` is announced outside the lock it was read under, so it can come after the STOPPED of the
  session it speaks of (`ui_after_query`). `UiShowsStopped` therefore is about a UI that heard the latest
  announcement of a session and no answer since. At the other end of a session a sensor line may come before
  STARTING, which `QuietWhenStopped` allows there and nowhere else.
- The `android_*` globals and the log handler are written before the check of `_is_running`, so a call that
  is ignored can replace the descriptor of one that is opening the device; the watchdog counter and the
  settings string (bias tee, AGC) survive a session. All of this is in the model and no property excludes it.
- The memory model is sequentially consistent: `exit_async`, `watchdog` and `_is_running` are `volatile`, not
  atomic, in the code.
- In `PulseDetect` every buffer reaches the detector; `Frames` has the squelch. The frequency, and with it
  the FSK detector of AUTO mode, stays the same: hopping is left out. Lengths are naturals: the
  overflow of an `int` after hours of carrier is outside.
- `Frames`: the last frame of an input file is not saved unless its last package is older than the cleared
  buffer; a file that does not fit behind its end has the seam of the ring inside. Both are what the code
  does. A buffer too short to hold a sample, levels, dumps and write errors are left out.
- `Decode`: `DeliveredOnce` is stated of the slicers that clear their buffer; a row refused by a full buffer
  leaves a last row that reads as a mixture. `Sends` asks of the widths that they are off by less than what
  separates them: nothing is said of a train with noise in it. In
  `pulse_slicer_pcm()` the reciprocals of widths, `float` in the code, are exact fractions, the nominal width is
  the whole number of samples, and no pulse is 0 samples wide, by which the code would divide. The readers of a
  bit buffer (search, extract, print) change nothing and are left out.
- `DesktopSession`: `FrameIntact` is stated of a main thread at most `BufNum - 2` frames behind; nothing in
  the code bounds it. With `-D restart` a timer that is due in the last poll opens the device again and
  `start_sdr()` writes through the freed `demod` (state `crash`, which no property excludes). Hopping, SIGHUP,
  a second signal and the statistics signal are left out.
- `RtlTcpServer`: what a command asks of the SDR, a command cut by two `recv()` (its rest is lost),
  `rtltcp_server_stop()` (it destroys the lock without waiting for the thread) and the frame that may be
  overwritten while it is sent are left out. A new client that exactly nine frames pass before its first look
  waits for one more.

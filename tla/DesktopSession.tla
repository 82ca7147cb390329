---------------------------- MODULE DesktopSession ----------------------------
(***************************************************************************)
(* A live receiver outside Android: main() of src/rtl433/src/rtl_433.c with *)
(* its event loop, sdr_handler() and timer_handler(), the acquire thread   *)
(* and its ring of copied buffers (sdr.c), and the end in r_free_cfg(),    *)
(* whose last poll runs the handlers once more.                            *)
(*                                                                         *)
(* The acquire thread passes a frame on as a pointer into the ring, sent   *)
(* through mongoose's pair of datagram sockets: a message may be lost, and *)
(* nobody waits for an answer. One poll handles at most one message, and   *)
(* then the timer.                                                         *)
(*                                                                         *)
(* Left out: the levels and decoders behind sdr_callback(), which Frames   *)
(* and Decode model, hopping, other connections, a second signal (abort).  *)
(***************************************************************************)
EXTENDS Integers, Sequences

CONSTANTS
    BufNum,         \* buffers the ring has room for: 15
    BufLen,         \* the longest transfer
    MaxFrames,      \* bound: frames in a behaviour
    MaxQueue,       \* messages the sockets hold
    CancelLatches   \* librtlsdr: does a cancel before read_async() take hold?

ASSUME DesktopAssumption ==
    /\ {BufNum, BufLen, MaxFrames, MaxQueue} \subseteq Nat \ {0}
    /\ CancelLatches \in BOOLEAN

VARIABLES
    devMode,     \* cfg->dev_mode
    pc, ret,     \* where the main thread is, and where sdr_stop() returns to
    after,       \* where start_sdr() returns to
    last,        \* is this the last poll, inside mg_mgr_free()?
    exitAsync,   \* cfg->exit_async # 0
    devState,    \* cfg->dev_state
    watchdog,    \* cfg->watchdog # 0
    demod,       \* cfg->demod is allocated
    dev,         \* cfg->dev: open, exit_acquire
    acq,         \* the acquire thread
    asyncStatus, \* librtlsdr's view of the asynchronous read
    ring,        \* dev->buffer: which one, buffer_pos, the frame in each byte
    ctl,         \* the messages in the sockets
    msg,         \* the message being sent, or handled
    made,        \* frames received so far
    asked        \* history: someone asked for the end

main == <<pc, ret, after, last>>
config == <<devMode, demod>>
status == <<exitAsync, devState, watchdog>>
thread == <<acq, asyncStatus>>
frames == <<ring, ctl, msg, made>>
vars == <<main, config, status, dev, thread, frames, asked>>

DevModes == {"quit", "restart", "pause", "manual"}
DevStates == {"STOPPED", "STARTING", "GRACE", "STARTED"}
LiveAcq == {"starting", "reading", "copied"}
Ended == {"done", "exit", "crash"}

RingSize == BufNum * BufLen
NewRing(gen) == [gen |-> gen, pos |-> 0, cells |-> [i \in 0..RingSize - 1 |-> 0]]
NoDev == [open |-> FALSE, exitAcquire |-> FALSE]
NoMsg == [frame |-> 0, gen |-> 0, at |-> 0, len |-> 1]

Init ==
    /\ devMode \in DevModes
    /\ pc = (IF devMode = "manual" THEN "loop" ELSE "start")
    /\ ret = "loop" /\ after = "main" /\ last = FALSE
    /\ exitAsync = FALSE /\ devState = "STOPPED" /\ watchdog = FALSE
    /\ demod = TRUE /\ dev = NoDev
    /\ acq = "none" /\ asyncStatus = "inactive"
    /\ ring = NewRing(0) /\ ctl = <<>> /\ msg = [acq |-> NoMsg, main |-> NoMsg]
    /\ made = 0 /\ asked = FALSE

-----------------------------------------------------------------------------
(* start_sdr()                                                              *)

Goto(from, to) == pc = from /\ pc' = to /\ UNCHANGED <<ret, after, last>>

\* sdr_stop(cfg->dev): nothing without a device.
CallStop(from, to) ==
    /\ pc = from
    /\ pc' = IF dev.open THEN "stop_signal" ELSE to
    /\ ret' = to
    /\ UNCHANGED <<after, last>>

\* A device that is still there is closed first.
StartCloses ==
    /\ dev.open
    /\ CallStop("start", "close")
    /\ UNCHANGED <<config, status, dev, thread, frames, asked>>

Close ==
    /\ Goto("close", "start")
    /\ dev' = NoDev
    /\ UNCHANGED <<config, status, thread, frames, asked>>

\* Opening and configuring; cfg->demod->sample_size is written.
Open ==
    /\ ~dev.open
    /\ Goto("start", IF demod THEN "create" ELSE "crash")
    /\ dev' = [open |-> TRUE, exitAcquire |-> FALSE]
    /\ ring' = NewRing(ring.gen + 1)
    /\ asyncStatus' = "inactive"
    /\ UNCHANGED <<config, status, acq, ctl, msg, made, asked>>

\* main() gives up, timer_handler() does not look.
OpenFails ==
    /\ ~dev.open
    /\ Goto("start", IF after = "main" THEN "exit" ELSE after)
    /\ UNCHANGED <<config, status, dev, thread, frames, asked>>

Create(created) ==
    /\ pc = "create"
    /\ pc' = IF after = "main" THEN "loop" ELSE after
    /\ acq' = IF created THEN "starting" ELSE acq
    /\ devState' = "STARTING"
    /\ UNCHANGED <<ret, after, last, config, exitAsync, watchdog, dev,
                   asyncStatus, frames, asked>>

-----------------------------------------------------------------------------
(* The event loop.                                                          *)

LoopOn ==
    /\ ~exitAsync
    /\ Goto("loop", "select")
    /\ UNCHANGED <<config, status, dev, thread, frames, asked>>

LoopExit ==
    /\ exitAsync
    /\ CallStop("loop", "free")
    /\ UNCHANGED <<config, status, dev, thread, frames, asked>>

TakeMessage ==
    /\ ctl # <<>>
    /\ Goto("select", "handle")
    /\ msg' = [msg EXCEPT !.main = Head(ctl)]
    /\ ctl' = Tail(ctl)
    /\ UNCHANGED <<config, status, dev, thread, ring, made, asked>>

NoMessage ==
    /\ ctl = <<>>
    /\ Goto("select", "timer")
    /\ UNCHANGED <<config, status, dev, thread, frames, asked>>

\* "might happen when the demod closed and we get a last data frame"
Reads == pc = "handle" /\ demod

\* sdr_callback() is through with the frame; a limit on bytes, time or events
\* may have set exit_async, and a frame too short for one sample leaves the
\* watchdog.
Handled(ends, tooShort) ==
    /\ ends => Reads
    /\ watchdog' = (watchdog \/ (Reads /\ ~tooShort))
    /\ exitAsync' = (exitAsync \/ ends)
    /\ asked' = (asked \/ ends)
    /\ IF exitAsync' THEN CallStop("handle", "timer") ELSE Goto("handle", "timer")
    /\ UNCHANGED <<config, devState, dev, thread, frames>>

-----------------------------------------------------------------------------
(* timer_handler()                                                          *)

PollEnd == IF last THEN "done" ELSE "loop"

NotDue ==
    /\ Goto("timer", PollEnd)
    /\ UNCHANGED <<config, status, dev, thread, frames, asked>>

Fed ==
    /\ watchdog
    /\ Goto("timer", PollEnd)
    /\ devState' = IF devState \in {"STARTING", "GRACE"} THEN "STARTED" ELSE devState
    /\ watchdog' = FALSE
    /\ UNCHANGED <<config, exitAsync, dev, thread, frames, asked>>

Grace ==
    /\ ~watchdog /\ devState = "STARTING"
    /\ Goto("timer", PollEnd)
    /\ devState' = "GRACE"
    /\ UNCHANGED <<config, exitAsync, watchdog, dev, thread, frames, asked>>

ExitToQuit == exitAsync' = (exitAsync \/ devMode = "quit")  \* mutant
ExitAnyhow == exitAsync' = TRUE

Timeout ==
    /\ ~watchdog /\ devState \in {"GRACE", "STARTED"}
    /\ CallStop("timer", "timed_out")
    /\ ExitAnyhow
    /\ UNCHANGED <<config, devState, watchdog, dev, thread, frames, asked>>

\* What the mode says is to follow.
Follow(from) ==
    /\ pc = from
    /\ IF devMode = "restart"
       THEN pc' = "start" /\ after' = PollEnd
       ELSE pc' = PollEnd /\ UNCHANGED after
    /\ exitAsync' = (exitAsync \/ devMode = "quit")
    /\ UNCHANGED <<ret, last>>

TimedOut ==
    /\ Follow("timed_out")
    /\ devState' = "STOPPED"
    /\ UNCHANGED <<config, watchdog, dev, thread, frames, asked>>

StillStopped ==
    /\ ~watchdog /\ devState = "STOPPED"
    /\ Follow("timer")
    /\ UNCHANGED <<config, devState, watchdog, dev, thread, frames, asked>>

-----------------------------------------------------------------------------
(* sdr_stop(): signal and cancel under dev->lock, then join outside it.     *)

CancelForgotten == asyncStatus  \* mutant
AfterCancel ==
    IF asyncStatus = "running" \/ CancelLatches THEN "canceling" ELSE asyncStatus

StopSignal ==
    /\ ~dev.exitAcquire
    /\ Goto("stop_signal", "stop_join")
    /\ dev' = [dev EXCEPT !.exitAcquire = TRUE]
    /\ asyncStatus' = AfterCancel
    /\ UNCHANGED <<config, status, acq, frames, asked>>

StopAlready ==
    /\ dev.exitAcquire
    /\ Goto("stop_signal", ret)
    /\ UNCHANGED <<config, status, dev, thread, frames, asked>>

JoinAtOnce == TRUE  \* mutant
CanJoin == acq \notin LiveAcq

StopJoin ==
    /\ CanJoin
    /\ Goto("stop_join", ret)
    /\ acq' = IF acq = "done" THEN "none" ELSE acq
    /\ UNCHANGED <<config, status, dev, asyncStatus, frames, asked>>

-----------------------------------------------------------------------------
(* r_free_cfg(), and the last poll in mg_mgr_free().                        *)

FreeDevice ==
    /\ CallStop("free", "free_dev")
    /\ UNCHANGED <<config, status, dev, thread, frames, asked>>

FreeRest ==
    /\ pc = "free_dev"
    /\ pc' = "select" /\ last' = TRUE
    /\ dev' = NoDev
    /\ demod' = FALSE
    /\ UNCHANGED <<ret, after, devMode, status, thread, frames, asked>>

-----------------------------------------------------------------------------
(* The acquire thread.                                                      *)

AcquireRead ==
    /\ acq = "starting"
    /\ acq' = "reading"
    /\ asyncStatus' = IF asyncStatus = "canceling" THEN "canceling" ELSE "running"
    /\ UNCHANGED <<main, config, status, dev, frames, asked>>

CopyAt(r, len) == IF r.pos + len > RingSize THEN 0 ELSE r.pos

\* rtlsdr_read_cb() up to the copy; a frame that comes after exit_acquire is
\* dropped.
FrameArrives(len) ==
    /\ acq = "reading" /\ ~dev.exitAcquire /\ made < MaxFrames
    /\ made' = made + 1
    /\ LET at == CopyAt(ring, len)
       IN  /\ ring' = [ring EXCEPT !.pos = at + len,
                          !.cells = [i \in DOMAIN ring.cells |->
                              IF i >= at /\ i < at + len THEN made' ELSE ring.cells[i]]]
           /\ msg' = [msg EXCEPT !.acq = [frame |-> made', gen |-> ring.gen,
                                          at |-> at, len |-> len]]
    /\ acq' = "copied"
    /\ UNCHANGED <<main, config, status, dev, asyncStatus, ctl, asked>>

\* mg_broadcast()
Broadcast(lost) ==
    /\ acq = "copied"
    /\ lost \/ Len(ctl) < MaxQueue
    /\ ctl' = IF lost THEN ctl ELSE Append(ctl, msg.acq)
    /\ acq' = "reading"
    /\ UNCHANGED <<main, config, status, dev, asyncStatus, ring, msg, made, asked>>

ReadCanceled ==
    /\ acq = "reading" /\ asyncStatus = "canceling"
    /\ acq' = "done" /\ asyncStatus' = "inactive"
    /\ UNCHANGED <<main, config, status, dev, frames, asked>>

\* The read ends by itself: no buffer, a failed transfer, the dongle pulled.
ReadFails ==
    /\ acq \in {"starting", "reading"}
    /\ acq' = "done" /\ asyncStatus' = "inactive"
    /\ UNCHANGED <<main, config, status, dev, frames, asked>>

\* SIGINT, SIGTERM or SIGQUIT, which only the main thread receives.
Interrupt ==
    /\ pc \notin Ended
    /\ exitAsync' = TRUE /\ asked' = TRUE
    /\ UNCHANGED <<main, config, devState, watchdog, dev, thread, frames>>

-----------------------------------------------------------------------------

Start ==
    \/ StartCloses \/ Close \/ Open \/ OpenFails
    \/ \E created \in BOOLEAN : Create(created)

Poll ==
    \/ LoopOn \/ LoopExit \/ TakeMessage \/ NoMessage
    \/ \E ends, tooShort \in BOOLEAN : Handled(ends, tooShort)
    \/ NotDue \/ Fed \/ Grace \/ Timeout \/ TimedOut \/ StillStopped

Stop == StopSignal \/ StopAlready \/ StopJoin \/ FreeDevice \/ FreeRest

Acquire ==
    \/ AcquireRead \/ ReadCanceled \/ ReadFails
    \/ \E len \in 1..BufLen : FrameArrives(len)
    \/ \E lost \in BOOLEAN : Broadcast(lost)

Next == Start \/ Poll \/ Stop \/ Acquire \/ Interrupt

Spec == Init /\ [][Next]_vars

\* The threads run; a read that was cancelled ends. Nothing makes a frame
\* arrive, a message get through or the user interrupt.
Fairness ==
    /\ WF_vars(Start \/ Poll \/ Stop)
    /\ WF_vars(AcquireRead)
    /\ WF_vars(ReadCanceled)
    /\ WF_vars(\E lost \in BOOLEAN : Broadcast(lost))

FairSpec == Spec /\ Fairness

-----------------------------------------------------------------------------
(* Properties.                                                              *)

Messages ==
    [frame : 0..MaxFrames, gen : Nat, at : 0..RingSize - 1, len : 1..BufLen]

TypeOK ==
    /\ devMode \in DevModes
    /\ pc \in {"start", "close", "create", "loop", "select", "handle", "timer",
               "timed_out", "stop_signal", "stop_join", "free", "free_dev"} \cup Ended
    /\ ret \in {"loop", "close", "free", "timer", "timed_out", "free_dev"}
    /\ after \in {"main", "loop", "done"} /\ last \in BOOLEAN
    /\ exitAsync \in BOOLEAN /\ devState \in DevStates /\ watchdog \in BOOLEAN
    /\ demod \in BOOLEAN /\ dev \in [open : BOOLEAN, exitAcquire : BOOLEAN]
    /\ acq \in LiveAcq \cup {"none", "done"}
    /\ asyncStatus \in {"inactive", "running", "canceling"}
    /\ ring.gen \in Nat /\ ring.pos \in 0..RingSize
    /\ ring.cells \in [0..RingSize - 1 -> 0..MaxFrames]
    /\ ctl \in Seq(Messages) /\ msg \in [acq : Messages, main : Messages]
    /\ made \in 0..MaxFrames /\ asked \in BOOLEAN

\* The frame sdr_callback() works on is in a buffer that has not been freed by a
\* restart or by r_free_cfg(), and it is still the frame the message was sent
\* for, as long as the main thread is no more than BufNum - 2 frames behind:
\* one less than there are buffers, because transfers differ in length.
FrameIntact ==
    Reads =>
        /\ dev.open /\ msg.main.gen = ring.gen
        /\ made - msg.main.frame <= BufNum - 2 =>
              \A i \in msg.main.at..msg.main.at + msg.main.len - 1 :
                  ring.cells[i] = msg.main.frame

\* The acquire thread has been joined before the device, the configuration or
\* the event manager it broadcasts to is freed, on every way to the end.
AcquireSafe == acq \in LiveAcq => dev.open /\ demod /\ pc # "done"

\* Whoever sets exit_async, in whatever mode and state, the program ends: no
\* join waits for ever and nothing starts the loop again.
ExitEnds == exitAsync ~> pc \in Ended

\* "restart: Restart the input device on errors": in this mode the program does
\* not end by itself.
RestartGoesOn == pc = "done" /\ devMode = "restart" => asked

=============================================================================

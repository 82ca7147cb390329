--------------------------- MODULE AndroidSession ---------------------------
(***************************************************************************)
(* The life of one receiver session on Android: the JNI entry points       *)
(* start(), close() and isNativeRunning() of rtlsdr433.cpp, the run loop   *)
(* of the Android block of rtl_433.c, the configuration it initialises and *)
(* frees (r_api.c) and the device and acquire thread of sdr.c.             *)
(*                                                                         *)
(* Threads.  Every Java thread in Starters may call start(), which blocks  *)
(* for the whole session; close() is called from any thread and is one     *)
(* critical section; every thread in Queriers may call isNativeRunning();  *)
(* the acquire thread is created by the session and calls back into it.    *)
(* A step of the model is a critical section, or a stretch of code that    *)
(* touches no state another thread changes.                                *)
(***************************************************************************)
EXTENDS Naturals, FiniteSets

CONSTANTS
    Starters,       \* Java threads that call NativeBridge.start()
    Queriers,       \* Java threads that call NativeBridge.isNativeRunning()
    Fds,            \* USB file descriptors handed over by the Java layer
    Options,        \* the other start() arguments: [agc, biast] records
    MaxCalls,       \* bound on the number of start() calls
    CancelLatches,  \* librtlsdr: does a cancel before read_async() take hold?
    NoFd            \* the initial android_usb_fd, -1

ASSUME OptionsAssumption == Options \subseteq [agc : BOOLEAN, biast : BOOLEAN]
ASSUME FdsAssumption == NoFd \notin Fds
ASSUME BoundsAssumption == MaxCalls \in Nat /\ CancelLatches \in BOOLEAN

VARIABLES
    pc,          \* location of each starter in start() / rtl433_start()
    ret,         \* where sdr_stop() returns to
    req,         \* arguments of each starter's call
    calls,       \* number of start() calls so far (bounded by MaxCalls)
    params,      \* the android_* globals
    isRunning,   \* _is_running, guarded by g_run_mutex
    exitAsync,   \* g_cfg.exit_async
    devState,    \* cfg->dev_state
    watchdog,    \* cfg->watchdog # 0
    settings,    \* cfg->settings_str
    demod,       \* cfg->demod is allocated
    dev,         \* cfg->dev and the sdr_dev_t behind it
    acq,         \* the acquire thread of the open device
    asyncStatus, \* librtlsdr's view of the asynchronous read
    ui,          \* what the Java layer shows, and (history) whether it is
                 \* the latest a session has had to tell
    query,       \* isNativeRunning(): what each querier is about to announce
    logHandler,  \* is the logcat handler registered?
    closeReq     \* history: close() found this session running

config == <<params, settings, logHandler>>
device == <<dev, acq, asyncStatus>>
status == <<devState, ui, watchdog>>
vars == <<pc, ret, req, calls, config, isRunning, exitAsync, status, demod,
          device, query, closeReq>>

-----------------------------------------------------------------------------

DevStates == {"STOPPED", "STARTING", "GRACE", "STARTED"}
NoState == "none"

(* Locations outside rtl433_start()'s critical region, and inside it.      *)
CallPcs == {"idle", "set_fd", "set_opts", "enter"}
SetupPcs == {"clear", "init", "open", "start", "announce"}
LoopPcs == {"loop", "poll", "fed", "starved", "timed_out"}
StopPcs == {"stop_signal", "stop_join"}
TeardownPcs == {"stopped", "free_cfg", "free_dev", "free_rest", "leave"}
SessionPcs == SetupPcs \cup LoopPcs \cup StopPcs \cup TeardownPcs
ReturnPcs == {"timed_out", "stopped", "free_dev"}

InSession(s) == pc[s] \in SessionPcs
LiveAcq == {"starting", "reading", "callback"}

NoDev == [open |-> FALSE, fd |-> NoFd, exitAcquire |-> FALSE,
          settings |-> "none"]
SettingStrings == {"none", "digital_agc=1", "biastee=1"}
NoOptions == [agc |-> FALSE, biast |-> FALSE]

NoNews == [shows |-> NoState, fresh |-> FALSE]

TypeOK ==
    /\ pc \in [Starters -> CallPcs \cup SessionPcs]
    /\ ret \in [Starters -> ReturnPcs]
    /\ req \in [Starters -> [fd : Fds \cup {NoFd},
                             opts : [agc : BOOLEAN, biast : BOOLEAN]]]
    /\ calls \in 0 .. MaxCalls
    /\ params \in [fd : Fds \cup {NoFd}, opts : [agc : BOOLEAN, biast : BOOLEAN]]
    /\ isRunning \in BOOLEAN
    /\ exitAsync \in BOOLEAN
    /\ devState \in DevStates
    /\ watchdog \in BOOLEAN
    /\ settings \in SettingStrings
    /\ demod \in BOOLEAN
    /\ dev \in [open : BOOLEAN, fd : Fds \cup {NoFd}, exitAcquire : BOOLEAN,
                settings : SettingStrings]
    /\ acq \in LiveAcq \cup {"none", "done"}
    /\ asyncStatus \in {"inactive", "running", "canceling"}
    /\ ui \in [shows : DevStates \cup {NoState}, fresh : BOOLEAN]
    /\ query \in [Queriers -> {"idle", "STARTED", "STOPPED"}]
    /\ logHandler \in BOOLEAN
    /\ closeReq \in BOOLEAN

Init ==
    /\ pc = [s \in Starters |-> "idle"]
    /\ ret = [s \in Starters |-> "stopped"]
    /\ req = [s \in Starters |-> [fd |-> NoFd, opts |-> NoOptions]]
    /\ calls = 0
    /\ params = [fd |-> NoFd, opts |-> NoOptions]
    /\ isRunning = FALSE
    /\ exitAsync = FALSE
    /\ devState = "STOPPED"
    /\ watchdog = FALSE
    /\ settings = "none"
    /\ demod = FALSE
    /\ dev = NoDev
    /\ acq = "none"
    /\ asyncStatus = "inactive"
    /\ ui = NoNews
    /\ query = [q \in Queriers |-> "idle"]
    /\ logHandler = TRUE
    /\ closeReq = FALSE

-----------------------------------------------------------------------------
(* The JNI call start() up to the critical section of rtl433_start().      *)

Goto(s, from, to) == pc[s] = from /\ pc' = [pc EXCEPT ![s] = to]

(* announce_device_stat() tells the UI, or returns without having told it: *)
(* no class, no JNIEnv, no method, an exception in the Java code.          *)
Tell(state, fromSession) ==
    \/ ui' = [shows |-> state, fresh |-> fromSession]
    \/ ui' = [ui EXCEPT !.fresh = @ /\ ~fromSession]

(* Every change of cfg->dev_state is followed by its announcement.         *)
AnnounceBefore(state) == devState' = state /\ Tell(devState, TRUE) \* mutant
Announce(state) == devState' = state /\ Tell(state, TRUE)

CallStart(s, fd, opts) ==
    /\ Goto(s, "idle", "set_fd")
    /\ calls < MaxCalls
    /\ calls' = calls + 1
    /\ req' = [req EXCEPT ![s] = [fd |-> fd, opts |-> opts]]
    /\ UNCHANGED <<ret, config, isRunning, exitAsync, status, demod, device,
                   query, closeReq>>

NewFd(s) == req[s].fd

SetFd(s) ==
    /\ Goto(s, "set_fd", "set_opts")
    /\ params' = [params EXCEPT !.fd = NewFd(s)]
    /\ UNCHANGED <<ret, req, calls, settings, logHandler, isRunning, exitAsync,
                   status, demod, device, query, closeReq>>

RegisterHandler == logHandler' = TRUE

SetOptions(s) ==
    /\ Goto(s, "set_opts", "enter")
    /\ params' = [params EXCEPT !.opts = req[s].opts]
    /\ RegisterHandler
    /\ UNCHANGED <<ret, req, calls, settings, isRunning, exitAsync, status,
                   demod, device, query, closeReq>>

(* The check-and-set of _is_running under g_run_mutex; a call that finds a *)
(* session running returns to Java.                                        *)
IgnoreCall(s) ==
    /\ isRunning
    /\ Goto(s, "enter", "idle")
    /\ UNCHANGED <<ret, req, calls, config, isRunning, exitAsync, status,
                   demod, device, query, closeReq>>

EnterUnchecked == TRUE \* mutant
MayEnter == ~isRunning

Enter(s) ==
    /\ MayEnter
    /\ Goto(s, "enter", "clear")
    /\ isRunning' = TRUE
    /\ UNCHANGED <<ret, req, calls, config, exitAsync, status, demod, device,
                   query, closeReq>>

-----------------------------------------------------------------------------
(* Setting the session up.                                                 *)

ClearExit(s) ==
    /\ Goto(s, "clear", "init")
    /\ exitAsync' = FALSE
    /\ UNCHANGED <<ret, req, calls, config, isRunning, status, demod, device,
                   query, closeReq>>

(* r_init_cfg() allocates demod; the options become cfg->settings_str, the *)
(* bias tee string replacing the AGC one, and neither leaving the old one. *)
NewSettings ==
    CASE params.opts.biast -> "biastee=1"
      [] ~params.opts.biast /\ params.opts.agc -> "digital_agc=1"
      [] OTHER -> settings

InitCfg(s) ==
    /\ Goto(s, "init", "open")
    /\ demod' = TRUE
    /\ settings' = NewSettings
    /\ UNCHANGED <<ret, req, calls, params, logHandler, isRunning, exitAsync,
                   status, device, query, closeReq>>

(* sdr_open() and sdr_apply_settings() in start_sdr().                     *)
OpenDevice(s) ==
    /\ Goto(s, "open", "start")
    /\ dev' = [open |-> TRUE, fd |-> params.fd, exitAcquire |-> FALSE,
               settings |-> settings]
    /\ asyncStatus' = "inactive"
    /\ UNCHANGED <<ret, req, calls, config, isRunning, exitAsync, status,
                   demod, acq, query, closeReq>>

OpenFailsUnfreed(s) == \* mutant
    /\ Goto(s, "open", "leave")
    /\ UNCHANGED <<ret, req, calls, config, isRunning, exitAsync, status,
                   demod, device, query, closeReq>>

(* rtlsdr_open2() failed: android_run_sdr_loop() returns at once.          *)
OpenFails(s) ==
    /\ Goto(s, "open", "free_cfg")
    /\ UNCHANGED <<ret, req, calls, config, isRunning, exitAsync, status,
                   demod, device, query, closeReq>>

(* sdr_start().  pthread_create() reports an error as a positive number,   *)
(* which the callers' r < 0 takes for success.                             *)
StartAcquire(s, created) ==
    /\ Goto(s, "start", "announce")
    /\ acq' = IF created THEN "starting" ELSE acq
    /\ UNCHANGED <<ret, req, calls, config, isRunning, exitAsync, status,
                   demod, dev, asyncStatus, query, closeReq>>

(* The tail of start_sdr(): the acquire thread may be decoding by then.    *)
AnnounceStarting(s) ==
    /\ Goto(s, "announce", "loop")
    /\ Announce("STARTING")
    /\ UNCHANGED <<ret, req, calls, config, isRunning, exitAsync, watchdog,
                   demod, device, query, closeReq>>

-----------------------------------------------------------------------------
(* The event loop and its watchdog.                                        *)

CallStopAgain(s, from, to) == \* mutant
    /\ pc[s] = from
    /\ pc' = [pc EXCEPT ![s] = "stop_signal"]
    /\ ret' = [ret EXCEPT ![s] = from]

CallStop(s, from, to) ==
    /\ pc[s] = from
    /\ pc' = [pc EXCEPT ![s] = "stop_signal"]
    /\ ret' = [ret EXCEPT ![s] = to]

LoopOn(s) ==
    /\ ~exitAsync
    /\ Goto(s, "loop", "poll")
    /\ UNCHANGED <<ret, req, calls, config, isRunning, exitAsync, status,
                   demod, device, query, closeReq>>

LoopExit(s) ==
    /\ exitAsync
    /\ CallStop(s, "loop", "stopped")
    /\ UNCHANGED <<req, calls, config, isRunning, exitAsync, status, demod,
                   device, query, closeReq>>

(* mg_mgr_poll() returned before the watchdog was due.                     *)
PollQuiet(s) ==
    /\ Goto(s, "poll", "loop")
    /\ UNCHANGED <<ret, req, calls, config, isRunning, exitAsync, status,
                   demod, device, query, closeReq>>

(* The watchdog is due: it reads cfg->watchdog ...                         *)
WatchdogTick(s) ==
    /\ Goto(s, "poll", IF watchdog THEN "fed" ELSE "starved")
    /\ UNCHANGED <<ret, req, calls, config, isRunning, exitAsync, status,
                   demod, device, query, closeReq>>

(* ... and acts on what it read, while frames may still arrive.            *)
WatchdogNotReset == watchdog' = watchdog \* mutant
ResetWatchdog == watchdog' = FALSE

WatchdogFed(s) ==
    /\ Goto(s, "fed", "loop")
    /\ Announce(IF devState \in {"STARTING", "GRACE"} THEN "STARTED"
                ELSE devState)
    /\ ResetWatchdog
    /\ UNCHANGED <<ret, req, calls, config, isRunning, exitAsync, demod,
                   device, query, closeReq>>

WatchdogGrace(s) ==
    /\ devState = "STARTING"
    /\ Goto(s, "starved", "loop")
    /\ Announce("GRACE")
    /\ UNCHANGED <<ret, req, calls, config, isRunning, exitAsync, watchdog,
                   demod, device, query, closeReq>>

WatchdogTimeout(s) ==
    /\ devState \in {"GRACE", "STARTED"}
    /\ CallStop(s, "starved", "timed_out")
    /\ exitAsync' = TRUE
    /\ UNCHANGED <<req, calls, config, isRunning, status, demod, device, query,
                   closeReq>>

(* Both callers of sdr_stop() in the loop then announce STOPPED.           *)
AnnounceTimeout(s) ==
    /\ Goto(s, "timed_out", "loop")
    /\ Announce("STOPPED")
    /\ UNCHANGED <<ret, req, calls, config, isRunning, exitAsync, watchdog,
                   demod, device, query, closeReq>>

AnnounceStopped(s) ==
    /\ Goto(s, "stopped", "free_cfg")
    /\ Announce("STOPPED")
    /\ UNCHANGED <<ret, req, calls, config, isRunning, exitAsync, watchdog,
                   demod, device, query, closeReq>>

-----------------------------------------------------------------------------
(* sdr_stop(): signal and cancel under dev->lock, then join outside it.    *)

CancelForgotten == asyncStatus \* mutant
AfterCancel == IF asyncStatus = "running" \/ CancelLatches THEN "canceling"
               ELSE asyncStatus

StopSignal(s) ==
    /\ ~dev.exitAcquire
    /\ Goto(s, "stop_signal", "stop_join")
    /\ dev' = [dev EXCEPT !.exitAcquire = TRUE]
    /\ asyncStatus' = AfterCancel
    /\ UNCHANGED <<ret, req, calls, config, isRunning, exitAsync, status,
                   demod, acq, query, closeReq>>

StopAlready(s) ==
    /\ dev.exitAcquire
    /\ Goto(s, "stop_signal", ret[s])
    /\ UNCHANGED <<ret, req, calls, config, isRunning, exitAsync, status,
                   demod, device, query, closeReq>>

(* pthread_join(): returns when the thread has ended, or with an error     *)
(* when there is none.                                                     *)
JoinAtOnce == TRUE \* mutant
CanJoin == acq \notin LiveAcq

StopJoin(s) ==
    /\ CanJoin
    /\ Goto(s, "stop_join", ret[s])
    /\ acq' = IF acq = "done" THEN "none" ELSE acq
    /\ UNCHANGED <<ret, req, calls, config, isRunning, exitAsync, status,
                   demod, dev, asyncStatus, query, closeReq>>

-----------------------------------------------------------------------------
(* r_free_cfg() and the end of rtl433_start().                             *)

FreeCfgOpen(s) ==
    /\ dev.open
    /\ CallStop(s, "free_cfg", "free_dev")
    /\ UNCHANGED <<req, calls, config, isRunning, exitAsync, status, demod,
                   device, query, closeReq>>

FreeCfgClosed(s) ==
    /\ ~dev.open
    /\ Goto(s, "free_cfg", "free_rest")
    /\ UNCHANGED <<ret, req, calls, config, isRunning, exitAsync, status,
                   demod, device, query, closeReq>>

FreeDevice(s) ==
    /\ Goto(s, "free_dev", "free_rest")
    /\ dev' = NoDev
    /\ UNCHANGED <<ret, req, calls, config, isRunning, exitAsync, status,
                   demod, acq, asyncStatus, query, closeReq>>

(* settings_str, watchdog and dev_state keep their values.                 *)
FreeRest(s) ==
    /\ Goto(s, "free_rest", "leave")
    /\ demod' = FALSE
    /\ logHandler' = FALSE
    /\ UNCHANGED <<ret, req, calls, params, settings, isRunning, exitAsync,
                   status, device, query, closeReq>>

Leave(s) ==
    /\ Goto(s, "leave", "idle")
    /\ isRunning' = FALSE
    /\ closeReq' = FALSE
    /\ UNCHANGED <<ret, req, calls, config, exitAsync, status, demod, device,
                   query>>

-----------------------------------------------------------------------------
(* The acquire thread inside librtlsdr and its callback.                   *)

AcquireRead ==
    /\ acq = "starting"
    /\ acq' = "reading"
    /\ asyncStatus' = IF asyncStatus = "canceling" THEN "canceling"
                      ELSE "running"
    /\ UNCHANGED <<pc, ret, req, calls, config, isRunning, exitAsync, status,
                   demod, dev, query, closeReq>>

(* rtlsdr_read_cb(): a frame that comes after exit_acquire is dropped.     *)
FrameArrives ==
    /\ acq = "reading"
    /\ ~dev.exitAcquire
    /\ acq' = "callback"
    /\ UNCHANGED <<pc, ret, req, calls, config, isRunning, exitAsync, status,
                   demod, dev, asyncStatus, query, closeReq>>

(* sdr_callback(): a frame too short for one sample leaves the watchdog.   *)
FrameDone(tooShort) ==
    /\ acq = "callback"
    /\ acq' = "reading"
    /\ watchdog' = (watchdog \/ ~tooShort)
    /\ UNCHANGED <<pc, ret, req, calls, config, isRunning, exitAsync, devState,
                   ui, demod, dev, asyncStatus, query, closeReq>>

(* The read ends after a cancel, or at any time with an error: no buffer,  *)
(* a USB transfer that fails, the dongle pulled.                           *)
ReadCanceled ==
    /\ acq = "reading"
    /\ asyncStatus = "canceling"
    /\ acq' = "done"
    /\ asyncStatus' = "inactive"
    /\ UNCHANGED <<pc, ret, req, calls, config, isRunning, exitAsync, status,
                   demod, dev, query, closeReq>>

ReadFails ==
    /\ acq \in {"starting", "reading"}
    /\ acq' = "done"
    /\ asyncStatus' = "inactive"
    /\ UNCHANGED <<pc, ret, req, calls, config, isRunning, exitAsync, status,
                   demod, dev, query, closeReq>>

-----------------------------------------------------------------------------
(* The other JNI entry points.  close() does nothing unless it finds a     *)
(* session running.                                                        *)

Close ==
    /\ isRunning
    /\ exitAsync' = TRUE
    /\ closeReq' = TRUE
    /\ UNCHANGED <<pc, ret, req, calls, config, isRunning, status, demod,
                   device, query>>

QueryRead(q) ==
    /\ query[q] = "idle"
    /\ query' = [query EXCEPT ![q] = IF isRunning THEN "STARTED" ELSE "STOPPED"]
    /\ UNCHANGED <<pc, ret, req, calls, config, isRunning, exitAsync, status,
                   demod, device, closeReq>>

QueryAnnounce(q) ==
    /\ query[q] # "idle"
    /\ Tell(query[q], FALSE)
    /\ query' = [query EXCEPT ![q] = "idle"]
    /\ UNCHANGED <<pc, ret, req, calls, config, isRunning, exitAsync, devState,
                   watchdog, demod, device, closeReq>>

-----------------------------------------------------------------------------

Setup(s) ==
    \/ SetFd(s) \/ SetOptions(s) \/ IgnoreCall(s) \/ Enter(s)
    \/ ClearExit(s) \/ InitCfg(s) \/ OpenDevice(s) \/ OpenFails(s)
    \/ AnnounceStarting(s) \/ \E created \in BOOLEAN : StartAcquire(s, created)

Loop(s) ==
    \/ LoopOn(s) \/ LoopExit(s) \/ PollQuiet(s) \/ WatchdogTick(s)
    \/ WatchdogFed(s) \/ WatchdogGrace(s) \/ WatchdogTimeout(s)
    \/ AnnounceTimeout(s) \/ AnnounceStopped(s)

Teardown(s) ==
    \/ StopSignal(s) \/ StopAlready(s) \/ StopJoin(s)
    \/ FreeCfgOpen(s) \/ FreeCfgClosed(s) \/ FreeDevice(s) \/ FreeRest(s)
    \/ Leave(s)

Acquire ==
    \/ AcquireRead \/ FrameArrives \/ ReadCanceled \/ ReadFails
    \/ \E tooShort \in BOOLEAN : FrameDone(tooShort)

Java ==
    \/ Close
    \/ \E q \in Queriers : QueryRead(q) \/ QueryAnnounce(q)
    \/ \E s \in Starters, fd \in Fds, opts \in Options : CallStart(s, fd, opts)

Next ==
    \/ \E s \in Starters : Setup(s) \/ Loop(s) \/ Teardown(s)
    \/ Acquire
    \/ Java

Spec == Init /\ [][Next]_vars

(* Threads that can run do run; the clock passes, so a loop that polls     *)
(* for ever finds the watchdog due again and again; a callback returns,    *)
(* and a read that was cancelled ends.  Nothing makes frames arrive, a     *)
(* close() come or a new start() be called.                                *)
Fairness ==
    /\ \A s \in Starters :
        WF_vars(Setup(s) \/ Loop(s) \/ Teardown(s)) /\ SF_vars(WatchdogTick(s))
    /\ WF_vars(AcquireRead)
    /\ WF_vars(ReadCanceled)
    /\ WF_vars(\E tooShort \in BOOLEAN : FrameDone(tooShort))
    /\ \A q \in Queriers : WF_vars(QueryAnnounce(q))

FairSpec == Spec /\ Fairness

-----------------------------------------------------------------------------
(* Properties.                                                             *)

(* At most one start() call owns the global configuration and the device,  *)
(* and _is_running says exactly whether one does (rtl433_start).           *)
OneSession ==
    /\ \A s, t \in Starters : InSession(s) /\ InSession(t) => s = t
    /\ isRunning <=> \E s \in Starters : InSession(s)

(* The acquire thread never runs on a device or a configuration that has   *)
(* been freed: sdr_stop() joined it before sdr_close() and r_free_cfg().   *)
AcquireSafe == acq \in LiveAcq => isRunning /\ demod /\ dev.open

(* A finished session leaves no open device, no configuration and no       *)
(* acquire thread, joined or not, to the next one.                         *)
NothingLeftBehind == ~isRunning => ~demod /\ ~dev.open /\ acq = "none"

(* A frame is decoded while dev_state says STOPPED only before the STARTING *)
(* of a session that has just created its acquire thread: start_sdr()       *)
(* creates it first and reports it then.  From STOPPED at the end of a      *)
(* session, by whichever path, no sensor line can follow.                   *)
QuietWhenStopped ==
    devState = "STOPPED" /\ acq \in LiveAcq => \E s \in Starters : pc[s] = "announce"

(* However the sessions ended, a UI that has heard the latest announcement  *)
(* of a session, and no query's answer since, shows a receiver that does    *)
(* not run as STOPPED.                                                      *)
UiShowsStopped ==
    ~isRunning /\ ui.fresh => ui.shows = "STOPPED"

(* isNativeRunning() announces its answer "so the StatusCard always         *)
(* reflects the correct hardware state": while no session runs, nothing     *)
(* turns the display to anything but STOPPED.                               *)
UiReflectsState ==
    [][~isRunning /\ ui'.shows # ui.shows => ui'.shows = "STOPPED"]_vars

(* A close() that finds a session running ends that session.               *)
CloseEndsSession == closeReq ~> ~isRunning

(* Once the loop can see exit_async, whoever set it, the session ends.     *)
StopEndsSession ==
    \A s \in Starters :
        (exitAsync /\ pc[s] \in LoopPcs) ~> ~InSession(s)

(* A session whose device delivers nothing any more stops by itself: the   *)
(* watchdog finds it.                                                      *)
DeadDeviceStops ==
    \A s \in Starters :
        (pc[s] \in LoopPcs /\ [](acq # "callback")) ~> ~InSession(s)

=============================================================================

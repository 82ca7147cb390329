----------------------- MODULE AndroidSession_proofs ------------------------
(***************************************************************************)
(* Proofs about AndroidSession for any number of Java threads, any file    *)
(* descriptors and options, and either behaviour of librtlsdr's cancel.    *)
(***************************************************************************)
EXTENDS AndroidSessionInv, TLAPS

USE DEF CallPcs, SetupPcs, LoopPcs, StopPcs, TeardownPcs, SessionPcs, ReturnPcs,
        LiveAcq, InSession, DevStates, NoState, SettingStrings, NoDev, NoOptions,
        NoNews, config, device, status

-----------------------------------------------------------------------------
(* Types.                                                                  *)

(* The initial state has the declared types.                               *)
LEMMA TypeInit == Init => TypeOK
<1> SUFFICES ASSUME Init PROVE TypeOK
    OBVIOUS
<1>1. pc \in [Starters -> CallPcs \cup SessionPcs]
    BY DEF Init
<1>2. ret \in [Starters -> ReturnPcs]
    BY DEF Init
<1>3. req \in [Starters -> [fd : Fds \cup {NoFd},
                            opts : [agc : BOOLEAN, biast : BOOLEAN]]]
    BY DEF Init
<1>4. params \in [fd : Fds \cup {NoFd}, opts : [agc : BOOLEAN, biast : BOOLEAN]]
    BY DEF Init
<1>5. dev \in [open : BOOLEAN, fd : Fds \cup {NoFd}, exitAcquire : BOOLEAN,
               settings : SettingStrings]
    BY DEF Init
<1>6. query \in [Queriers -> {"idle", "STARTED", "STOPPED"}]
    BY DEF Init
<1>7. calls \in 0 .. MaxCalls
    BY BoundsAssumption DEF Init
<1> QED
    BY <1>1, <1>2, <1>3, <1>4, <1>5, <1>6, <1>7 DEF Init, TypeOK

Shown == [shows : DevStates \cup {NoState}, fresh : BOOLEAN]

\* What becomes of an announcement.
LEMMA TellTypes ==
    ASSUME ui \in Shown, NEW state \in DevStates, NEW who \in BOOLEAN, Tell(state, who)
    PROVE  ui' \in Shown
<1>1. CASE ui' = [shows |-> state, fresh |-> who]
    BY <1>1 DEF Shown
<1>2. CASE ui' = [ui EXCEPT !.fresh = @ /\ ~who]
    <2>1. (ui.fresh /\ ~who) \in BOOLEAN
        OBVIOUS
    <2> QED
        BY <1>2, <2>1 DEF Shown
<1> QED
    BY <1>1, <1>2 DEF Tell

(* Every step preserves the types.                                        *)
LEMMA TypeStep ==
    ASSUME TypeOK, [Next]_vars
    PROVE  TypeOK'
<1> USE DEF TypeOK, Goto, Shown
<1>1. ASSUME NEW s \in Starters, Setup(s)
       PROVE  TypeOK'
  <2>1. CASE SetFd(s)
    BY <2>1 DEF SetFd, NewFd
  <2>2. CASE SetOptions(s)
    BY <2>2 DEF SetOptions, RegisterHandler
  <2>3. CASE IgnoreCall(s)
    BY <2>3 DEF IgnoreCall
  <2>4. CASE Enter(s)
    BY <2>4 DEF Enter, MayEnter
  <2>5. CASE ClearExit(s)
    <3>1. pc' \in [Starters -> CallPcs \cup SessionPcs]
      BY <2>5 DEF ClearExit
    <3>2. exitAsync' \in BOOLEAN
      BY <2>5 DEF ClearExit
    <3>3. UNCHANGED <<ret, req, calls, params, settings, logHandler,
                     isRunning, devState, ui, watchdog, demod, dev,
                     acq, asyncStatus, query, closeReq>>
      BY <2>5 DEF ClearExit
    <3> QED
      BY <3>1, <3>2, <3>3
  <2>6. CASE InitCfg(s)
    BY <2>6 DEF InitCfg, NewSettings
  <2>7. CASE OpenDevice(s)
    BY <2>7 DEF OpenDevice
  <2>8. CASE OpenFails(s)
    BY <2>8 DEF OpenFails
  <2>9. ASSUME NEW created \in BOOLEAN, StartAcquire(s, created)
        PROVE  TypeOK'
    BY <2>9 DEF StartAcquire
  <2>10. CASE AnnounceStarting(s)
    <3>1. pc' \in [Starters -> CallPcs \cup SessionPcs]
      BY <2>10 DEF AnnounceStarting
    <3>2. devState' \in DevStates
      BY <2>10 DEF AnnounceStarting, Announce
    <3>3. ui' \in Shown
      BY <2>10, TellTypes DEF AnnounceStarting, Announce
    <3>4. UNCHANGED <<ret, req, calls, params, settings, logHandler,
                     isRunning, exitAsync, watchdog, demod, dev, acq,
                     asyncStatus, query, closeReq>>
      BY <2>10 DEF AnnounceStarting
    <3> QED
      BY <3>1, <3>2, <3>3, <3>4
  <2> QED
    BY <2>1, <2>2, <2>3, <2>4, <2>5, <2>6, <2>7, <2>8, <2>9, <2>10, <1>1
       DEF Setup
<1>2. ASSUME NEW s \in Starters, Loop(s)
       PROVE  TypeOK'
  <2>1. CASE LoopOn(s)
    BY <2>1 DEF LoopOn
  <2>2. CASE LoopExit(s)
    BY <2>2 DEF LoopExit, CallStop
  <2>3. CASE PollQuiet(s)
    BY <2>3 DEF PollQuiet
  <2>4. CASE WatchdogTick(s)
    BY <2>4 DEF WatchdogTick
  <2>5. CASE WatchdogFed(s)
    <3>1. pc' \in [Starters -> CallPcs \cup SessionPcs]
      BY <2>5 DEF WatchdogFed, Announce, ResetWatchdog
    <3>2. devState' \in DevStates
      BY <2>5 DEF WatchdogFed, Announce, ResetWatchdog
    <3>3. ui' \in Shown
      BY <2>5, TellTypes DEF WatchdogFed, Announce
    <3>4. watchdog' \in BOOLEAN
      BY <2>5 DEF WatchdogFed, Announce, ResetWatchdog
    <3>5. UNCHANGED <<ret, req, calls, params, settings, logHandler,
                     isRunning, exitAsync, demod, dev, acq, asyncStatus,
                     query, closeReq>>
      BY <2>5 DEF WatchdogFed
    <3> QED
      BY <3>1, <3>2, <3>3, <3>4, <3>5
  <2>6. CASE WatchdogGrace(s)
    <3>1. pc' \in [Starters -> CallPcs \cup SessionPcs]
      BY <2>6 DEF WatchdogGrace
    <3>2. devState' \in DevStates /\ ui' \in Shown
      BY <2>6, TellTypes DEF WatchdogGrace, Announce
    <3>3. UNCHANGED <<ret, req, calls, params, settings, logHandler,
                     isRunning, exitAsync, watchdog, demod, dev, acq,
                     asyncStatus, query, closeReq>>
      BY <2>6 DEF WatchdogGrace
    <3> QED
      BY <3>1, <3>2, <3>3
  <2>7. CASE WatchdogTimeout(s)
    BY <2>7 DEF WatchdogTimeout, CallStop
  <2>8. CASE AnnounceTimeout(s)
    <3>1. pc' \in [Starters -> CallPcs \cup SessionPcs]
      BY <2>8 DEF AnnounceTimeout
    <3>2. devState' \in DevStates /\ ui' \in Shown
      BY <2>8, TellTypes DEF AnnounceTimeout, Announce
    <3>3. UNCHANGED <<ret, req, calls, params, settings, logHandler,
                     isRunning, exitAsync, watchdog, demod, dev, acq,
                     asyncStatus, query, closeReq>>
      BY <2>8 DEF AnnounceTimeout
    <3> QED
      BY <3>1, <3>2, <3>3
  <2>9. CASE AnnounceStopped(s)
    <3>1. pc' \in [Starters -> CallPcs \cup SessionPcs]
      BY <2>9 DEF AnnounceStopped
    <3>2. devState' \in DevStates /\ ui' \in Shown
      BY <2>9, TellTypes DEF AnnounceStopped, Announce
    <3>3. UNCHANGED <<ret, req, calls, params, settings, logHandler,
                     isRunning, exitAsync, watchdog, demod, dev, acq,
                     asyncStatus, query, closeReq>>
      BY <2>9 DEF AnnounceStopped
    <3> QED
      BY <3>1, <3>2, <3>3
  <2> QED
    BY <2>1, <2>2, <2>3, <2>4, <2>5, <2>6, <2>7, <2>8, <2>9, <1>2 DEF Loop
<1>3. ASSUME NEW s \in Starters, Teardown(s)
       PROVE  TypeOK'
  <2>1. CASE StopSignal(s)
    <3>1. pc' \in [Starters -> CallPcs \cup SessionPcs]
      BY <2>1 DEF StopSignal, AfterCancel
    <3>2. dev' \in [open : BOOLEAN, fd : Fds \cup {NoFd},
                    exitAcquire : BOOLEAN, settings : SettingStrings]
      BY <2>1 DEF StopSignal, AfterCancel
    <3>3. asyncStatus' \in {"inactive", "running", "canceling"}
      BY <2>1 DEF StopSignal, AfterCancel
    <3>4. UNCHANGED <<ret, req, calls, params, settings, logHandler,
                     isRunning, exitAsync, devState, ui, watchdog,
                     demod, acq, query, closeReq>>
      BY <2>1 DEF StopSignal
    <3> QED
      BY <3>1, <3>2, <3>3, <3>4
  <2>2. CASE StopAlready(s)
    BY <2>2 DEF StopAlready
  <2>3. CASE StopJoin(s)
    BY <2>3 DEF StopJoin, CanJoin
  <2>4. CASE FreeCfgOpen(s)
    BY <2>4 DEF FreeCfgOpen, CallStop
  <2>5. CASE FreeCfgClosed(s)
    BY <2>5 DEF FreeCfgClosed
  <2>6. CASE FreeDevice(s)
    BY <2>6 DEF FreeDevice
  <2>7. CASE FreeRest(s)
    <3>1. pc' \in [Starters -> CallPcs \cup SessionPcs]
      BY <2>7 DEF FreeRest
    <3>2. demod' \in BOOLEAN
      BY <2>7 DEF FreeRest
    <3>3. logHandler' \in BOOLEAN
      BY <2>7 DEF FreeRest
    <3>4. UNCHANGED <<ret, req, calls, params, settings, isRunning,
                     exitAsync, devState, ui, watchdog, dev, acq,
                     asyncStatus, query, closeReq>>
      BY <2>7 DEF FreeRest
    <3> QED
      BY <3>1, <3>2, <3>3, <3>4
  <2>8. CASE Leave(s)
    <3>1. pc' \in [Starters -> CallPcs \cup SessionPcs]
      BY <2>8 DEF Leave
    <3>2. isRunning' \in BOOLEAN
      BY <2>8 DEF Leave
    <3>3. closeReq' \in BOOLEAN
      BY <2>8 DEF Leave
    <3>4. UNCHANGED <<ret, req, calls, params, settings, logHandler,
                     exitAsync, devState, ui, watchdog, demod, dev,
                     acq, asyncStatus, query>>
      BY <2>8 DEF Leave
    <3> QED
      BY <3>1, <3>2, <3>3, <3>4
  <2> QED
    BY <2>1, <2>2, <2>3, <2>4, <2>5, <2>6, <2>7, <2>8, <1>3 DEF Teardown
<1>4. CASE Acquire
  <2>1. CASE AcquireRead
    BY <2>1 DEF AcquireRead
  <2>2. CASE FrameArrives
    BY <2>2 DEF FrameArrives
  <2>3. ASSUME NEW tooShort \in BOOLEAN, FrameDone(tooShort)
        PROVE  TypeOK'
    BY <2>3 DEF FrameDone
  <2>4. CASE ReadCanceled
    BY <2>4 DEF ReadCanceled
  <2>5. CASE ReadFails
    BY <2>5 DEF ReadFails
  <2> QED
    BY <2>1, <2>2, <2>3, <2>4, <2>5, <1>4 DEF Acquire
<1>5. CASE Java
  <2>1. CASE Close
    BY <2>1 DEF Close
  <2>2. ASSUME NEW q \in Queriers, QueryRead(q)
        PROVE  TypeOK'
    BY <2>2 DEF QueryRead
  <2>3. ASSUME NEW q \in Queriers, QueryAnnounce(q)
        PROVE  TypeOK'
    <3>0. query[q] \in DevStates /\ Tell(query[q], FALSE)
      BY <2>3 DEF QueryAnnounce
    <3>1. ui' \in Shown
      BY <3>0, TellTypes
    <3>2. query' \in [Queriers -> {"idle", "STARTED", "STOPPED"}]
      BY <2>3 DEF QueryAnnounce
    <3>3. UNCHANGED <<pc, ret, req, calls, params, settings, logHandler,
                     isRunning, exitAsync, devState, watchdog, demod, dev,
                     acq, asyncStatus, closeReq>>
      BY <2>3 DEF QueryAnnounce
    <3> QED
      BY <3>1, <3>2, <3>3
  <2>4. ASSUME NEW s \in Starters, NEW fd \in Fds, NEW opts \in Options,
               CallStart(s, fd, opts)
        PROVE  TypeOK'
    BY <2>4, OptionsAssumption, BoundsAssumption DEF CallStart
  <2> QED
    BY <2>1, <2>2, <2>3, <2>4, <1>5 DEF Java
<1>6. CASE UNCHANGED vars
    BY <1>6 DEF vars
<1> QED
    BY <1>1, <1>2, <1>3, <1>4, <1>5, <1>6 DEF Next

-----------------------------------------------------------------------------
(* The inductive invariant.                                                *)

(* The initial state has no session, no device and no acquire thread.      *)
LEMMA InitIInv == Init => IInv
<1> SUFFICES ASSUME Init PROVE IInv
    OBVIOUS
<1>1. \A s \in Starters : ~InSession(s)
    BY DEF Init
<1>2. OneSession /\ NothingLeftBehind /\ QuietWhenStopped
    BY <1>1 DEF Init, OneSession, NothingLeftBehind, QuietWhenStopped
<1>3. ASSUME NEW s \in Starters PROVE Shape(s) /\ Stopped(s)
    BY DEF Init, Shape, Stopped
<1> QED
    BY <1>2, <1>3, TypeInit DEF IInv

(* Mutual exclusion: _is_running is set by the one call that enters and     *)
(* cleared by the same call when it leaves.                                *)
LEMMA OneSessionStep ==
    ASSUME TypeOK, OneSession, [Next]_vars
    PROVE  OneSession'
<1> USE DEF TypeOK, OneSession, Goto
<1>1. ASSUME NEW s \in Starters, Setup(s)
       PROVE  OneSession'
  <2>1. CASE SetFd(s)
    BY <2>1 DEF SetFd, NewFd
  <2>2. CASE SetOptions(s)
    BY <2>2 DEF SetOptions, RegisterHandler
  <2>3. CASE IgnoreCall(s)
    BY <2>3 DEF IgnoreCall
  <2>4. CASE Enter(s)
    BY <2>4 DEF Enter, MayEnter
  <2>5. CASE ClearExit(s)
    BY <2>5 DEF ClearExit
  <2>6. CASE InitCfg(s)
    BY <2>6 DEF InitCfg, NewSettings
  <2>7. CASE OpenDevice(s)
    BY <2>7 DEF OpenDevice
  <2>8. CASE OpenFails(s)
    BY <2>8 DEF OpenFails
  <2>9. ASSUME NEW created \in BOOLEAN, StartAcquire(s, created)
        PROVE  OneSession'
    BY <2>9 DEF StartAcquire
  <2>10. CASE AnnounceStarting(s)
    BY <2>10 DEF AnnounceStarting, Announce
  <2> QED
    BY <2>1, <2>2, <2>3, <2>4, <2>5, <2>6, <2>7, <2>8, <2>9, <2>10, <1>1
       DEF Setup
<1>2. ASSUME NEW s \in Starters, Loop(s)
       PROVE  OneSession'
  <2>1. CASE LoopOn(s)
    BY <2>1 DEF LoopOn
  <2>2. CASE LoopExit(s)
    BY <2>2 DEF LoopExit, CallStop
  <2>3. CASE PollQuiet(s)
    BY <2>3 DEF PollQuiet
  <2>4. CASE WatchdogTick(s)
    BY <2>4 DEF WatchdogTick
  <2>5. CASE WatchdogFed(s)
    BY <2>5 DEF WatchdogFed, Announce, ResetWatchdog
  <2>6. CASE WatchdogGrace(s)
    BY <2>6 DEF WatchdogGrace, Announce
  <2>7. CASE WatchdogTimeout(s)
    BY <2>7 DEF WatchdogTimeout, CallStop
  <2>8. CASE AnnounceTimeout(s)
    BY <2>8 DEF AnnounceTimeout, Announce
  <2>9. CASE AnnounceStopped(s)
    BY <2>9 DEF AnnounceStopped, Announce
  <2> QED
    BY <2>1, <2>2, <2>3, <2>4, <2>5, <2>6, <2>7, <2>8, <2>9, <1>2 DEF Loop
<1>3. ASSUME NEW s \in Starters, Teardown(s)
       PROVE  OneSession'
  <2>1. CASE StopSignal(s)
    BY <2>1 DEF StopSignal, AfterCancel
  <2>2. CASE StopAlready(s)
    BY <2>2 DEF StopAlready
  <2>3. CASE StopJoin(s)
    BY <2>3 DEF StopJoin, CanJoin
  <2>4. CASE FreeCfgOpen(s)
    BY <2>4 DEF FreeCfgOpen, CallStop
  <2>5. CASE FreeCfgClosed(s)
    BY <2>5 DEF FreeCfgClosed
  <2>6. CASE FreeDevice(s)
    BY <2>6 DEF FreeDevice
  <2>7. CASE FreeRest(s)
    BY <2>7 DEF FreeRest
  <2>8. CASE Leave(s)
    BY <2>8 DEF Leave
  <2> QED
    BY <2>1, <2>2, <2>3, <2>4, <2>5, <2>6, <2>7, <2>8, <1>3 DEF Teardown
<1>4. CASE Acquire
  <2>1. CASE AcquireRead
    BY <2>1 DEF AcquireRead
  <2>2. CASE FrameArrives
    BY <2>2 DEF FrameArrives
  <2>3. ASSUME NEW tooShort \in BOOLEAN, FrameDone(tooShort)
        PROVE  OneSession'
    BY <2>3 DEF FrameDone
  <2>4. CASE ReadCanceled
    BY <2>4 DEF ReadCanceled
  <2>5. CASE ReadFails
    BY <2>5 DEF ReadFails
  <2> QED
    BY <2>1, <2>2, <2>3, <2>4, <2>5, <1>4 DEF Acquire
<1>5. CASE Java
  <2>1. CASE Close
    BY <2>1 DEF Close
  <2>2. ASSUME NEW q \in Queriers, QueryRead(q)
        PROVE  OneSession'
    BY <2>2 DEF QueryRead
  <2>3. ASSUME NEW q \in Queriers, QueryAnnounce(q)
        PROVE  OneSession'
    BY <2>3 DEF QueryAnnounce
  <2>4. ASSUME NEW s \in Starters, NEW fd \in Fds, NEW opts \in Options,
               CallStart(s, fd, opts)
        PROVE  OneSession'
    BY <2>4 DEF CallStart
  <2> QED
    BY <2>1, <2>2, <2>3, <2>4, <1>5 DEF Java
<1>6. CASE UNCHANGED vars
    BY <1>6 DEF vars
<1> QED
    BY <1>1, <1>2, <1>3, <1>4, <1>5, <1>6 DEF Next

(* Each step leaves every location with the resources it expects.          *)
LEMMA ShapeStep ==
    ASSUME IInv, [Next]_vars
    PROVE  \A t \in Starters : Shape(t)' /\ Stopped(t)'
<1> USE DEF IInv, TypeOK, OneSession, Goto, Shape, Stopped, Unopened,
           NothingLeftBehind
<1>1. ASSUME NEW s \in Starters, Setup(s)
       PROVE  \A t \in Starters : Shape(t)' /\ Stopped(t)'
  <2>1. CASE SetFd(s)
    BY <2>1 DEF SetFd, NewFd
  <2>2. CASE SetOptions(s)
    BY <2>2 DEF SetOptions, RegisterHandler
  <2>3. CASE IgnoreCall(s)
    BY <2>3 DEF IgnoreCall
  <2>4. CASE Enter(s)
    BY <2>4 DEF Enter, MayEnter
  <2>5. CASE ClearExit(s)
    BY <2>5 DEF ClearExit
  <2>6. CASE InitCfg(s)
    BY <2>6 DEF InitCfg, NewSettings
  <2>7. CASE OpenDevice(s)
    BY <2>7 DEF OpenDevice
  <2>8. CASE OpenFails(s)
    BY <2>8 DEF OpenFails
  <2>9. ASSUME NEW created \in BOOLEAN, StartAcquire(s, created)
        PROVE  \A t \in Starters : Shape(t)' /\ Stopped(t)'
    BY <2>9 DEF StartAcquire
  <2>10. CASE AnnounceStarting(s)
    BY <2>10 DEF AnnounceStarting, Announce
  <2> QED
    BY <2>1, <2>2, <2>3, <2>4, <2>5, <2>6, <2>7, <2>8, <2>9, <2>10, <1>1
       DEF Setup
<1>2. ASSUME NEW s \in Starters, Loop(s)
       PROVE  \A t \in Starters : Shape(t)' /\ Stopped(t)'
  <2>1. CASE LoopOn(s)
    BY <2>1 DEF LoopOn
  <2>2. CASE LoopExit(s)
    BY <2>2 DEF LoopExit, CallStop
  <2>3. CASE PollQuiet(s)
    BY <2>3 DEF PollQuiet
  <2>4. CASE WatchdogTick(s)
    BY <2>4 DEF WatchdogTick
  <2>5. CASE WatchdogFed(s)
    BY <2>5 DEF WatchdogFed, Announce, ResetWatchdog
  <2>6. CASE WatchdogGrace(s)
    BY <2>6 DEF WatchdogGrace, Announce
  <2>7. CASE WatchdogTimeout(s)
    BY <2>7 DEF WatchdogTimeout, CallStop
  <2>8. CASE AnnounceTimeout(s)
    BY <2>8 DEF AnnounceTimeout, Announce
  <2>9. CASE AnnounceStopped(s)
    BY <2>9 DEF AnnounceStopped, Announce
  <2> QED
    BY <2>1, <2>2, <2>3, <2>4, <2>5, <2>6, <2>7, <2>8, <2>9, <1>2 DEF Loop
<1>3. ASSUME NEW s \in Starters, Teardown(s)
       PROVE  \A t \in Starters : Shape(t)' /\ Stopped(t)'
  <2>1. CASE StopSignal(s)
    BY <2>1 DEF StopSignal, AfterCancel
  <2>2. CASE StopAlready(s)
    BY <2>2 DEF StopAlready
  <2>3. CASE StopJoin(s)
    BY <2>3 DEF StopJoin, CanJoin
  <2>4. CASE FreeCfgOpen(s)
    BY <2>4 DEF FreeCfgOpen, CallStop
  <2>5. CASE FreeCfgClosed(s)
    BY <2>5 DEF FreeCfgClosed
  <2>6. CASE FreeDevice(s)
    BY <2>6 DEF FreeDevice
  <2>7. CASE FreeRest(s)
    BY <2>7 DEF FreeRest
  <2>8. CASE Leave(s)
    BY <2>8 DEF Leave
  <2> QED
    BY <2>1, <2>2, <2>3, <2>4, <2>5, <2>6, <2>7, <2>8, <1>3 DEF Teardown
<1>4. CASE Acquire
  <2>1. CASE AcquireRead
    BY <2>1 DEF AcquireRead
  <2>2. CASE FrameArrives
    BY <2>2 DEF FrameArrives
  <2>3. ASSUME NEW tooShort \in BOOLEAN, FrameDone(tooShort)
        PROVE  \A t \in Starters : Shape(t)' /\ Stopped(t)'
    BY <2>3 DEF FrameDone
  <2>4. CASE ReadCanceled
    BY <2>4 DEF ReadCanceled
  <2>5. CASE ReadFails
    BY <2>5 DEF ReadFails
  <2> QED
    BY <2>1, <2>2, <2>3, <2>4, <2>5, <1>4 DEF Acquire
<1>5. CASE Java
  <2>1. CASE Close
    BY <2>1 DEF Close
  <2>2. ASSUME NEW q \in Queriers, QueryRead(q)
        PROVE  \A t \in Starters : Shape(t)' /\ Stopped(t)'
    BY <2>2 DEF QueryRead
  <2>3. ASSUME NEW q \in Queriers, QueryAnnounce(q)
        PROVE  \A t \in Starters : Shape(t)' /\ Stopped(t)'
    BY <2>3 DEF QueryAnnounce
  <2>4. ASSUME NEW s \in Starters, NEW fd \in Fds, NEW opts \in Options,
               CallStart(s, fd, opts)
        PROVE  \A t \in Starters : Shape(t)' /\ Stopped(t)'
    BY <2>4 DEF CallStart
  <2> QED
    BY <2>1, <2>2, <2>3, <2>4, <1>5 DEF Java
<1>6. CASE UNCHANGED vars
    BY <1>6 DEF vars
<1> QED
    BY <1>1, <1>2, <1>3, <1>4, <1>5, <1>6 DEF Next

(* Nothing survives a session, and nothing streams once it is STOPPED.      *)
LEMMA QuietStep ==
    ASSUME IInv, [Next]_vars
    PROVE  NothingLeftBehind' /\ QuietWhenStopped'
<1> USE DEF IInv, TypeOK, OneSession, Goto, Shape, Stopped, Unopened,
           NothingLeftBehind, QuietWhenStopped
<1>1. ASSUME NEW s \in Starters, Setup(s)
       PROVE  NothingLeftBehind' /\ QuietWhenStopped'
  <2>1. CASE SetFd(s)
    BY <2>1 DEF SetFd, NewFd
  <2>2. CASE SetOptions(s)
    BY <2>2 DEF SetOptions, RegisterHandler
  <2>3. CASE IgnoreCall(s)
    BY <2>3 DEF IgnoreCall
  <2>4. CASE Enter(s)
    BY <2>4 DEF Enter, MayEnter
  <2>5. CASE ClearExit(s)
    BY <2>5 DEF ClearExit
  <2>6. CASE InitCfg(s)
    BY <2>6 DEF InitCfg, NewSettings
  <2>7. CASE OpenDevice(s)
    BY <2>7 DEF OpenDevice
  <2>8. CASE OpenFails(s)
    BY <2>8 DEF OpenFails
  <2>9. ASSUME NEW created \in BOOLEAN, StartAcquire(s, created)
        PROVE  NothingLeftBehind' /\ QuietWhenStopped'
    BY <2>9 DEF StartAcquire
  <2>10. CASE AnnounceStarting(s)
    BY <2>10 DEF AnnounceStarting, Announce
  <2> QED
    BY <2>1, <2>2, <2>3, <2>4, <2>5, <2>6, <2>7, <2>8, <2>9, <2>10, <1>1
       DEF Setup
<1>2. ASSUME NEW s \in Starters, Loop(s)
       PROVE  NothingLeftBehind' /\ QuietWhenStopped'
  <2>1. CASE LoopOn(s)
    BY <2>1 DEF LoopOn
  <2>2. CASE LoopExit(s)
    BY <2>2 DEF LoopExit, CallStop
  <2>3. CASE PollQuiet(s)
    BY <2>3 DEF PollQuiet
  <2>4. CASE WatchdogTick(s)
    BY <2>4 DEF WatchdogTick
  <2>5. CASE WatchdogFed(s)
    BY <2>5 DEF WatchdogFed, Announce, ResetWatchdog
  <2>6. CASE WatchdogGrace(s)
    BY <2>6 DEF WatchdogGrace, Announce
  <2>7. CASE WatchdogTimeout(s)
    BY <2>7 DEF WatchdogTimeout, CallStop
  <2>8. CASE AnnounceTimeout(s)
    BY <2>8 DEF AnnounceTimeout, Announce
  <2>9. CASE AnnounceStopped(s)
    BY <2>9 DEF AnnounceStopped, Announce
  <2> QED
    BY <2>1, <2>2, <2>3, <2>4, <2>5, <2>6, <2>7, <2>8, <2>9, <1>2 DEF Loop
<1>3. ASSUME NEW s \in Starters, Teardown(s)
       PROVE  NothingLeftBehind' /\ QuietWhenStopped'
  <2>1. CASE StopSignal(s)
    BY <2>1 DEF StopSignal, AfterCancel
  <2>2. CASE StopAlready(s)
    BY <2>2 DEF StopAlready
  <2>3. CASE StopJoin(s)
    BY <2>3 DEF StopJoin, CanJoin
  <2>4. CASE FreeCfgOpen(s)
    BY <2>4 DEF FreeCfgOpen, CallStop
  <2>5. CASE FreeCfgClosed(s)
    BY <2>5 DEF FreeCfgClosed
  <2>6. CASE FreeDevice(s)
    BY <2>6 DEF FreeDevice
  <2>7. CASE FreeRest(s)
    BY <2>7 DEF FreeRest
  <2>8. CASE Leave(s)
    BY <2>8 DEF Leave
  <2> QED
    BY <2>1, <2>2, <2>3, <2>4, <2>5, <2>6, <2>7, <2>8, <1>3 DEF Teardown
<1>4. CASE Acquire
  <2>1. CASE AcquireRead
    BY <2>1 DEF AcquireRead
  <2>2. CASE FrameArrives
    BY <2>2 DEF FrameArrives
  <2>3. ASSUME NEW tooShort \in BOOLEAN, FrameDone(tooShort)
        PROVE  NothingLeftBehind' /\ QuietWhenStopped'
    BY <2>3 DEF FrameDone
  <2>4. CASE ReadCanceled
    BY <2>4 DEF ReadCanceled
  <2>5. CASE ReadFails
    BY <2>5 DEF ReadFails
  <2> QED
    BY <2>1, <2>2, <2>3, <2>4, <2>5, <1>4 DEF Acquire
<1>5. CASE Java
  <2>1. CASE Close
    BY <2>1 DEF Close
  <2>2. ASSUME NEW q \in Queriers, QueryRead(q)
        PROVE  NothingLeftBehind' /\ QuietWhenStopped'
    BY <2>2 DEF QueryRead
  <2>3. ASSUME NEW q \in Queriers, QueryAnnounce(q)
        PROVE  NothingLeftBehind' /\ QuietWhenStopped'
    BY <2>3 DEF QueryAnnounce
  <2>4. ASSUME NEW s \in Starters, NEW fd \in Fds, NEW opts \in Options,
               CallStart(s, fd, opts)
        PROVE  NothingLeftBehind' /\ QuietWhenStopped'
    BY <2>4 DEF CallStart
  <2> QED
    BY <2>1, <2>2, <2>3, <2>4, <1>5 DEF Java
<1>6. CASE UNCHANGED vars
    BY <1>6 DEF vars
<1> QED
    BY <1>1, <1>2, <1>3, <1>4, <1>5, <1>6 DEF Next

-----------------------------------------------------------------------------
(* The theorems.                                                           *)

(* Every reachable state satisfies the inductive invariant.                *)
THEOREM Invariance == Spec => []IInv
<1>1. IInv /\ [Next]_vars => IInv'
    BY TypeStep, OneSessionStep, ShapeStep, QuietStep DEF IInv
<1> QED
    BY InitIInv, <1>1, PTL DEF Spec

(* Every variable keeps its type (the declarations of the C and C++ state). *)
THEOREM TypeCorrect == Spec => []TypeOK
<1>1. IInv => TypeOK
    BY DEF IInv
<1> QED
    BY Invariance, <1>1, PTL

(* rtl433_start() admits one call at a time, and _is_running is its flag.  *)
THEOREM MutualExclusion == Spec => []OneSession
<1>1. IInv => OneSession
    BY DEF IInv
<1> QED
    BY Invariance, <1>1, PTL

(* While the acquire thread lives, its session holds all that it uses.     *)
LEMMA IInvAcquire == IInv => AcquireSafe
<1> SUFFICES ASSUME IInv, acq \in LiveAcq PROVE isRunning /\ demod /\ dev.open
    BY DEF AcquireSafe
<1>1. isRunning
    BY DEF IInv, NothingLeftBehind
<1>2. PICK s \in Starters : InSession(s)
    BY <1>1 DEF IInv, OneSession
<1> QED
    BY <1>1, <1>2 DEF IInv, Shape, Unopened

(* sdr_stop() joins the acquire thread before anything it uses is freed.   *)
THEOREM AcquireSafety == Spec => []AcquireSafe
BY Invariance, IInvAcquire, PTL

(* r_free_cfg() hands the next session a clean slate.                      *)
THEOREM CleanSlate == Spec => []NothingLeftBehind
<1>1. IInv => NothingLeftBehind
    BY DEF IInv
<1> QED
    BY Invariance, <1>1, PTL

(* No frame is in the decoders while dev_state is STOPPED, but between the  *)
(* creation of the acquire thread and the STARTING that follows it.         *)
THEOREM QuietAfterStop == Spec => []QuietWhenStopped
<1>1. IInv => QuietWhenStopped
    BY DEF IInv
<1> QED
    BY Invariance, <1>1, PTL

(* Where the latest announcement of a session is not STOPPED: between its   *)
(* first and its last.                                                      *)
Showing(s) == \/ pc[s] \in LoopPcs \cup {"stopped"}
              \/ pc[s] \in StopPcs /\ ret[s] # "free_dev"
UiInv == ui.fresh => ui.shows = "STOPPED" \/ \E s \in Starters : Showing(s)

(* A step of a session that announces nothing.                             *)
LEMMA UiSilent ==
    ASSUME UiInv, NEW s \in Starters, ui' = ui,
           \A t \in Starters \ {s} : pc'[t] = pc[t] /\ ret'[t] = ret[t],
           Showing(s) => Showing(s)'
    PROVE  UiInv'
BY DEF UiInv, Showing

\* A step of a session that announces a state of its life, and goes on.
LEMMA UiTold ==
    ASSUME TypeOK, NEW s \in Starters, pc'[s] = "loop"
    PROVE  UiInv'
BY DEF UiInv, Showing, LoopPcs

\* A session's last announcement.
LEMMA UiToldStopped ==
    ASSUME TypeOK, Announce("STOPPED")
    PROVE  UiInv'
<1>1. CASE ui' = [shows |-> "STOPPED", fresh |-> TRUE]
    BY <1>1 DEF UiInv
<1>2. CASE ui' = [ui EXCEPT !.fresh = @ /\ ~TRUE]
    <2>1. ui'.fresh = FALSE
        BY <1>2 DEF TypeOK
    <2> QED
        BY <2>1 DEF UiInv
<1> QED
    BY <1>1, <1>2 DEF Announce, Tell

\* A step of a caller keeps the invariant.
LEMMA UiStep == TypeOK /\ UiInv /\ [Next]_vars => UiInv'
<1> SUFFICES ASSUME TypeOK, UiInv, [Next]_vars PROVE UiInv'
    OBVIOUS
<1> DEFINE Same == UNCHANGED <<pc, ret, ui>>
<1>0. Same => UiInv'
    BY DEF UiInv, Showing
<1>1. ASSUME NEW s \in Starters, Setup(s) PROVE UiInv'
    <2>1. CASE \E created \in BOOLEAN : StartAcquire(s, created)
        <3>1. /\ ui' = ui /\ ret' = ret /\ pc[s] = "start"
              /\ \A t \in Starters \ {s} : pc'[t] = pc[t]
            BY <2>1 DEF StartAcquire, Goto, TypeOK, status
        <3> QED
            BY <3>1, UiSilent DEF Showing, LoopPcs, StopPcs
    <2>2. CASE AnnounceStarting(s)
        <3>1. pc'[s] = "loop"
            BY <2>2 DEF AnnounceStarting, Goto, TypeOK
        <3> QED
            BY <3>1, UiTold
    <2>3. CASE ~AnnounceStarting(s) /\ ~\E created \in BOOLEAN : StartAcquire(s, created)
        <3>1. /\ ui' = ui /\ ret' = ret
              /\ pc[s] \in {"set_fd", "set_opts", "enter", "clear", "init", "open"}
              /\ \A t \in Starters \ {s} : pc'[t] = pc[t]
            BY <1>1, <2>3 DEF Setup, SetFd, SetOptions, IgnoreCall, Enter, ClearExit,
                InitCfg, OpenDevice, OpenFails, Goto, TypeOK, status
        <3> QED
            BY <3>1, UiSilent DEF Showing, LoopPcs, StopPcs
    <2> QED
        BY <2>1, <2>2, <2>3
<1>2. ASSUME NEW s \in Starters, Loop(s) PROVE UiInv'
    <2>1. CASE AnnounceTimeout(s) \/ AnnounceStopped(s)
        BY <2>1, UiToldStopped DEF AnnounceTimeout, AnnounceStopped
    <2>2. CASE WatchdogFed(s) \/ WatchdogGrace(s)
        <3>1. pc'[s] = "loop"
            BY <2>2 DEF WatchdogFed, WatchdogGrace, Goto, TypeOK
        <3> QED
            BY <3>1, UiTold
    <2>3. CASE LoopOn(s) \/ PollQuiet(s) \/ WatchdogTick(s)
        <3>1. pc'[s] \in {"loop", "poll", "fed", "starved"}
            BY <2>3 DEF LoopOn, PollQuiet, WatchdogTick, Goto, TypeOK
        <3> QED
            BY <3>1 DEF UiInv, Showing, LoopPcs
    <2>4. CASE LoopExit(s) \/ WatchdogTimeout(s)
        <3>1. pc'[s] = "stop_signal" /\ ret'[s] \in {"stopped", "timed_out"}
            BY <2>4 DEF LoopExit, WatchdogTimeout, CallStop, TypeOK
        <3> QED
            BY <3>1 DEF UiInv, Showing, StopPcs
    <2> QED
        BY <1>2, <2>1, <2>2, <2>3, <2>4 DEF Loop
<1>3. ASSUME NEW s \in Starters, Teardown(s) PROVE UiInv'
    <2>1. CASE StopSignal(s)
        <3>1. /\ ui' = ui /\ ret' = ret /\ pc'[s] = "stop_join"
              /\ pc[s] = "stop_signal" /\ \A t \in Starters \ {s} : pc'[t] = pc[t]
            BY <2>1 DEF StopSignal, Goto, TypeOK, status
        <3> QED
            BY <3>1, UiSilent DEF Showing, LoopPcs, StopPcs
    <2>2. CASE StopAlready(s) \/ StopJoin(s)
        <3>1. /\ ui' = ui /\ ret' = ret /\ pc'[s] = ret[s]
              /\ pc[s] \in StopPcs /\ \A t \in Starters \ {s} : pc'[t] = pc[t]
            BY <2>2 DEF StopAlready, StopJoin, Goto, TypeOK, status, StopPcs
        <3>2. ret[s] \in ReturnPcs
            BY DEF TypeOK
        <3> QED
            BY <3>1, <3>2, UiSilent DEF Showing, LoopPcs, StopPcs, ReturnPcs
    <2>3. CASE FreeCfgOpen(s)
        <3>1. /\ ui' = ui /\ pc[s] = "free_cfg"
              /\ \A t \in Starters \ {s} : pc'[t] = pc[t] /\ ret'[t] = ret[t]
            BY <2>3 DEF FreeCfgOpen, CallStop, TypeOK, status
        <3> QED
            BY <3>1, UiSilent DEF Showing, LoopPcs, StopPcs
    <2>4. CASE FreeCfgClosed(s) \/ FreeDevice(s) \/ FreeRest(s) \/ Leave(s)
        <3>1. /\ ui' = ui /\ ret' = ret
              /\ pc[s] \in {"free_cfg", "free_dev", "free_rest", "leave"}
              /\ \A t \in Starters \ {s} : pc'[t] = pc[t]
            BY <2>4 DEF FreeCfgClosed, FreeDevice, FreeRest, Leave, Goto, TypeOK, status
        <3> QED
            BY <3>1, UiSilent DEF Showing, LoopPcs, StopPcs
    <2> QED
        BY <1>3, <2>1, <2>2, <2>3, <2>4 DEF Teardown
<1>4. CASE Acquire
    BY <1>0, <1>4 DEF Acquire, AcquireRead, FrameArrives, ReadCanceled, ReadFails,
        FrameDone, status
<1>5. CASE Java
    <2>1. CASE Close
        BY <1>0, <2>1 DEF Close, status
    <2>2. CASE \E q \in Queriers : QueryRead(q)
        BY <1>0, <2>2 DEF QueryRead, status
    <2>3. CASE \E q \in Queriers : QueryAnnounce(q)
        <3>1. PICK q \in Queriers : Tell(query[q], FALSE)
            BY <2>3 DEF QueryAnnounce
        <3>2. pc' = pc /\ ret' = ret
            BY <2>3 DEF QueryAnnounce
        <3>3. CASE ui' = [shows |-> query[q], fresh |-> FALSE]
            BY <3>3 DEF UiInv
        <3>4. CASE ui' = [ui EXCEPT !.fresh = @ /\ ~FALSE]
            <4>1. ui' = ui
                BY <3>4 DEF TypeOK
            <4> QED
                BY <1>0, <3>2, <4>1
        <3> QED
            BY <3>1, <3>3, <3>4 DEF Tell
    <2>4. ASSUME NEW s \in Starters, NEW fd \in Fds, NEW opts \in Options,
                 CallStart(s, fd, opts)
          PROVE  UiInv'
        <3>1. /\ ui' = ui /\ ret' = ret /\ pc[s] = "idle"
              /\ \A t \in Starters \ {s} : pc'[t] = pc[t]
            BY <2>4 DEF CallStart, Goto, TypeOK, status
        <3> QED
            BY <3>1, UiSilent DEF Showing, LoopPcs, StopPcs
    <2> QED
        BY <1>5, <2>1, <2>2, <2>3, <2>4 DEF Java
<1>6. CASE UNCHANGED vars
    BY <1>0, <1>6 DEF vars, status
<1> QED
    BY <1>1, <1>2, <1>3, <1>4, <1>5, <1>6 DEF Next

(* However the sessions ended, a UI that heard the latest announcement of a *)
(* session, and nothing since, shows a receiver that does not run as        *)
(* STOPPED.                                                                 *)
THEOREM UiIsTold == Spec => []UiShowsStopped
<1>1. Init => UiInv
    BY DEF Init, UiInv
<1>2. IInv => TypeOK
    BY DEF IInv
<1>3. IInv /\ UiInv => UiShowsStopped
    <2> SUFFICES ASSUME IInv, UiInv, ~isRunning, ui.fresh PROVE ui.shows = "STOPPED"
        BY DEF UiShowsStopped
    <2>1. \A s \in Starters : ~InSession(s)
        BY DEF IInv, OneSession
    <2> QED
        BY <2>1 DEF UiInv, Showing, InSession, SessionPcs, LoopPcs, StopPcs, TeardownPcs
<1> QED
    BY Invariance, <1>1, <1>2, <1>3, UiStep, PTL DEF Spec

-----------------------------------------------------------------------------
(* The session implements its contract.                                    *)

(* The abstract holder is the one starter in a session.                    *)
LEMMA HolderIs ==
    ASSUME OneSession, NEW s \in Starters, InSession(s)
    PROVE  Holders = {s}
BY DEF OneSession, Holders

(* A step that changes no location's side of the session boundary, no      *)
(* device and no liveness of the acquire thread is a stuttering step.      *)
LEMMA StutterStep ==
    ASSUME \A s \in Starters : InSession(s)' <=> InSession(s),
           dev.open' = dev.open,
           (acq' \in LiveAcq) <=> (acq \in LiveAcq)
    PROVE  UNCHANGED <<Holders, Receiver>>
BY DEF Holders, Receiver

(* Every step of the code is a step of the contract or none of it.         *)
LEMMA RefineStep ==
    ASSUME IInv, [Next]_vars
    PROVE  [Contract!Next]_<<Holders, Receiver>>
<1> USE DEF IInv, TypeOK
<1>1. ASSUME NEW s \in Starters, Setup(s)
       PROVE  [Contract!Next]_<<Holders, Receiver>>
  <2>1. CASE SetFd(s)
    <3>1. \A t \in Starters : InSession(t)' <=> InSession(t)
      BY <2>1 DEF SetFd, NewFd, Goto
    <3>2. dev'.open = dev.open /\ (acq' \in LiveAcq <=> acq \in LiveAcq)
      BY <2>1 DEF SetFd, NewFd, Goto
    <3> QED
      BY <3>1, <3>2, StutterStep
  <2>2. CASE SetOptions(s)
    <3>1. \A t \in Starters : InSession(t)' <=> InSession(t)
      BY <2>2 DEF SetOptions, RegisterHandler, Goto
    <3>2. dev'.open = dev.open /\ (acq' \in LiveAcq <=> acq \in LiveAcq)
      BY <2>2 DEF SetOptions, RegisterHandler, Goto
    <3> QED
      BY <3>1, <3>2, StutterStep
  <2>3. CASE IgnoreCall(s)
    <3>1. \A t \in Starters : InSession(t)' <=> InSession(t)
      BY <2>3 DEF IgnoreCall, Goto
    <3>2. dev'.open = dev.open /\ (acq' \in LiveAcq <=> acq \in LiveAcq)
      BY <2>3 DEF IgnoreCall, Goto
    <3> QED
      BY <3>1, <3>2, StutterStep
  <2>4. CASE Enter(s)
    <3>1. Holders = {}
      BY <2>4 DEF Enter, MayEnter, OneSession, Holders
    <3>2. \A t \in Starters : InSession(t)' <=> t = s
      BY <2>4 DEF Enter, MayEnter, OneSession, Goto
    <3>3. Holders' = {s}
      BY <3>2 DEF Holders
    <3>4. Receiver' = Receiver
      BY <2>4 DEF Enter, Receiver
    <3> QED
      BY <3>1, <3>3, <3>4 DEF Contract!Next, Contract!Enter
  <2>5. CASE ClearExit(s)
    <3>1. \A t \in Starters : InSession(t)' <=> InSession(t)
      BY <2>5 DEF ClearExit, Goto
    <3>2. dev'.open = dev.open /\ (acq' \in LiveAcq <=> acq \in LiveAcq)
      BY <2>5 DEF ClearExit, Goto
    <3> QED
      BY <3>1, <3>2, StutterStep
  <2>6. CASE InitCfg(s)
    <3>1. \A t \in Starters : InSession(t)' <=> InSession(t)
      BY <2>6 DEF InitCfg, NewSettings, Goto
    <3>2. dev'.open = dev.open /\ (acq' \in LiveAcq <=> acq \in LiveAcq)
      BY <2>6 DEF InitCfg, NewSettings, Goto
    <3> QED
      BY <3>1, <3>2, StutterStep
  <2>7. CASE OpenDevice(s)
    <3>1. Holders = {s}
      BY <2>7, HolderIs DEF OpenDevice, Goto
    <3>2. \A t \in Starters : InSession(t)' <=> InSession(t)
      BY <2>7 DEF OpenDevice, Goto
    <3>3. Holders' = Holders
      BY <3>2 DEF Holders
    <3>4. Receiver = "closed" /\ Receiver' = "open"
      BY <2>7 DEF OpenDevice, Goto, Shape, Stopped, Unopened, Receiver
    <3> QED
      BY <3>1, <3>3, <3>4 DEF Contract!Next, Contract!Open
  <2>8. CASE OpenFails(s)
    <3>1. \A t \in Starters : InSession(t)' <=> InSession(t)
      BY <2>8 DEF OpenFails, Goto
    <3>2. dev'.open = dev.open /\ (acq' \in LiveAcq <=> acq \in LiveAcq)
      BY <2>8 DEF OpenFails, Goto
    <3> QED
      BY <3>1, <3>2, StutterStep
  <2>9. ASSUME NEW created \in BOOLEAN, StartAcquire(s, created)
        PROVE  [Contract!Next]_<<Holders, Receiver>>
    <3>1. Holders = {s}
      BY <2>9, HolderIs DEF StartAcquire, Goto
    <3>2. \A t \in Starters : InSession(t)' <=> InSession(t)
      BY <2>9 DEF StartAcquire, Goto
    <3>3. Holders' = Holders
      BY <3>2 DEF Holders
    <3>4. CASE created
      BY <2>9, <3>1, <3>3, <3>4 DEF StartAcquire, Goto, Shape, Receiver,
         Contract!Next, Contract!Stream
    <3>5. CASE ~created
      BY <2>9, <3>3, <3>5 DEF StartAcquire, Receiver
    <3> QED
      BY <3>4, <3>5
  <2>10. CASE AnnounceStarting(s)
    <3>1. \A t \in Starters : InSession(t)' <=> InSession(t)
      BY <2>10 DEF AnnounceStarting, Announce, Goto
    <3>2. dev'.open = dev.open /\ (acq' \in LiveAcq <=> acq \in LiveAcq)
      BY <2>10 DEF AnnounceStarting, Announce, Goto
    <3> QED
      BY <3>1, <3>2, StutterStep
  <2> QED
    BY <2>1, <2>2, <2>3, <2>4, <2>5, <2>6, <2>7, <2>8, <2>9, <2>10, <1>1
       DEF Setup
<1>2. ASSUME NEW s \in Starters, Loop(s)
       PROVE  [Contract!Next]_<<Holders, Receiver>>
  <2>1. CASE LoopOn(s)
    <3>1. \A t \in Starters : InSession(t)' <=> InSession(t)
      BY <2>1 DEF LoopOn, Goto
    <3>2. dev'.open = dev.open /\ (acq' \in LiveAcq <=> acq \in LiveAcq)
      BY <2>1 DEF LoopOn, Goto
    <3> QED
      BY <3>1, <3>2, StutterStep
  <2>2. CASE LoopExit(s)
    <3>1. \A t \in Starters : InSession(t)' <=> InSession(t)
      BY <2>2 DEF LoopExit, CallStop, Goto
    <3>2. dev'.open = dev.open /\ (acq' \in LiveAcq <=> acq \in LiveAcq)
      BY <2>2 DEF LoopExit, CallStop, Goto
    <3> QED
      BY <3>1, <3>2, StutterStep
  <2>3. CASE PollQuiet(s)
    <3>1. \A t \in Starters : InSession(t)' <=> InSession(t)
      BY <2>3 DEF PollQuiet, Goto
    <3>2. dev'.open = dev.open /\ (acq' \in LiveAcq <=> acq \in LiveAcq)
      BY <2>3 DEF PollQuiet, Goto
    <3> QED
      BY <3>1, <3>2, StutterStep
  <2>4. CASE WatchdogTick(s)
    <3>1. \A t \in Starters : InSession(t)' <=> InSession(t)
      BY <2>4 DEF WatchdogTick, Goto
    <3>2. dev'.open = dev.open /\ (acq' \in LiveAcq <=> acq \in LiveAcq)
      BY <2>4 DEF WatchdogTick, Goto
    <3> QED
      BY <3>1, <3>2, StutterStep
  <2>5. CASE WatchdogFed(s)
    <3>1. \A t \in Starters : InSession(t)' <=> InSession(t)
      BY <2>5 DEF WatchdogFed, Announce, ResetWatchdog, Goto
    <3>2. dev'.open = dev.open /\ (acq' \in LiveAcq <=> acq \in LiveAcq)
      BY <2>5 DEF WatchdogFed, Announce, ResetWatchdog, Goto
    <3> QED
      BY <3>1, <3>2, StutterStep
  <2>6. CASE WatchdogGrace(s)
    <3>1. \A t \in Starters : InSession(t)' <=> InSession(t)
      BY <2>6 DEF WatchdogGrace, Announce, Goto
    <3>2. dev'.open = dev.open /\ (acq' \in LiveAcq <=> acq \in LiveAcq)
      BY <2>6 DEF WatchdogGrace, Announce, Goto
    <3> QED
      BY <3>1, <3>2, StutterStep
  <2>7. CASE WatchdogTimeout(s)
    <3>1. \A t \in Starters : InSession(t)' <=> InSession(t)
      BY <2>7 DEF WatchdogTimeout, CallStop, Goto
    <3>2. dev'.open = dev.open /\ (acq' \in LiveAcq <=> acq \in LiveAcq)
      BY <2>7 DEF WatchdogTimeout, CallStop, Goto
    <3> QED
      BY <3>1, <3>2, StutterStep
  <2>8. CASE AnnounceTimeout(s)
    <3>1. \A t \in Starters : InSession(t)' <=> InSession(t)
      BY <2>8 DEF AnnounceTimeout, Announce, Goto
    <3>2. dev'.open = dev.open /\ (acq' \in LiveAcq <=> acq \in LiveAcq)
      BY <2>8 DEF AnnounceTimeout, Announce, Goto
    <3> QED
      BY <3>1, <3>2, StutterStep
  <2>9. CASE AnnounceStopped(s)
    <3>1. \A t \in Starters : InSession(t)' <=> InSession(t)
      BY <2>9 DEF AnnounceStopped, Announce, Goto
    <3>2. dev'.open = dev.open /\ (acq' \in LiveAcq <=> acq \in LiveAcq)
      BY <2>9 DEF AnnounceStopped, Announce, Goto
    <3> QED
      BY <3>1, <3>2, StutterStep
  <2> QED
    BY <2>1, <2>2, <2>3, <2>4, <2>5, <2>6, <2>7, <2>8, <2>9, <1>2 DEF Loop
<1>3. ASSUME NEW s \in Starters, Teardown(s)
       PROVE  [Contract!Next]_<<Holders, Receiver>>
  <2>1. CASE StopSignal(s)
    <3>1. \A t \in Starters : InSession(t)' <=> InSession(t)
      BY <2>1 DEF StopSignal, AfterCancel, Goto
    <3>2. dev'.open = dev.open /\ (acq' \in LiveAcq <=> acq \in LiveAcq)
      BY <2>1 DEF StopSignal, AfterCancel, Goto
    <3> QED
      BY <3>1, <3>2, StutterStep
  <2>2. CASE StopAlready(s)
    <3>1. \A t \in Starters : InSession(t)' <=> InSession(t)
      BY <2>2 DEF StopAlready, Goto
    <3>2. dev'.open = dev.open /\ (acq' \in LiveAcq <=> acq \in LiveAcq)
      BY <2>2 DEF StopAlready, Goto
    <3> QED
      BY <3>1, <3>2, StutterStep
  <2>3. CASE StopJoin(s)
    <3>1. \A t \in Starters : InSession(t)' <=> InSession(t)
      BY <2>3 DEF StopJoin, CanJoin, Goto
    <3>2. dev'.open = dev.open /\ (acq' \in LiveAcq <=> acq \in LiveAcq)
      BY <2>3 DEF StopJoin, CanJoin, Goto
    <3> QED
      BY <3>1, <3>2, StutterStep
  <2>4. CASE FreeCfgOpen(s)
    <3>1. \A t \in Starters : InSession(t)' <=> InSession(t)
      BY <2>4 DEF FreeCfgOpen, CallStop, Goto
    <3>2. dev'.open = dev.open /\ (acq' \in LiveAcq <=> acq \in LiveAcq)
      BY <2>4 DEF FreeCfgOpen, CallStop, Goto
    <3> QED
      BY <3>1, <3>2, StutterStep
  <2>5. CASE FreeCfgClosed(s)
    <3>1. \A t \in Starters : InSession(t)' <=> InSession(t)
      BY <2>5 DEF FreeCfgClosed, Goto
    <3>2. dev'.open = dev.open /\ (acq' \in LiveAcq <=> acq \in LiveAcq)
      BY <2>5 DEF FreeCfgClosed, Goto
    <3> QED
      BY <3>1, <3>2, StutterStep
  <2>6. CASE FreeDevice(s)
    <3>1. Holders = {s}
      BY <2>6, HolderIs DEF FreeDevice, Goto
    <3>2. \A t \in Starters : InSession(t)' <=> InSession(t)
      BY <2>6 DEF FreeDevice, Goto
    <3>3. Holders' = Holders
      BY <3>2 DEF Holders
    <3>4. Receiver = "open" /\ Receiver' = "closed"
      BY <2>6 DEF FreeDevice, Goto, Shape, Stopped, Unopened, Receiver
    <3> QED
      BY <3>1, <3>3, <3>4 DEF Contract!Next, Contract!Shut
  <2>7. CASE FreeRest(s)
    <3>1. \A t \in Starters : InSession(t)' <=> InSession(t)
      BY <2>7 DEF FreeRest, Goto
    <3>2. dev'.open = dev.open /\ (acq' \in LiveAcq <=> acq \in LiveAcq)
      BY <2>7 DEF FreeRest, Goto
    <3> QED
      BY <3>1, <3>2, StutterStep
  <2>8. CASE Leave(s)
    <3>1. Holders = {s}
      BY <2>8, HolderIs DEF Leave, Goto
    <3>2. \A t \in Starters : ~InSession(t)'
      BY <2>8 DEF Leave, Goto, OneSession
    <3>3. Receiver = "closed" /\ Receiver' = "closed"
      BY <2>8 DEF Leave, Goto, Shape, Unopened, Receiver
    <3>4. Holders' = {}
      BY <3>2 DEF Holders
    <3> QED
      BY <3>1, <3>3, <3>4 DEF Contract!Next, Contract!Leave
  <2> QED
    BY <2>1, <2>2, <2>3, <2>4, <2>5, <2>6, <2>7, <2>8, <1>3 DEF Teardown
<1>4. CASE Acquire
  <2>1. CASE AcquireRead
    <3>1. \A t \in Starters : InSession(t)' <=> InSession(t)
      BY <2>1 DEF AcquireRead, Goto
    <3>2. dev'.open = dev.open /\ (acq' \in LiveAcq <=> acq \in LiveAcq)
      BY <2>1 DEF AcquireRead, Goto
    <3> QED
      BY <3>1, <3>2, StutterStep
  <2>2. CASE FrameArrives
    <3>1. \A t \in Starters : InSession(t)' <=> InSession(t)
      BY <2>2 DEF FrameArrives, Goto
    <3>2. dev'.open = dev.open /\ (acq' \in LiveAcq <=> acq \in LiveAcq)
      BY <2>2 DEF FrameArrives, Goto
    <3> QED
      BY <3>1, <3>2, StutterStep
  <2>3. ASSUME NEW tooShort \in BOOLEAN, FrameDone(tooShort)
        PROVE  [Contract!Next]_<<Holders, Receiver>>
    <3>1. \A t \in Starters : InSession(t)' <=> InSession(t)
      BY <2>3 DEF FrameDone, Goto
    <3>2. dev'.open = dev.open /\ (acq' \in LiveAcq <=> acq \in LiveAcq)
      BY <2>3 DEF FrameDone, Goto
    <3> QED
      BY <3>1, <3>2, StutterStep
  <2>4. CASE ReadCanceled
    <3>1. Receiver = "streaming"
      BY <2>4 DEF ReadCanceled, Receiver
    <3>2. dev.open
      BY <2>4, IInvAcquire DEF ReadCanceled, AcquireSafe
    <3>3. Holders' = Holders
      BY <2>4 DEF ReadCanceled, Holders
    <3>4. Receiver' = "open"
      BY <2>4, <3>2 DEF ReadCanceled, Receiver
    <3> QED
      BY <3>1, <3>3, <3>4 DEF Contract!Next, Contract!EndStream
  <2>5. CASE ReadFails
    <3>1. Receiver = "streaming"
      BY <2>5 DEF ReadFails, Receiver
    <3>2. dev.open
      BY <2>5, IInvAcquire DEF ReadFails, AcquireSafe
    <3>3. Holders' = Holders
      BY <2>5 DEF ReadFails, Holders
    <3>4. Receiver' = "open"
      BY <2>5, <3>2 DEF ReadFails, Receiver
    <3> QED
      BY <3>1, <3>3, <3>4 DEF Contract!Next, Contract!EndStream
  <2> QED
    BY <2>1, <2>2, <2>3, <2>4, <2>5, <1>4 DEF Acquire
<1>5. CASE Java
  <2>1. CASE Close
    <3>1. \A t \in Starters : InSession(t)' <=> InSession(t)
      BY <2>1 DEF Close, Goto
    <3>2. dev'.open = dev.open /\ (acq' \in LiveAcq <=> acq \in LiveAcq)
      BY <2>1 DEF Close, Goto
    <3> QED
      BY <3>1, <3>2, StutterStep
  <2>2. ASSUME NEW q \in Queriers, QueryRead(q)
        PROVE  [Contract!Next]_<<Holders, Receiver>>
    <3>1. \A t \in Starters : InSession(t)' <=> InSession(t)
      BY <2>2 DEF QueryRead, Goto
    <3>2. dev'.open = dev.open /\ (acq' \in LiveAcq <=> acq \in LiveAcq)
      BY <2>2 DEF QueryRead, Goto
    <3> QED
      BY <3>1, <3>2, StutterStep
  <2>3. ASSUME NEW q \in Queriers, QueryAnnounce(q)
        PROVE  [Contract!Next]_<<Holders, Receiver>>
    <3>1. \A t \in Starters : InSession(t)' <=> InSession(t)
      BY <2>3 DEF QueryAnnounce, Goto
    <3>2. dev'.open = dev.open /\ (acq' \in LiveAcq <=> acq \in LiveAcq)
      BY <2>3 DEF QueryAnnounce, Goto
    <3> QED
      BY <3>1, <3>2, StutterStep
  <2>4. ASSUME NEW s \in Starters, NEW fd \in Fds, NEW opts \in Options,
               CallStart(s, fd, opts)
        PROVE  [Contract!Next]_<<Holders, Receiver>>
    <3>1. \A t \in Starters : InSession(t)' <=> InSession(t)
      BY <2>4 DEF CallStart, Goto
    <3>2. dev'.open = dev.open /\ (acq' \in LiveAcq <=> acq \in LiveAcq)
      BY <2>4 DEF CallStart, Goto
    <3> QED
      BY <3>1, <3>2, StutterStep
  <2> QED
    BY <2>1, <2>2, <2>3, <2>4, <1>5 DEF Java
<1>6. CASE UNCHANGED vars
    BY <1>6 DEF vars, Holders, Receiver
<1> QED
    BY <1>1, <1>2, <1>3, <1>4, <1>5, <1>6 DEF Next

(* The session of the code keeps the promise of SessionContract.           *)
THEOREM Implementation == Spec => KeepsContract
<1>1. Init => Contract!Init
    BY DEF Init, Contract!Init, Holders, Receiver
<1>2. IInv /\ [Next]_vars => [Contract!Next]_<<Holders, Receiver>>
    BY RefineStep
<1> QED
    BY Invariance, <1>1, <1>2, PTL DEF Spec, KeepsContract, Contract!Spec

=============================================================================

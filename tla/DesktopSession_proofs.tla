------------------------ MODULE DesktopSession_proofs ------------------------
(***************************************************************************)
(* For every device mode, any ring and any frames: the acquire thread is   *)
(* gone before anything it uses is freed, and the frame that is decoded is *)
(* in a ring that is allocated, and the one the message was sent for.      *)
(***************************************************************************)
EXTENDS DesktopSession, TLAPS

-----------------------------------------------------------------------------
(* The inductive invariant.                                                 *)

Ringlike == [gen : Nat, pos : 0..RingSize, cells : [0..RingSize - 1 -> 0..MaxFrames]]

Stopping == pc \in {"stop_signal", "stop_join"}

\* TypeOK, with the domains of the records.
ControlTypes ==
    /\ devMode \in DevModes
    /\ pc \in {"start", "close", "create", "loop", "select", "handle", "timer",
               "timed_out", "stop_signal", "stop_join", "free", "free_dev"} \cup Ended
    /\ ret \in {"loop", "close", "free", "timer", "timed_out", "free_dev"}
    /\ after \in {"main", "loop", "done"} /\ last \in BOOLEAN
    /\ exitAsync \in BOOLEAN /\ devState \in DevStates /\ watchdog \in BOOLEAN
    /\ demod \in BOOLEAN /\ dev \in [open : BOOLEAN, exitAcquire : BOOLEAN]
    /\ acq \in LiveAcq \cup {"none", "done"}
    /\ asyncStatus \in {"inactive", "running", "canceling"}
    /\ asked \in BOOLEAN

FramesTypes ==
    /\ ring \in Ringlike
    /\ ctl \in Seq(Messages) /\ msg \in [acq : Messages, main : Messages]
    /\ made \in 0..MaxFrames

Types == ControlTypes /\ FramesTypes

\* Where the acquire thread can be.
Thread ==
    /\ acq \in LiveAcq => dev.open /\ demod
    /\ acq \in LiveAcq /\ dev.exitAcquire => pc = "stop_join"
    /\ pc \in {"close", "timed_out", "free_dev"} => acq \notin LiveAcq

\* What is allocated and open where.
Shape ==
    /\ Stopping => dev.open /\ ret # "loop"
    /\ pc = "stop_join" => dev.exitAcquire
    /\ pc = "create" => dev.open /\ ~dev.exitAcquire /\ acq \notin LiveAcq
    /\ last <=> ~demod
    /\ last /\ dev.open => pc = "crash"
    /\ last => pc \in {"select", "handle", "timer", "timed_out", "start",
                       "done", "crash"}
    /\ last /\ pc = "start" => after = "done"
    /\ ~last => after # "done" /\ pc # "done"

\* A device is opened again only when the loop is going to end.
Once ==
    /\ Stopping \/ pc \in {"close", "timed_out", "free", "free_dev"} => exitAsync
    /\ after # "main" \/ last => exitAsync
    /\ \/ exitAsync \/ devMode = "manual" \/ devState # "STOPPED"
       \/ pc \in {"start", "create", "exit"}
    /\ demod /\ after # "main" =>
          /\ pc \notin {"select", "handle", "timer", "timed_out"}
          /\ Stopping => ret \in {"close", "free", "free_dev"}
    /\ after = "main" =>
          /\ ring.gen <= 1 /\ (demod /\ ring.gen = 1 => dev.open)
          /\ pc # "close" /\ (Stopping => ret # "close")
          /\ pc = "start" => ~dev.open /\ ring.gen = 0
    /\ dev.open => ring.gen >= 1

\* Where the frame of message m is in ring r, when d frames have been received:
\* the k that came later lie behind it, or the ring has been begun again and
\* wastes the room a transfer did not fit in.
Placed(m, r, d) ==
    LET k == d - m.frame
    IN  /\ \A i \in m.at..m.at + m.len - 1 : r.cells[i] = m.frame
        /\ \/ /\ m.at + m.len <= r.pos
              /\ r.pos <= m.at + m.len + k * BufLen
           \/ /\ r.pos <= m.at
              /\ r.pos + RingSize < m.at + m.len + (k + 1) * BufLen

Sent(m, r, d) ==
    /\ m.gen >= 1 /\ m.gen <= r.gen
    /\ m.frame <= d /\ m.at + m.len <= RingSize
    /\ m.gen = r.gen /\ d - m.frame <= BufNum - 2 => Placed(m, r, d)

Queue ==
    /\ \A i \in 1..Len(ctl) : Sent(ctl[i], ring, made)
    /\ acq = "copied" => Sent(msg.acq, ring, made)
    /\ pc = "handle" => Sent(msg.main, ring, made)

Inv == Types /\ Thread /\ Shape /\ Once /\ Queue

-----------------------------------------------------------------------------
(* The ring's size.                                                         *)

\* The ring holds a buffer.
LEMMA RingRoom ==
  /\ RingSize \in Nat /\ BufLen \in Nat /\ BufNum \in Nat
  /\ BufLen > 0 /\ BufLen <= RingSize
<1>1. BufNum \in Nat /\ BufNum > 0 /\ BufLen \in Nat /\ BufLen > 0
  BY DesktopAssumption
<1> QED BY <1>1 DEF RingSize

\* Up to BufNum - 2 frames and two more fit into the ring.
LEMMA RoomForMore ==
  ASSUME NEW k \in Nat
  PROVE  /\ k * BufLen \in Nat /\ (k + 1) * BufLen = k * BufLen + BufLen
         /\ (k + 1 + 1) * BufLen = k * BufLen + BufLen + BufLen
         /\ k <= BufNum - 2 => k * BufLen + BufLen + BufLen <= RingSize
<1>1. BufNum \in Nat /\ BufLen \in Nat /\ BufLen > 0
  BY RingRoom
<1>2. /\ k * BufLen \in Nat /\ (k + 1) * BufLen = k * BufLen + BufLen
      /\ (k + 1 + 1) * BufLen = k * BufLen + BufLen + BufLen
  BY <1>1
<1>3. ASSUME k <= BufNum - 2 PROVE k * BufLen + BufLen + BufLen <= RingSize
  <2>1. BufNum - 2 - k \in Nat
    BY <1>1, <1>3
  <2>2. (BufNum - 2 - k) * BufLen \in Nat
    BY <1>1, <2>1
  <2>3. RingSize = (BufNum - 2 - k) * BufLen + (k * BufLen + BufLen + BufLen)
    BY <1>1 DEF RingSize
  <2> HIDE DEF RingSize
  <2> QED BY <1>1, <1>2, <2>2, <2>3
<1> QED BY <1>2, <1>3

\* The invariant holds at the start.
LEMMA Starts == Init => Inv
<1> SUFFICES ASSUME Init PROVE Inv
  OBVIOUS
<1> USE DEF Init, NoDev
<1>1. ring \in Ringlike
  BY RingRoom, DesktopAssumption DEF NewRing, Ringlike
<1>2. NoMsg \in Messages
  BY RingRoom, DesktopAssumption DEF NoMsg, Messages
<1>3. Types
  <2>1. ControlTypes
    BY DEF ControlTypes, DevStates, LiveAcq, Ended
  <2>2. msg \in [acq : Messages, main : Messages]
    BY <1>2
  <2>3. ctl \in Seq(Messages) /\ made \in 0..MaxFrames
    BY DesktopAssumption
  <2> QED BY <1>1, <2>1, <2>2, <2>3 DEF Types, FramesTypes
<1>4. Thread /\ Shape
  BY DEF Thread, Shape, Stopping, LiveAcq
<1>5. Once
  BY DEF Once, NewRing, Stopping, DevModes
<1>6. Queue
  BY DEF Queue, LiveAcq
<1> QED BY <1>3, <1>4, <1>5, <1>6 DEF Inv

-----------------------------------------------------------------------------
(* Types                                                                    *)

\* The place a frame is copied to is in the ring, and so is its end.
LEMMA FrameTypes ==
  ASSUME FramesTypes, NEW len \in 1..BufLen, FrameArrives(len)
  PROVE  /\ CopyAt(ring, len) \in 0..RingSize - 1
         /\ CopyAt(ring, len) + len <= RingSize
         /\ made' = made + 1 /\ made' \in 1..MaxFrames
         /\ ring' \in Ringlike
         /\ ring'.gen = ring.gen /\ ring'.pos = CopyAt(ring, len) + len
         /\ \A i \in 0..RingSize - 1 :
              ring'.cells[i] = IF i >= CopyAt(ring, len)
                                  /\ i < CopyAt(ring, len) + len
                               THEN made' ELSE ring.cells[i]
         /\ msg'.acq = [frame |-> made', gen |-> ring.gen,
                        at |-> CopyAt(ring, len), len |-> len]
         /\ msg'.main = msg.main
         /\ msg' \in [acq : Messages, main : Messages]
<1> DEFINE at == CopyAt(ring, len)
           cells == [i \in 0..RingSize - 1 |->
                       IF i >= at /\ i < at + len THEN made' ELSE ring.cells[i]]
<1>1. ring.pos \in 0..RingSize /\ ring.gen \in Nat
      /\ ring.cells \in [0..RingSize - 1 -> 0..MaxFrames] /\ ring \in Ringlike
  BY DEF FramesTypes, Ringlike
<1>2. at \in 0..RingSize - 1 /\ at + len <= RingSize
  BY <1>1, RingRoom DEF CopyAt
<1>3. made' = made + 1 /\ made' \in 1..MaxFrames
  BY DesktopAssumption DEF FrameArrives, FramesTypes
<1> HIDE DEF at
<1>4. cells \in [0..RingSize - 1 -> 0..MaxFrames]
  <2>1. made' \in 0..MaxFrames
    BY <1>3, DesktopAssumption
  <2>2. \A i \in 0..RingSize - 1 : ring.cells[i] \in 0..MaxFrames
    BY <1>1
  <2> QED BY <2>1, <2>2
<1>5. ring' = [ring EXCEPT !.pos = at + len, !.cells = cells]
  BY <1>1 DEF FrameArrives, Ringlike, at
<1>6. \A i \in 0..RingSize - 1 :
         cells[i] = IF i >= at /\ i < at + len THEN made' ELSE ring.cells[i]
  OBVIOUS
<1>7. at + len \in 0..RingSize
  BY <1>2, RingRoom
<1>8. msg' = [msg EXCEPT !.acq = [frame |-> made', gen |-> ring.gen,
                                  at |-> at, len |-> len]]
  BY DEF FrameArrives, at
<1>9. [frame |-> made', gen |-> ring.gen, at |-> at, len |-> len] \in Messages
  BY <1>1, <1>2, <1>3 DEF Messages
<1> HIDE DEF cells
<1>10. /\ ring' \in Ringlike /\ ring'.gen = ring.gen
       /\ ring'.pos = at + len /\ ring'.cells = cells
  BY <1>1, <1>4, <1>5, <1>7 DEF Ringlike
<1>11. msg \in [acq : Messages, main : Messages]
  BY DEF FramesTypes
<1>12. /\ msg'.acq = [frame |-> made', gen |-> ring.gen, at |-> at, len |-> len]
       /\ msg'.main = msg.main /\ msg' \in [acq : Messages, main : Messages]
  BY <1>8, <1>9, <1>11
<1> QED BY <1>2, <1>3, <1>6, <1>10, <1>12 DEF at

\* The control of both threads keeps its type.
LEMMA ControlTypesStep ==
  ASSUME Inv, Next PROVE ControlTypes'
<1> USE DEF main, config, status, thread
<1>0. ControlTypes
  BY DEF Inv, Types
<1>1. CASE StartCloses \/ OpenFails
  BY <1>0, <1>1 DEF ControlTypes, StartCloses, OpenFails, CallStop, Goto, Ended
<1>2. CASE Close \/ Open
  <2>1. dev' \in [open : BOOLEAN, exitAcquire : BOOLEAN]
    <3>1. CASE Close
      BY <3>1 DEF Close, NoDev
    <3>2. CASE Open
      BY <3>2 DEF Open
    <3> QED BY <1>2, <3>1, <3>2
  <2>2. CASE Close
    BY <1>0, <2>1, <2>2 DEF ControlTypes, Close, Goto
  <2>3. CASE Open
    BY <1>0, <2>1, <2>3 DEF ControlTypes, Open, Goto, Ended
  <2> QED BY <1>2, <2>2, <2>3
<1>3. ASSUME NEW created \in BOOLEAN, Create(created) PROVE ControlTypes'
  BY <1>0, <1>3 DEF ControlTypes, Create, DevStates, LiveAcq, Ended
<1>4. CASE LoopOn \/ LoopExit \/ NoMessage \/ TakeMessage
  BY <1>0, <1>4 DEF ControlTypes, LoopOn, LoopExit, NoMessage, TakeMessage,
                    CallStop, Goto
<1>5. ASSUME NEW ends \in BOOLEAN, NEW tooShort \in BOOLEAN, Handled(ends, tooShort)
       PROVE ControlTypes'
  BY <1>0, <1>5 DEF ControlTypes, Handled, CallStop, Goto, Reads
<1>6. CASE NotDue \/ Fed \/ Grace
  <2>1. CASE NotDue
    BY <1>0, <2>1 DEF ControlTypes, NotDue, Goto, PollEnd, Ended
  <2>2. CASE Fed
    <3>1. devState' \in DevStates
      BY <1>0, <2>2 DEF ControlTypes, Fed, DevStates
    <3>2. /\ pc' \in {"loop", "done"} /\ watchdog' \in BOOLEAN
          /\ UNCHANGED <<ret, after, last, exitAsync, devMode, demod, dev, acq,
                         asyncStatus, asked>>
      BY <2>2 DEF Fed, Goto, PollEnd
    <3> QED BY <1>0, <3>1, <3>2 DEF ControlTypes, Ended
  <2>3. CASE Grace
    BY <1>0, <2>3 DEF ControlTypes, Grace, Goto, PollEnd, DevStates, Ended
  <2> QED BY <1>6, <2>1, <2>2, <2>3
<1>7. CASE Timeout
  BY <1>0, <1>7 DEF ControlTypes, Timeout, ExitAnyhow, CallStop
<1>8. CASE TimedOut \/ StillStopped
  BY <1>0, <1>8 DEF ControlTypes, TimedOut, StillStopped, Follow, PollEnd, DevStates,
                    Ended
<1>9. CASE StopSignal
  <2>1. dev' \in [open : BOOLEAN, exitAcquire : BOOLEAN]
    BY <1>0, <1>9 DEF ControlTypes, StopSignal
  <2> QED BY <1>0, <1>9, <2>1 DEF ControlTypes, StopSignal, AfterCancel, Goto
<1>10. CASE StopAlready \/ StopJoin
  BY <1>0, <1>10 DEF ControlTypes, StopAlready, StopJoin, Goto
<1>11. CASE FreeDevice
  BY <1>0, <1>11 DEF ControlTypes, FreeDevice, CallStop
<1>12. CASE FreeRest
  BY <1>0, <1>12 DEF ControlTypes, FreeRest, NoDev
<1>13. CASE AcquireRead \/ ReadCanceled \/ ReadFails
  BY <1>0, <1>13 DEF ControlTypes, AcquireRead, ReadCanceled, ReadFails, LiveAcq
<1>14. ASSUME NEW len \in 1..BufLen, FrameArrives(len) PROVE ControlTypes'
  BY <1>0, <1>14 DEF ControlTypes, FrameArrives, LiveAcq
<1>15. ASSUME NEW lost \in BOOLEAN, Broadcast(lost) PROVE ControlTypes'
  BY <1>0, <1>15 DEF ControlTypes, Broadcast, LiveAcq
<1>16. CASE Interrupt
  BY <1>0, <1>16 DEF ControlTypes, Interrupt
<1> QED BY <1>1, <1>2, <1>3, <1>4, <1>5, <1>6, <1>7, <1>8, <1>9, <1>10, <1>11, <1>12,
           <1>13, <1>14, <1>15, <1>16
        DEF Next, Start, Poll, Stop, Acquire

\* The steps that are not about frames.
Others ==
    \/ StartCloses \/ Close \/ OpenFails
    \/ \E created \in BOOLEAN : Create(created)
    \/ LoopOn \/ LoopExit \/ NoMessage
    \/ \E ends, tooShort \in BOOLEAN : Handled(ends, tooShort)
    \/ NotDue \/ Fed \/ Grace \/ Timeout \/ TimedOut \/ StillStopped
    \/ Stop
    \/ AcquireRead \/ ReadCanceled \/ ReadFails \/ Interrupt

\* The steps that leave ring, queue and messages alone.
LEMMA OthersKeep == Others => UNCHANGED frames
BY DEF Others, StartCloses, Close, OpenFails, Create, LoopOn, LoopExit, NoMessage,
       Handled, NotDue, Fed, Grace, Timeout, TimedOut, StillStopped, Stop, StopSignal,
       StopAlready, StopJoin, FreeDevice, FreeRest, AcquireRead, ReadCanceled,
       ReadFails, Interrupt

\* What a step does to the frames.
LEMMA FrameSteps ==
  ASSUME Next
  PROVE  \/ Others \/ Open \/ TakeMessage
         \/ \E len \in 1..BufLen : FrameArrives(len)
         \/ \E lost \in BOOLEAN : Broadcast(lost)
BY DEF Next, Start, Poll, Acquire, Others

\* The ring, the queue and the messages keep their type.
LEMMA FramesTypesStep ==
  ASSUME Inv, Next PROVE FramesTypes'
<1> USE DEF frames
<1>0. FramesTypes
  BY DEF Inv, Types
<1>1. CASE Others
  BY <1>0, <1>1, OthersKeep DEF FramesTypes
<1>2. CASE Open
  <2>1. NewRing(ring.gen + 1) \in Ringlike
    BY <1>0, RingRoom, DesktopAssumption DEF FramesTypes, NewRing, Ringlike
  <2> QED BY <1>0, <1>2, <2>1 DEF FramesTypes, Open
<1>3. CASE TakeMessage
  <2>1. Head(ctl) \in Messages /\ Tail(ctl) \in Seq(Messages)
    BY <1>0, <1>3 DEF TakeMessage, FramesTypes
  <2>2. msg' = [msg EXCEPT !.main = Head(ctl)] /\ ctl' = Tail(ctl)
    BY <1>3 DEF TakeMessage
  <2>3. msg' \in [acq : Messages, main : Messages]
    BY <1>0, <2>1, <2>2 DEF FramesTypes
  <2> QED BY <1>0, <1>3, <2>1, <2>2, <2>3 DEF TakeMessage, FramesTypes
<1>4. ASSUME NEW len \in 1..BufLen, FrameArrives(len) PROVE FramesTypes'
  <2>1. ring' \in Ringlike /\ made' \in 1..MaxFrames
        /\ msg' \in [acq : Messages, main : Messages]
    BY <1>0, <1>4, FrameTypes
  <2>2. made' \in 0..MaxFrames
    BY <2>1, DesktopAssumption
  <2> QED BY <1>0, <1>4, <2>1, <2>2 DEF FrameArrives, FramesTypes
<1>5. ASSUME NEW lost \in BOOLEAN, Broadcast(lost) PROVE FramesTypes'
  <2>1. msg.acq \in Messages
    BY <1>0 DEF FramesTypes
  <2>2. ctl' \in Seq(Messages)
    BY <1>0, <1>5, <2>1 DEF Broadcast, FramesTypes
  <2> QED BY <1>0, <1>5, <2>2 DEF Broadcast, FramesTypes
<1> QED BY <1>1, <1>2, <1>3, <1>4, <1>5, FrameSteps

-----------------------------------------------------------------------------
(* The threads, the device and the end.                                     *)

\* The acquire thread is joined where it has to be.
LEMMA ThreadStep ==
  ASSUME Inv, Next PROVE Thread'
<1> USE DEF Types, ControlTypes, Thread, Shape, Stopping, LiveAcq, main, config,
           status, thread
<1>0. Types /\ Thread /\ Shape
  BY DEF Inv
<1>1. CASE StartCloses
  BY <1>0, <1>1 DEF StartCloses, CallStop
<1>2. CASE Close
  BY <1>0, <1>2 DEF Close, Goto, NoDev
<1>3. CASE Open
  BY <1>0, <1>3 DEF Open, Goto, NewRing
<1>4. CASE OpenFails
  BY <1>0, <1>4 DEF OpenFails, Goto
<1>5. ASSUME NEW created \in BOOLEAN, Create(created) PROVE Thread'
  BY <1>0, <1>5 DEF Create
<1>6. CASE LoopOn
  BY <1>0, <1>6 DEF LoopOn, Goto
<1>7. CASE LoopExit
  BY <1>0, <1>7 DEF LoopExit, CallStop
<1>8. CASE TakeMessage
  BY <1>0, <1>8 DEF TakeMessage, Goto
<1>9. CASE NoMessage
  BY <1>0, <1>9 DEF NoMessage, Goto
<1>10. ASSUME NEW ends \in BOOLEAN, NEW tooShort \in BOOLEAN, Handled(ends, tooShort)
       PROVE Thread'
  BY <1>0, <1>10 DEF Handled, CallStop, Goto, Reads
<1>11. CASE NotDue
  BY <1>0, <1>11 DEF NotDue, Goto, PollEnd
<1>12. CASE Fed
  BY <1>0, <1>12 DEF Fed, Goto, PollEnd
<1>13. CASE Grace
  BY <1>0, <1>13 DEF Grace, Goto, PollEnd
<1>14. CASE Timeout
  BY <1>0, <1>14 DEF Timeout, ExitAnyhow, CallStop
<1>15. CASE TimedOut
  BY <1>0, <1>15 DEF TimedOut, Follow, PollEnd
<1>16. CASE StillStopped
  BY <1>0, <1>16 DEF StillStopped, Follow, PollEnd
<1>17. CASE StopSignal
  BY <1>0, <1>17 DEF StopSignal, Goto
<1>18. CASE StopAlready
  BY <1>0, <1>18 DEF StopAlready, Goto
<1>19. CASE StopJoin
  BY <1>0, <1>19 DEF StopJoin, CanJoin, Goto
<1>20. CASE FreeDevice
  BY <1>0, <1>20 DEF FreeDevice, CallStop
<1>21. CASE FreeRest
  BY <1>0, <1>21 DEF FreeRest, NoDev
<1>22. CASE AcquireRead
  BY <1>0, <1>22 DEF AcquireRead
<1>23. CASE ReadCanceled
  BY <1>0, <1>23 DEF ReadCanceled
<1>24. CASE ReadFails
  BY <1>0, <1>24 DEF ReadFails
<1>25. ASSUME NEW len \in 1..BufLen, FrameArrives(len) PROVE Thread'
  BY <1>0, <1>25 DEF FrameArrives
<1>26. ASSUME NEW lost \in BOOLEAN, Broadcast(lost) PROVE Thread'
  BY <1>0, <1>26 DEF Broadcast
<1>27. CASE Interrupt
  BY <1>0, <1>27 DEF Interrupt
<1> QED BY <1>1, <1>2, <1>3, <1>4, <1>5, <1>6, <1>7, <1>8, <1>9, <1>10, <1>11, <1>12,
           <1>13, <1>14, <1>15, <1>16, <1>17, <1>18, <1>19, <1>20, <1>21, <1>22,
           <1>23, <1>24, <1>25, <1>26, <1>27
        DEF Next, Start, Poll, Stop, Acquire

\* What is open and allocated fits the place of the main thread.
LEMMA ShapeStep ==
  ASSUME Inv, Next PROVE Shape'
<1> USE DEF Types, ControlTypes, Thread, Shape, Stopping, LiveAcq, main, config,
           status, thread
<1>0. Types /\ Thread /\ Shape /\ Once
  BY DEF Inv
<1>1. CASE StartCloses
  BY <1>0, <1>1 DEF StartCloses, CallStop
<1>2. CASE Close
  BY <1>0, <1>2 DEF Close, Goto, NoDev
<1>3. CASE Open
  BY <1>0, <1>3 DEF Open, Goto, NewRing
<1>4. CASE OpenFails
  BY <1>0, <1>4 DEF OpenFails, Goto
<1>5. ASSUME NEW created \in BOOLEAN, Create(created) PROVE Shape'
  BY <1>0, <1>5 DEF Create
<1>6. CASE LoopOn
  BY <1>0, <1>6 DEF LoopOn, Goto
<1>7. CASE LoopExit
  BY <1>0, <1>7 DEF LoopExit, CallStop
<1>8. CASE TakeMessage
  BY <1>0, <1>8 DEF TakeMessage, Goto
<1>9. CASE NoMessage
  BY <1>0, <1>9 DEF NoMessage, Goto
<1>10. ASSUME NEW ends \in BOOLEAN, NEW tooShort \in BOOLEAN, Handled(ends, tooShort)
       PROVE Shape'
  BY <1>0, <1>10 DEF Handled, CallStop, Goto, Reads
<1>11. CASE NotDue
  BY <1>0, <1>11 DEF NotDue, Goto, PollEnd
<1>12. CASE Fed
  BY <1>0, <1>12 DEF Fed, Goto, PollEnd
<1>13. CASE Grace
  BY <1>0, <1>13 DEF Grace, Goto, PollEnd
<1>14. CASE Timeout
  BY <1>0, <1>14 DEF Timeout, ExitAnyhow, CallStop
<1>15. CASE TimedOut
  BY <1>0, <1>15 DEF TimedOut, Follow, PollEnd
<1>16. CASE StillStopped
  BY <1>0, <1>16 DEF StillStopped, Follow, PollEnd
<1>17. CASE StopSignal
  BY <1>0, <1>17 DEF StopSignal, Goto
<1>18. CASE StopAlready
  BY <1>0, <1>18 DEF StopAlready, Goto
<1>19. CASE StopJoin
  BY <1>0, <1>19 DEF StopJoin, CanJoin, Goto
<1>20. CASE FreeDevice
  BY <1>0, <1>20 DEF FreeDevice, CallStop
<1>21. CASE FreeRest
  BY <1>0, <1>21 DEF FreeRest, NoDev
<1>22. CASE AcquireRead
  BY <1>0, <1>22 DEF AcquireRead
<1>23. CASE ReadCanceled
  BY <1>0, <1>23 DEF ReadCanceled
<1>24. CASE ReadFails
  BY <1>0, <1>24 DEF ReadFails
<1>25. ASSUME NEW len \in 1..BufLen, FrameArrives(len) PROVE Shape'
  BY <1>0, <1>25 DEF FrameArrives
<1>26. ASSUME NEW lost \in BOOLEAN, Broadcast(lost) PROVE Shape'
  BY <1>0, <1>26 DEF Broadcast
<1>27. CASE Interrupt
  BY <1>0, <1>27 DEF Interrupt
<1> QED BY <1>1, <1>2, <1>3, <1>4, <1>5, <1>6, <1>7, <1>8, <1>9, <1>10, <1>11, <1>12,
           <1>13, <1>14, <1>15, <1>16, <1>17, <1>18, <1>19, <1>20, <1>21, <1>22,
           <1>23, <1>24, <1>25, <1>26, <1>27
        DEF Next, Start, Poll, Stop, Acquire

\* A device is opened again only by a loop that is about to end.
LEMMA OnceStep ==
  ASSUME Inv, Next PROVE Once'
<1> USE DEF Types, ControlTypes, FramesTypes, Ringlike, Thread, Shape, Once, Stopping,
           LiveAcq, main, config, status, thread, frames
<1>0. Types /\ Thread /\ Shape /\ Once
  BY DEF Inv
<1>1. CASE StartCloses
  BY <1>0, <1>1 DEF StartCloses, CallStop
<1>2. CASE Close
  BY <1>0, <1>2 DEF Close, Goto, NoDev
<1>3. CASE Open
  BY <1>0, <1>3 DEF Open, Goto, NewRing
<1>4. CASE OpenFails
  BY <1>0, <1>4 DEF OpenFails, Goto
<1>5. ASSUME NEW created \in BOOLEAN, Create(created) PROVE Once'
  BY <1>0, <1>5 DEF Create
<1>6. CASE LoopOn
  BY <1>0, <1>6 DEF LoopOn, Goto
<1>7. CASE LoopExit
  BY <1>0, <1>7 DEF LoopExit, CallStop
<1>8. CASE TakeMessage
  BY <1>0, <1>8 DEF TakeMessage, Goto
<1>9. CASE NoMessage
  BY <1>0, <1>9 DEF NoMessage, Goto
<1>10. ASSUME NEW ends \in BOOLEAN, NEW tooShort \in BOOLEAN, Handled(ends, tooShort)
       PROVE Once'
  BY <1>0, <1>10 DEF Handled, CallStop, Goto, Reads
<1>11. CASE NotDue
  BY <1>0, <1>11 DEF NotDue, Goto, PollEnd
<1>12. CASE Fed
  BY <1>0, <1>12 DEF Fed, Goto, PollEnd
<1>13. CASE Grace
  BY <1>0, <1>13 DEF Grace, Goto, PollEnd
<1>14. CASE Timeout
  BY <1>0, <1>14 DEF Timeout, ExitAnyhow, CallStop
<1>15. CASE TimedOut
  BY <1>0, <1>15 DEF TimedOut, Follow, PollEnd
<1>16. CASE StillStopped
  BY <1>0, <1>16 DEF StillStopped, Follow, PollEnd
<1>17. CASE StopSignal
  BY <1>0, <1>17 DEF StopSignal, Goto
<1>18. CASE StopAlready
  BY <1>0, <1>18 DEF StopAlready, Goto
<1>19. CASE StopJoin
  BY <1>0, <1>19 DEF StopJoin, CanJoin, Goto
<1>20. CASE FreeDevice
  BY <1>0, <1>20 DEF FreeDevice, CallStop
<1>21. CASE FreeRest
  BY <1>0, <1>21 DEF FreeRest, NoDev
<1>22. CASE AcquireRead
  BY <1>0, <1>22 DEF AcquireRead
<1>23. CASE ReadCanceled
  BY <1>0, <1>23 DEF ReadCanceled
<1>24. CASE ReadFails
  BY <1>0, <1>24 DEF ReadFails
<1>25. ASSUME NEW len \in 1..BufLen, FrameArrives(len) PROVE Once'
  BY <1>0, <1>25 DEF FrameArrives
<1>26. ASSUME NEW lost \in BOOLEAN, Broadcast(lost) PROVE Once'
  BY <1>0, <1>26 DEF Broadcast
<1>27. CASE Interrupt
  BY <1>0, <1>27 DEF Interrupt
<1> QED BY <1>1, <1>2, <1>3, <1>4, <1>5, <1>6, <1>7, <1>8, <1>9, <1>10, <1>11, <1>12,
           <1>13, <1>14, <1>15, <1>16, <1>17, <1>18, <1>19, <1>20, <1>21, <1>22,
           <1>23, <1>24, <1>25, <1>26, <1>27
        DEF Next, Start, Poll, Stop, Acquire

-----------------------------------------------------------------------------
(* The messages.                                                            *)

\* A frame that is received leaves the BufNum - 2 frames before it alone.
LEMMA SentKept ==
  ASSUME FramesTypes, NEW len \in 1..BufLen, FrameArrives(len),
         NEW m \in Messages, Sent(m, ring, made)
  PROVE  Sent(m, ring', made')
<1> DEFINE at == CopyAt(ring, len)
           k == made - m.frame
<1>0. /\ at \in 0..RingSize - 1 /\ at + len <= RingSize
      /\ made' = made + 1 /\ ring'.gen = ring.gen /\ ring'.pos = at + len
      /\ \A i \in 0..RingSize - 1 :
           ring'.cells[i] = IF i >= at /\ i < at + len THEN made' ELSE ring.cells[i]
  BY FrameTypes
<1>1. /\ RingSize \in Nat /\ BufLen \in Nat /\ BufNum \in Nat
      /\ len \in Nat /\ len > 0 /\ len <= BufLen
      /\ made \in Nat /\ ring.pos \in Nat /\ ring.pos <= RingSize
      /\ \/ at = ring.pos /\ ring.pos + len <= RingSize
         \/ at = 0 /\ ring.pos + len > RingSize
  <2>1. ring.pos \in 0..RingSize /\ made \in 0..MaxFrames
    BY DEF FramesTypes, Ringlike
  <2>2. /\ RingSize \in Nat /\ BufLen \in Nat /\ BufNum \in Nat
        /\ len \in Nat /\ len > 0 /\ len <= BufLen
        /\ made \in Nat /\ ring.pos \in Nat /\ ring.pos <= RingSize
    BY <2>1, RingRoom, DesktopAssumption
  <2> QED BY <2>2 DEF CopyAt
<1>2. /\ m.frame \in Nat /\ m.gen \in Nat /\ m.at \in Nat
      /\ m.len \in Nat /\ m.len > 0 /\ m.len <= BufLen
      /\ m.frame <= made /\ m.at + m.len <= RingSize
  BY <1>1, DesktopAssumption DEF Messages, Sent
<1>3. k \in Nat /\ made' - m.frame = k + 1
  BY <1>0, <1>1, <1>2
<1> HIDE DEF at, k
<1>4. ASSUME m.gen = ring.gen, k + 1 <= BufNum - 2
      PROVE  /\ \A i \in m.at..m.at + m.len - 1 : ring'.cells[i] = m.frame
             /\ \/ /\ m.at + m.len <= ring'.pos
                   /\ ring'.pos <= m.at + m.len + (k + 1) * BufLen
                \/ /\ ring'.pos <= m.at
                   /\ ring'.pos + RingSize < m.at + m.len + (k + 1 + 1) * BufLen
  <2>1. Placed(m, ring, made)
    BY <1>1, <1>3, <1>4 DEF Sent, k
  <2> DEFINE room == k * BufLen
  <2>2. /\ room \in Nat /\ (k + 1) * BufLen = room + BufLen
        /\ (k + 1 + 1) * BufLen = room + BufLen + BufLen
    BY <1>3, RoomForMore
  <2>3. room + BufLen + BufLen + BufLen <= RingSize
    <3>1. k + 1 \in Nat
      BY <1>3
    <3>2. (k + 1) * BufLen + BufLen + BufLen <= RingSize
      BY <1>4, <3>1, RoomForMore
    <3> QED BY <2>2, <3>2
  <2>4. /\ \A i \in m.at..m.at + m.len - 1 : ring.cells[i] = m.frame
        /\ \/ /\ m.at + m.len <= ring.pos
              /\ ring.pos <= m.at + m.len + room
           \/ /\ ring.pos <= m.at
              /\ ring.pos + RingSize < m.at + m.len + (room + BufLen)
    BY <2>1, <2>2 DEF Placed, k
  <2> HIDE DEF room
  <2>5. /\ \/ at >= m.at + m.len
           \/ at + len <= m.at
        /\ \/ /\ m.at + m.len <= at + len
              /\ at + len <= m.at + m.len + (room + BufLen)
           \/ /\ at + len <= m.at
              /\ at + len + RingSize < m.at + m.len + (room + BufLen + BufLen)
    BY <1>1, <1>2, <2>2, <2>3, <2>4
  <2>6. ASSUME NEW i \in m.at..m.at + m.len - 1
        PROVE  ring'.cells[i] = m.frame
    <3>1. i \in 0..RingSize - 1 /\ ~(i >= at /\ i < at + len)
      BY <1>0, <1>1, <1>2, <2>5, <2>6
    <3> QED BY <1>0, <2>4, <3>1
  <2> QED BY <1>0, <2>2, <2>5, <2>6
<1>5. made' - m.frame <= BufNum - 2 /\ m.gen = ring'.gen => Placed(m, ring', made')
  BY <1>0, <1>3, <1>4 DEF Placed
<1> QED BY <1>0, <1>1, <1>2, <1>5 DEF Sent

\* The message for a frame names the place it was copied to.
LEMMA SentNew ==
  ASSUME FramesTypes, NEW len \in 1..BufLen, FrameArrives(len), ring.gen >= 1
  PROVE  Sent(msg'.acq, ring', made')
<1> DEFINE at == CopyAt(ring, len)
<1>1. /\ at \in 0..RingSize - 1 /\ at + len <= RingSize
      /\ made' = made + 1 /\ ring'.gen = ring.gen /\ ring'.pos = at + len
      /\ \A i \in 0..RingSize - 1 :
           ring'.cells[i] = IF i >= at /\ i < at + len THEN made' ELSE ring.cells[i]
      /\ msg'.acq = [frame |-> made', gen |-> ring.gen, at |-> at, len |-> len]
  BY FrameTypes
<1>2. /\ RingSize \in Nat /\ BufLen \in Nat /\ len \in Nat /\ made' \in Nat
      /\ ring.gen \in Nat
  BY <1>1, RingRoom, DesktopAssumption DEF FramesTypes, Ringlike
<1> HIDE DEF at
<1>3. \A i \in at..at + len - 1 : ring'.cells[i] = made'
  BY <1>1, <1>2
<1>4. made' - made' = 0 /\ 0 * BufLen = 0
  <2>0. \A d \in Nat : d - d = 0
    OBVIOUS
  <2>1. made' - made' = 0
    BY <1>2, <2>0, Zenon
  <2>2. 0 * BufLen = 0
    BY <1>2
  <2> QED BY <2>1, <2>2
<1>5. Placed(msg'.acq, ring', made')
  BY <1>1, <1>2, <1>3, <1>4 DEF Placed
<1> QED BY <1>1, <1>2, <1>5 DEF Sent

\* A queued message names a place not written since.
LEMMA QueueStep ==
  ASSUME Inv, Next PROVE Queue'
<1> USE DEF main, config, status, thread, frames
<1>0. Types /\ FramesTypes /\ Queue
  BY DEF Inv, Types
<1>1. CASE Others
  <2>1. UNCHANGED frames
    BY <1>1, OthersKeep
  <2>2. acq' = "copied" => acq = "copied"
    BY <1>1 DEF Others, StartCloses, Close, OpenFails, Create, LoopOn, LoopExit,
           NoMessage, Handled, NotDue, Fed, Grace, Timeout, TimedOut, StillStopped,
           Stop, StopSignal, StopAlready, StopJoin, FreeDevice, FreeRest,
           AcquireRead, ReadCanceled, ReadFails, Interrupt
  <2>3. pc' = "handle" => pc = "handle"
    <3>1. ret # "handle" /\ after # "handle"
      BY <1>0 DEF Types, ControlTypes
    <3> QED BY <1>1, <3>1
        DEF Others, StartCloses, Close, OpenFails, Create, LoopOn, LoopExit,
           NoMessage, Handled, NotDue, Fed, Grace, Timeout, TimedOut, StillStopped,
           Stop, StopSignal, StopAlready, StopJoin, FreeDevice, FreeRest,
           AcquireRead, ReadCanceled, ReadFails, Interrupt, CallStop, Goto, Follow,
           PollEnd
  <2> QED BY <1>0, <2>1, <2>2, <2>3 DEF Queue
<1>2. CASE Open
  <2>1. /\ ring'.gen = ring.gen + 1 /\ ring.gen \in Nat /\ made' = made
        /\ ctl' = ctl /\ msg' = msg /\ acq' = acq /\ pc' # "handle"
    BY <1>0, <1>2 DEF Open, NewRing, Goto, FramesTypes, Ringlike
  <2>2. ASSUME NEW m \in Messages, Sent(m, ring, made)
        PROVE  Sent(m, ring', made')
    BY <2>1, <2>2 DEF Sent, Messages
  <2>3. /\ \A i \in 1..Len(ctl) : ctl[i] \in Messages
        /\ msg.acq \in Messages
    BY <1>0 DEF FramesTypes
  <2> QED BY <1>0, <2>1, <2>2, <2>3 DEF Queue
<1>3. CASE TakeMessage
  <2>1. /\ ctl \in Seq(Messages) /\ ctl # <<>> /\ ctl' = Tail(ctl)
        /\ msg' = [msg EXCEPT !.main = Head(ctl)]
        /\ acq' = acq /\ ring' = ring /\ made' = made
    BY <1>0, <1>3 DEF TakeMessage, FramesTypes
  <2>2. msg'.main = ctl[1] /\ msg'.acq = msg.acq /\ 1 \in 1..Len(ctl)
    BY <1>0, <2>1 DEF FramesTypes
  <2>3. \A i \in 1..Len(ctl') : ctl'[i] = ctl[i + 1] /\ i + 1 \in 1..Len(ctl)
    BY <2>1
  <2> QED BY <1>0, <2>1, <2>2, <2>3 DEF Queue
<1>4. ASSUME NEW len \in 1..BufLen, FrameArrives(len) PROVE Queue'
  <2>1. ring.gen >= 1
    BY <1>4 DEF Inv, Thread, Once, FrameArrives, LiveAcq
  <2>2. Sent(msg'.acq, ring', made')
    BY <1>0, <1>4, <2>1, SentNew
  <2>3. /\ \A i \in 1..Len(ctl) : ctl[i] \in Messages
        /\ msg.main \in Messages
    BY <1>0 DEF FramesTypes
  <2>7. msg'.main = msg.main
    BY <1>0, <1>4, FrameTypes
  <2>4. ctl' = ctl /\ pc' = pc
    BY <1>4 DEF FrameArrives
  <2>5. \A i \in 1..Len(ctl) : Sent(ctl[i], ring', made')
    BY <1>0, <1>4, <2>3, SentKept DEF Queue
  <2>6. pc' = "handle" => Sent(msg'.main, ring', made')
    BY <1>0, <1>4, <2>3, <2>4, <2>7, SentKept DEF Queue
  <2> QED BY <2>2, <2>4, <2>5, <2>6 DEF Queue
<1>5. ASSUME NEW lost \in BOOLEAN, Broadcast(lost) PROVE Queue'
  <2>1. /\ acq = "copied" /\ acq' = "reading" /\ pc' = pc
        /\ ring' = ring /\ made' = made /\ msg' = msg
        /\ ctl' = ctl \/ ctl' = Append(ctl, msg.acq)
    BY <1>5 DEF Broadcast
  <2>2. ctl \in Seq(Messages) /\ msg.acq \in Messages
    BY <1>0 DEF FramesTypes
  <2>3. \A i \in 1..Len(ctl') :
           (i \in 1..Len(ctl) /\ ctl'[i] = ctl[i]) \/ ctl'[i] = msg.acq
    BY <2>1, <2>2
  <2> QED BY <1>0, <2>1, <2>3 DEF Queue
<1> QED BY <1>1, <1>2, <1>3, <1>4, <1>5, FrameSteps

\* A step that changes nothing keeps it.
LEMMA Stutters == ASSUME Inv, UNCHANGED vars PROVE Inv'
<1> USE DEF Inv, vars, main, config, status, thread, frames
<1>1. Types'
  BY DEF Types, ControlTypes, FramesTypes
<1>2. Thread' /\ Shape'
  BY DEF Thread, Shape, Stopping
<1>3. Once'
  BY DEF Once, Stopping
<1>4. Queue'
  BY DEF Queue
<1> QED BY <1>1, <1>2, <1>3, <1>4

\* The invariant holds in every behaviour.
LEMMA Invariance == Spec => []Inv
<1>1. Init => Inv
  BY Starts
<1>2. Inv /\ [Next]_vars => Inv'
  <2>1. ASSUME Inv, Next PROVE Types'
    BY <2>1, ControlTypesStep, FramesTypesStep DEF Types
  <2> QED BY <2>1, ThreadStep, ShapeStep, OnceStep, QueueStep, Stutters DEF Inv
<1> QED BY <1>1, <1>2, PTL DEF Spec

-----------------------------------------------------------------------------
(* The properties.                                                          *)

\* Every variable stays within its type, and every message names a place inside
\* the ring (rtlsdr_read_cb()).
THEOREM TypeCorrect == Spec => []TypeOK
<1>1. Inv => TypeOK
  BY DEF Inv, Types, ControlTypes, FramesTypes, Ringlike, TypeOK
<1> QED BY Invariance, <1>1, PTL

\* The acquire thread has been joined before the device, the configuration or the
\* event manager is freed (sdr_stop(), r_free_cfg(), mg_mgr_free()).
THEOREM AcquireSafety == Spec => []AcquireSafe
<1>1. Inv => AcquireSafe
  BY DEF Inv, Thread, Shape, AcquireSafe
<1> QED BY Invariance, <1>1, PTL

\* sdr_callback() works on a frame in the ring of the open device, and on the one
\* that was sent while the main thread is no more than BufNum - 2 frames behind
\* (rtlsdr_read_cb(), sdr_handler()).
THEOREM FramesIntact == Spec => []FrameIntact
<1>1. ASSUME Inv, Reads
      PROVE  /\ dev.open /\ msg.main.gen = ring.gen
             /\ made - msg.main.frame <= BufNum - 2 =>
                  \A i \in msg.main.at..msg.main.at + msg.main.len - 1 :
                      ring.cells[i] = msg.main.frame
  <2>1. pc = "handle" /\ demod /\ after = "main"
    BY <1>1 DEF Reads, Inv, Once
  <2>2. Sent(msg.main, ring, made) /\ msg.main.gen \in Nat /\ ring.gen \in Nat
    BY <1>1, <2>1 DEF Inv, Queue, Types, FramesTypes, Messages, Ringlike
  <2>3. msg.main.gen = ring.gen /\ ring.gen = 1
    BY <1>1, <2>1, <2>2 DEF Inv, Once, Sent
  <2>4. dev.open
    BY <1>1, <2>1, <2>3 DEF Inv, Once
  <2> QED BY <2>2, <2>3, <2>4 DEF Sent, Placed
<1>2. Inv => FrameIntact
  BY <1>1 DEF FrameIntact
<1> QED BY Invariance, <1>2, PTL

=============================================================================

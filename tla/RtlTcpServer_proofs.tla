-------------------------- MODULE RtlTcpServer_proofs --------------------------
(***************************************************************************)
(* Proofs about the rtl_tcp server, for any width of the frame counter and *)
(* any number of frames missed below it.                                   *)
(***************************************************************************)
EXTENDS RtlTcpServer, TLAPS

\* How far prev_cnt was set off from the counter.
Offset == IF served THEN 0 ELSE Skew

\* The counter stands behind frames past where prev_cnt was set, modulo its width.
CountInv ==
    Connected => \/ dataCnt = prevCnt + behind - Offset
                 \/ dataCnt = prevCnt + behind - Offset - CountSize
                 \/ dataCnt = prevCnt + behind - Offset + CountSize

\* The thread waits with no signal on its way only if its condition holds.
WaitInv == srv = "waiting" /\ ~signal => MustWait

DataInv == served => hasData

Inv == TypeOK /\ CountInv /\ WaitInv /\ DataInv

\* The sizes as numbers.
LEMMA Constants ==
    /\ CountSize \in Nat /\ Skew \in Nat /\ Backlog \in Nat
    /\ MaxInbox \in Nat /\ MaxBehind \in Nat
    /\ 0 < Skew /\ Skew < CountSize /\ MaxBehind < CountSize
BY RtlTcpAssumption

\* The counters are numbers.
LEMMA CounterTyped ==
    ASSUME NEW c \in 0..CountSize - 1, NEW d \in Nat, d < CountSize
    PROVE  Wrapped(c + d) \in 0..CountSize - 1
BY Constants DEF Wrapped

\* The invariant holds at the start.
LEMMA InitInv == Init => Inv
<1> SUFFICES ASSUME Init PROVE Inv
  OBVIOUS
<1>1. TypeOK
  <2>1. dataCnt \in 0..CountSize - 1 /\ prevCnt \in 0..CountSize - 1
    BY Constants DEF Init
  <2>2. hasData \in BOOLEAN /\ signal \in BOOLEAN /\ served \in BOOLEAN
    BY DEF Init
  <2>3. srv \in Places /\ peer \in {"none", "open", "closed"}
    BY DEF Init, Places
  <2>4. pending \in 0..Backlog /\ inbox \in 0..MaxInbox /\ behind \in 0..MaxBehind
    BY Constants DEF Init
  <2> QED BY <2>1, <2>2, <2>3, <2>4 DEF TypeOK
<1>2. CountInv /\ WaitInv /\ DataInv
  BY DEF Init, CountInv, WaitInv, DataInv, Connected
<1> QED BY <1>1, <1>2 DEF Inv

\* Steps that move the thread or its environment and leave the counters alone.
LEMMA Unmoved ==
    ASSUME Inv, UNCHANGED <<slot, prevCnt, history>>, Connected' => Connected,
           srv' \in Places, signal' \in BOOLEAN, peer' \in {"none", "open", "closed"},
           pending' \in 0..Backlog, inbox' \in 0..MaxInbox,
           srv' = "waiting" /\ ~signal' => MustWait
    PROVE  Inv'
BY DEF Inv, TypeOK, CountInv, WaitInv, DataInv, Connected, Offset, MustWait, slot, history

\* A frame that is published keeps it.
LEMMA PublishInv == Inv /\ Publish => Inv'
<1> SUFFICES ASSUME Inv, Publish PROVE Inv'
  OBVIOUS
<1> USE Constants DEF Publish, Inv, TypeOK
<1>1. dataCnt' \in 0..CountSize - 1
  BY CounterTyped, 1 < CountSize DEF Counted
<1>2. TypeOK'
  BY <1>1
<1>3. CountInv'
  <2> SUFFICES ASSUME Connected PROVE CountInv'
    BY DEF CountInv, Connected
  <2>1. Offset' = Offset /\ Offset \in Int
    BY DEF Offset
  <2>2. dataCnt' = dataCnt + 1 \/ dataCnt' = dataCnt + 1 - CountSize
    BY DEF Counted, Wrapped
  <2>3. \/ dataCnt = prevCnt + behind - Offset
        \/ dataCnt = prevCnt + behind - Offset - CountSize
        \/ dataCnt = prevCnt + behind - Offset + CountSize
    BY DEF CountInv
  <2>4. /\ behind' = behind + 1 /\ prevCnt' = prevCnt /\ behind + 1 < CountSize
        /\ Offset \in 0..CountSize - 1
    BY DEF Offset
  <2>5. \/ dataCnt' = prevCnt + (behind + 1) - Offset
        \/ dataCnt' = prevCnt + (behind + 1) - Offset - CountSize
        \/ dataCnt' = prevCnt + (behind + 1) - Offset + CountSize
    <3> HIDE DEF Publish
    <3>1. CASE dataCnt' = dataCnt + 1
      BY <2>1, <2>3, <3>1
    <3>2. CASE dataCnt' = dataCnt + 1 - CountSize
      BY <1>1, <2>3, <2>4, <3>2
    <3> QED BY <2>2, <3>1, <3>2
  <2> QED BY <2>1, <2>4, <2>5 DEF CountInv
<1>4. WaitInv' /\ DataInv'
  BY DEF WaitInv, DataInv
<1> QED BY <1>2, <1>3, <1>4

\* So does a client that is accepted.
LEMMA AcceptInv == Inv /\ Accept => Inv'
<1> SUFFICES ASSUME Inv, Accept PROVE Inv'
  OBVIOUS
<1> USE Constants DEF Accept, Inv, TypeOK, slot
<1>1. prevCnt' \in 0..CountSize - 1
  BY CounterTyped DEF Unseen
<1>2. TypeOK'
  <2>1. srv' \in Places /\ peer' \in {"none", "open", "closed"}
    BY DEF Places
  <2>2. pending' \in 0..Backlog /\ inbox' \in 0..MaxInbox
    OBVIOUS
  <2>3. behind' \in 0..MaxBehind
    OBVIOUS
  <2>4. served' \in BOOLEAN /\ hasData' \in BOOLEAN /\ signal' \in BOOLEAN
    OBVIOUS
  <2> QED BY <1>1, <2>1, <2>2, <2>3, <2>4
<1>3. CountInv'
  BY DEF CountInv, Offset, Unseen, Wrapped
<1>4. WaitInv' /\ DataInv'
  BY DEF WaitInv, DataInv
<1> QED BY <1>2, <1>3, <1>4

\* So does a frame that is taken.
LEMMA TakeInv == Inv /\ Take => Inv'
<1> SUFFICES ASSUME Inv, Take PROVE Inv'
  OBVIOUS
<1> USE Constants DEF Take, Inv, TypeOK, slot
<1>1. TypeOK'
  BY DEF Places
<1>2. CountInv'
  BY DEF CountInv, Offset
<1>3. WaitInv' /\ DataInv'
  BY DEF WaitInv, DataInv, MustWait
<1> QED BY <1>1, <1>2, <1>3

\* So does a client that leaves.
LEMMA LeaveInv == Inv /\ Leave => Inv'
<1> SUFFICES ASSUME Inv, Leave PROVE Inv'
  OBVIOUS
<1> USE Constants DEF Leave, Inv, TypeOK, slot
<1>1. TypeOK'
  <2>1. srv' \in Places /\ peer' \in {"none", "open", "closed"}
    BY DEF Places
  <2>2. pending' \in 0..Backlog /\ inbox' \in 0..MaxInbox /\ behind' \in 0..MaxBehind
    OBVIOUS
  <2>3. served' \in BOOLEAN /\ hasData' \in BOOLEAN /\ signal' \in BOOLEAN
    OBVIOUS
  <2> QED BY <2>1, <2>2, <2>3
<1>2. CountInv' /\ WaitInv' /\ DataInv'
  BY DEF CountInv, WaitInv, DataInv, Connected
<1> QED BY <1>1, <1>2

\* So does every step.
LEMMA NextInv == Inv /\ [Next]_vars => Inv'
<1> SUFFICES ASSUME Inv, [Next]_vars PROVE Inv'
  OBVIOUS
<1>1. CASE Publish
  BY <1>1, PublishInv
<1>2. CASE Signal
  BY <1>2, Unmoved DEF Signal, Inv, TypeOK, Places, Connected, WaitInv
<1>3. CASE Environment
  <2>1. CASE Connect
    BY <2>1, Unmoved, Constants DEF Connect, Inv, TypeOK, Connected, WaitInv, slot, history
  <2>2. CASE SendCommand
    BY <2>2, Unmoved, Constants DEF SendCommand, Inv, TypeOK, Connected, WaitInv, slot, history
  <2>3. CASE Disconnect
    BY <2>3, Unmoved, Constants DEF Disconnect, Inv, TypeOK, Connected, WaitInv, slot, history
  <2> QED BY <1>3, <2>1, <2>2, <2>3 DEF Environment
<1>4. CASE Accept
  BY <1>4, AcceptInv
<1>5. CASE ReadCommands
  BY <1>5, Unmoved, Constants DEF ReadCommands, Inv, TypeOK, Connected, slot, history
<1>6. CASE PeerGone \/ NoCommand
  BY <1>6, Unmoved DEF PeerGone, NoCommand, AfterEnd, Inv, TypeOK, Places, Connected, slot, history
<1>7. CASE Writable \/ NotWritable
  BY <1>7, Unmoved DEF Writable, NotWritable, Inv, TypeOK, Places, Connected, slot, history
<1>8. CASE Wait
  BY <1>8, Unmoved DEF Wait, Inv, TypeOK, Places, Connected, slot, history
<1>9. CASE Take
  BY <1>9, TakeInv
<1>10. CASE Send
  BY <1>10, Unmoved DEF Send, Inv, TypeOK, Places, Connected, slot, history
<1>11. CASE Leave
  BY <1>11, LeaveInv
<1>12. CASE WakeBySelf
  BY <1>12, Unmoved DEF WakeBySelf, Inv, TypeOK, Places, Connected, slot, history
<1>13. CASE UNCHANGED vars
  BY <1>13, Unmoved DEF vars, Inv, TypeOK, WaitInv, Connected, slot, history
<1> QED
  BY <1>1, <1>2, <1>3, <1>4, <1>5, <1>6, <1>7, <1>8, <1>9, <1>10, <1>11, <1>12, <1>13
     DEF Next, Publisher, Server

\* The invariant holds in every behaviour.
LEMMA Invariance == Spec => []Inv
BY InitInv, NextInv, PTL DEF Spec

-----------------------------------------------------------------------------
(* The properties.                                                          *)

\* Every variable of the server and its clients keeps its type.
THEOREM TypeCorrect == Spec => []TypeOK
<1>1. Inv => TypeOK
  BY DEF Inv
<1> QED BY Invariance, <1>1, PTL

\* No wakeup is lost between rtltcp_broadcast_send(), which signals behind its
\* unlock, and the wait of accept_thread().
THEOREM NoLostWakeup == Spec => []NotHeldBack
<1>1. Inv => NotHeldBack
  <2> SUFFICES ASSUME Inv, srv = "waiting", ~signal
               PROVE  IF served THEN behind = 0 ELSE ~hasData \/ behind = Skew
    BY DEF NotHeldBack
  <2>1. dataCnt = prevCnt \/ ~hasData
    BY DEF Inv, WaitInv, MustWait
  <2>2. served => hasData
    BY DEF Inv, DataInv
  <2>3. \/ dataCnt = prevCnt + behind - Offset
        \/ dataCnt = prevCnt + behind - Offset - CountSize
        \/ dataCnt = prevCnt + behind - Offset + CountSize
    BY DEF Inv, CountInv, Connected
  <2>4. dataCnt = prevCnt => behind = Offset
    BY <2>3, Constants DEF Inv, TypeOK, Offset
  <2> QED BY <2>1, <2>2, <2>4 DEF Offset
<1> QED BY Invariance, <1>1, PTL

\* accept_thread() sends a client no frame twice, whatever wakes it.
THEOREM EachFrameOnce == Spec => NoFrameTwice
<1>1. ASSUME Inv, Take, served
      PROVE  behind > 0
  <2>1. \/ dataCnt = prevCnt + behind
        \/ dataCnt = prevCnt + behind - CountSize
        \/ dataCnt = prevCnt + behind + CountSize
    BY <1>1, Constants DEF Inv, TypeOK, CountInv, Connected, Take, Offset
  <2>2. dataCnt # prevCnt
    BY <1>1 DEF Take, MustWait
  <2> QED BY <1>1, <2>1, <2>2, Constants DEF Inv, TypeOK
<1>2. Inv /\ [Next]_vars => [Take /\ served => behind > 0]_vars
  BY <1>1
<1> QED BY Invariance, <1>2, PTL DEF Spec, NoFrameTwice

=============================================================================

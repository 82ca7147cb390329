----------------------------- MODULE RtlTcpServer -----------------------------
(***************************************************************************)
(* The rtl_tcp server of src/rtl433/src/output_rtltcp.c: the thread that   *)
(* runs sdr_callback() publishes each frame in a slot under a lock, and    *)
(* accept_thread() serves one client at a time from that slot.             *)
(*                                                                         *)
(* A section under srv->lock is one step: it waits for nothing. The        *)
(* condition is signalled after the unlock, and a wait may end by itself.  *)
(*                                                                         *)
(* Left out: what a command asks of the SDR, a command cut by two          *)
(* recv(), an error of accept(), listen() or getnameinfo(), client_count   *)
(* (1 from the accept to the close), and rtltcp_server_stop().             *)
(***************************************************************************)
EXTENDS Integers

CONSTANTS CountSize,    \* values of data_cnt, 2^32
          Skew,         \* what accept_thread() adds to it for a new client: 9
          Backlog,      \* connections listen() queues: 1
          MaxInbox,     \* bound: commands sent and not read
          MaxBehind     \* bound: frames the client thread may miss in a row

ASSUME RtlTcpAssumption ==
    /\ {CountSize, Skew, Backlog, MaxInbox, MaxBehind} \subseteq Nat
    /\ 0 < Skew /\ Skew < CountSize
    /\ MaxBehind < CountSize

VARIABLES
    dataCnt,    \* data_cnt
    hasData,    \* data_buf # NULL
    signal,     \* the publisher stands before pthread_cond_signal()
    srv,        \* where accept_thread() stands
    prevCnt,    \* prev_cnt
    peer,       \* the connection that was accepted: "none", "open" or "closed"
    pending,    \* connections waiting to be accepted
    inbox,      \* commands the client has sent that are not read
    served,     \* history: the client was sent a frame
    behind      \* history: frames published since prev_cnt was set

slot == <<dataCnt, hasData>>
history == <<served, behind>>
vars == <<slot, signal, srv, prevCnt, peer, pending, inbox, history>>

Places == {"accept", "commands", "writable", "lock", "waiting", "woken",
           "sending", "leave"}

TypeOK ==
    /\ dataCnt \in 0..CountSize - 1 /\ prevCnt \in 0..CountSize - 1
    /\ hasData \in BOOLEAN /\ signal \in BOOLEAN /\ served \in BOOLEAN
    /\ srv \in Places
    /\ peer \in {"none", "open", "closed"}
    /\ pending \in 0..Backlog
    /\ inbox \in 0..MaxInbox
    /\ behind \in 0..MaxBehind

Init ==
    /\ dataCnt = 0 /\ hasData = FALSE /\ signal = FALSE
    /\ srv = "accept" /\ prevCnt = 0
    /\ peer = "none" /\ pending = 0 /\ inbox = 0
    /\ served = FALSE /\ behind = 0

Connected == srv # "accept"
Wrapped(c) == IF c < CountSize THEN c ELSE c - CountSize  \* unsigned

-----------------------------------------------------------------------------
(* The publisher: rtltcp_broadcast_send().                                 *)

Counted(c) == Wrapped(c + 1)

Publish ==
    /\ ~signal
    /\ Connected => behind < MaxBehind
    /\ dataCnt' = Counted(dataCnt) /\ hasData' = TRUE
    /\ signal' = TRUE
    /\ behind' = IF Connected THEN behind + 1 ELSE behind
    /\ UNCHANGED <<srv, prevCnt, peer, pending, inbox, served>>

\* pthread_cond_signal(): nobody hears it who does not wait yet.
Signal ==
    /\ signal
    /\ signal' = FALSE
    /\ srv' = IF srv = "waiting" THEN "woken" ELSE srv
    /\ UNCHANGED <<slot, prevCnt, peer, pending, inbox, history>>

-----------------------------------------------------------------------------
(* The clients and the network.                                            *)

Connect ==
    /\ pending < Backlog
    /\ pending' = pending + 1
    /\ UNCHANGED <<slot, signal, srv, prevCnt, peer, inbox, history>>

SendCommand ==
    /\ peer = "open" /\ inbox < MaxInbox
    /\ inbox' = inbox + 1
    /\ UNCHANGED <<slot, signal, srv, prevCnt, peer, pending, history>>

\* An orderly end leaves the commands to be read, a reset drops them.
Disconnect ==
    /\ peer = "open"
    /\ peer' = "closed"
    /\ inbox' \in {inbox, 0}
    /\ UNCHANGED <<slot, signal, srv, prevCnt, pending, history>>

-----------------------------------------------------------------------------
(* The client thread: accept_thread().                                     *)

NewestSeen == dataCnt \* mutant
Unseen == Wrapped(dataCnt + Skew)

Accept ==
    /\ srv = "accept" /\ pending > 0
    /\ srv' = "commands"
    /\ pending' = pending - 1
    /\ peer' = "open"
    /\ prevCnt' = Unseen
    /\ served' = FALSE /\ behind' = 0
    /\ UNCHANGED <<slot, signal, inbox>>

ReadCommands ==
    /\ srv = "commands" /\ inbox > 0
    /\ inbox' \in 0..inbox - 1
    /\ UNCHANGED <<slot, signal, srv, prevCnt, peer, pending, history>>

EndIgnored == "writable" \* mutant
AfterEnd == "leave"

\* recv() returns 0 or an error when there is nothing left of a closed peer.
PeerGone ==
    /\ srv = "commands" /\ inbox = 0 /\ peer = "closed"
    /\ srv' = AfterEnd
    /\ UNCHANGED <<slot, signal, prevCnt, peer, pending, inbox, history>>

NoCommand ==
    /\ srv = "commands" /\ inbox = 0 /\ peer = "open"
    /\ srv' = "writable"
    /\ UNCHANGED <<slot, signal, prevCnt, peer, pending, inbox, history>>

Writable ==
    /\ srv = "writable"
    /\ srv' = "lock"
    /\ UNCHANGED <<slot, signal, prevCnt, peer, pending, inbox, history>>

\* The client has not read for 100 ms.
NotWritable ==
    /\ srv = "writable" /\ peer = "open"
    /\ srv' = "leave"
    /\ UNCHANGED <<slot, signal, prevCnt, peer, pending, inbox, history>>

CheckedOnce == srv = "lock" /\ (dataCnt = prevCnt \/ ~hasData) \* mutant
MustWait == dataCnt = prevCnt \/ ~hasData

Wait ==
    /\ srv \in {"lock", "woken"}
    /\ MustWait
    /\ srv' = "waiting"
    /\ UNCHANGED <<slot, signal, prevCnt, peer, pending, inbox, history>>

Take ==
    /\ srv \in {"lock", "woken"}
    /\ ~MustWait
    /\ srv' = "sending"
    /\ prevCnt' = dataCnt
    /\ served' = TRUE /\ behind' = 0
    /\ UNCHANGED <<slot, signal, peer, pending, inbox>>

WakeBySelf ==
    /\ srv = "waiting"
    /\ srv' = "woken"
    /\ UNCHANGED <<slot, signal, prevCnt, peer, pending, inbox, history>>

\* send_all() blocks while the client does not read; its error is ignored.
Send ==
    /\ srv = "sending"
    /\ srv' = "commands"
    /\ UNCHANGED <<slot, signal, prevCnt, peer, pending, inbox, history>>

Leave ==
    /\ srv = "leave"
    /\ srv' = "accept"
    /\ peer' = "none" /\ inbox' = 0
    /\ served' = FALSE /\ behind' = 0
    /\ UNCHANGED <<slot, signal, prevCnt, pending>>

Publisher == Publish \/ Signal
Environment == Connect \/ SendCommand \/ Disconnect
Server ==
    \/ Accept \/ ReadCommands \/ PeerGone \/ NoCommand
    \/ Writable \/ NotWritable \/ Wait \/ Take \/ Send \/ Leave
Next == Publisher \/ Environment \/ Server \/ WakeBySelf

Spec == Init /\ [][Next]_vars

\* Frames keep coming, and each thread runs on. A send() to a client that is
\* there and does not read need not end.
Fairness ==
    /\ WF_vars(Publisher)
    /\ WF_vars(Server /\ (srv = "sending" => peer # "open"))

FairSpec == Spec /\ Fairness

-----------------------------------------------------------------------------
(* Properties.                                                             *)

\* A client is sent a frame once: whatever wakes the thread, it takes from the
\* slot only what was published after the frame before (prev_cnt).
NoFrameTwice == [][Take /\ served => behind > 0]_vars

\* No wakeup is lost: the thread waits, with no signal on its way, only if the
\* client has all there is. A new client waits for a new frame only if none
\* came yet, or if just Skew of them came between its accept and the first look.
NotHeldBack ==
    srv = "waiting" /\ ~signal =>
        IF served THEN behind = 0 ELSE ~hasData \/ behind = Skew

\* The end of a client is noticed and the next one accepted, although the wait
\* for a frame has no timeout and an error of send_all() is ignored.
DisconnectNoticed == peer = "closed" ~> srv = "accept"

=============================================================================

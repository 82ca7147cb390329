------------------------- MODULE AndroidSessionInv --------------------------
(***************************************************************************)
(* The inductive invariant of AndroidSession: what is allocated, open and  *)
(* running at each location of a session.                                  *)
(***************************************************************************)
EXTENDS AndroidSessionContract

Unopened == ~dev.open /\ acq = "none"

Shape(s) ==
    /\ pc[s] \in {"clear", "init"} => ~demod /\ Unopened
    /\ pc[s] = "open" => demod /\ Unopened
    /\ pc[s] = "start" => demod /\ dev.open /\ acq = "none" /\ ~dev.exitAcquire
    /\ pc[s] = "announce" => demod /\ dev.open /\ ~dev.exitAcquire
    /\ pc[s] \in LoopPcs \cup StopPcs \cup {"stopped", "free_dev"}
        => demod /\ dev.open
    /\ pc[s] = "free_cfg"
        => demod /\ (dev.open => dev.exitAcquire) /\ acq = "none"
    /\ pc[s] = "free_rest" => demod /\ Unopened
    /\ pc[s] = "leave" => ~demod /\ Unopened

(* What sdr_stop() leaves behind: once exit_acquire is set, the acquire    *)
(* thread is gone except while the caller is still joining it.             *)
Stopped(s) ==
    /\ pc[s] = "stop_join" => dev.exitAcquire
    /\ pc[s] \in ReturnPcs => dev.exitAcquire
    /\ InSession(s) /\ pc[s] # "stop_join" /\ dev.exitAcquire => acq = "none"

(* The invariant that every step preserves; the safety properties of       *)
(* AndroidSession follow from it.                                          *)
IInv ==
    /\ TypeOK
    /\ OneSession
    /\ \A s \in Starters : Shape(s)
    /\ \A s \in Starters : Stopped(s)
    /\ NothingLeftBehind
    /\ QuietWhenStopped

=============================================================================

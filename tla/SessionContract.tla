-------------------------- MODULE SessionContract --------------------------
(***************************************************************************)
(* What a receiver session promises to the rest of the application: one    *)
(* holder at a time; the holder opens the device at most once, streams     *)
(* from the open device at most once, and gives up the session only with   *)
(* the device closed and nothing streaming.                                *)
(***************************************************************************)
CONSTANT Starters

VARIABLES
    holders,   \* the threads that are inside the session
    receiver   \* "closed", "open" or "streaming"

Init == holders = {} /\ receiver = "closed"

Enter(s) ==
    /\ holders = {}
    /\ holders' = {s}
    /\ UNCHANGED receiver

Leave(s) ==
    /\ holders = {s}
    /\ receiver = "closed"
    /\ holders' = {}
    /\ UNCHANGED receiver

Open ==
    /\ holders # {} /\ receiver = "closed"
    /\ receiver' = "open"
    /\ UNCHANGED holders

Stream ==
    /\ holders # {} /\ receiver = "open"
    /\ receiver' = "streaming"
    /\ UNCHANGED holders

(* The stream may end by itself at any time.                               *)
EndStream ==
    /\ receiver = "streaming"
    /\ receiver' = "open"
    /\ UNCHANGED holders

Shut ==
    /\ holders # {} /\ receiver = "open"
    /\ receiver' = "closed"
    /\ UNCHANGED holders

Next ==
    \/ \E s \in Starters : Enter(s) \/ Leave(s)
    \/ Open \/ Stream \/ EndStream \/ Shut

Spec == Init /\ [][Next]_<<holders, receiver>>

=============================================================================

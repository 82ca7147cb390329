---------------------- MODULE AndroidSessionContract -----------------------
(***************************************************************************)
(* AndroidSession implements SessionContract: the holders are the starters *)
(* between Enter and Leave, and the receiver streams while the acquire     *)
(* thread is alive.                                                        *)
(***************************************************************************)
EXTENDS AndroidSession

Holders == {s \in Starters : InSession(s)}

Receiver == CASE acq \in LiveAcq -> "streaming"
              [] acq \notin LiveAcq /\ dev.open -> "open"
              [] OTHER -> "closed"

Contract == INSTANCE SessionContract WITH holders <- Holders,
                                          receiver <- Receiver

(* Every behaviour of the code's session keeps the contract: no device is  *)
(* freed under its acquire thread, no session ends with a device open, and *)
(* no second one begins meanwhile.                                         *)
KeepsContract == Contract!Spec

=============================================================================

------------------------------ MODULE Delivery ------------------------------
(***************************************************************************)
(* What ReceiptGateClient promises of each receipt it is given, whatever   *)
(* its buffer, its file and its replay do: what the emitter is told, and   *)
(* where the receipt may end up after that.  Outbox implements it.         *)
(*                                                                         *)
(* The receipts are independent of each other and one step of the client   *)
(* may move several of them: Next is a conjunction over the receipts.      *)
(***************************************************************************)
CONSTANTS
    Receipts,
    Acceptances     \* those of phase "accepted"

VARIABLES
    fate,      \* where the receipt is
    told,      \* what emit_receipt has returned for it, if it has
    reported   \* receipts given up with an error in the log

deliveryVars == <<fate, told, reported>>

Fates == {"new", "posting", "waiting", "accepted", "closed"}
Words == {"nothing", "answered", "buffered", "failed"}

DeliveryTypeOK ==
    /\ fate \in [Receipts -> Fates]
    /\ told \in [Receipts -> Words]
    /\ reported \subseteq Receipts

DeliveryInit ==
    /\ fate = [r \in Receipts |-> "new"]
    /\ told = [r \in Receipts |-> "nothing"]
    /\ reported = {}

----------------------------------------------------------------------------
(* One receipt *)

Becomes(r, f, w) == fate'[r] = f /\ told'[r] = w

\* It is on its way.
Emit(r) == fate[r] = "new" /\ Becomes(r, "posting", "nothing")

\* ReceiptGate has accepted or refused it.
Answered(r) ==
    /\ fate[r] = "posting"
    /\ \E f \in {"accepted", "closed"} : Becomes(r, f, "answered")

\* Only what may wait is buffered; ReceiptGate may have it all the same.
Buffered(r) ==
    /\ r \notin Acceptances
    /\ \/ fate[r] \in {"new", "posting"} /\ Becomes(r, "waiting", "buffered")
       \/ fate[r] = "posting" /\ Becomes(r, "accepted", "buffered")

\* The emitter is told that it failed, or dies.
Failed(r) ==
    \/ fate[r] \in {"new", "posting"} /\ Becomes(r, "closed", "failed")
    \/ fate[r] = "posting" /\ Becomes(r, "accepted", "failed")
    \/ /\ r \notin Acceptances
       /\ fate[r] \in {"new", "posting"}
       /\ Becomes(r, "waiting", "failed")

Delivered(r) == fate[r] = "waiting" /\ Becomes(r, "accepted", told[r])

\* What was promised is not given up in silence.
GivenUp(r) ==
    /\ fate[r] = "waiting"
    /\ told[r] = "buffered" => r \in reported'
    /\ Becomes(r, "closed", told[r])

Stays(r) == Becomes(r, fate[r], told[r])

DeliveryNext ==
    /\ reported \subseteq reported'
    /\ \A r \in Receipts :
          \/ Emit(r) \/ Answered(r) \/ Buffered(r) \/ Failed(r)
          \/ Delivered(r) \/ GivenUp(r) \/ Stays(r)

DeliverySpec == DeliveryInit /\ [][DeliveryNext]_deliveryVars
=============================================================================

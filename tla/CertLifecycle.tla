---------------------------- MODULE CertLifecycle ----------------------------
(***************************************************************************)
(* What a CA's certificate store promises about the life of a certificate  *)
(* (src/keyset/ca_*.c): it is added incompletely, becomes active when the  *)
(* client has confirmed it, a renewal only when its predecessor has made   *)
(* room, and leaves for good.  There is never more than one certificate    *)
(* of a key at a stage, and an active one goes only if its revocation was  *)
(* asked for or its renewal is there.                                      *)
(*                                                                         *)
(*   requested --> partial --> confirmed --> [renewing] --> active         *)
(*                                                                         *)
(* Each of them may end up gone, those that were added also revoked.       *)
(***************************************************************************)

CONSTANTS Certs,
          KeyOf,      \* the key of each certificate
          Originals,  \* the certificates that are active at the start
          Direct,     \* those that are issued without a confirmation
          Renewals,   \* those that replace the active one with their key
          Revocable   \* those of which somebody asks a revocation

Stages == {"requested", "partial", "confirmed", "renewing", "active", "revoked", "gone"}

VARIABLE status  \* the stage of each certificate

Init == status = [c \in Certs |-> IF c \in Originals THEN "active" ELSE "requested"]

Others(c) == {d \in Certs \ {c} : KeyOf[d] = KeyOf[c]}

\* No other certificate with the key of c is at one of the stages.
Alone(c, stages) == \A d \in Others(c) : status[d] \notin stages

Becomes(c, s) == status' = [status EXCEPT ![c] = s]

Issue(c) ==
    /\ status[c] = "requested" /\ c \notin Direct
    /\ Alone(c, {"partial", "confirmed"})
    /\ Becomes(c, "partial")

IssueDirect(c) ==
    /\ status[c] = "requested" /\ c \in Direct
    /\ Alone(c, {"active"})
    /\ Becomes(c, "active")

Confirm(c) ==
    /\ status[c] = "partial"
    /\ Becomes(c, "confirmed")

Complete(c) ==
    /\ status[c] = "confirmed" /\ c \notin Renewals
    /\ Alone(c, {"active"})
    /\ Becomes(c, "active")

BeginRenewal(c) ==
    /\ status[c] = "confirmed" /\ c \in Renewals
    /\ Alone(c, {"renewing"})
    /\ Becomes(c, "renewing")

CompleteRenewal(c) ==
    /\ status[c] = "renewing"
    /\ Alone(c, {"active"})
    /\ Becomes(c, "active")

\* A renewal takes its place, with a CRL entry if that can be made.
Supersede(c) ==
    /\ status[c] = "active" /\ ~Alone(c, {"renewing"})
    /\ \E s \in {"revoked", "gone"} : Becomes(c, s)

Revoke(c) ==
    /\ status[c] = "active" /\ c \in Revocable
    /\ Becomes(c, "revoked")

Reverse(c) ==
    /\ status[c] \in {"partial", "confirmed"}
    /\ Becomes(c, "revoked")

\* Renewals that cannot be read any more.
Discard(c) ==
    /\ status[c] = "renewing"
    /\ Becomes(c, "gone")

\* Requests are withdrawn, or incomplete certificates dropped, many at a time at a restart.
Abandon ==
    /\ \A c \in Certs : status'[c] # status[c] =>
          status[c] \in {"requested", "partial", "confirmed"} /\ status'[c] = "gone"
    /\ status' \in [Certs -> Stages]

Moves(c) ==
    \/ Issue(c) \/ IssueDirect(c) \/ Confirm(c) \/ Complete(c) \/ BeginRenewal(c)
    \/ CompleteRenewal(c) \/ Supersede(c) \/ Revoke(c) \/ Reverse(c) \/ Discard(c)

Next ==
    \/ \E c \in Certs : status'[c] # status[c] /\ Moves(c)
    \/ Abandon

Spec == Init /\ [][Next]_status
=============================================================================

---------------------------- MODULE MCRemediation ----------------------------
(* Two approvals and a rejection race for one proposal. *)
EXTENDS Remediation

(* contracts/api/gateway.yaml answers an approval with 409 when the        *)
(* "Proposal is no longer pending or is already applying".  The handler    *)
(* checks that before it takes the lock and never again, so a proposal     *)
(* that was rejected or applied in the meantime is applied all the same.   *)
ClaimsUndecided ==
    [][\A a \in Approvals : pc[a] = "loaded" /\ pc'[a] = "claimed"
           => record \notin Decided \cup {"applying"}]_vars
=============================================================================

--------------------------- MODULE ApprovalProtocol ---------------------------
(***************************************************************************)
(* What the two-tier approval workflow promises, independently of Lambda   *)
(* invocations, DynamoDB items and Slack messages: a request is approved   *)
(* by one security and one manager approval, in either order, or by one    *)
(* administrator while nobody has decided anything; it may be denied until *)
(* it is approved and revoked once it is; nothing ever leaves "denied" or  *)
(* "revoked", and an approval that was given is never taken back.          *)
(*                                                                         *)
(* It promises no more than PutItem does: of decisions made at the same    *)
(* time the last one to be saved counts (Overwrite), and what it puts      *)
(* in the place of the others is a request somebody decided, not a         *)
(* mixture.                                                                *)
(***************************************************************************)

CONSTANT RequestIDs     \* the requests that may be submitted

VARIABLES
    status,             \* status[r]: where the request stands
    approvals,          \* approvals[r]: the tiers that have approved it
    raced               \* the requests that were overwritten

protocolVars == <<status, approvals, raced>>

Tiers == {"security", "manager"}

\* Values of RequestStatus, and "absent" for a request nobody submitted yet.
RequestStatus == {"absent", "pending", "partially_approved", "approved",
                  "denied", "revoked"}

Open == {"pending", "partially_approved"}

ProtocolInit ==
    /\ status = [r \in RequestIDs |-> "absent"]
    /\ approvals = [r \in RequestIDs |-> {}]
    /\ raced = {}

Submit(r) ==
    /\ status[r] = "absent"
    /\ status' = [status EXCEPT ![r] = "pending"]
    /\ UNCHANGED <<approvals, raced>>

\* One tier approves; the second of the two makes the request approved.
Grant(r, tier) ==
    /\ status[r] \in Open
    /\ tier \notin approvals[r]
    /\ approvals' = [approvals EXCEPT ![r] = @ \cup {tier}]
    /\ status' = [status EXCEPT ![r] =
                     IF approvals[r] \cup {tier} = Tiers
                     THEN "approved" ELSE "partially_approved"]
    /\ UNCHANGED raced

\* An administrator approves on behalf of both tiers.
Override(r) ==
    /\ status[r] = "pending"
    /\ status' = [status EXCEPT ![r] = "approved"]
    /\ UNCHANGED <<approvals, raced>>

Deny(r) ==
    /\ status[r] \in Open
    /\ status' = [status EXCEPT ![r] = "denied"]
    /\ UNCHANGED <<approvals, raced>>

Revoke(r) ==
    /\ status[r] = "approved"
    /\ status' = [status EXCEPT ![r] = "revoked"]
    /\ UNCHANGED <<approvals, raced>>

\* The approvals a status may go with.
ApprovalsOf(s) ==
    CASE s = "pending" -> {{}}
      [] s = "partially_approved" -> {{tier} : tier \in Tiers}
      [] s = "denied" -> {{}} \cup {{tier} : tier \in Tiers}
      [] s \in {"approved", "revoked"} -> {{}, Tiers}

\* A decision made on what the request was before is saved over what it is.
Overwrite(r) ==
    /\ raced' = raced \cup {r}
    /\ status[r] # "absent"
    /\ \E s \in RequestStatus \ {"absent"} :
           /\ status' = [status EXCEPT ![r] = s]
           /\ \E a \in ApprovalsOf(s) : approvals' = [approvals EXCEPT ![r] = a]

ProtocolNext ==
    \E r \in RequestIDs :
        \/ Submit(r)
        \/ \E tier \in Tiers : Grant(r, tier)
        \/ Override(r)
        \/ Deny(r)
        \/ Revoke(r)
        \/ Overwrite(r)

ProtocolSpec == ProtocolInit /\ [][ProtocolNext]_protocolVars
===============================================================================

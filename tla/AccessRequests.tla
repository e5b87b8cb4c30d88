---------------------------- MODULE AccessRequests ----------------------------
(***************************************************************************)
(* The access-request workflow: the requests table of DynamoDB and every   *)
(* Lambda handler that changes a request.                                  *)
(*                                                                         *)
(* Each click, slash command or modal submission is one Lambda invocation. *)
(* A handler reads the request (GetItem), decides on its own copy and      *)
(* writes the whole item back (an unconditional PutItem), so an invocation *)
(* is split at those calls and any number of them may overlap.  A read     *)
(* that is not strongly consistent returns an older item, as an invocation *)
(* that read earlier and was delayed would; it needs no action of its own. *)
(*                                                                         *)
(* An operator whose name ends in _Bug is a faulty variant of the operator *)
(* after it: no specification uses it, it shows what a property is for.    *)
(***************************************************************************)
EXTENDS FiniteSets

CONSTANTS
    Users,              \* Slack users
    Admins,             \* users with the administrator role
    SecurityMembers,    \* users that are ever members of the security group
    ManagerGroups,      \* ids of the manager groups
    ManagerMembers,     \* ManagerMembers[g]: users ever members of group g
    RequestIDs,         \* requests that may be submitted (bounds the table)
    Invocations,        \* slots for Lambda invocations in flight
    NoOne,              \* a nil approver, requester or group
    AllowSelfApproval,  \* the ALLOW_SELF_APPROVAL environment variable
    LegacyRouted,       \* does any route lead to cmd/approval-handler?
    FaultsPossible      \* may calls fail and invocations be cut short?

VARIABLES
    requests,       \* requests[r]: the item of the requests table
    invocations,    \* invocations[i]: the handler running in slot i
    prompts,        \* prompts[r]: users sent a message with Approve and Deny
    offers,         \* <<u, r, tier>>: u was offered "Approve as <tier>" for r
    events,         \* requests whose "Request Approved" event was published
    notices,        \* notices[r]: the verdicts the requester was told
    raced,          \* history: requests some handler saved over an item other
                    \* than the one it had read
    unpublished     \* history: requests whose event was due and got lost

history == <<raced, unpublished>>
vars == <<requests, invocations, prompts, offers, events, notices, raced,
          unpublished>>

Tiers == {"security", "manager"}

Status == {"absent", "pending", "partially_approved", "approved", "denied",
           "revoked"}

\* The fields of an AccessRequest that decisions depend on; `messages' says
\* whether ApprovalMessageTimestamps is set.
Request == [status   : Status,
            user     : Users \cup {NoOne},
            group    : ManagerGroups \cup {NoOne},
            security : Users \cup {NoOne},
            manager  : Users \cup {NoOne},
            approver : Users \cup {NoOne},
            revoker  : Users \cup {NoOne},
            messages : BOOLEAN]

\* No item under this id.
Absent == [status |-> "absent", user |-> NoOne, group |-> NoOne,
           security |-> NoOne, manager |-> NoOne, approver |-> NoOne,
           revoker |-> NoOne, messages |-> FALSE]

Operations == {"none", "submit", "approve_security", "approve_manager",
               "approve_admin", "approve_legacy", "deny", "cancel", "revoke"}

\* Where an invocation stands: the call it is about to make.
Steps == {"idle", "read", "delete_document", "save", "send_messages",
          "store_timestamps", "follow_up"}

ActiveIDs == RequestIDs \cup {NoOne}

Invocation == [op : Operations, step : Steps, req : ActiveIDs,
               user : Users \cup {NoOne}, copy : Request]

Idle == [op |-> "none", step |-> "idle", req |-> NoOne, user |-> NoOne,
         copy |-> Absent]

ASSUME ConstantsAssumption ==
    /\ Admins \subseteq Users
    /\ SecurityMembers \subseteq Users
    /\ ManagerMembers \in [ManagerGroups -> SUBSET Users]
    /\ NoOne \notin Users \cup ManagerGroups \cup RequestIDs
    /\ {AllowSelfApproval, LegacyRouted, FaultsPossible} \subseteq BOOLEAN

Init ==
    /\ requests = [r \in RequestIDs |-> Absent]
    /\ invocations = [i \in Invocations |-> Idle]
    /\ prompts = [r \in RequestIDs |-> {}]
    /\ offers = {}
    /\ events = {}
    /\ notices = [r \in RequestIDs |-> {}]
    /\ raced = {}
    /\ unpublished = {}

-------------------------------------------------------------------------------
(* The decisions of AccessRequestService, on the copy an invocation read.  *)

HasSecurityApproval(rec) == rec.security # NoOne
HasManagerApproval(rec) == rec.manager # NoOne
IsOpen(rec) == rec.status \in {"pending", "partially_approved"}

\* The item CreateRequest saves.
NewRequest(u, g) ==
    [Absent EXCEPT !.status = "pending", !.user = u, !.group = g]

MayApproveSecurity(rec, u) ==
    /\ AllowSelfApproval \/ rec.user # u
    /\ IsOpen(rec)
    /\ ~HasSecurityApproval(rec)

\* Faulty: the self-approval check is missing for managers.
MayApproveManager_Bug(rec, u) == IsOpen(rec) /\ ~HasManagerApproval(rec)

MayApproveManager(rec, u) ==
    /\ AllowSelfApproval \/ rec.user # u
    /\ IsOpen(rec)
    /\ ~HasManagerApproval(rec)

WithSecurityApproval(rec, u) ==
    LET signed == [rec EXCEPT !.security = u] IN
    IF HasManagerApproval(rec)
    THEN [signed EXCEPT !.status = "approved", !.approver = u]
    ELSE [signed EXCEPT !.status = "partially_approved"]

\* Faulty: the second approval never completes the request.
WithManagerApproval_Bug(rec, u) ==
    [rec EXCEPT !.manager = u, !.status = "partially_approved"]

WithManagerApproval(rec, u) ==
    LET signed == [rec EXCEPT !.manager = u] IN
    IF HasSecurityApproval(rec)
    THEN [signed EXCEPT !.status = "approved", !.approver = u]
    ELSE [signed EXCEPT !.status = "partially_approved"]

\* Faulty: an administrator may approve what one tier has approved.
MayApprove_Bug(rec) == IsOpen(rec)

\* ApproveRequest, the single-approver decision the administrator command
\* and the old approval handler share.
MayApprove(rec) == rec.status = "pending"
WithApproval(rec, u) == [rec EXCEPT !.status = "approved", !.approver = u]

\* Faulty: a decided request may still be denied.
MayDeny_Bug(rec) == rec.status # "denied"

MayDeny(rec) == IsOpen(rec)

WithDenial(rec, u) == [rec EXCEPT !.status = "denied", !.approver = u]

\* Faulty: a status the rest of the system does not know.
WithRevocation_Bug(rec, u) ==
    [rec EXCEPT !.status = "cancelled", !.revoker = u]

MayRevoke(rec) == rec.status = "approved"
WithRevocation(rec, u) == [rec EXCEPT !.status = "revoked", !.revoker = u]

\* Does the service accept operation op by user u on the copy rec: a tier's
\* approval, ...
AcceptsApproval(op, rec, u) ==
    \/ op = "approve_security" /\ MayApproveSecurity(rec, u)
    \/ op = "approve_manager" /\ MayApproveManager(rec, u)

\* ... the decision of one person, ...
AcceptsDecision(op, rec) ==
    \/ op \in {"approve_admin", "approve_legacy"} /\ MayApprove(rec)
    \/ op \in {"deny", "cancel"} /\ MayDeny(rec)

\* ... or a revocation.
Accepts(op, rec, u) ==
    \/ AcceptsApproval(op, rec, u)
    \/ AcceptsDecision(op, rec)
    \/ op = "revoke" /\ MayRevoke(rec)

\* The item it then saves.
AfterApproval(op, rec, u) ==
    IF op = "approve_security" THEN WithSecurityApproval(rec, u)
    ELSE WithManagerApproval(rec, u)

AfterDecision(op, rec, u) ==
    IF op \in {"deny", "cancel"} THEN WithDenial(rec, u)
    ELSE WithApproval(rec, u)

Decided(op, rec, u) ==
    CASE op \in {"approve_security", "approve_manager"} ->
             AfterApproval(op, rec, u)
      [] op \in {"approve_admin", "approve_legacy", "deny", "cancel"} ->
             AfterDecision(op, rec, u)
      [] op = "revoke" -> WithRevocation(rec, u)

\* Faulty: the approval that leaves a request partially approved publishes too.
Publishes_Bug(inv) ==
    inv.op \in {"approve_security", "approve_manager", "approve_legacy"}

\* Faulty: the manager's handler does not publish.
PublishesSecurity_Bug(inv) ==
    inv.op = "approve_security" /\ inv.copy.status = "approved"

\* Is the approval event published after the save?  The administrator's
\* approve-request publishes none.
Publishes(inv) ==
    \/ /\ inv.op \in {"approve_security", "approve_manager"}
       /\ inv.copy.status = "approved"
    \/ inv.op = "approve_legacy"

-------------------------------------------------------------------------------
(* Starting and ending an invocation.                                      *)

Begin(i, op, u, r) ==
    invocations' = [invocations EXCEPT ![i] =
        [op |-> op, step |-> "read", req |-> r, user |-> u, copy |-> Absent]]

Finish(i) == invocations' = [invocations EXCEPT ![i] = Idle]

Advance(i, step, rec) ==
    invocations' = [invocations EXCEPT ![i] =
                        [@ EXCEPT !.step = step, !.copy = rec]]

IsIdle(i) == invocations[i].step = "idle"

\* An event that was due is not published.
LoseEvent(inv) ==
    unpublished' = IF inv.step = "follow_up" /\ Publishes(inv)
                   THEN unpublished \cup {inv.req} ELSE unpublished

\* The call fails, the handler returns an error, or the Lambda dies: nothing
\* of what was left to do happens, and nothing done is undone.
Abort(i) ==
    /\ FaultsPossible
    /\ ~IsIdle(i)
    /\ Finish(i)
    /\ LoseEvent(invocations[i])
    /\ UNCHANGED <<requests, prompts, offers, events, notices, raced>>

-------------------------------------------------------------------------------
(* request-handler: submitting the modal.                                  *)

\* The form is valid and CreateRequest saves a pending request of user u for
\* manager group g under a fresh uuid.
HandleModalSubmission(i, u, g, r) ==
    /\ IsIdle(i)
    /\ requests[r] = Absent
    /\ requests' = [requests EXCEPT ![r] = NewRequest(u, g)]
    /\ invocations' = [invocations EXCEPT ![i] =
           [op |-> "submit", step |-> "send_messages", req |-> r, user |-> u,
            copy |-> NewRequest(u, g)]]
    /\ UNCHANGED <<prompts, offers, events, notices, history>>

\* Post the message with the two buttons to the members of both groups.  A
\* post that fails is skipped, and when none succeeds no timestamp is stored.
\* A decision removes the buttons from these messages after it is saved, if
\* Slack lets it; clicks made before that still arrive: prompts never shrink.
SendApprovalRequestToGroups(i) ==
    LET inv == invocations[i]
        members == SecurityMembers \cup ManagerMembers[inv.copy.group] IN
    /\ inv.step = "send_messages"
    /\ \E reached \in SUBSET members :
           /\ FaultsPossible \/ reached = members
           /\ prompts' = [prompts EXCEPT ![inv.req] = @ \cup reached]
           /\ IF reached = {}
              THEN Finish(i)
              ELSE Advance(i, "store_timestamps", inv.copy)
    /\ UNCHANGED <<requests, offers, events, notices, history>>

\* PutItem of the whole item rec, with no condition on what it replaces: the
\* item the handler read, or one that has been saved since.
PutItem(inv, rec) ==
    /\ requests' = [requests EXCEPT ![inv.req] = rec]
    /\ raced' = IF requests[inv.req] = inv.copy THEN raced
                ELSE raced \cup {inv.req}

\* Save the copy made at creation, with the timestamps: whatever approvers
\* decided since the messages went out is overwritten.
StoreMessageTimestamps(i) ==
    LET inv == invocations[i] IN
    /\ inv.step = "store_timestamps"
    /\ PutItem(inv, [inv.copy EXCEPT !.messages = TRUE])
    /\ Finish(i)
    /\ UNCHANGED <<prompts, offers, events, notices, unpublished>>

-------------------------------------------------------------------------------
(* request-handler: the buttons.                                           *)

\* IsGroupMember answers from a cache of at most five minutes and an error
\* counts as no, so "no" is always possible and "yes" only for a user who
\* was a member at some time.
MembershipAnswers(u, members) == {FALSE} \cup {u \in members}

\* The tiers the approval-type selection offers for rec.
Lacking(rec) ==
    {tier \in Tiers : \/ tier = "security" /\ ~HasSecurityApproval(rec)
                      \/ tier = "manager" /\ ~HasManagerApproval(rec)}

\* "Approve": refused to a user who already approved; a member of one group
\* goes on to that tier's handler, a member of both is offered the choice.
HandleApproveButton(i, u, r) ==
    LET rec == requests[r] IN
    /\ IsIdle(i)
    /\ u \in prompts[r]
    /\ u \notin {rec.security, rec.manager}
    /\ \E isSecurity \in MembershipAnswers(u, SecurityMembers),
          isManager \in MembershipAnswers(u, ManagerMembers[rec.group]) :
           \/ /\ isSecurity /\ isManager
              /\ offers' = offers \cup {<<u, r, tier>> : tier \in Lacking(rec)}
              /\ UNCHANGED invocations
           \/ /\ isSecurity /\ ~isManager /\ ~HasSecurityApproval(rec)
              /\ Begin(i, "approve_security", u, r)
              /\ UNCHANGED offers
           \/ /\ isManager /\ ~isSecurity /\ ~HasManagerApproval(rec)
              /\ Begin(i, "approve_manager", u, r)
              /\ UNCHANGED offers
    /\ UNCHANGED <<requests, prompts, events, notices, history>>

\* "Approve as <tier>", from the selection: membership is not looked at again.
HandleApproveTierButton(i, u, r) ==
    /\ IsIdle(i)
    /\ \/ /\ <<u, r, "security">> \in offers
          /\ Begin(i, "approve_security", u, r)
       \/ /\ <<u, r, "manager">> \in offers
          /\ Begin(i, "approve_manager", u, r)
    /\ UNCHANGED <<requests, prompts, offers, events, notices, history>>

\* "Deny": for a member of either group.
HandleDenyButton(i, u, r) ==
    /\ IsIdle(i)
    /\ u \in prompts[r]
    /\ u \in SecurityMembers \cup ManagerMembers[requests[r].group]
    /\ Begin(i, "deny", u, r)
    /\ UNCHANGED <<requests, prompts, offers, events, notices, history>>

-------------------------------------------------------------------------------
(* admin-slack-handler and approval-handler.                               *)

\* approve-request, deny-request, cancel-request and revoke-request of an
\* administrator, on any request id.
HandleAdminCommand(i, u, r) ==
    /\ IsIdle(i)
    /\ u \in Admins
    /\ requests[r] # Absent
    /\ \E op \in {"approve_admin", "deny", "cancel", "revoke"} :
           Begin(i, op, u, r)
    /\ UNCHANGED <<requests, prompts, offers, events, notices, history>>

\* cmd/approval-handler takes any click on the same buttons as a decision.
HandleLegacyClick(i, u, r) ==
    /\ LegacyRouted
    /\ IsIdle(i)
    /\ u \in prompts[r]
    /\ \E op \in {"approve_legacy", "deny"} : Begin(i, op, u, r)
    /\ UNCHANGED <<requests, prompts, offers, events, notices, history>>

-------------------------------------------------------------------------------
(* The calls of a running invocation.                                      *)

\* GetItem and the checks of the service method; a refusal ends the handler.
ReadRequest(i) ==
    LET inv == invocations[i]
        rec == requests[inv.req] IN
    /\ inv.step = "read"
    /\ IF Accepts(inv.op, rec, inv.user)
       THEN Advance(i, IF inv.op = "revoke" THEN "delete_document" ELSE "save",
                    rec)
       ELSE Finish(i)
    /\ UNCHANGED <<requests, prompts, offers, events, notices, history>>

\* RevokeRequest looks up and deletes the request's document before it saves
\* the new status; when that fails it returns (Abort).
DeleteRequestDocument(i) ==
    LET inv == invocations[i] IN
    /\ inv.step = "delete_document"
    /\ Advance(i, "save", inv.copy)
    /\ UNCHANGED <<requests, prompts, offers, events, notices, history>>

SaveRequest(i) ==
    LET inv == invocations[i]
        rec == Decided(inv.op, inv.copy, inv.user) IN
    /\ inv.step = "save"
    /\ PutItem(inv, rec)
    /\ Advance(i, "follow_up", rec)
    /\ UNCHANGED <<prompts, offers, events, notices, unpublished>>

\* The verdict the requester is sent; a cancelled request's owner gets none.
Verdict(inv) ==
    IF inv.op = "cancel" THEN {}
    ELSE {inv.copy.status} \cap {"approved", "denied", "revoked"}

\* Publish the event and notify the requester.  Each may fail: the error is
\* only logged.
FollowUp(i) ==
    LET inv == invocations[i] IN
    /\ inv.step = "follow_up"
    /\ \E published, told \in BOOLEAN :
           /\ FaultsPossible \/ (published /\ told)
           /\ events' = IF published /\ Publishes(inv)
                        THEN events \cup {inv.req} ELSE events
           /\ IF published THEN UNCHANGED unpublished ELSE LoseEvent(inv)
           /\ notices' = IF told
                         THEN [notices EXCEPT ![inv.req] = @ \cup Verdict(inv)]
                         ELSE notices
    /\ Finish(i)
    /\ UNCHANGED <<requests, prompts, offers, raced>>

-------------------------------------------------------------------------------

\* The calls Lambda goes on to make once an invocation has started.
Proceed(i) ==
    \/ SendApprovalRequestToGroups(i)
    \/ StoreMessageTimestamps(i)
    \/ ReadRequest(i)
    \/ DeleteRequestDocument(i)
    \/ SaveRequest(i)
    \/ FollowUp(i)

Start(i) ==
    \E u \in Users, r \in RequestIDs :
        \/ \E g \in ManagerGroups : HandleModalSubmission(i, u, g, r)
        \/ HandleApproveButton(i, u, r)
        \/ HandleApproveTierButton(i, u, r)
        \/ HandleDenyButton(i, u, r)
        \/ HandleAdminCommand(i, u, r)
        \/ HandleLegacyClick(i, u, r)

Next == \E i \in Invocations : Start(i) \/ Proceed(i) \/ Abort(i)

Spec == Init /\ [][Next]_vars

\* Lambda runs a started handler on to its end; nobody has to click anything.
FairSpec == Spec /\ \A i \in Invocations : WF_vars(Proceed(i))

-------------------------------------------------------------------------------
(* Properties.                                                             *)

TypeOK ==
    /\ requests \in [RequestIDs -> Request]
    /\ invocations \in [Invocations -> Invocation]
    /\ prompts \in [RequestIDs -> SUBSET Users]
    /\ offers \subseteq Users \X RequestIDs \X Tiers
    /\ events \subseteq RequestIDs
    /\ notices \in [RequestIDs -> SUBSET Status]
    /\ raced \cup unpublished \subseteq RequestIDs

\* The approvals a status stands for, and the user the legacy fields name.
ApprovalsMatchStatus(rec) ==
    /\ rec.status = "absent" => rec = Absent
    /\ rec.status = "pending" => /\ ~HasSecurityApproval(rec)
                                 /\ ~HasManagerApproval(rec)
    /\ rec.status = "partially_approved" =>
           HasSecurityApproval(rec) # HasManagerApproval(rec)
    /\ rec.status \in {"approved", "revoked"} =>
           /\ HasSecurityApproval(rec) = HasManagerApproval(rec)
           /\ HasSecurityApproval(rec) =>
                  rec.approver \in {rec.security, rec.manager}
    /\ rec.status = "denied" =>
           ~(HasSecurityApproval(rec) /\ HasManagerApproval(rec))
    /\ (rec.approver # NoOne) <=>
           (rec.status \in {"approved", "revoked", "denied"})
    /\ (rec.revoker # NoOne) <=> (rec.status = "revoked")

\* However many handlers overlap, and wherever they stop, no save leaves an
\* item whose status contradicts its approvals: in particular an approved
\* request has both tiers' approvals or none (an administrator's approval).
RecordsConsistent == \A r \in RequestIDs : ApprovalsMatchStatus(requests[r])

\* The users whose decisions an item records were entitled to make them.
Authorised(rec) ==
    /\ HasSecurityApproval(rec) =>
           /\ rec.security \in SecurityMembers
           /\ AllowSelfApproval \/ rec.security # rec.user
    /\ HasManagerApproval(rec) =>
           /\ rec.manager \in ManagerMembers[rec.group]
           /\ AllowSelfApproval \/ rec.manager # rec.user
    /\ rec.revoker # NoOne => rec.revoker \in Admins
    /\ (rec.status = "approved" /\ ~HasSecurityApproval(rec)) =>
           rec.approver \in Admins \/ LegacyRouted

\* No interleaving of clicks, offers and stale copies records an approval of a
\* tier by somebody outside its group, or, unless the setting allows it, by
\* the requester; only an administrator approves without the tiers.
ApproversAuthorised == \A r \in RequestIDs : Authorised(requests[r])

\* Whatever overlaps and fails, the table follows the two-tier protocol but
\* for the saves over an item other than the one that was read, and again
\* after each of these.
Protocol ==
    INSTANCE ApprovalProtocol
    WITH status <- [r \in RequestIDs |-> requests[r].status],
         approvals <- [r \in RequestIDs |-> Tiers \ Lacking(requests[r])]

RefinesProtocol == Protocol!ProtocolSpec

\* Only such a save takes back a verdict the requester was told: a handler that
\* fails, dies or is repeated at any point does not.
RequesterToldTruth ==
    \A r \in RequestIDs \ raced :
        /\ "approved" \in notices[r] =>
               requests[r].status \in {"approved", "revoked"}
        /\ "denied" \in notices[r] => requests[r].status = "denied"
        /\ "revoked" \in notices[r] => requests[r].status = "revoked"

\* Document creation is only triggered for a request that is approved, or was
\* and has been revoked since, unless such a save took the approval back.
EventsOnlyForApproved ==
    \A r \in events \ raced : requests[r].status \in {"approved", "revoked"}

\* A request both tiers approved gets its document: the handler that recorded
\* the second approval publishes the event, whatever other handlers save and
\* however they stop, unless that handler dies first or its call fails.
TwoTierApprovalPublished ==
    \A r \in RequestIDs :
        (/\ requests[r].status = "approved"
         /\ HasSecurityApproval(requests[r])) ~> r \in events \cup unpublished

\* The safety behind it: no save of another handler gets between a completing
\* approval and its event.  An item both tiers approved has its event, or the
\* handler that completed it is still to publish it, or failed to.
CompletedIsPublished ==
    \A r \in RequestIDs \ unpublished :
        (/\ requests[r].status \in {"approved", "revoked"}
         /\ HasSecurityApproval(requests[r])) =>
            \/ r \in events
            \/ \E i \in Invocations :
                   /\ invocations[i].step = "follow_up"
                   /\ invocations[i].req = r
                   /\ Publishes(invocations[i])

\* What an approver is told ("Manager Approval Recorded ... Waiting for
\* security approval"): an approval that was saved stays recorded.
RecordedApprovalsKept ==
    [][\A r \in RequestIDs :
           /\ HasSecurityApproval(requests[r]) =>
                  HasSecurityApproval(requests'[r])
           /\ HasManagerApproval(requests[r]) =>
                  HasManagerApproval(requests'[r])]_vars

\* What approvers and requester are told of a denied request: it "has been
\* denied and will not be processed".
DeniedNotProcessed ==
    \A r \in events : "denied" \notin notices[r]

\* What an administrator is told after approve-request: the document "will be
\* created shortly"; the event is all that ever creates it.
ApprovedLeadsToEvent ==
    \A r \in RequestIDs :
        requests[r].status = "approved" ~> r \in events

===============================================================================

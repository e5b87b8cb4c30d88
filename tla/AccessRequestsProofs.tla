------------------------- MODULE AccessRequestsProofs -------------------------
(***************************************************************************)
(* Theorems about AccessRequests, for every number of users, groups,       *)
(* requests and overlapping invocations.                                   *)
(*                                                                         *)
(* What the table holds is only as good as the copies handlers hold, since *)
(* a handler saves whatever it made of its copy, however old.  The         *)
(* invariant therefore says of every copy about to be used what it says of *)
(* the table: the copy was once in the table, and the service's checks     *)
(* passed on it.                                                           *)
(*                                                                         *)
(* The copy need not be what the table holds now, and that is all the      *)
(* difference overlap makes: where the two differ the save is an Overwrite *)
(* of ApprovalProtocol, otherwise it is one of its decisions, and only an  *)
(* Overwrite takes back what the requester was told or what was published. *)
(***************************************************************************)
EXTENDS AccessRequests, TLAPS

\* An item of the table, or a copy of one, that exists and is sound.
Sound(rec) ==
    /\ rec.status # "absent"
    /\ rec.user \in Users
    /\ rec.group \in ManagerGroups
    /\ ApprovalsMatchStatus(rec)
    /\ Authorised(rec)

\* Both are items of the same request.
SameRequest(rec, other) == rec.user = other.user /\ rec.group = other.group

TableSound ==
    \A r \in RequestIDs : requests[r] = Absent \/ Sound(requests[r])

\* Users are only asked about requests that exist.
PromptsFollowRequests ==
    \A r \in RequestIDs : prompts[r] # {} => Sound(requests[r])

\* A tier is only offered to a member of its group.
OffersAuthorised ==
    \A u \in Users, r \in RequestIDs :
        /\ <<u, r, "security">> \in offers =>
               Sound(requests[r]) /\ u \in SecurityMembers
        /\ <<u, r, "manager">> \in offers =>
               Sound(requests[r]) /\ u \in ManagerMembers[requests[r].group]

\* User u may ask for operation op on a request for manager group g.
Entitled(op, u, g) ==
    /\ u \in Users
    /\ op = "approve_security" => u \in SecurityMembers
    /\ op = "approve_manager" => u \in ManagerMembers[g]
    /\ op \in {"approve_admin", "revoke"} => u \in Admins
    /\ op = "approve_legacy" => LegacyRouted

\* What invocation inv holds, when rec is the item of its request now.
HoldsSound(inv, rec) ==
    /\ Sound(rec)
    /\ Entitled(inv.op, inv.user, rec.group)
    /\ inv.step \in {"delete_document", "save"} =>
           /\ Sound(inv.copy)
           /\ Accepts(inv.op, inv.copy, inv.user)
           /\ SameRequest(inv.copy, rec)
    /\ inv.step \in {"send_messages", "store_timestamps"} =>
           inv.copy = NewRequest(rec.user, rec.group)

InvocationSound(inv, table) ==
    inv.step # "idle" =>
        inv.req \in RequestIDs /\ HoldsSound(inv, table[inv.req])

InvocationsSound ==
    \A i \in Invocations : InvocationSound(invocations[i], requests)

IInv ==
    /\ TypeOK
    /\ TableSound
    /\ PromptsFollowRequests
    /\ OffersAuthorised
    /\ InvocationsSound

-------------------------------------------------------------------------------
(* The decisions of the service.                                           *)

\* A new request is sound, with and without its message references.
LEMMA NewRequestSound ==
    ASSUME NEW u \in Users, NEW g \in ManagerGroups
    PROVE  /\ NewRequest(u, g) \in Request
           /\ Sound(NewRequest(u, g))
           /\ [NewRequest(u, g) EXCEPT !.messages = TRUE] \in Request
           /\ Sound([NewRequest(u, g) EXCEPT !.messages = TRUE])
  BY ConstantsAssumption
     DEF NewRequest, Absent, Request, Status, Sound, ApprovalsMatchStatus,
         Authorised, HasSecurityApproval, HasManagerApproval

\* A decision the service accepts on a sound copy, taken by a user entitled to
\* it, makes a sound item of the same request.
LEMMA DecisionSound ==
    ASSUME NEW rec \in Request, Sound(rec), NEW op \in Operations, NEW u,
           Entitled(op, u, rec.group), Accepts(op, rec, u)
    PROVE  /\ Decided(op, rec, u) \in Request
           /\ Sound(Decided(op, rec, u))
           /\ SameRequest(Decided(op, rec, u), rec)
  <1> DEFINE new == Decided(op, rec, u)
  <1> HIDE DEF new
  <1>1. /\ rec.status # "absent" /\ rec.user \in Users
        /\ rec.group \in ManagerGroups /\ u \in Users /\ NoOne \notin Users
        /\ ApprovalsMatchStatus(rec) /\ Authorised(rec)
    BY ConstantsAssumption DEF Sound, Entitled
  <1>1a. u \in Users BY <1>1
  <1>2. CASE op = "approve_security"
    <2>1. MayApproveSecurity(rec, u)
      BY <1>2 DEF Accepts, AcceptsApproval, AcceptsDecision
    <2>2. new = WithSecurityApproval(rec, u)
      BY <1>2 DEF Decided, AfterApproval, new
    <2>3. new \in Request
      BY <1>1a, <2>2 DEF WithSecurityApproval, Request, Status
    <2>4. ApprovalsMatchStatus(new)
      BY <1>1, <2>1, <2>2
         DEF MayApproveSecurity, WithSecurityApproval, Request, IsOpen,
             ApprovalsMatchStatus, HasSecurityApproval, HasManagerApproval
    <2>5. Authorised(new)
      BY <1>1, <1>2, <2>1, <2>2
         DEF MayApproveSecurity, WithSecurityApproval, Request, Entitled,
             Authorised,
             IsOpen, ApprovalsMatchStatus, HasSecurityApproval,
             HasManagerApproval
    <2>6. SameRequest(new, rec) /\ new.status # "absent"
      BY <1>1, <2>2 DEF WithSecurityApproval, Request, SameRequest
    <2> QED BY <1>1, <2>3, <2>4, <2>5, <2>6 DEF Sound, SameRequest, new
  <1>3. CASE op = "approve_manager"
    <2>1. MayApproveManager(rec, u)
      BY <1>3 DEF Accepts, AcceptsApproval, AcceptsDecision
    <2>2. new = WithManagerApproval(rec, u)
      BY <1>3 DEF Decided, AfterApproval, new
    <2>3. new \in Request
      BY <1>1a, <2>2 DEF WithManagerApproval, Request, Status
    <2>4. ApprovalsMatchStatus(new)
      BY <1>1, <2>1, <2>2
         DEF MayApproveManager, WithManagerApproval, Request, IsOpen,
             ApprovalsMatchStatus, HasSecurityApproval, HasManagerApproval
    <2>5. Authorised(new)
      BY <1>1, <1>3, <2>1, <2>2
         DEF MayApproveManager, WithManagerApproval, Request, Entitled,
             Authorised,
             IsOpen, ApprovalsMatchStatus, HasSecurityApproval,
             HasManagerApproval
    <2>6. SameRequest(new, rec) /\ new.status # "absent"
      BY <1>1, <2>2 DEF WithManagerApproval, Request, SameRequest
    <2> QED BY <1>1, <2>3, <2>4, <2>5, <2>6 DEF Sound, SameRequest, new
  <1>4. CASE op \in {"approve_admin", "approve_legacy"}
    <2>1. MayApprove(rec) BY <1>4 DEF Accepts, AcceptsApproval, AcceptsDecision
    <2>2. new = WithApproval(rec, u) BY <1>4 DEF Decided, AfterDecision, new
    <2>3. new \in Request
      BY <1>1a, <2>2 DEF WithApproval, Request, Status
    <2>4. ApprovalsMatchStatus(new)
      BY <1>1, <2>1, <2>2
         DEF MayApprove, WithApproval, Request, IsOpen,
             ApprovalsMatchStatus, HasSecurityApproval, HasManagerApproval
    <2>5. Authorised(new)
      BY <1>1, <1>4, <2>1, <2>2
         DEF MayApprove, WithApproval, Request, Entitled, Authorised,
             IsOpen, ApprovalsMatchStatus, HasSecurityApproval,
             HasManagerApproval
    <2>6. SameRequest(new, rec) /\ new.status # "absent"
      BY <1>1, <2>2 DEF WithApproval, Request, SameRequest
    <2> QED BY <1>1, <2>3, <2>4, <2>5, <2>6 DEF Sound, SameRequest, new
  <1>5. CASE op \in {"deny", "cancel"}
    <2>1. MayDeny(rec) BY <1>5 DEF Accepts, AcceptsApproval, AcceptsDecision
    <2>2. new = WithDenial(rec, u) BY <1>5 DEF Decided, AfterDecision, new
    <2>3. new \in Request
      BY <1>1a, <2>2 DEF WithDenial, Request, Status
    <2>4. ApprovalsMatchStatus(new)
      BY <1>1, <2>1, <2>2
         DEF MayDeny, WithDenial, Request, IsOpen,
             ApprovalsMatchStatus, HasSecurityApproval, HasManagerApproval
    <2>5. Authorised(new)
      BY <1>1, <1>5, <2>1, <2>2
         DEF MayDeny, WithDenial, Request, Entitled, Authorised,
             IsOpen, ApprovalsMatchStatus, HasSecurityApproval,
             HasManagerApproval
    <2>6. SameRequest(new, rec) /\ new.status # "absent"
      BY <1>1, <2>2 DEF WithDenial, Request, SameRequest
    <2> QED BY <1>1, <2>3, <2>4, <2>5, <2>6 DEF Sound, SameRequest, new
  <1>6. CASE op = "revoke"
    <2>1. MayRevoke(rec) BY <1>6 DEF Accepts, AcceptsApproval, AcceptsDecision
    <2>2. new = WithRevocation(rec, u) BY <1>6 DEF Decided, new
    <2>3. new \in Request
      BY <1>1a, <2>2 DEF WithRevocation, Request, Status
    <2>4. ApprovalsMatchStatus(new)
      BY <1>1, <2>1, <2>2
         DEF MayRevoke, WithRevocation, Request, IsOpen,
             ApprovalsMatchStatus, HasSecurityApproval, HasManagerApproval
    <2>5. Authorised(new)
      BY <1>1, <1>6, <2>1, <2>2
         DEF MayRevoke, WithRevocation, Request, Entitled, Authorised,
             IsOpen, ApprovalsMatchStatus, HasSecurityApproval,
             HasManagerApproval
    <2>6. SameRequest(new, rec) /\ new.status # "absent"
      BY <1>1, <2>2 DEF WithRevocation, Request, SameRequest
    <2> QED BY <1>1, <2>3, <2>4, <2>5, <2>6 DEF Sound, SameRequest, new
  <1> QED
    BY <1>2, <1>3, <1>4, <1>5, <1>6 DEF Accepts, AcceptsApproval,
                                        AcceptsDecision, new

-------------------------------------------------------------------------------
(* What a step of one invocation leaves of the invariant.                  *)

\* Saving another sound item of the same request disturbs nobody.
LEMMA SavePreserves ==
    ASSUME IInv, NEW r \in RequestIDs, NEW rec \in Request, Sound(rec),
           requests[r] = Absent \/ SameRequest(rec, requests[r]),
           requests' = [requests EXCEPT ![r] = rec],
           UNCHANGED <<prompts, offers>>
    PROVE  /\ requests' \in [RequestIDs -> Request]
           /\ TableSound'
           /\ PromptsFollowRequests'
           /\ OffersAuthorised'
           /\ \A j \in Invocations : InvocationSound(invocations[j], requests')
  <1>1. /\ requests' \in [RequestIDs -> Request]
        /\ requests'[r] = rec
        /\ \A q \in RequestIDs : q # r => requests'[q] = requests[q]
    BY DEF IInv, TypeOK
  <1>2. Sound(requests[r]) => SameRequest(rec, requests[r])
    BY DEF Sound, Absent
  <1>3. TableSound' BY <1>1 DEF IInv, TableSound
  <1>4. PromptsFollowRequests' BY <1>1 DEF IInv, PromptsFollowRequests
  <1>5. OffersAuthorised'
    BY <1>1, <1>2 DEF IInv, OffersAuthorised, SameRequest
  <1>6. ASSUME NEW j \in Invocations
        PROVE  InvocationSound(invocations[j], requests')
    <2>1. InvocationSound(invocations[j], requests)
      BY DEF IInv, InvocationsSound
    <2>2. CASE invocations[j].req = r /\ invocations[j].step # "idle"
      <3>1. HoldsSound(invocations[j], requests[r])
        BY <2>1, <2>2 DEF InvocationSound
      <3>2. SameRequest(rec, requests[r]) BY <3>1, <1>2 DEF HoldsSound
      <3>3. HoldsSound(invocations[j], rec)
        BY <3>1, <3>2 DEF HoldsSound, SameRequest
      <3> QED BY <1>1, <2>2, <3>3 DEF InvocationSound
    <2>3. CASE invocations[j].req # r \/ invocations[j].step = "idle"
      BY <1>1, <2>1, <2>3 DEF InvocationSound
    <2> QED BY <2>2, <2>3
  <1> QED BY <1>1, <1>3, <1>4, <1>5, <1>6

\* Replacing what one slot holds by something sound.
LEMMA SlotPreserves ==
    ASSUME IInv, NEW i \in Invocations, NEW inv \in Invocation,
           InvocationSound(inv, requests'),
           invocations' = [invocations EXCEPT ![i] = inv],
           \A j \in Invocations : InvocationSound(invocations[j], requests')
    PROVE  /\ invocations' \in [Invocations -> Invocation]
           /\ InvocationsSound'
  BY DEF IInv, TypeOK, InvocationsSound

LEMMA IdleSound ==
    ASSUME NEW table
    PROVE  Idle \in Invocation /\ InvocationSound(Idle, table)
  BY DEF Idle, Absent, Invocation, InvocationSound, Operations, Steps,
         ActiveIDs, Request, Status

\* An invocation that starts with an entitled user on an existing request.
LEMMA BeginPreserves ==
    ASSUME IInv, NEW i \in Invocations, NEW op \in Operations,
           NEW u \in Users, NEW r \in RequestIDs, Sound(requests[r]),
           Entitled(op, u, requests[r].group), Begin(i, op, u, r),
           requests' = requests
    PROVE  /\ invocations' \in [Invocations -> Invocation]
           /\ InvocationsSound'
  <1> DEFINE inv == [op |-> op, step |-> "read", req |-> r, user |-> u,
                     copy |-> Absent]
  <1>1. inv \in Invocation
    BY DEF Invocation, Steps, ActiveIDs, Absent, Request, Status
  <1>2. InvocationSound(inv, requests') BY DEF InvocationSound, HoldsSound
  <1>3. invocations' = [invocations EXCEPT ![i] = inv] BY DEF Begin
  <1>4. \A j \in Invocations : InvocationSound(invocations[j], requests')
    BY DEF IInv, InvocationsSound
  <1> QED BY <1>1, <1>2, <1>3, <1>4, SlotPreserves

\* An invocation that ends.
LEMMA FinishPreserves ==
    ASSUME IInv, NEW i \in Invocations, Finish(i),
           \A j \in Invocations : InvocationSound(invocations[j], requests')
    PROVE  /\ invocations' \in [Invocations -> Invocation]
           /\ InvocationsSound'
  BY IdleSound, SlotPreserves DEF Finish

\* An invocation that goes on to another call with a copy sound for it.
LEMMA AdvancePreserves ==
    ASSUME IInv, NEW i \in Invocations, ~IsIdle(i),
           NEW step \in Steps \ {"idle"}, NEW rec \in Request,
           Advance(i, step, rec),
           \A j \in Invocations : InvocationSound(invocations[j], requests'),
           LET inv == [invocations[i] EXCEPT !.step = step, !.copy = rec]
           IN  HoldsSound(inv, requests'[inv.req])
    PROVE  /\ invocations' \in [Invocations -> Invocation]
           /\ InvocationsSound'
  <1> DEFINE inv == [invocations[i] EXCEPT !.step = step, !.copy = rec]
  <1>1. inv \in Invocation BY DEF IInv, TypeOK, Invocation
  <1>2. inv.req = invocations[i].req /\ invocations[i].req \in RequestIDs
    BY DEF IInv, TypeOK, Invocation, IsIdle, InvocationsSound, InvocationSound
  <1>3. InvocationSound(inv, requests') BY <1>2 DEF InvocationSound
  <1>4. invocations' = [invocations EXCEPT ![i] = inv] BY DEF Advance
  <1> QED BY <1>1, <1>3, <1>4, SlotPreserves

\* What the invariant says of an invocation in flight.
LEMMA InFlight ==
    ASSUME IInv, NEW i \in Invocations, ~IsIdle(i)
    PROVE  /\ invocations[i] \in Invocation
           /\ invocations[i].req \in RequestIDs
           /\ requests[invocations[i].req] \in Request
           /\ HoldsSound(invocations[i], requests[invocations[i].req])
  BY DEF IInv, TypeOK, IsIdle, InvocationsSound, InvocationSound

-------------------------------------------------------------------------------
(* One lemma per kind of step.                                             *)

\* Submitting the modal.
LEMMA SubmissionStep ==
    ASSUME IInv, NEW i \in Invocations, NEW u \in Users,
           NEW g \in ManagerGroups, NEW r \in RequestIDs,
           HandleModalSubmission(i, u, g, r)
    PROVE  IInv'
  <1> DEFINE rec == NewRequest(u, g)
             inv == [op |-> "submit", step |-> "send_messages", req |-> r,
                     user |-> u, copy |-> rec]
  <1>1. rec \in Request /\ Sound(rec) BY NewRequestSound
  <1>2. /\ requests[r] = Absent
        /\ requests' = [requests EXCEPT ![r] = rec]
        /\ invocations' = [invocations EXCEPT ![i] = inv]
        /\ UNCHANGED <<prompts, offers, events, notices, raced, unpublished>>
    BY DEF HandleModalSubmission, history
  <1>3. /\ requests' \in [RequestIDs -> Request]
        /\ TableSound'
        /\ PromptsFollowRequests'
        /\ OffersAuthorised'
        /\ \A j \in Invocations : InvocationSound(invocations[j], requests')
    <2> HIDE DEF rec
    <2> QED BY <1>1, <1>2, SavePreserves
  <1>4. inv \in Invocation
    BY <1>1 DEF Invocation, Operations, Steps, ActiveIDs
  <1>5. requests'[r] = rec BY <1>2 DEF IInv, TypeOK
  <1>6. rec.user = u /\ rec.group = g BY DEF NewRequest, Absent
  <1>7. InvocationSound(inv, requests')
    BY <1>1, <1>5, <1>6 DEF InvocationSound, HoldsSound, Entitled
  <1>8. invocations' \in [Invocations -> Invocation] /\ InvocationsSound'
    <2> HIDE DEF inv
    <2> QED BY <1>2, <1>3, <1>4, <1>7, SlotPreserves
  <1> QED BY <1>2, <1>3, <1>8 DEF IInv, TypeOK

\* Sending the messages.
LEMMA SendStep ==
    ASSUME IInv, NEW i \in Invocations, SendApprovalRequestToGroups(i)
    PROVE  IInv'
  <1> DEFINE inv == invocations[i]
             members == SecurityMembers \cup ManagerMembers[inv.copy.group]
  <1>1. inv.step = "send_messages" /\ ~IsIdle(i)
    BY DEF SendApprovalRequestToGroups, IsIdle
  <1>2. PICK reached \in SUBSET members :
            /\ prompts' = [prompts EXCEPT ![inv.req] = @ \cup reached]
            /\ IF reached = {}
               THEN Finish(i)
               ELSE Advance(i, "store_timestamps", inv.copy)
    BY DEF SendApprovalRequestToGroups
  <1>3. UNCHANGED <<requests, offers, events, notices, raced, unpublished>>
    BY DEF SendApprovalRequestToGroups, history
  <1>4. /\ inv \in Invocation /\ inv.req \in RequestIDs
        /\ HoldsSound(inv, requests[inv.req])
    BY <1>1, InFlight
  <1>5. members \subseteq Users
    <2>1. inv.copy.group \in ManagerGroups
      BY <1>1, <1>4 DEF HoldsSound, Sound, NewRequest, Absent
    <2> QED BY <2>1, ConstantsAssumption
  <1>6. prompts' \in [RequestIDs -> SUBSET Users]
    BY <1>2, <1>4, <1>5 DEF IInv, TypeOK
  <1>7. PromptsFollowRequests'
    BY <1>2, <1>3, <1>4 DEF IInv, TypeOK, PromptsFollowRequests, HoldsSound
  <1>8. \A j \in Invocations : InvocationSound(invocations[j], requests')
    BY <1>3 DEF IInv, InvocationsSound
  <1>9. invocations' \in [Invocations -> Invocation] /\ InvocationsSound'
    <2>1. CASE reached = {} BY <1>2, <1>8, <2>1, FinishPreserves
    <2>2. CASE reached # {}
      <3> DEFINE next == [inv EXCEPT !.step = "store_timestamps",
                                     !.copy = inv.copy]
      <3>1. HoldsSound(next, requests'[next.req])
        BY <1>1, <1>3, <1>4 DEF HoldsSound, Invocation
      <3>2. inv.copy \in Request BY <1>4 DEF Invocation
      <3> QED BY <1>1, <1>2, <1>8, <2>2, <3>1, <3>2, AdvancePreserves DEF Steps
    <2> QED BY <2>1, <2>2
  <1> QED
    BY <1>3, <1>6, <1>7, <1>9 DEF IInv, TypeOK, TableSound, OffersAuthorised

\* Storing the message references.
LEMMA StoreStep ==
    ASSUME IInv, NEW i \in Invocations, StoreMessageTimestamps(i)
    PROVE  IInv'
  <1> DEFINE inv == invocations[i]
             rec == [inv.copy EXCEPT !.messages = TRUE]
             old == requests[inv.req]
  <1>1. /\ inv.step = "store_timestamps" /\ ~IsIdle(i)
        /\ requests' = [requests EXCEPT ![inv.req] = rec]
        /\ raced' \subseteq raced \cup {inv.req}
        /\ Finish(i)
        /\ UNCHANGED <<prompts, offers, events, notices, unpublished>>
    BY DEF StoreMessageTimestamps, PutItem, IsIdle
  <1>2. inv.req \in RequestIDs /\ HoldsSound(inv, old) BY <1>1, InFlight
  <1>3. /\ inv.copy = NewRequest(old.user, old.group)
        /\ old.user \in Users /\ old.group \in ManagerGroups
    BY <1>1, <1>2 DEF HoldsSound, Sound
  <1>4. rec \in Request /\ Sound(rec) BY <1>3, NewRequestSound
  <1>5. SameRequest(rec, old) BY <1>3 DEF SameRequest, NewRequest, Absent
  <1>6. /\ requests' \in [RequestIDs -> Request]
        /\ TableSound'
        /\ PromptsFollowRequests'
        /\ OffersAuthorised'
        /\ \A j \in Invocations : InvocationSound(invocations[j], requests')
    <2> HIDE DEF rec
    <2> QED BY <1>1, <1>2, <1>4, <1>5, SavePreserves
  <1>7. invocations' \in [Invocations -> Invocation] /\ InvocationsSound'
    BY <1>1, <1>6, FinishPreserves
  <1> QED BY <1>1, <1>2, <1>6, <1>7 DEF IInv, TypeOK

\* The clicks and commands that only start an invocation.
LEMMA ClickStep ==
    ASSUME IInv, NEW i \in Invocations, NEW u \in Users,
           NEW r \in RequestIDs,
           \/ HandleApproveTierButton(i, u, r)
           \/ HandleDenyButton(i, u, r)
           \/ HandleAdminCommand(i, u, r)
           \/ HandleLegacyClick(i, u, r)
    PROVE  IInv'
  <1>1. UNCHANGED <<requests, prompts, offers, events, notices, raced,
                    unpublished>>
    BY DEF HandleApproveTierButton, HandleDenyButton, HandleAdminCommand,
           HandleLegacyClick, history
  <1>2. /\ Sound(requests[r])
        /\ \E op \in Operations :
               Entitled(op, u, requests[r].group) /\ Begin(i, op, u, r)
    <2>1. CASE HandleApproveTierButton(i, u, r)
      <3>1. CASE /\ <<u, r, "security">> \in offers
                 /\ Begin(i, "approve_security", u, r)
        BY <3>1 DEF IInv, OffersAuthorised, Entitled, Operations
      <3>2. CASE /\ <<u, r, "manager">> \in offers
                 /\ Begin(i, "approve_manager", u, r)
        BY <3>2 DEF IInv, OffersAuthorised, Entitled, Operations
      <3> QED BY <2>1, <3>1, <3>2 DEF HandleApproveTierButton
    <2>2. CASE HandleDenyButton(i, u, r)
      BY <2>2 DEF HandleDenyButton, IInv, PromptsFollowRequests, Entitled,
                  Operations
    <2>3. CASE HandleAdminCommand(i, u, r)
      BY <2>3 DEF HandleAdminCommand, IInv, TableSound, Entitled, Operations
    <2>4. CASE HandleLegacyClick(i, u, r)
      BY <2>4 DEF HandleLegacyClick, IInv, PromptsFollowRequests, Entitled,
                  Operations
    <2> QED BY <2>1, <2>2, <2>3, <2>4
  <1>3. invocations' \in [Invocations -> Invocation] /\ InvocationsSound'
    BY <1>1, <1>2, BeginPreserves
  <1> QED
    BY <1>1, <1>3
       DEF IInv, TypeOK, TableSound, PromptsFollowRequests, OffersAuthorised

\* "Approve".
LEMMA ApproveStep ==
    ASSUME IInv, NEW i \in Invocations, NEW u \in Users,
           NEW r \in RequestIDs, HandleApproveButton(i, u, r)
    PROVE  IInv'
  <1> DEFINE rec == requests[r]
  <1>1. /\ UNCHANGED <<requests, prompts, events, notices, raced, unpublished>>
        /\ Sound(rec)
    BY DEF HandleApproveButton, IInv, PromptsFollowRequests, history
  <1>2. PICK isSecurity \in MembershipAnswers(u, SecurityMembers),
             isManager \in MembershipAnswers(u, ManagerMembers[rec.group]) :
           \/ /\ isSecurity /\ isManager
              /\ offers' = offers \cup {<<u, r, tier>> : tier \in Lacking(rec)}
              /\ UNCHANGED invocations
           \/ /\ isSecurity /\ ~isManager /\ ~HasSecurityApproval(rec)
              /\ Begin(i, "approve_security", u, r)
              /\ UNCHANGED offers
           \/ /\ isManager /\ ~isSecurity /\ ~HasManagerApproval(rec)
              /\ Begin(i, "approve_manager", u, r)
              /\ UNCHANGED offers
    BY DEF HandleApproveButton
  <1>3. /\ isSecurity => u \in SecurityMembers
        /\ isManager => u \in ManagerMembers[rec.group]
    BY DEF MembershipAnswers
  <1>4. CASE isSecurity /\ isManager /\ UNCHANGED invocations
             /\ offers' = offers \cup {<<u, r, tier>> : tier \in Lacking(rec)}
    <2>1. offers' \subseteq Users \X RequestIDs \X Tiers
      BY <1>4 DEF IInv, TypeOK, Lacking
    <2>2. OffersAuthorised'
      BY <1>1, <1>3, <1>4 DEF IInv, OffersAuthorised
    <2> QED
      BY <1>1, <1>4, <2>1, <2>2
         DEF IInv, TypeOK, TableSound, PromptsFollowRequests, InvocationsSound
  <1>5. CASE isSecurity /\ Begin(i, "approve_security", u, r)
             /\ UNCHANGED offers
    <2>1. Entitled("approve_security", u, rec.group)
      BY <1>3, <1>5 DEF Entitled
    <2>2. invocations' \in [Invocations -> Invocation] /\ InvocationsSound'
      BY <1>1, <1>5, <2>1, BeginPreserves DEF Operations
    <2> QED
      BY <1>1, <1>5, <2>2
         DEF IInv, TypeOK, TableSound, PromptsFollowRequests, OffersAuthorised
  <1>6. CASE isManager /\ Begin(i, "approve_manager", u, r)
             /\ UNCHANGED offers
    <2>1. Entitled("approve_manager", u, rec.group)
      BY <1>3, <1>6 DEF Entitled
    <2>2. invocations' \in [Invocations -> Invocation] /\ InvocationsSound'
      BY <1>1, <1>6, <2>1, BeginPreserves DEF Operations
    <2> QED
      BY <1>1, <1>6, <2>2
         DEF IInv, TypeOK, TableSound, PromptsFollowRequests, OffersAuthorised
  <1> QED BY <1>2, <1>4, <1>5, <1>6

\* Reading the request and checking it.
LEMMA ReadStep ==
    ASSUME IInv, NEW i \in Invocations, ReadRequest(i)
    PROVE  IInv'
  <1> DEFINE inv == invocations[i]
             rec == requests[inv.req]
             next == IF inv.op = "revoke" THEN "delete_document" ELSE "save"
  <1>1. /\ ~IsIdle(i)
        /\ UNCHANGED <<requests, prompts, offers, events, notices, raced,
                       unpublished>>
        /\ \/ Accepts(inv.op, rec, inv.user) /\ Advance(i, next, rec)
           \/ Finish(i)
    BY DEF ReadRequest, IsIdle, history
  <1>2. /\ inv \in Invocation /\ inv.req \in RequestIDs /\ rec \in Request
        /\ HoldsSound(inv, rec)
    BY <1>1, InFlight
  <1>3. \A j \in Invocations : InvocationSound(invocations[j], requests')
    BY <1>1 DEF IInv, InvocationsSound
  <1>4. CASE Accepts(inv.op, rec, inv.user) /\ Advance(i, next, rec)
    <2> DEFINE new == [inv EXCEPT !.step = next, !.copy = rec]
    <2>1. HoldsSound(new, requests'[new.req])
      <3>1. /\ new.op = inv.op /\ new.user = inv.user /\ new.req = inv.req
            /\ new.copy = rec /\ new.step \in {"delete_document", "save"}
        BY <1>2 DEF Invocation
      <3> HIDE DEF new, next
      <3> QED BY <1>1, <1>2, <1>4, <3>1 DEF HoldsSound, SameRequest
    <2>2. next \in Steps \ {"idle"} BY DEF Steps
    <2> HIDE DEF next
    <2>3. invocations' \in [Invocations -> Invocation] /\ InvocationsSound'
      BY <1>1, <1>2, <1>3, <1>4, <2>1, <2>2, AdvancePreserves
    <2> QED
      BY <1>1, <2>3
         DEF IInv, TypeOK, TableSound, PromptsFollowRequests, OffersAuthorised
  <1>5. CASE Finish(i)
    <2>1. invocations' \in [Invocations -> Invocation] /\ InvocationsSound'
      BY <1>3, <1>5, FinishPreserves
    <2> QED
      BY <1>1, <2>1
         DEF IInv, TypeOK, TableSound, PromptsFollowRequests, OffersAuthorised
  <1> QED BY <1>1, <1>4, <1>5

\* Deleting the document of a request that is being revoked.
LEMMA DeleteDocumentStep ==
    ASSUME IInv, NEW i \in Invocations, DeleteRequestDocument(i)
    PROVE  IInv'
  <1> DEFINE inv == invocations[i]
             new == [inv EXCEPT !.step = "save", !.copy = inv.copy]
  <1>1. /\ ~IsIdle(i) /\ inv.step = "delete_document"
        /\ UNCHANGED <<requests, prompts, offers, events, notices, raced,
                       unpublished>>
        /\ Advance(i, "save", inv.copy)
    BY DEF DeleteRequestDocument, IsIdle, history
  <1>2. /\ inv \in Invocation /\ inv.req \in RequestIDs
        /\ HoldsSound(inv, requests[inv.req])
    BY <1>1, InFlight
  <1>3. \A j \in Invocations : InvocationSound(invocations[j], requests')
    BY <1>1 DEF IInv, InvocationsSound
  <1>4. HoldsSound(new, requests'[new.req])
    BY <1>1, <1>2 DEF HoldsSound, Invocation
  <1>5. inv.copy \in Request BY <1>2 DEF Invocation
  <1>6. invocations' \in [Invocations -> Invocation] /\ InvocationsSound'
    BY <1>1, <1>3, <1>4, <1>5, AdvancePreserves DEF Steps
  <1> QED
    BY <1>1, <1>6
       DEF IInv, TypeOK, TableSound, PromptsFollowRequests, OffersAuthorised

\* Saving the decision made on a copy.
LEMMA SaveStep ==
    ASSUME IInv, NEW i \in Invocations, SaveRequest(i)
    PROVE  IInv'
  <1> DEFINE inv == invocations[i]
             rec == Decided(inv.op, inv.copy, inv.user)
             old == requests[inv.req]
             new == [inv EXCEPT !.step = "follow_up", !.copy = rec]
  <1>1. /\ ~IsIdle(i) /\ inv.step = "save"
        /\ requests' = [requests EXCEPT ![inv.req] = rec]
        /\ raced' \subseteq raced \cup {inv.req}
        /\ Advance(i, "follow_up", rec)
        /\ UNCHANGED <<prompts, offers, events, notices, unpublished>>
    BY DEF SaveRequest, PutItem, IsIdle
  <1>2. inv \in Invocation /\ inv.req \in RequestIDs /\ HoldsSound(inv, old)
    BY <1>1, InFlight
  <1>3. /\ Sound(inv.copy) /\ SameRequest(inv.copy, old)
        /\ Accepts(inv.op, inv.copy, inv.user)
        /\ Entitled(inv.op, inv.user, inv.copy.group)
    BY <1>1, <1>2 DEF HoldsSound, SameRequest
  <1>4. rec \in Request /\ Sound(rec) /\ SameRequest(rec, inv.copy)
    BY <1>2, <1>3, DecisionSound DEF Invocation
  <1> HIDE DEF rec
  <1>5. SameRequest(rec, old) BY <1>3, <1>4 DEF SameRequest
  <1>6. /\ requests' \in [RequestIDs -> Request]
        /\ TableSound'
        /\ PromptsFollowRequests'
        /\ OffersAuthorised'
        /\ \A j \in Invocations : InvocationSound(invocations[j], requests')
    BY <1>1, <1>2, <1>4, <1>5, SavePreserves
  <1>7. HoldsSound(new, requests'[new.req])
    <2>1. requests'[new.req] = rec BY <1>1, <1>2 DEF IInv, TypeOK, Invocation
    <2>2. rec.group = inv.copy.group BY <1>4 DEF SameRequest
    <2> QED BY <1>2, <1>3, <1>4, <2>1, <2>2 DEF HoldsSound, Invocation
  <1>8. invocations' \in [Invocations -> Invocation] /\ InvocationsSound'
    BY <1>1, <1>4, <1>6, <1>7, AdvancePreserves DEF Steps
  <1> QED BY <1>1, <1>2, <1>6, <1>8 DEF IInv, TypeOK

\* The follow-up, and an invocation that is cut short.
LEMMA EndStep ==
    ASSUME IInv, NEW i \in Invocations, FollowUp(i) \/ Abort(i)
    PROVE  IInv'
  <1>1. /\ ~IsIdle(i) /\ Finish(i)
        /\ UNCHANGED <<requests, prompts, offers, raced>>
    BY DEF FollowUp, Abort, IsIdle
  <1>2. /\ events' \subseteq RequestIDs
        /\ notices' \in [RequestIDs -> SUBSET Status]
        /\ unpublished' \subseteq RequestIDs
    <2>1. invocations[i].req \in RequestIDs BY <1>1, InFlight
    <2>2. CASE FollowUp(i)
      <3>1. Verdict(invocations[i]) \subseteq Status BY DEF Verdict, Status
      <3> QED BY <2>1, <2>2, <3>1 DEF FollowUp, LoseEvent, IInv, TypeOK
    <2>3. CASE Abort(i) BY <2>1, <2>3 DEF Abort, LoseEvent, IInv, TypeOK
    <2> QED BY <2>2, <2>3
  <1>3. \A j \in Invocations : InvocationSound(invocations[j], requests')
    BY <1>1 DEF IInv, InvocationsSound
  <1>4. invocations' \in [Invocations -> Invocation] /\ InvocationsSound'
    BY <1>1, <1>3, FinishPreserves
  <1> QED
    BY <1>1, <1>2, <1>4
       DEF IInv, TypeOK, TableSound, PromptsFollowRequests, OffersAuthorised

-------------------------------------------------------------------------------
(* The theorems.                                                           *)

LEMMA InitSound == Init => IInv
  <1> SUFFICES ASSUME Init PROVE IInv OBVIOUS
  <1>1. TypeOK
    BY IdleSound DEF Init, TypeOK, Absent, Request, Status
  <1>2. TableSound /\ PromptsFollowRequests /\ OffersAuthorised
    BY DEF Init, TableSound, PromptsFollowRequests, OffersAuthorised
  <1>3. InvocationsSound BY IdleSound DEF Init, InvocationsSound
  <1> QED BY <1>1, <1>2, <1>3 DEF IInv

LEMMA StepSound == IInv /\ [Next]_vars => IInv'
  <1> SUFFICES ASSUME IInv, [Next]_vars PROVE IInv' OBVIOUS
  <1>1. CASE UNCHANGED vars
    BY <1>1 DEF vars, IInv, TypeOK, TableSound, PromptsFollowRequests,
                OffersAuthorised, InvocationsSound
  <1>2. ASSUME NEW i \in Invocations, Start(i) PROVE IInv'
    <2>1. PICK u \in Users, r \in RequestIDs :
              \/ \E g \in ManagerGroups : HandleModalSubmission(i, u, g, r)
              \/ HandleApproveButton(i, u, r)
              \/ HandleApproveTierButton(i, u, r)
              \/ HandleDenyButton(i, u, r)
              \/ HandleAdminCommand(i, u, r)
              \/ HandleLegacyClick(i, u, r)
      BY <1>2 DEF Start
    <2> QED BY <2>1, SubmissionStep, ApproveStep, ClickStep
  <1>3. ASSUME NEW i \in Invocations, Proceed(i) PROVE IInv'
    BY <1>3, SendStep, StoreStep, ReadStep, DeleteDocumentStep, SaveStep,
       EndStep DEF Proceed
  <1>4. ASSUME NEW i \in Invocations, Abort(i) PROVE IInv'
    BY <1>4, EndStep
  <1> QED BY <1>1, <1>2, <1>3, <1>4 DEF Next

\* The invariant holds in every reachable state.
THEOREM InvariantHolds == Spec => []IInv
  BY InitSound, StepSound, PTL DEF Spec

\* Every variable keeps its type, however many handlers overlap.
THEOREM TypeCorrect == Spec => []TypeOK
  <1>1. IInv => TypeOK BY DEF IInv
  <1> QED BY <1>1, InvariantHolds, PTL

\* No interleaving of handlers that save whole items, and no handler cut
\* short between two calls, leaves a status its approvals do not support.
THEOREM RecordsStayConsistent == Spec => []RecordsConsistent
  <1>1. ApprovalsMatchStatus(Absent)
    BY DEF ApprovalsMatchStatus, Absent, HasSecurityApproval,
           HasManagerApproval
  <1>2. IInv => RecordsConsistent
    BY <1>1 DEF IInv, TableSound, RecordsConsistent, Sound
  <1> QED BY <1>2, InvariantHolds, PTL

\* No interleaving records an approval by somebody who was not entitled to
\* give it, although the "Approve as" buttons check no membership.
THEOREM ApproversStayAuthorised == Spec => []ApproversAuthorised
  <1>1. IInv => ApproversAuthorised
    BY DEF IInv, TableSound, ApproversAuthorised, Sound, Absent, Authorised,
           HasSecurityApproval, HasManagerApproval
  <1> QED BY <1>1, InvariantHolds, PTL

-------------------------------------------------------------------------------
(* What is enough for saves not to be raced: invocations that overlap are   *)
(* about different requests.                                               *)

OneAtATime ==
    \A i, j \in Invocations :
        /\ ~IsIdle(i) /\ ~IsIdle(j)
        /\ invocations[i].req = invocations[j].req
        => i = j

\* The copy a handler will save is what the table holds.
CopiesCurrent ==
    \A i \in Invocations :
        invocations[i].step \in {"delete_document", "save", "send_messages",
                                 "store_timestamps"} =>
            invocations[i].copy = requests[invocations[i].req]

\* A step of one slot leaves the other slots as they are.
LEMMA SlotsOfOthers ==
    ASSUME IInv, NEW i \in Invocations, Start(i) \/ Proceed(i) \/ Abort(i),
           NEW j \in Invocations \ {i}
    PROVE  invocations'[j] = invocations[j]
  <1>1. invocations \in [Invocations -> Invocation] BY DEF IInv, TypeOK
  <1>2. CASE Start(i)
    BY <1>1, <1>2 DEF Start, HandleModalSubmission, HandleApproveButton,
                      HandleApproveTierButton, HandleDenyButton,
                      HandleAdminCommand, HandleLegacyClick, Begin
  <1>3. CASE Proceed(i) \/ Abort(i)
    <2>1. Finish(i) \/ \E step, rec : Advance(i, step, rec)
      BY <1>3 DEF Proceed, SendApprovalRequestToGroups, StoreMessageTimestamps,
                  ReadRequest, DeleteRequestDocument, SaveRequest, FollowUp,
                  Abort
    <2> QED BY <1>1, <2>1 DEF Finish, Advance
  <1> QED BY <1>2, <1>3

\* While overlapping invocations are about different requests, it leaves the
\* items the other slots work on as they are too.
LEMMA OthersUndisturbed ==
    ASSUME IInv, OneAtATime, OneAtATime', NEW i \in Invocations,
           Start(i) \/ Proceed(i) \/ Abort(i),
           NEW j \in Invocations \ {i}, ~IsIdle(j)
    PROVE  /\ invocations'[j] = invocations[j]
           /\ requests'[invocations[j].req] = requests[invocations[j].req]
  <1> DEFINE q == invocations[j].req
  <1>1. /\ requests \in [RequestIDs -> Request]
        /\ invocations \in [Invocations -> Invocation]
        /\ q \in RequestIDs
    BY InFlight DEF IInv, TypeOK
  <1>2. CASE Start(i)
    <2>1. PICK u \in Users, r \in RequestIDs :
              \/ \E g \in ManagerGroups : HandleModalSubmission(i, u, g, r)
              \/ HandleApproveButton(i, u, r)
              \/ HandleApproveTierButton(i, u, r)
              \/ HandleDenyButton(i, u, r)
              \/ HandleAdminCommand(i, u, r)
              \/ HandleLegacyClick(i, u, r)
      BY <1>2 DEF Start
    <2>2. CASE \E g \in ManagerGroups : HandleModalSubmission(i, u, g, r)
      <3>1. PICK g \in ManagerGroups : HandleModalSubmission(i, u, g, r)
        BY <2>2
      <3>2. /\ invocations'[j] = invocations[j]
            /\ invocations'[i].step = "send_messages"
            /\ invocations'[i].req = r
            /\ requests' = [requests EXCEPT ![r] = NewRequest(u, g)]
        BY <1>1, <3>1 DEF HandleModalSubmission
      <3>3. q # r BY <3>2 DEF OneAtATime, IsIdle
      <3> QED BY <1>1, <3>2, <3>3
    <2>3. CASE \/ HandleApproveButton(i, u, r)
               \/ HandleApproveTierButton(i, u, r)
               \/ HandleDenyButton(i, u, r)
               \/ HandleAdminCommand(i, u, r)
               \/ HandleLegacyClick(i, u, r)
      <3>1. /\ UNCHANGED requests
            /\ UNCHANGED invocations \/ \E op : Begin(i, op, u, r)
        BY <2>3 DEF HandleApproveButton, HandleApproveTierButton,
                    HandleDenyButton, HandleAdminCommand, HandleLegacyClick
      <3> QED BY <1>1, <3>1 DEF Begin
    <2> QED BY <2>1, <2>2, <2>3
  <1>3. CASE Proceed(i) \/ Abort(i)
    <2>1. /\ ~IsIdle(i)
          /\ Finish(i) \/ \E step, rec : Advance(i, step, rec)
          /\ \/ UNCHANGED requests
             \/ \E rec : requests' = [requests EXCEPT
                                         ![invocations[i].req] = rec]
      BY <1>3 DEF PutItem, Proceed, SendApprovalRequestToGroups,
                  StoreMessageTimestamps,
                  ReadRequest, DeleteRequestDocument, SaveRequest, FollowUp,
                  Abort, IsIdle
    <2>2. q # invocations[i].req BY <2>1 DEF OneAtATime
    <2> QED BY <1>1, <2>1, <2>2 DEF Finish, Advance
  <1> QED BY <1>2, <1>3

LEMMA CopiesStayCurrent ==
    ASSUME IInv, OneAtATime, OneAtATime', CopiesCurrent, [Next]_vars
    PROVE  CopiesCurrent'
  <1> USE DEF CopiesCurrent
  <1>1. CASE UNCHANGED vars BY <1>1 DEF vars
  <1>2. ASSUME NEW i \in Invocations, Start(i) \/ Proceed(i) \/ Abort(i)
        PROVE  CopiesCurrent'
    <2> DEFINE Holding == {"delete_document", "save", "send_messages",
                           "store_timestamps"}
               old == invocations[i]
               new == invocations'[i]
    <2>1. SUFFICES new.step \in Holding => new.copy = requests'[new.req]
      <3>1. ASSUME NEW j \in Invocations \ {i},
                   invocations'[j].step \in Holding
            PROVE  invocations'[j].copy = requests'[invocations'[j].req]
        <4>1. invocations'[j] = invocations[j]
          BY <1>2, SlotsOfOthers
        <4>2. ~IsIdle(j) BY <3>1, <4>1 DEF IsIdle
        <4>3. requests'[invocations[j].req] = requests[invocations[j].req]
          BY <1>2, <4>2, OthersUndisturbed
        <4> QED BY <3>1, <4>1, <4>3
      <3> QED BY <3>1
    <2>2. invocations \in [Invocations -> Invocation]
          /\ requests \in [RequestIDs -> Request]
      BY DEF IInv, TypeOK
    <2>3. CASE Start(i)
      <3>1. CASE \E u \in Users, r \in RequestIDs, g \in ManagerGroups :
                     HandleModalSubmission(i, u, g, r)
        BY <2>2, <3>1 DEF HandleModalSubmission
      <3>2. CASE \E op, u, r : Begin(i, op, u, r)
        BY <2>2, <3>2 DEF Begin
      <3>3. CASE UNCHANGED <<requests, invocations>>
        BY <3>3
      <3> QED
        BY <2>3, <3>1, <3>2, <3>3
           DEF Start, HandleApproveButton, HandleApproveTierButton,
               HandleDenyButton, HandleAdminCommand, HandleLegacyClick
    <2>4. ASSUME Finish(i) PROVE new.step \notin Holding
      BY <2>2, <2>4 DEF Finish, Idle
    <2>5. ASSUME NEW step, NEW rec, Advance(i, step, rec)
          PROVE  new.step = step /\ new.copy = rec /\ new.req = old.req
      BY <2>2, <2>5 DEF Advance, Invocation
    <2>6. CASE SendApprovalRequestToGroups(i) \/ DeleteRequestDocument(i)
      <3>1. /\ old.step \in Holding /\ requests' = requests
            /\ Finish(i) \/ \E step : Advance(i, step, old.copy)
        BY <2>6 DEF SendApprovalRequestToGroups, DeleteRequestDocument
      <3> QED BY <2>4, <2>5, <3>1
    <2>7. CASE StoreMessageTimestamps(i) \/ FollowUp(i) \/ Abort(i)
      BY <2>4, <2>7 DEF StoreMessageTimestamps, FollowUp, Abort
    <2>8. CASE ReadRequest(i)
      <3>1. /\ requests' = requests
            /\ Finish(i) \/ \E step : Advance(i, step, requests[old.req])
        BY <2>8 DEF ReadRequest
      <3> QED BY <2>4, <2>5, <3>1
    <2>9. CASE SaveRequest(i)
      BY <2>5, <2>9 DEF SaveRequest
    <2> QED BY <1>2, <2>3, <2>6, <2>7, <2>8, <2>9 DEF Proceed
  <1> QED BY <1>1, <1>2 DEF Next

\* A save is raced by what it finds in the place of the item that was read.
LEMMA RacedOnlyBySaves ==
    ASSUME [Next]_vars, CopiesCurrent
    PROVE  UNCHANGED raced
  <1>1. CASE UNCHANGED vars BY <1>1 DEF vars
  <1>2. ASSUME NEW i \in Invocations, Start(i) PROVE UNCHANGED raced
    BY <1>2 DEF Start, HandleModalSubmission, HandleApproveButton,
                HandleApproveTierButton, HandleDenyButton, HandleAdminCommand,
                HandleLegacyClick, history
  <1>3. ASSUME NEW i \in Invocations, Proceed(i) \/ Abort(i)
        PROVE  UNCHANGED raced
    <2>1. CASE StoreMessageTimestamps(i) \/ SaveRequest(i)
      BY <2>1 DEF StoreMessageTimestamps, SaveRequest, PutItem, CopiesCurrent
    <2>2. CASE ~(StoreMessageTimestamps(i) \/ SaveRequest(i))
      BY <1>3, <2>2 DEF Proceed, SendApprovalRequestToGroups, ReadRequest,
                        DeleteRequestDocument, FollowUp, Abort, history
    <2> QED BY <2>1, <2>2
  <1> QED BY <1>1, <1>2, <1>3 DEF Next

\* Invocations that overlap only on different requests race no save, however
\* many there are: one invocation at a time is the simplest case.
THEOREM SeparateRequestsUnraced ==
    Spec /\ []OneAtATime => [](raced = {})
  <1> DEFINE Calm == CopiesCurrent /\ raced = {}
  <1>1. Init => Calm BY DEF Init, CopiesCurrent, Idle
  <1>2. IInv /\ OneAtATime /\ OneAtATime' /\ Calm /\ [Next]_vars => Calm'
    BY CopiesStayCurrent, RacedOnlyBySaves
  <1>3. Calm => raced = {} OBVIOUS
  <1> HIDE DEF Calm
  <1> QED BY <1>1, <1>2, <1>3, InvariantHolds, PTL DEF Spec

-------------------------------------------------------------------------------
(* The table implements the protocol, its raced saves as Overwrite.        *)

\* The tiers whose approval an item records.
Approvals(rec) == Tiers \ Lacking(rec)

\* One decision of the protocol, as it shows in the item of its request.
ProtocolDecision(old, new) ==
    \/ /\ old.status \in Protocol!Open
       /\ \E tier \in Tiers :
              /\ tier \notin Approvals(old)
              /\ Approvals(new) = Approvals(old) \cup {tier}
              /\ new.status = IF Approvals(old) \cup {tier} = Tiers
                              THEN "approved" ELSE "partially_approved"
    \/ /\ Approvals(new) = Approvals(old)
       /\ \/ old.status = "pending" /\ new.status = "approved"
          \/ old.status \in Protocol!Open /\ new.status = "denied"
          \/ old.status = "approved" /\ new.status = "revoked"

\* What the service decides on an item is one decision of the protocol.
LEMMA DecisionFollowsProtocol ==
    ASSUME NEW rec \in Request, Sound(rec), NEW op \in Operations,
           NEW u \in Users, Accepts(op, rec, u)
    PROVE  ProtocolDecision(rec, Decided(op, rec, u))
  <1> DEFINE new == Decided(op, rec, u)
  <1> USE ConstantsAssumption
  <1>1. CASE op = "approve_security"
    <2>1. MayApproveSecurity(rec, u)
      BY <1>1 DEF Accepts, AcceptsApproval, AcceptsDecision
    <2>2. new = WithSecurityApproval(rec, u) BY <1>1 DEF Decided, AfterApproval
    <2>3. /\ rec.status \in Protocol!Open /\ "security" \notin Approvals(rec)
          /\ "manager" \in Approvals(rec) <=> HasManagerApproval(rec)
      BY <2>1 DEF MayApproveSecurity, IsOpen, Protocol!Open, Approvals, Lacking,
                  Tiers
    <2>4. new.security = u /\ new.manager = rec.manager
          /\ new.status = IF HasManagerApproval(rec)
                          THEN "approved" ELSE "partially_approved"
      BY <2>2 DEF WithSecurityApproval, Request
    <2>5. Approvals(new) = Approvals(rec) \cup {"security"}
      BY <2>4 DEF Approvals, Lacking, Tiers, HasSecurityApproval,
                  HasManagerApproval
    <2>6. Approvals(rec) \cup {"security"} = Tiers <=> HasManagerApproval(rec)
      BY <2>3 DEF Approvals, Tiers
    <2> QED BY <2>3, <2>4, <2>5, <2>6 DEF ProtocolDecision, Tiers
  <1>2. CASE op = "approve_manager"
    <2>1. MayApproveManager(rec, u)
      BY <1>2 DEF Accepts, AcceptsApproval, AcceptsDecision
    <2>2. new = WithManagerApproval(rec, u) BY <1>2 DEF Decided, AfterApproval
    <2>3. /\ rec.status \in Protocol!Open /\ "manager" \notin Approvals(rec)
          /\ "security" \in Approvals(rec) <=> HasSecurityApproval(rec)
      BY <2>1 DEF MayApproveManager, IsOpen, Protocol!Open, Approvals, Lacking,
                  Tiers
    <2>4. new.manager = u /\ new.security = rec.security
          /\ new.status = IF HasSecurityApproval(rec)
                          THEN "approved" ELSE "partially_approved"
      BY <2>2 DEF WithManagerApproval, Request
    <2>5. Approvals(new) = Approvals(rec) \cup {"manager"}
      BY <2>4 DEF Approvals, Lacking, Tiers, HasSecurityApproval,
                  HasManagerApproval
    <2>6. Approvals(rec) \cup {"manager"} = Tiers <=> HasSecurityApproval(rec)
      BY <2>3 DEF Approvals, Tiers
    <2> QED BY <2>3, <2>4, <2>5, <2>6 DEF ProtocolDecision, Tiers
  <1>3. CASE op \notin {"approve_security", "approve_manager"}
    <2>1. new.security = rec.security /\ new.manager = rec.manager
      BY <1>3 DEF Accepts, AcceptsApproval, AcceptsDecision, Decided,
                  AfterApproval, AfterDecision, WithApproval, WithDenial,
                  WithRevocation,
                  Request
    <2>2. Approvals(new) = Approvals(rec)
      BY <2>1 DEF Approvals, Lacking, HasSecurityApproval, HasManagerApproval
    <2>3. \/ rec.status = "pending" /\ new.status = "approved"
          \/ rec.status \in Protocol!Open /\ new.status = "denied"
          \/ rec.status = "approved" /\ new.status = "revoked"
      BY <1>3 DEF Accepts, AcceptsApproval, AcceptsDecision, MayApprove,
                  MayDeny, MayRevoke, IsOpen,
                  Protocol!Open, Decided, AfterApproval, AfterDecision,
                  WithApproval, WithDenial,
                  WithRevocation, Request
    <2> QED BY <2>2, <2>3 DEF ProtocolDecision
  <1> QED BY <1>1, <1>2, <1>3

\* A decision written to the table is a step of the protocol.
LEMMA DecisionStepsProtocol ==
    ASSUME NEW r \in RequestIDs, requests \in [RequestIDs -> Request],
           NEW rec \in Request, requests' = [requests EXCEPT ![r] = rec],
           ProtocolDecision(requests[r], rec), UNCHANGED raced
    PROVE  Protocol!ProtocolNext
  <1> DEFINE status == [q \in RequestIDs |-> requests[q].status]
             approvals == [q \in RequestIDs |-> Approvals(requests[q])]
  <1>1. /\ requests'[r] = rec
        /\ \A q \in RequestIDs \ {r} : requests'[q] = requests[q]
    OBVIOUS
  <1>2. /\ status' = [status EXCEPT ![r] = rec.status]
        /\ approvals' = [approvals EXCEPT ![r] = Approvals(rec)]
    <2>1. status' = [status EXCEPT ![r] = rec.status] BY <1>1
    <2>2. approvals' = [q \in RequestIDs |-> Approvals(requests'[q])]
      BY DEF Approvals, Lacking, HasSecurityApproval, HasManagerApproval
    <2>3. approvals' = [approvals EXCEPT ![r] = Approvals(rec)]
      BY <1>1, <2>2
    <2> QED BY <2>1, <2>3
  <1>3. status[r] = requests[r].status /\ approvals[r] = Approvals(requests[r])
    OBVIOUS
  <1>4. approvals = [q \in RequestIDs |-> Tiers \ Lacking(requests[q])]
        /\ approvals' = [q \in RequestIDs |-> Tiers \ Lacking(requests[q])]'
    BY DEF Approvals
  <1>5. CASE \E tier \in Tiers :
               /\ requests[r].status \in Protocol!Open
               /\ tier \notin Approvals(requests[r])
               /\ Approvals(rec) = Approvals(requests[r]) \cup {tier}
               /\ rec.status = IF Approvals(requests[r]) \cup {tier} = Tiers
                               THEN "approved" ELSE "partially_approved"
    <2>1. PICK tier \in Tiers :
               /\ requests[r].status \in Protocol!Open
               /\ tier \notin Approvals(requests[r])
               /\ Approvals(rec) = Approvals(requests[r]) \cup {tier}
               /\ rec.status = IF Approvals(requests[r]) \cup {tier} = Tiers
                               THEN "approved" ELSE "partially_approved"
      BY <1>5
    <2>2. Tiers = Protocol!Tiers BY DEF Tiers, Protocol!Tiers
    <2>3. Protocol!Grant(r, tier)
      BY <1>2, <1>3, <1>4, <2>1, <2>2 DEF Protocol!Grant
    <2> QED BY <2>2, <2>3 DEF Protocol!ProtocolNext
  <1>6. CASE /\ Approvals(rec) = Approvals(requests[r])
             /\ \/ /\ requests[r].status = "pending"
                   /\ rec.status = "approved"
                \/ /\ requests[r].status \in Protocol!Open
                   /\ rec.status = "denied"
                \/ /\ requests[r].status = "approved"
                   /\ rec.status = "revoked"
    <2>1. approvals' = approvals BY <1>2, <1>3, <1>6
    <2>2. \/ Protocol!Override(r) \/ Protocol!Deny(r) \/ Protocol!Revoke(r)
      BY <1>2, <1>3, <1>4, <1>6, <2>1
         DEF Protocol!Override, Protocol!Deny, Protocol!Revoke
    <2> QED BY <2>2 DEF Protocol!ProtocolNext
  <1> QED BY <1>5, <1>6 DEF ProtocolDecision

\* A write that shows in neither status nor approvals is a stutter.
LEMMA StutterKeepsProtocol ==
    ASSUME UNCHANGED raced,
           \A r \in RequestIDs :
               /\ requests'[r].status = requests[r].status
               /\ Approvals(requests'[r]) = Approvals(requests[r])
    PROVE  UNCHANGED Protocol!protocolVars
  <1>1. [r \in RequestIDs |-> Tiers \ Lacking(requests[r])]'
           = [r \in RequestIDs |-> Approvals(requests'[r])]
    BY DEF Approvals, Lacking, HasSecurityApproval, HasManagerApproval
  <1>2. [r \in RequestIDs |-> Tiers \ Lacking(requests[r])]
           = [r \in RequestIDs |-> Approvals(requests[r])]
    BY DEF Approvals
  <1> QED BY <1>1, <1>2 DEF Protocol!protocolVars

\* A new request is the protocol's Submit.
LEMMA SubmissionStepsProtocol ==
    ASSUME NEW r \in RequestIDs, requests \in [RequestIDs -> Request],
           NEW u, NEW g, requests[r] = Absent, UNCHANGED raced,
           requests' = [requests EXCEPT ![r] = NewRequest(u, g)]
    PROVE  Protocol!Submit(r)
  <1> DEFINE new == NewRequest(u, g)
  <1>1. /\ requests'[r] = new
        /\ \A q \in RequestIDs \ {r} : requests'[q] = requests[q]
    OBVIOUS
  <1>2. /\ new.status = "pending"
        /\ new.security = Absent.security /\ new.manager = Absent.manager
    BY DEF NewRequest, Absent
  <1>3. Approvals(new) = Approvals(Absent)
    BY <1>2 DEF Approvals, Lacking, HasSecurityApproval, HasManagerApproval
  <1> HIDE DEF new
  <1>4. [q \in RequestIDs |-> requests'[q].status]
           = [[q \in RequestIDs |-> requests[q].status]
                  EXCEPT ![r] = "pending"]
    BY <1>1, <1>2
  <1>5. [q \in RequestIDs |-> Tiers \ Lacking(requests[q])]'
           = [q \in RequestIDs |-> Approvals(requests'[q])]
    BY DEF Approvals, Lacking, HasSecurityApproval, HasManagerApproval
  <1>6. [q \in RequestIDs |-> Tiers \ Lacking(requests[q])]
           = [q \in RequestIDs |-> Approvals(requests[q])]
    BY DEF Approvals
  <1>7. \A q \in RequestIDs : Approvals(requests'[q]) = Approvals(requests[q])
    BY <1>1, <1>3
  <1>8. requests[r].status = "absent" BY DEF Absent
  <1> QED BY <1>4, <1>5, <1>6, <1>7, <1>8 DEF Protocol!Submit

\* Whatever a handler saves over an item, it is a request somebody decided.
LEMMA SoundSaveOverwrites ==
    ASSUME NEW r \in RequestIDs, requests \in [RequestIDs -> Request],
           requests[r].status # "absent", NEW rec \in Request, Sound(rec),
           requests' = [requests EXCEPT ![r] = rec],
           raced' = raced \cup {r}
    PROVE  Protocol!Overwrite(r)
  <1> DEFINE status == [q \in RequestIDs |-> requests[q].status]
             approvals == [q \in RequestIDs |-> Approvals(requests[q])]
  <1>1. /\ requests'[r] = rec
        /\ \A q \in RequestIDs \ {r} : requests'[q] = requests[q]
    OBVIOUS
  <1>2. status' = [status EXCEPT ![r] = rec.status] BY <1>1
  <1>3. approvals' = [approvals EXCEPT ![r] = Approvals(rec)]
    <2>1. approvals' = [q \in RequestIDs |-> Approvals(requests'[q])]
      BY DEF Approvals, Lacking, HasSecurityApproval, HasManagerApproval
    <2> QED BY <1>1, <2>1
  <1>4. approvals = [q \in RequestIDs |-> Tiers \ Lacking(requests[q])]
        /\ approvals' = [q \in RequestIDs |-> Tiers \ Lacking(requests[q])]'
    BY DEF Approvals
  <1>5. /\ rec.status \in Protocol!RequestStatus \ {"absent"}
        /\ ApprovalsMatchStatus(rec)
    BY DEF Sound, Request, Status, Protocol!RequestStatus
  <1>6. Approvals(rec) \in Protocol!ApprovalsOf(rec.status)
    <2>1. /\ "security" \in Approvals(rec) <=> HasSecurityApproval(rec)
          /\ "manager" \in Approvals(rec) <=> HasManagerApproval(rec)
          /\ Approvals(rec) \subseteq {"security", "manager"}
      BY DEF Approvals, Lacking, Tiers
    <2> HIDE DEF Approvals
    <2>2. CASE rec.status = "pending"
      <3>1. Approvals(rec) = {} BY <1>5, <2>1, <2>2 DEF ApprovalsMatchStatus
      <3> QED BY <2>2, <3>1 DEF Protocol!ApprovalsOf
    <2>3. CASE rec.status = "partially_approved"
      <3>1. "security" \in Approvals(rec) <=> "manager" \notin Approvals(rec)
        BY <1>5, <2>1, <2>3
           DEF ApprovalsMatchStatus, HasSecurityApproval, HasManagerApproval
      <3>2. Approvals(rec) = {"security"} \/ Approvals(rec) = {"manager"}
        BY <2>1, <3>1
      <3> QED BY <2>3, <3>2 DEF Protocol!ApprovalsOf, Protocol!Tiers
    <2>4. CASE rec.status = "denied"
      <3>1. \/ Approvals(rec) = {} \/ Approvals(rec) = {"security"}
            \/ Approvals(rec) = {"manager"}
        BY <1>5, <2>1, <2>4 DEF ApprovalsMatchStatus
      <3> QED BY <2>4, <3>1 DEF Protocol!ApprovalsOf, Protocol!Tiers
    <2>5. CASE rec.status \in {"approved", "revoked"}
      <3>1. Approvals(rec) = {} \/ Approvals(rec) = {"security", "manager"}
        BY <1>5, <2>1, <2>5 DEF ApprovalsMatchStatus
      <3> QED BY <2>5, <3>1 DEF Protocol!ApprovalsOf, Protocol!Tiers
    <2> QED BY <1>5, <2>2, <2>3, <2>4, <2>5 DEF Protocol!RequestStatus
  <1>7. status[r] # "absent" OBVIOUS
  <1> QED
    BY <1>2, <1>3, <1>4, <1>5, <1>6, <1>7 DEF Protocol!Overwrite

\* The three actions that write to the requests table.
LEMMA TableWriters ==
    ASSUME [Next]_vars
    PROVE  \/ UNCHANGED <<requests, raced>>
           \/ \E i \in Invocations, u \in Users, r \in RequestIDs,
                 g \in ManagerGroups : HandleModalSubmission(i, u, g, r)
           \/ \E i \in Invocations : StoreMessageTimestamps(i) \/ SaveRequest(i)
  <1>1. ASSUME NEW i \in Invocations, NEW u \in Users, NEW r \in RequestIDs,
               \/ HandleApproveButton(i, u, r)
               \/ HandleApproveTierButton(i, u, r)
               \/ HandleDenyButton(i, u, r)
               \/ HandleAdminCommand(i, u, r)
               \/ HandleLegacyClick(i, u, r)
        PROVE  UNCHANGED <<requests, raced>>
    BY <1>1 DEF HandleApproveButton, HandleApproveTierButton,
                HandleDenyButton, HandleAdminCommand, HandleLegacyClick, history
  <1>2. ASSUME NEW i \in Invocations,
               \/ SendApprovalRequestToGroups(i) \/ ReadRequest(i)
               \/ DeleteRequestDocument(i) \/ FollowUp(i) \/ Abort(i)
        PROVE  UNCHANGED <<requests, raced>>
    BY <1>2 DEF SendApprovalRequestToGroups, ReadRequest,
                DeleteRequestDocument, FollowUp, Abort, history
  <1>3. CASE UNCHANGED vars BY <1>3 DEF vars
  <1>4. CASE Next
    <2>1. PICK i \in Invocations : Start(i) \/ Proceed(i) \/ Abort(i)
      BY <1>4 DEF Next
    <2>2. CASE Start(i) BY <1>1, <2>2 DEF Start
    <2>3. CASE Proceed(i) \/ Abort(i) BY <1>2, <2>3 DEF Proceed
    <2> QED BY <2>1, <2>2, <2>3
  <1> QED BY <1>3, <1>4

\* The save of handler i finds the item it read, or one equal to it.
Unraced(i) == requests[invocations[i].req] = invocations[i].copy

\* A request that is not raced was only written to by such saves.
LEMMA UnracedWriters ==
    ASSUME IInv, [Next]_vars, NEW r \in RequestIDs, r \notin raced'
    PROVE  /\ r \notin raced
           /\ \/ requests'[r] = requests[r]
              \/ \E i \in Invocations, u \in Users, g \in ManagerGroups :
                     HandleModalSubmission(i, u, g, r)
              \/ \E i \in Invocations :
                     /\ invocations[i].req = r /\ Unraced(i)
                     /\ StoreMessageTimestamps(i) \/ SaveRequest(i)
  <1>1. requests \in [RequestIDs -> Request] BY DEF IInv, TypeOK
  <1>2. CASE UNCHANGED <<requests, raced>> BY <1>2
  <1>3. ASSUME NEW i \in Invocations, NEW u \in Users, NEW q \in RequestIDs,
               NEW g \in ManagerGroups, HandleModalSubmission(i, u, g, q)
        PROVE  r \notin raced /\ (q = r \/ requests'[r] = requests[r])
    BY <1>1, <1>3 DEF HandleModalSubmission, history
  <1>4. ASSUME NEW i \in Invocations,
               StoreMessageTimestamps(i) \/ SaveRequest(i)
        PROVE  /\ r \notin raced
               /\ \/ requests'[r] = requests[r]
                  \/ invocations[i].req = r /\ Unraced(i)
    <2>1. PICK rec : PutItem(invocations[i], rec)
      BY <1>4 DEF StoreMessageTimestamps, SaveRequest
    <2> QED BY <1>1, <2>1 DEF PutItem, Unraced
  <1> QED BY <1>2, <1>3, <1>4, TableWriters

\* A save over another item than the one read is an overwrite.
LEMMA RacedSaveOverwrites ==
    ASSUME IInv, NEW i \in Invocations, ~Unraced(i),
           StoreMessageTimestamps(i) \/ SaveRequest(i)
    PROVE  Protocol!ProtocolNext
  <1> DEFINE inv == invocations[i]
  <1>1. ~IsIdle(i) BY DEF StoreMessageTimestamps, SaveRequest, IsIdle
  <1>2. /\ inv \in Invocation /\ inv.req \in RequestIDs
        /\ HoldsSound(inv, requests[inv.req])
    BY <1>1, InFlight
  <1>3. \E rec \in Request : Sound(rec) /\ PutItem(inv, rec)
    <2>1. CASE StoreMessageTimestamps(i)
      <3> DEFINE old == requests[inv.req]
                 rec == [inv.copy EXCEPT !.messages = TRUE]
      <3>1. inv.step = "store_timestamps" /\ PutItem(inv, rec)
        BY <2>1 DEF StoreMessageTimestamps
      <3>2. /\ inv.copy = NewRequest(old.user, old.group)
            /\ old.user \in Users /\ old.group \in ManagerGroups
        BY <1>2, <3>1 DEF HoldsSound, Sound
      <3>3. rec \in Request /\ Sound(rec) BY <3>2, NewRequestSound
      <3> QED BY <3>1, <3>3
    <2>2. CASE SaveRequest(i)
      <3> DEFINE rec == Decided(inv.op, inv.copy, inv.user)
      <3>1. inv.step = "save" /\ PutItem(inv, rec) BY <2>2 DEF SaveRequest
      <3>2. /\ Sound(inv.copy) /\ Accepts(inv.op, inv.copy, inv.user)
            /\ Entitled(inv.op, inv.user, inv.copy.group)
            /\ inv.copy \in Request /\ inv.op \in Operations
        BY <1>2, <3>1 DEF HoldsSound, SameRequest, Invocation
      <3>3. rec \in Request /\ Sound(rec) BY <3>2, DecisionSound
      <3> QED BY <3>1, <3>3
    <2> QED BY <2>1, <2>2
  <1>4. PICK rec \in Request : Sound(rec) /\ PutItem(inv, rec) BY <1>3
  <1>5. /\ requests' = [requests EXCEPT ![inv.req] = rec]
        /\ raced' = raced \cup {inv.req}
    BY <1>4 DEF PutItem, Unraced
  <1>6. requests[inv.req].status # "absent" BY <1>2 DEF HoldsSound, Sound
  <1>7. requests \in [RequestIDs -> Request] BY DEF IInv, TypeOK
  <1>8. PICK r \in RequestIDs : r = inv.req BY <1>2
  <1>9. /\ requests[r].status # "absent"
        /\ requests' = [requests EXCEPT ![r] = rec]
        /\ raced' = raced \cup {r}
    BY <1>5, <1>6, <1>8
  <1>10. Protocol!Overwrite(r) BY <1>4, <1>7, <1>9, SoundSaveOverwrites
  <1> QED BY <1>10 DEF Protocol!ProtocolNext

LEMMA StepFollowsProtocol ==
    ASSUME IInv, [Next]_vars
    PROVE  [Protocol!ProtocolNext]_(Protocol!protocolVars)
  <1>1. CASE UNCHANGED <<requests, raced>> BY <1>1, StutterKeepsProtocol
  <1>2. ASSUME NEW i \in Invocations, NEW u \in Users, NEW r \in RequestIDs,
               NEW g \in ManagerGroups, HandleModalSubmission(i, u, g, r)
        PROVE  Protocol!ProtocolNext
    <2>1. Protocol!Submit(r)
      BY <1>2, SubmissionStepsProtocol
         DEF HandleModalSubmission, history, IInv, TypeOK
    <2> QED BY <2>1 DEF Protocol!ProtocolNext
  <1>3. ASSUME NEW i \in Invocations, StoreMessageTimestamps(i), Unraced(i)
        PROVE  UNCHANGED Protocol!protocolVars
    <2> DEFINE r == invocations[i].req
               rec == invocations[i].copy
    <2>1. r \in RequestIDs /\ requests[r] \in Request
      BY <1>3, InFlight DEF StoreMessageTimestamps, IsIdle
    <2>2. rec = requests[r] /\ UNCHANGED raced
      BY <1>3 DEF StoreMessageTimestamps, PutItem, Unraced
    <2>3. requests' = [requests EXCEPT ![r] = [rec EXCEPT !.messages = TRUE]]
      BY <1>3 DEF StoreMessageTimestamps, PutItem
    <2>4. /\ requests'[r] = [requests[r] EXCEPT !.messages = TRUE]
          /\ \A q \in RequestIDs \ {r} : requests'[q] = requests[q]
      BY <2>1, <2>2, <2>3 DEF IInv, TypeOK
    <2>5. /\ requests'[r].status = requests[r].status
          /\ requests'[r].security = requests[r].security
          /\ requests'[r].manager = requests[r].manager
      BY <2>1, <2>4 DEF Request
    <2>6. Approvals(requests'[r]) = Approvals(requests[r])
      BY <2>5 DEF Approvals, Lacking, HasSecurityApproval, HasManagerApproval
    <2>7. \A q \in RequestIDs :
             /\ requests'[q].status = requests[q].status
             /\ Approvals(requests'[q]) = Approvals(requests[q])
      BY <2>4, <2>5, <2>6
    <2> QED BY <2>2, <2>7, StutterKeepsProtocol
  <1>4. ASSUME NEW i \in Invocations, SaveRequest(i), Unraced(i)
        PROVE  Protocol!ProtocolNext
    <2> DEFINE inv == invocations[i]
               rec == Decided(inv.op, inv.copy, inv.user)
    <2>1. /\ inv.step = "save" /\ ~IsIdle(i)
          /\ requests' = [requests EXCEPT ![inv.req] = rec]
      BY <1>4 DEF SaveRequest, PutItem, IsIdle
    <2>2. /\ inv \in Invocation /\ inv.req \in RequestIDs
          /\ HoldsSound(inv, requests[inv.req])
      BY <2>1, InFlight
    <2>3. inv.copy = requests[inv.req] /\ UNCHANGED raced
      BY <1>4 DEF SaveRequest, PutItem, Unraced
    <2>4. /\ Sound(inv.copy) /\ Accepts(inv.op, inv.copy, inv.user)
          /\ Entitled(inv.op, inv.user, inv.copy.group) /\ inv.user \in Users
          /\ inv.copy \in Request /\ inv.op \in Operations
      BY <2>1, <2>2, <2>3 DEF HoldsSound, Entitled, Invocation
    <2>5. rec \in Request /\ ProtocolDecision(inv.copy, rec)
      BY <2>4, DecisionSound, DecisionFollowsProtocol
    <2> HIDE DEF rec
    <2> QED
      BY <2>1, <2>2, <2>3, <2>5, DecisionStepsProtocol DEF IInv, TypeOK
  <1> QED BY <1>1, <1>2, <1>3, <1>4, RacedSaveOverwrites, TableWriters

\* The handlers implement the two-tier protocol, whatever their crashes,
\* repeated clicks, stale offers and overlaps: each save is one legal decision,
\* or a save over an item other than the one read; everything else is a stutter.
THEOREM HandlersFollowProtocol == Spec => RefinesProtocol
  <1> SUFFICES Spec => Protocol!ProtocolSpec
    BY DEF RefinesProtocol
  <1>1. Init => Protocol!ProtocolInit
    <2>1. Absent.status = "absent" /\ Lacking(Absent) = Tiers
      BY DEF Absent, Lacking, HasSecurityApproval, HasManagerApproval, Tiers
    <2>2. Init => (\A r \in RequestIDs : requests[r] = Absent) /\ raced = {}
      BY DEF Init
    <2>3. Init => [r \in RequestIDs |-> requests[r].status]
                     = [r \in RequestIDs |-> "absent"]
      BY <2>1, <2>2
    <2>4. Init => [r \in RequestIDs |-> Tiers \ Lacking(requests[r])]
                     = [r \in RequestIDs |-> {}]
      BY <2>1, <2>2
    <2> QED BY <2>2, <2>3, <2>4 DEF Protocol!ProtocolInit
  <1>2. IInv /\ [Next]_vars
           => [Protocol!ProtocolNext]_(Protocol!protocolVars)
    BY StepFollowsProtocol
  <1> QED
    BY <1>1, <1>2, InvariantHolds, PTL DEF Spec, Protocol!ProtocolSpec

-------------------------------------------------------------------------------
(* What the requester was told and what was published: only a raced save    *)
(* can take it back.                                                       *)

\* A verdict stands: what a status may still become.
Stands(verdict, status) ==
    /\ verdict = "approved" => status \in {"approved", "revoked"}
    /\ verdict \in {"denied", "revoked"} => status = verdict

\* No decision the service accepts takes back another one.
LEMMA DecisionStands ==
    ASSUME NEW rec \in Request, NEW op \in Operations, NEW u,
           Accepts(op, rec, u)
    PROVE  Stands(rec.status, Decided(op, rec, u).status)
  <1>1. CASE op = "revoke"
    <2>1. rec.status = "approved"
      BY <1>1 DEF Accepts, AcceptsApproval, AcceptsDecision, MayRevoke
    <2>2. Decided(op, rec, u).status = "revoked"
      BY <1>1 DEF Decided, WithRevocation, Request
    <2> QED BY <2>1, <2>2 DEF Stands
  <1>2. CASE op # "revoke"
    <2>1. IsOpen(rec)
      BY <1>2 DEF Accepts, AcceptsApproval, AcceptsDecision,
                  MayApproveSecurity, MayApproveManager, MayApprove,
                  MayDeny, IsOpen
    <2> QED BY <2>1 DEF Stands, IsOpen
  <1> QED BY <1>1, <1>2

\* What holds of a request stands until one of its saves is raced.
LEMMA TableStands ==
    ASSUME IInv, [Next]_vars, NEW r \in RequestIDs, r \notin raced'
    PROVE  Stands(requests[r].status, requests'[r].status)
  <1>0. requests \in [RequestIDs -> Request] BY DEF IInv, TypeOK
  <1>1. CASE requests'[r] = requests[r] BY <1>1 DEF Stands
  <1>2. ASSUME NEW i \in Invocations, NEW u \in Users, NEW g \in ManagerGroups,
               HandleModalSubmission(i, u, g, r)
        PROVE  Stands(requests[r].status, requests'[r].status)
    BY <1>2 DEF HandleModalSubmission, Stands, Absent
  <1>3. ASSUME NEW i \in Invocations, invocations[i].req = r, Unraced(i),
               StoreMessageTimestamps(i)
        PROVE  Stands(requests[r].status, requests'[r].status)
    <2>1. requests' = [requests EXCEPT
                           ![r] = [requests[r] EXCEPT !.messages = TRUE]]
      BY <1>3 DEF StoreMessageTimestamps, PutItem, Unraced
    <2>2. requests[r] \in Request BY <1>0
    <2>3. requests'[r].status = requests[r].status
      BY <1>0, <2>1, <2>2 DEF Request
    <2> QED BY <2>3 DEF Stands
  <1>4. ASSUME NEW i \in Invocations, invocations[i].req = r, Unraced(i),
               SaveRequest(i)
        PROVE  Stands(requests[r].status, requests'[r].status)
    <2> DEFINE inv == invocations[i]
               rec == Decided(inv.op, inv.copy, inv.user)
    <2>1. inv.step = "save" /\ requests' = [requests EXCEPT ![r] = rec]
      BY <1>4 DEF SaveRequest, PutItem
    <2>2. /\ inv \in Invocation /\ HoldsSound(inv, requests[r])
      BY <1>4, <2>1, InFlight DEF IsIdle
    <2>3. inv.copy = requests[r] BY <1>4 DEF Unraced
    <2>4. Stands(inv.copy.status, rec.status)
      BY <2>1, <2>2, DecisionStands DEF HoldsSound, Invocation
    <2> HIDE DEF rec
    <2> QED BY <1>0, <2>1, <2>3, <2>4
  <1> QED BY <1>1, <1>2, <1>3, <1>4, UnracedWriters

\* A save is raced for good.
LEMMA RacedGrows ==
    ASSUME [Next]_vars PROVE raced \subseteq raced'
  <1>1. ASSUME NEW i \in Invocations, NEW u \in Users, NEW r \in RequestIDs,
               NEW g \in ManagerGroups, HandleModalSubmission(i, u, g, r)
        PROVE  raced' = raced
    BY <1>1 DEF HandleModalSubmission, history
  <1>2. ASSUME NEW i \in Invocations,
               StoreMessageTimestamps(i) \/ SaveRequest(i)
        PROVE  raced \subseteq raced'
    BY <1>2 DEF StoreMessageTimestamps, SaveRequest, PutItem
  <1> QED BY <1>1, <1>2, TableWriters

\* What an approval of the single-approver handler leaves: it publishes
\* without looking at the status again.
LegacyApproves ==
    \A i \in Invocations :
        /\ invocations[i].step = "follow_up"
        /\ invocations[i].op = "approve_legacy"
        => invocations[i].copy.status = "approved"

\* What a handler is about to tell and publish stands.
FollowUpsStand ==
    \A i \in Invocations :
        /\ invocations[i].step = "follow_up"
        /\ invocations[i].req \notin raced
        => Stands(invocations[i].copy.status,
                  requests[invocations[i].req].status)

TruthInv ==
    /\ LegacyApproves
    /\ FollowUpsStand
    /\ RequesterToldTruth
    /\ EventsOnlyForApproved

\* The follow-up comes after a save.
LEMMA FollowUpAfterSave ==
    ASSUME IInv, NEW i \in Invocations, Start(i) \/ Proceed(i) \/ Abort(i)
    PROVE  SaveRequest(i) \/ invocations'[i].step # "follow_up"
  <1>1. invocations \in [Invocations -> Invocation] BY DEF IInv, TypeOK
  <1>2. ASSUME Finish(i) PROVE invocations'[i].step # "follow_up"
    BY <1>1, <1>2 DEF Finish, Idle
  <1>3. ASSUME NEW step, NEW rec, Advance(i, step, rec), step # "follow_up"
        PROVE  invocations'[i].step # "follow_up"
    BY <1>1, <1>3 DEF Advance, Invocation
  <1>4. CASE Start(i)
    <2>1. ASSUME NEW u, NEW r, NEW g, HandleModalSubmission(i, u, g, r)
          PROVE  invocations'[i].step # "follow_up"
      BY <1>1, <2>1 DEF HandleModalSubmission
    <2>2. ASSUME NEW u, NEW r,
                 \/ HandleApproveButton(i, u, r)
                 \/ HandleApproveTierButton(i, u, r)
                 \/ HandleDenyButton(i, u, r)
                 \/ HandleAdminCommand(i, u, r)
                 \/ HandleLegacyClick(i, u, r)
          PROVE  invocations'[i].step # "follow_up"
      <3>1. /\ IsIdle(i)
            /\ UNCHANGED invocations \/ \E op : Begin(i, op, u, r)
        BY <2>2 DEF HandleApproveButton, HandleApproveTierButton,
                    HandleDenyButton, HandleAdminCommand, HandleLegacyClick
      <3> QED BY <1>1, <3>1 DEF Begin, IsIdle
    <2> QED BY <1>4, <2>1, <2>2 DEF Start
  <1>5. CASE \/ SendApprovalRequestToGroups(i) \/ StoreMessageTimestamps(i)
             \/ ReadRequest(i) \/ DeleteRequestDocument(i) \/ FollowUp(i)
             \/ Abort(i)
    <2>1. \/ Finish(i)
          \/ \E step, rec : Advance(i, step, rec) /\ step # "follow_up"
      BY <1>5 DEF SendApprovalRequestToGroups, StoreMessageTimestamps,
                  ReadRequest, DeleteRequestDocument, FollowUp, Abort
    <2> QED BY <1>2, <1>3, <2>1
  <1> QED BY <1>4, <1>5 DEF Proceed

LEMMA LegacyStep ==
    ASSUME IInv, LegacyApproves, [Next]_vars
    PROVE  LegacyApproves'
  <1> USE DEF LegacyApproves
  <1>1. CASE UNCHANGED vars BY <1>1 DEF vars
  <1>2. ASSUME NEW i \in Invocations, Start(i) \/ Proceed(i) \/ Abort(i)
        PROVE  LegacyApproves'
    <2>1. \A j \in Invocations \ {i} : invocations'[j] = invocations[j]
      BY <1>2, SlotsOfOthers
    <2>2. ASSUME SaveRequest(i), invocations'[i].op = "approve_legacy"
          PROVE  invocations'[i].copy.status = "approved"
      <3> DEFINE inv == invocations[i]
                 rec == Decided(inv.op, inv.copy, inv.user)
      <3>1. invocations \in [Invocations -> Invocation] BY DEF IInv, TypeOK
      <3>2. Advance(i, "follow_up", rec) BY <2>2 DEF SaveRequest
      <3>3. inv.op = "approve_legacy" /\ invocations'[i].copy = rec
        <4> HIDE DEF rec
        <4> QED BY <2>2, <3>1, <3>2 DEF Advance, Invocation
      <3>4. inv.copy \in Request BY <3>1 DEF Invocation
      <3> QED BY <3>3, <3>4 DEF Decided, AfterDecision, WithApproval, Request
    <2> QED BY <1>2, <2>1, <2>2, FollowUpAfterSave
  <1> QED BY <1>1, <1>2 DEF Next

\* Later saves do not take back what a handler is about to tell.
LEMMA FollowUpsStep ==
    ASSUME IInv, FollowUpsStand, [Next]_vars
    PROVE  FollowUpsStand'
  <1>0. raced \subseteq raced' BY RacedGrows
  <1> USE DEF FollowUpsStand
  <1>1. CASE UNCHANGED vars BY <1>1 DEF vars
  <1>2. ASSUME NEW i \in Invocations, Start(i) \/ Proceed(i) \/ Abort(i)
        PROVE  FollowUpsStand'
    <2>1. ASSUME NEW j \in Invocations \ {i},
                 invocations'[j].step = "follow_up",
                 invocations'[j].req \notin raced'
          PROVE  Stands(invocations'[j].copy.status,
                        requests'[invocations'[j].req].status)
      <3>1. invocations'[j] = invocations[j] BY <1>2, SlotsOfOthers
      <3>2. invocations[j].req \in RequestIDs
        BY <2>1, <3>1, InFlight DEF IsIdle
      <3>3. Stands(requests[invocations[j].req].status,
                   requests'[invocations[j].req].status)
        BY <2>1, <3>1, <3>2, TableStands
      <3> QED BY <1>0, <2>1, <3>1, <3>3 DEF Stands
    <2>2. ASSUME SaveRequest(i)
          PROVE  Stands(invocations'[i].copy.status,
                        requests'[invocations'[i].req].status)
      <3> DEFINE inv == invocations[i]
                 rec == Decided(inv.op, inv.copy, inv.user)
      <3>1. /\ Advance(i, "follow_up", rec)
            /\ requests' = [requests EXCEPT ![inv.req] = rec]
        BY <2>2 DEF SaveRequest, PutItem
      <3>2. inv.req \in RequestIDs BY <2>2, InFlight DEF SaveRequest, IsIdle
      <3> HIDE DEF rec
      <3>3. invocations'[i].copy = rec /\ invocations'[i].req = inv.req
        BY <3>1 DEF Advance, IInv, TypeOK, Invocation
      <3>4. requests'[inv.req] = rec BY <3>1, <3>2 DEF IInv, TypeOK
      <3> QED BY <3>3, <3>4 DEF Stands
    <2> QED BY <1>2, <2>1, <2>2, FollowUpAfterSave
  <1> QED BY <1>1, <1>2 DEF Next

\* Only the follow-up tells the requester anything or publishes an event.
LEMMA TruthStep ==
    ASSUME IInv, TruthInv, [Next]_vars
    PROVE  TruthInv'
  <1>0. raced \subseteq raced' BY RacedGrows
  <1>1. FollowUpsStand' BY FollowUpsStep DEF TruthInv
  <1>2. LegacyApproves' BY LegacyStep DEF TruthInv
  <1>3. \A r \in RequestIDs \ raced' :
            Stands(requests[r].status, requests'[r].status)
    BY TableStands
  <1>4. CASE UNCHANGED <<events, notices>>
    <2>1. RequesterToldTruth'
      BY <1>0, <1>3, <1>4 DEF TruthInv, RequesterToldTruth, Stands
    <2>2. EventsOnlyForApproved'
      BY <1>0, <1>3, <1>4
         DEF TruthInv, EventsOnlyForApproved, Stands, IInv, TypeOK
    <2> QED BY <1>1, <1>2, <2>1, <2>2 DEF TruthInv
  <1>5. ASSUME NEW i \in Invocations, FollowUp(i)
        PROVE  TruthInv'
    <2> DEFINE inv == invocations[i]
               q == inv.req
    <2>1. /\ inv.step = "follow_up" /\ UNCHANGED <<requests, raced>>
          /\ \/ events' = events
             \/ Publishes(inv) /\ events' = events \cup {q}
          /\ \/ notices' = notices
             \/ notices' = [notices EXCEPT ![q] = @ \cup Verdict(inv)]
      BY <1>5 DEF FollowUp
    <2>2. q \in RequestIDs BY <2>1, InFlight DEF IsIdle
    <2>3. q \notin raced => Stands(inv.copy.status, requests[q].status)
      BY <2>1 DEF TruthInv, FollowUpsStand
    <2>4. (q \notin raced /\ Publishes(inv)) =>
              requests[q].status \in {"approved", "revoked"}
      BY <2>1, <2>3 DEF Publishes, TruthInv, LegacyApproves, Stands
    <2>5. EventsOnlyForApproved'
      BY <2>1, <2>2, <2>4 DEF TruthInv, EventsOnlyForApproved
    <2>6. ASSUME q \notin raced, NEW s \in notices'[q] \ notices[q]
          PROVE  Stands(s, requests[q].status)
      BY <2>1, <2>2, <2>3, <2>6 DEF Verdict, IInv, TypeOK
    <2>7. RequesterToldTruth'
      <3>1. \A r \in RequestIDs \ {q} : notices'[r] = notices[r]
        BY <2>1 DEF IInv, TypeOK
      <3> QED
        BY <2>1, <2>2, <2>6, <3>1 DEF TruthInv, RequesterToldTruth, Stands
    <2> QED BY <1>1, <1>2, <2>5, <2>7 DEF TruthInv
  <1>6. \/ UNCHANGED <<events, notices>>
        \/ \E i \in Invocations : FollowUp(i)
    <2>1. CASE UNCHANGED vars BY <2>1 DEF vars
    <2>2. CASE Next
      <3>1. PICK i \in Invocations : Start(i) \/ Proceed(i) \/ Abort(i)
        BY <2>2 DEF Next
      <3>2. CASE Start(i)
        BY <3>2 DEF Start, HandleModalSubmission, HandleApproveButton,
                    HandleApproveTierButton, HandleDenyButton,
                    HandleAdminCommand, HandleLegacyClick
      <3>3. CASE Proceed(i) \/ Abort(i)
        BY <3>3 DEF Proceed, SendApprovalRequestToGroups,
                    StoreMessageTimestamps, ReadRequest,
                    DeleteRequestDocument, SaveRequest, Abort
      <3> QED BY <3>1, <3>2, <3>3
    <2> QED BY <2>1, <2>2
  <1> QED BY <1>4, <1>5, <1>6

LEMMA TruthHolds == Spec => []TruthInv
  <1>1. Init => TruthInv
    BY DEF Init, TruthInv, FollowUpsStand, LegacyApproves, Idle,
           RequesterToldTruth, EventsOnlyForApproved
  <1>2. IInv /\ TruthInv /\ [Next]_vars => TruthInv' BY TruthStep
  <1> QED BY <1>1, <1>2, InvariantHolds, PTL DEF Spec

\* What the requester was told is never taken back but by a save over an item
\* other than the one its handler read, however handlers overlap or are cut
\* short otherwise.
THEOREM RequesterAlwaysToldTruth == Spec => []RequesterToldTruth
  <1>1. TruthInv => RequesterToldTruth BY DEF TruthInv
  <1> QED BY <1>1, TruthHolds, PTL

\* Document creation is only triggered for requests that were approved and at
\* most revoked since, unless such a save took the approval back.
THEOREM EventsStayJustified == Spec => []EventsOnlyForApproved
  <1>1. TruthInv => EventsOnlyForApproved BY DEF TruthInv
  <1> QED BY <1>1, TruthHolds, PTL

\* Such a save is all that ever lets the event of a request be published whose
\* requester is told that it "has been denied and will not be processed".
THEOREM DeniedProcessedOnlyByRace ==
    Spec => [](\A r \in events : "denied" \in notices[r] => r \in raced)
  <1>1. IInv /\ TruthInv =>
            \A r \in events : "denied" \in notices[r] => r \in raced
    BY DEF IInv, TypeOK, TruthInv, RequesterToldTruth, EventsOnlyForApproved
  <1> QED BY <1>1, InvariantHolds, TruthHolds, PTL

-------------------------------------------------------------------------------
(* A completing approval is published or its event got lost: whatever old   *)
(* copies the overlapping handlers hold, each was in the table.             *)

\* Both tiers approved the item, which may have been revoked since.
Completed(rec) ==
    rec.status \in {"approved", "revoked"} /\ HasSecurityApproval(rec)

\* The requests whose event is published, is about to be by a handler, or got
\* lost.
Announced ==
    events \cup unpublished \cup {invocations[i].req : i \in
                     {j \in Invocations : /\ invocations[j].step = "follow_up"
                                          /\ Publishes(invocations[j])}}

\* The copies that will be saved, or were.
CopiesAnnounced ==
    \A i \in Invocations :
        /\ invocations[i].step \in {"delete_document", "save", "follow_up"}
        /\ Completed(invocations[i].copy)
        => invocations[i].req \in Announced

\* A handler that is to publish does so or loses the event.
LEMMA AnnouncedStays ==
    ASSUME IInv, [Next]_vars
    PROVE  Announced \subseteq Announced'
  <1>1. CASE UNCHANGED vars BY <1>1 DEF vars, Announced, Publishes
  <1>2. CASE Next
    <2>1. PICK i \in Invocations : Start(i) \/ Proceed(i) \/ Abort(i)
      BY <1>2 DEF Next
    <2>2. events \subseteq events' /\ unpublished \subseteq unpublished'
      <3>1. CASE Start(i)
        BY <3>1 DEF Start, HandleModalSubmission, HandleApproveButton,
                    HandleApproveTierButton, HandleDenyButton,
                    HandleAdminCommand, HandleLegacyClick, history
      <3>2. CASE Proceed(i) \/ Abort(i)
        BY <3>2 DEF Proceed, SendApprovalRequestToGroups,
                    StoreMessageTimestamps, ReadRequest, LoseEvent, history,
                    DeleteRequestDocument, SaveRequest, FollowUp, Abort
      <3> QED BY <2>1, <3>1, <3>2
    <2>3. ASSUME NEW j \in Invocations,
                 /\ invocations[j].step = "follow_up"
                 /\ Publishes(invocations[j])
          PROVE  invocations[j].req \in Announced'
      <3>1. CASE j # i
        <4>1. invocations'[j] = invocations[j] BY <2>1, <3>1, SlotsOfOthers
        <4> QED BY <2>3, <4>1 DEF Announced, Publishes
      <3>2. CASE j = i
        <4>1. FollowUp(i) \/ Abort(i)
          BY <2>1, <2>3, <3>2
             DEF Start, HandleModalSubmission, HandleApproveButton,
                 HandleApproveTierButton, HandleDenyButton,
                 HandleAdminCommand, HandleLegacyClick, IsIdle,
                 Proceed, SendApprovalRequestToGroups, ReadRequest,
                 StoreMessageTimestamps, DeleteRequestDocument, SaveRequest
        <4>2. invocations[j].req \in events' \cup unpublished'
          BY <2>3, <3>2, <4>1 DEF FollowUp, Abort, LoseEvent
        <4> QED BY <4>2 DEF Announced
      <3> QED BY <3>1, <3>2
    <2> QED BY <2>2, <2>3 DEF Announced
  <1> QED BY <1>1, <1>2

\* A copy to be saved is the item just read, or was a copy before.
LEMMA CopyOrigin ==
    ASSUME IInv, NEW i \in Invocations, Start(i) \/ Proceed(i) \/ Abort(i),
           invocations'[i].step \in {"delete_document", "save"}
    PROVE  /\ invocations'[i].req = invocations[i].req
           /\ invocations[i].req \in RequestIDs
           /\ \/ invocations'[i].copy = requests[invocations[i].req]
              \/ /\ invocations[i].step = "delete_document"
                 /\ invocations'[i].copy = invocations[i].copy
  <1>1. invocations \in [Invocations -> Invocation] BY DEF IInv, TypeOK
  <1>2. ~Finish(i) BY <1>1 DEF Finish, Idle
  <1>3. ASSUME NEW step, NEW rec, Advance(i, step, rec)
        PROVE  /\ invocations'[i].step = step /\ invocations'[i].copy = rec
               /\ invocations'[i].req = invocations[i].req
    BY <1>1, <1>3 DEF Advance, Invocation
  <1>4. ~Start(i)
    <2>1. ASSUME NEW u, NEW r, NEW g, HandleModalSubmission(i, u, g, r)
          PROVE  FALSE
      BY <1>1, <2>1 DEF HandleModalSubmission
    <2>2. ASSUME NEW u, NEW r,
                 \/ HandleApproveButton(i, u, r)
                 \/ HandleApproveTierButton(i, u, r)
                 \/ HandleDenyButton(i, u, r)
                 \/ HandleAdminCommand(i, u, r)
                 \/ HandleLegacyClick(i, u, r)
          PROVE  FALSE
      <3>1. /\ IsIdle(i)
            /\ UNCHANGED invocations \/ \E op : Begin(i, op, u, r)
        BY <2>2 DEF HandleApproveButton, HandleApproveTierButton,
                    HandleDenyButton, HandleAdminCommand, HandleLegacyClick
      <3> QED BY <1>1, <3>1 DEF Begin, IsIdle
    <2> QED BY <2>1, <2>2 DEF Start
  <1>5. ReadRequest(i) \/ DeleteRequestDocument(i)
    <2>1. ~SendApprovalRequestToGroups(i)
      BY <1>2, <1>3 DEF SendApprovalRequestToGroups
    <2>2. ~SaveRequest(i) BY <1>3 DEF SaveRequest
    <2> QED
      BY <1>2, <1>4, <2>1, <2>2
         DEF Proceed, Abort, StoreMessageTimestamps, FollowUp
  <1>6. invocations[i].req \in RequestIDs
    BY <1>5, InFlight DEF ReadRequest, DeleteRequestDocument, IsIdle
  <1>7. \/ Advance(i, invocations'[i].step, requests[invocations[i].req])
        \/ /\ invocations[i].step = "delete_document"
           /\ Advance(i, "save", invocations[i].copy)
    <2>1. CASE ReadRequest(i)
      BY <1>2, <1>3, <2>1 DEF ReadRequest
    <2>2. CASE DeleteRequestDocument(i) BY <2>2 DEF DeleteRequestDocument
    <2> QED BY <1>5, <2>1, <2>2
  <1> QED BY <1>3, <1>6, <1>7

\* What a save completes is published by the handler that saves it, or was
\* completed in the copy.
LEMMA SaveAnnounces ==
    ASSUME IInv, CopiesAnnounced, NEW i \in Invocations, SaveRequest(i),
           Announced \subseteq Announced', Completed(invocations'[i].copy)
    PROVE  invocations[i].req \in Announced'
  <1> DEFINE inv == invocations[i]
             rec == Decided(inv.op, inv.copy, inv.user)
  <1>1. inv.step = "save" /\ Advance(i, "follow_up", rec)
    BY DEF SaveRequest
  <1>2. /\ inv \in Invocation /\ inv.copy \in Request
        /\ Sound(inv.copy) /\ Accepts(inv.op, inv.copy, inv.user)
    BY <1>1, InFlight DEF IsIdle, HoldsSound, Invocation
  <1>3. /\ invocations'[i].step = "follow_up" /\ invocations'[i].copy = rec
        /\ invocations'[i].req = inv.req /\ invocations'[i].op = inv.op
    <2> HIDE DEF rec
    <2> QED BY <1>1 DEF Advance, IInv, TypeOK, Invocation
  <1>4. CASE inv.op \in {"approve_security", "approve_manager"}
    <2>1. rec.status = "approved"
      BY <1>2, <1>3, <1>4
         DEF Completed, Decided, AfterApproval, AfterDecision,
             WithSecurityApproval, WithManagerApproval,
             Request
    <2>2. Publishes(invocations'[i]) BY <1>3, <1>4, <2>1 DEF Publishes
    <2> QED BY <1>3, <2>2 DEF Announced
  <1>5. CASE inv.op \in {"approve_admin", "approve_legacy"}
    <2>1. inv.copy.status = "pending"
      BY <1>2, <1>5 DEF Accepts, AcceptsApproval, AcceptsDecision, MayApprove
    <2>2. ~HasSecurityApproval(inv.copy)
      BY <1>2, <2>1 DEF Sound, ApprovalsMatchStatus
    <2>3. rec.security = inv.copy.security
      BY <1>2, <1>5 DEF Decided, AfterDecision, WithApproval, Request
    <2> QED BY <1>3, <2>2, <2>3 DEF Completed, HasSecurityApproval
  <1>6. CASE inv.op \in {"deny", "cancel"}
    BY <1>2, <1>3, <1>6 DEF Completed, Decided, AfterDecision, WithDenial,
                            Request
  <1>7. CASE inv.op = "revoke"
    <2>1. inv.copy.status = "approved"
      BY <1>2, <1>7 DEF Accepts, AcceptsApproval, AcceptsDecision, MayRevoke
    <2>2. rec.security = inv.copy.security
      BY <1>2, <1>7 DEF Decided, WithRevocation, Request
    <2>3. Completed(inv.copy)
      BY <1>3, <2>1, <2>2 DEF Completed, HasSecurityApproval
    <2> QED BY <1>1, <2>3 DEF CopiesAnnounced
  <1> QED
    BY <1>2, <1>4, <1>5, <1>6, <1>7 DEF Accepts, AcceptsApproval,
                                        AcceptsDecision

LEMMA PublishedStep ==
    ASSUME IInv, CompletedIsPublished, CopiesAnnounced,
           [Next]_vars
    PROVE  CompletedIsPublished' /\ CopiesAnnounced'
  <1>1. /\ invocations \in [Invocations -> Invocation]
        /\ requests \in [RequestIDs -> Request]
    BY DEF IInv, TypeOK
  <1>2. Announced \subseteq Announced' BY AnnouncedStays
  <1>3. \A r \in RequestIDs : Completed(requests[r]) => r \in Announced
    BY DEF CompletedIsPublished, Completed, Announced
  <1>4. ASSUME NEW r \in RequestIDs, Completed(requests'[r])
        PROVE  r \in Announced'
    <2>1. CASE requests'[r] = requests[r] BY <1>2, <1>3, <1>4, <2>1
    <2>2. ASSUME NEW i \in Invocations, NEW u \in Users, NEW q \in RequestIDs,
                 NEW g \in ManagerGroups, HandleModalSubmission(i, u, g, q),
                 requests'[r] # requests[r]
          PROVE  FALSE
      <3>1. requests'[r] = NewRequest(u, g)
        BY <1>1, <2>2 DEF HandleModalSubmission
      <3> QED BY <1>4, <3>1 DEF Completed, NewRequest, Absent
    <2>3. ASSUME NEW i \in Invocations, StoreMessageTimestamps(i),
                 requests'[r] # requests[r]
          PROVE  FALSE
      <3> DEFINE old == requests[invocations[i].req]
      <3>1. /\ invocations[i].step = "store_timestamps" /\ ~IsIdle(i)
            /\ requests'[r] = [invocations[i].copy EXCEPT !.messages = TRUE]
        BY <1>1, <2>3 DEF StoreMessageTimestamps, PutItem, IsIdle
      <3>2. invocations[i].copy = NewRequest(old.user, old.group)
        BY <3>1, InFlight DEF HoldsSound
      <3> QED BY <1>4, <3>1, <3>2 DEF Completed, NewRequest, Absent
    <2>4. ASSUME NEW i \in Invocations, SaveRequest(i),
                 requests'[r] # requests[r]
          PROVE  r \in Announced'
      <3> DEFINE inv == invocations[i]
                 rec == Decided(inv.op, inv.copy, inv.user)
      <3>1. /\ requests' = [requests EXCEPT ![inv.req] = rec]
            /\ Advance(i, "follow_up", rec)
        BY <2>4 DEF SaveRequest, PutItem
      <3> HIDE DEF rec
      <3>2. r = inv.req /\ requests'[r] = rec BY <1>1, <2>4, <3>1
      <3>3. invocations'[i].copy = rec BY <1>1, <3>1 DEF Advance, Invocation
      <3> QED BY <1>2, <1>4, <2>4, <3>2, <3>3, SaveAnnounces
    <2> QED BY <2>1, <2>2, <2>3, <2>4, TableWriters
  <1>5. ASSUME NEW i \in Invocations, Start(i) \/ Proceed(i) \/ Abort(i),
               invocations'[i].step \in
                   {"delete_document", "save", "follow_up"},
               Completed(invocations'[i].copy)
        PROVE  invocations'[i].req \in Announced'
    <2>1. CASE SaveRequest(i)
      <3>1. invocations'[i].req = invocations[i].req
        <4>1. \E rec : Advance(i, "follow_up", rec) BY <2>1 DEF SaveRequest
        <4> QED BY <1>1, <4>1 DEF Advance, Invocation
      <3> QED BY <1>2, <1>5, <2>1, <3>1, SaveAnnounces
    <2>2. CASE ~SaveRequest(i)
      <3>1. invocations'[i].step \in {"delete_document", "save"}
        BY <1>5, <2>2, FollowUpAfterSave
      <3>2. /\ invocations'[i].req = invocations[i].req
            /\ invocations[i].req \in RequestIDs
            /\ \/ invocations'[i].copy = requests[invocations[i].req]
               \/ /\ invocations[i].step = "delete_document"
                  /\ invocations'[i].copy = invocations[i].copy
        BY <1>5, <3>1, CopyOrigin
      <3>3. invocations[i].req \in Announced
        BY <1>3, <1>5, <3>2 DEF CopiesAnnounced
      <3> QED BY <1>2, <3>2, <3>3
    <2> QED BY <2>1, <2>2
  <1>6. CopiesAnnounced'
    <2>1. CASE UNCHANGED vars
      BY <1>2, <2>1 DEF vars, CopiesAnnounced
    <2>2. ASSUME NEW i \in Invocations, Start(i) \/ Proceed(i) \/ Abort(i)
          PROVE  CopiesAnnounced'
      <3>1. \A j \in Invocations \ {i} : invocations'[j] = invocations[j]
        BY <2>2, SlotsOfOthers
      <3> QED BY <1>2, <1>5, <2>2, <3>1 DEF CopiesAnnounced
    <2> QED BY <2>1, <2>2 DEF Next
  <1>7. CompletedIsPublished'
    BY <1>4 DEF CompletedIsPublished, Completed, Announced
  <1> QED BY <1>6, <1>7

\* A request both tiers approved has its event or a handler that is about to
\* publish it, unless just that call failed, with any number of overlapping
\* handlers and however old the copies they save.
THEOREM CompletionIsPublished == Spec => []CompletedIsPublished
  <1> DEFINE PInv == CompletedIsPublished /\ CopiesAnnounced
  <1>1. Init => PInv
    BY DEF Init, CompletedIsPublished, CopiesAnnounced, Absent, Idle
  <1>2. IInv /\ PInv /\ [Next]_vars => PInv'
    BY PublishedStep
  <1>3. PInv => CompletedIsPublished OBVIOUS
  <1> HIDE DEF PInv
  <1> QED BY <1>1, <1>2, <1>3, InvariantHolds, PTL DEF Spec

===============================================================================

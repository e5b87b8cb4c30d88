# Verification of the SSM just-in-time access system

TLA+ models, TLC runs and TLAPS proofs of the program in `../src`: a set of AWS
Lambda handlers, driven by Slack, that let a user ask for temporary SSM access
to a host, have the request approved by two groups, create an SSM document for
it, and delete that document when the access expires or is revoked.

Paths below are relative to the repository. `PROJECT.json` lists, for every
definition of every module, the lines it stands for.

## 1. The system

### Components, state, operations

| component | state | operations that change state |
|---|---|---|
| Access requests: `internal/service/access_request_service.go`, `internal/repository/request_repository.go`, `internal/models/access_request.go` | one item per request: status, requester, manager group, the two tier approvals, the legacy approver, the revoker, message timestamps | CreateRequest, ApproveRequestSecurity, ApproveRequestManager, ApproveRequest, DenyRequest, RevokeRequest |
| request-handler: `cmd/request-handler` | none of its own; Slack messages with buttons | modal submission, Approve, Approve as \<tier\>, Deny |
| approval-handler: `cmd/approval-handler` | none | the same buttons, taken as one final decision; no route of the API gateway leads to it |
| admin-slack-handler, admin-handler: `cmd/admin-slack-handler`, `cmd/admin-handler` | none | approve, deny, cancel and revoke a request; administrators, groups, accounts |
| document-creator: `cmd/document-creator`, `internal/service/ssm_document_service.go` | documents in the target account; metadata records | create or extend a document on the "Request Approved" event |
| expiration-cleanup: `cmd/expiration-cleanup` | the list it read | hourly: delete every expired document |
| Users: `authorization_service.go`, `user_repository.go` | users table with a role | AddAdministrator, RemoveAdministrator |
| Approval groups: `approval_group_service.go`, `approval_group_repository.go` | groups table with a type | AddGroup, UpdateGroup, RemoveGroup |
| Accounts: `account_service.go`, `account_repository.go` | accounts table with the role to assume | AddAccount, UpdateAccount, RemoveAccount |
| Group membership cache: `internal/slack/group_cache.go` | members per group, with an expiry | IsGroupMember, Invalidate |
| Role assumer: `pkg/aws/role_assumer.go` | credentials per role, with an expiry | AssumeRole, ClearCacheForAccount, ValidateRoleAssumption |
| Circuit breaker: `internal/retry/circuit_breaker.go` | state, counters, time of the last failure | Execute, Reset, the state-change callback |
| Retry: `internal/retry/retry.go`, `errors.go` | none | Do |
| Names and validation: `internal/validation` | none | GenerateName, ParseDocumentName, the validators |
| Notifier, modal, Slack client, audit, logging | none the program reads back | output |

### How they interact

A Slack modal starts request-handler, which saves the request, posts messages
with buttons to the members of the security group and the chosen manager group,
and saves the request again with the references to those messages. Each click
is another invocation: it reads the request, asks the membership cache, lets
the service decide on the copy it read, and saves the whole item. The approval
that completes a request is followed by an EventBridge event, which starts
document-creator; that one calls SSM in the target account through the role
assumer and saves a metadata record. expiration-cleanup lists the records that
have expired and deletes document after document. An administrator's revocation
deletes the document too. The tables are all that invocations share. No write
of the repositories is conditional on what it replaces, and there is no
transaction: every hazard below comes from there.

### What is hard, and what makes each part correct

* **Requests.** Handlers overlap at every call and save old copies; a handler
  may stop between any two calls. Correct: an item never has a status its
  approvals do not support; approvals come from people entitled to give them;
  a completed request publishes its event; nobody is told something that is
  taken back; an approval that was recorded stays.
* **Documents.** Two stores, AWS and the table, are kept in step one call at a
  time by creators, revocations and the cleanup, with duplicate events,
  failures and roll-backs. Correct: no document is ever left in AWS that the
  cleanup will not find; all are deleted in the end; a revoked request has none.
* **Administration.** Check, then write, in separate calls, by several
  administrators. Correct: somebody can always administer the system, there is
  one security group, and no account names a role that was never tried.
* **Circuit breaker, caches.** Goroutines (or warm invocations) that check,
  fetch without the lock, and store. Correct: what is let through while the
  service is in trouble, a way back when it is not, no answer older than it may be.
* **Retry, names.** Sequential, apart from the context that may be cancelled at
  any moment; correct at the numeric and textual boundaries.

`PROJECT.json` "hazards" lists each of these at its line, with the property
that covers it.

## 2. The modules

| module | what it is |
|---|---|
| `ApprovalProtocol` | abstract: what the two-tier workflow promises of each request |
| `AccessRequests` | the requests table and every handler that changes a request |
| `AccessRequestsProofs` | its theorems, the refinement of `ApprovalProtocol` among them |
| `Documents` | documents in AWS, metadata records, creator, revocation, cleanup |
| `DocumentsProofs` | its theorems: documents stay tracked, and go only for a request of their own |
| `Administration` | users, groups and accounts tables and the commands that write them |
| `AdministrationProofs` | its theorems |
| `CircuitBreaker`, `Retry`, `GroupCache` | the libraries `internal/retry` and the membership cache |
| `CircuitBreakerProofs`, `RetryProofs`, `GroupCacheProofs` | their theorems |
| `DocumentNames` | sanitising, making, checking and parsing document names |
| `DocumentNamesProofs` | its theorems |
| `Induction` | induction and recursion up to a number, which the proofs about delays and names use |
| `MCAccessRequests`, `MCDocuments`, `MCAdministration`, `MCLibraries` | the small instances TLC checks |

The first three detailed modules have the same shape. A handler is an **invocation**
in a **slot** (a set of model values bounds how many are in flight, not how
many there may ever be). It is split at its calls to a store, because those are
the points where others can get in between; what it computes between two calls
is one step. The invocation carries the copy of what it read. `Abort` ends an
invocation anywhere: a call that failed and whose error is returned, a time-out
and the death of the Lambda look alike from the outside, and nothing is undone.
Failures the code handles otherwise have actions or disjuncts of their own
(`RollBack`, `FollowUp`, the posts in `SendApprovalRequestToGroups`).

### AccessRequests

Variables: `requests` (the table), `invocations` (operation, next call, request,
user, copy), `prompts` (who was sent buttons), `offers` (who was offered
"Approve as \<tier\>"), `events` (published events), `notices` (verdicts the
requester was sent) and two history variables no guard reads: `raced`, the
requests some handler saved over an item other than the one it had read, and
`unpublished`, those whose event was due and got lost.

| actions | code |
|---|---|
| `HandleModalSubmission`, `SendApprovalRequestToGroups`, `StoreMessageTimestamps` | modal submission: CreateRequest, the posts, the second save of the same copy |
| `HandleApproveButton`, `HandleApproveTierButton`, `HandleDenyButton` | the handlers of the three buttons up to the service call |
| `HandleAdminCommand` | approve-, deny-, cancel- and revoke-request |
| `HandleLegacyClick` | `cmd/approval-handler`, only when `LegacyRouted` |
| `ReadRequest`, `SaveRequest` | GetItem with the service's checks; PutItem of the whole item |
| `DeleteRequestDocument` | the call in RevokeRequest; what it does to documents is in `Documents` |
| `FollowUp` | publishing the event and telling the requester |

The decisions (`MayApproveSecurity`, `WithSecurityApproval`, ...) are operators
on the copy. Modelling decisions worth knowing:

* Reads are not strongly consistent in the code. An older item is what an
  invocation that read earlier and was delayed would hold, so overlap covers
  it; there is no separate stale read.
* No save has a condition (`PutItem`), so decisions of two handlers overwrite
  each other, and under that some of what one would ask of the table is false:
  the first two findings. `raced` remembers the requests this happened to. It
  restricts nothing; `RequesterToldTruth` and `EventsOnlyForApproved` speak of
  the requests outside it, and the abstract protocol has an action for such a
  save (`Overwrite`), which puts in the place of the item one that somebody
  decided, not a mixture. So these properties say what everything *but* such a
  save may do, and the findings what such a save does.
* `prompts` never shrink: a decision removes the buttons from the messages
  afterwards, if Slack lets it, and a click made before that still arrives.
* Membership answers come from a cache and an error counts as "no"; "no" is
  always possible, "yes" for anybody who was ever a member
  (`MembershipAnswers`); that this is all the cache may do is shown in `GroupCache`.
* The command-line form of a request passes an empty manager group, which
  CreateRequest always refuses, so it changes nothing.
* Not in the model: text, dates, host and port, the audit trail.

### Documents

Variables: `now` (a date), `status` (of each request, reduced to open, approved,
revoked), `events` (of each request: none, published, delivered), `ssm` (names
that exist in AWS), `documents` (metadata records), `workers` (the invocations),
`faults` (how many calls may still fail) and two history variables no guard
reads: `unsaved`, names of existing documents whose creator stopped before it
saved a record, and `served`, requests whose requester was sent "SSM Document
Created". `status` moves as `ApprovalProtocol` lets it: once approved, only to
revoked.

| actions | code |
|---|---|
| `Deliver`, `Redeliver`, `ReadApproved`, `LookupDocument`, `CreateInSSM`, `SaveDocument`, `RollBack` | document-creator and CreateDocument |
| `TagDocument`, `SaveExtension` | ExtendDocumentExpiration |
| `StartRevoke`, `FindDocument`, `DeleteInSSM`, `MarkDeleted`, `RemoveRecord`, `SaveRevoked` | RevokeRequest with DeleteDocument |
| `StartCleanup`, `NextExpired`, `DeleteInSSM`, `MarkDeleted`, `SkipDocument` | expiration-cleanup with the same DeleteDocument |

A lookup by name returns the first record of the index, deleted ones included,
in no defined order; the model picks any. A write back of an old record can
make a deleted one active again, and does so here. There is one cleanup at a
time: it is started once an hour and a Lambda ends within minutes. `NameOf` is a
constant, so that two requests may or may not have the same document; what
names the code really makes is in `DocumentNames`.

A failure anywhere, a death anywhere and an event delivered again each take one
of `Faults` (`Fail`). The failures the code does not simply return have their own
place: `RollBack` of a creation; `FindDocument`, where a failed query is taken
for "no document"; `SkipDocument`, where the cleanup goes on to the next
document; `RemoveRecord`. That an index answers with what was true a moment ago
needs no action: the invocation that asked could have asked then.

### Administration

Variables: `users`, `groups`, `accounts` (the tables), `invocations` (the
command, the caller, the next call, a copy) and the history variable
`validated`: pairs of account and role that were assumed once. No guard reads
`validated`.

`Start` is the handler's check of the caller, `VerifyAdministratorAuthorization`
the service's; `ConfirmGroup`, `ReadUser`, `CheckSecurityGroup`, `ReadGroup`,
`ReadAccount`, `ReadAccountToUpdate` and `ValidateRoleAssumption` are what a
command looks at before it writes; `SaveUser`, `SaveGroup`, `SaveAccount` the
writes. Commands overlap as they like.

`GetSecurityGroup` may answer "none" although there is one: the index of the
query lags, and AddGroup takes a failed query for "none". Hence
`second_security_group`; two overlapping AddGroup, or an UpdateGroup that brings
a removed group back, are other ways to it.

Two administrators who remove each other at the same time both pass the checks;
then nobody is left, and no command makes an administrator
(CreateInitialAdministrator has no caller outside the tests). The model has
this, and `AdministratorRemains` says that there is nothing else of the kind:
the last administrator only goes by the hand of somebody who was removed after
the service had looked at him. It is no finding because no text of the
repository promises that an administrator remains.

Names and `active` of groups, and the fields of accounts other than the role,
are left out: no check of these operations reads them. UpdateGroup in fact never
changes a name (the handler passes it as `group_name`, the service looks for
`name`), so `update_group` writes back the group it read.

### CircuitBreaker, Retry, GroupCache

No handler uses `internal/retry`: these are libraries, and what is shown is what
a caller may rely on. `CircuitBreaker` has a slot for each call of Execute in
flight; `AllowRequest` and the two `Record` actions are the sections under the
lock, and between them a call may outlive any number of changes of state. `age`
is the time since the last failure, `probes` a history variable that counts what
is let through since the breaker last opened. `Hang` is a call that never
returns or panics: Execute records nothing then. Two things the code does are
worth knowing. The request that ends the time-out is not counted, so
HalfOpenMaxReqs + 1 get through, where the comment of the field
(`internal/retry/circuit_breaker.go:40`) says "Max requests allowed in half-open
state": the comment and the code disagree, and the theorem
`BreakerSparesService` states the limit that holds. And a place used up by a call that hangs is not given back, so
with HalfOpenMaxReqs + 1 of them (`Hangs = 2` in `libraries.cfg`) TLC finds the
breaker half-open for ever. The state-change callback is left out, since nothing sets it.

`Retry` is the loop of Do with a context that may be cancelled at any step; in
the select of a cancelled context and a delay that is over, either may win. Nothing
in the code validates a configuration, so the model does not either: an
InitialDelay above MaxDelay takes the place of a delay that jitter would make
negative, and is then the longest delay there is (`LongestDelay`).
An error is retryable or not; the texts IsRetryable matches are not modelled.
(Reading it shows that ErrThrottled, "indicates a throttling error (retryable)",
is not retried: its text, "throttled", does not contain "throttling".)

`GroupCache` is GetMembers, split at the lock and at Slack's answer. `changed`
says when each user joined or left last. The expiry is strict, as in the code. A
Lambda instance serves one event at a time, so callers overlap only where code
starts goroutines; the property holds in any case, and each instance has a cache
of its own.

### DocumentNames

Operators over sequences of characters. The alphabet, the prefix, the words, the
ports and the limits are constants; `NamesAssumption` says what the proofs need of
them (a prefix that starts with a letter or digit, non-empty numeric ports,
limits that leave room for prefix, port and hyphens, as the code's 30, 60 and 128
do). In the run one or two characters stand for each kind (lower, upper, digit,
hyphen, underscore, any other). One action names a request
(`NameRequest`), the next makes room for another: the properties are about every
username and host up to a length, with limits so small that cutting happens. What they do not say, because
it is not so: that different people have different names. `a-b` on host `c` and
`a` on host `b-c` share a document name, and ParseDocumentName takes the first
hyphen for the end of the username.

### Faulty variants

An operator whose name ends in `_Bug` is the operator after it with a plausible
mistake in it. Nothing uses it. Put in the place of the original, it makes TLC
find the property it is listed with in `PROJECT.json` "mutants" violated: each
property can be broken by a change of the code.

## 3. The runs

| run | instance | shows |
|---|---|---|
| `requests` | two slots, two users, one manager group, every failure, approval-handler routed | each item is one that people entitled to it decided (`TypeOK`, `RecordsConsistent`, `ApproversAuthorised`); what completes a request publishes its event, whatever others save (`CompletedIsPublished`); only a save over an item other than the one that was read leaves the protocol (`RefinesProtocol`), takes back what the requester was told (`RequesterToldTruth`) or leaves an event without an approval (`EventsOnlyForApproved`) |
| `requests_live` | two slots, two users, self-approval allowed, every failure, fairness | `TwoTierApprovalPublished`: whichever handler records the second approval, the event is published, unless that handler dies or its call fails |
| `documents` | two creators, one revocation, the cleanup, two requests for one name, one fault anywhere, fairness | `TypeOK`, `EveryDocumentTracked`, `RemovedByItsRequests` and `ExpiredDocumentsDeleted` |
| `administration` | two slots, three users, two groups, one account, two roles | `TypeOK`, `AdministratorRemains`, `RolesValidated` |
| `libraries` | a behaviour of one library: three calls of the breaker, one of which never returns; Do with three retries; two callers of the cache; and the naming of every pair of short words | `CountMatchesState`, `BreakerRecovers`; `CancelStopsRetries`, `WaitsBounded`; `AnswersFresh`; `NamesValid`, `NamesParseBack` |

The other seven runs each end in a counterexample to what the program or its
documents say; the finding quotes the line.

| run | counterexample |
|---|---|
| `approval_lost` | an approver presses Approve before the handler of the modal has stored the message timestamps; that second save of the copy made at creation erases the approval, of which its author was told that it is recorded. (Two overlapping approvals of different tiers erase one another too; TLC reports the shorter way.) |
| `denied_yet_published` | one handler reads the pending request for a denial, another for a first approval; the denial is saved and the requester told, then the approval is saved and the request is open again; an approval of the other tier completes it, and the event is published. (The second save of the modal's handler opens a denied request just so.) |
| `admin_approval_unpublished` | an administrator's approve-request publishes no event, so the document it announces is never created |
| `revoked_keeps_document` | revoke-request runs while document-creator has read the request and not saved a record; it finds none, says that the document is deleted, and the document is created |
| `access_cut_short` | two requests share a document, whose record bears the first one's id, and the first is revoked. The requester of the second was told that the document lasts until that request's date: before that, or, in TLC's trace, between the deletion of the document and the marking of its record, which the second creator takes for an existing document |
| `security_group_lost` | AddGroup with the id of the security group and type manager replaces it: none is left, which RemoveGroup refuses to bring about |
| `second_security_group` | AddGroup's query for the security group fails or does not see it yet, and a second one is saved, where guide, quick start, a comment and a test say exactly one |

### Bounds, and why they are enough

* **One request** in the request runs: an item is only read and written under
  its own key and an invocation touches one item, so requests do not
  influence each other.
* **Two slots**: the hazards are pairs (an old copy against a save). The
  theorems of section 4 are for any number.
* **Users**: `ann` in the security group, `bob` in both groups and an
  administrator, each of whom may be the requester. That gives an approver for
  each branch of the Approve handler, self-approval and an approval of one
  person for both tiers. In `requests_live` each tier has one member, and
  self-approval makes either request possible to complete.
* **Documents**: two requests of one name with different expiry dates are what
  it takes to create, extend, revoke and create again; the dates are 1 and 2 and
  time runs from 0 to 3, so each access lasts a while, one ends before the other
  and then both are over. `Faults = 1` with three records: each
  place where the code handles a failure is met with every interleaving, and
  the proof of `EveryDocumentTracked` is for any number. With more faults every
  creation that fails may be tried again, and a bounded table of records, in
  which a creator that finds no unused id waits, decides about liveness instead
  of the code.
* **Libraries**: three calls are an old call and two probes; the cached answer
  concerns each user by itself, so one user is enough, two callers give fetches
  that overtake each other, and the horizon is several TTLs. Jitter is set above
  100%, so that the delay that would be negative occurs. Words of two
  characters have every kind of character at either end, words of three those
  that sanitising treats differently in the middle too, and names of 6 to 13
  characters lie around the limit of 9.
* **Administration**: two of each thing that is compared with another one, and
  a third user, so that a command may involve an actor, a colleague and
  somebody else.
* **Symmetry** (slots in `requests`; slots, groups, roles and the users other
  than the first in `administration`) only in runs that check no liveness
  property.
* **Deadlock** is checked in the request and library runs and in the two short
  administration runs. It is not in the document runs: when time is over, the
  events delivered and the documents gone, the system really has nothing left to
  do. Nor in `administration`: once two administrators have removed each other,
  nobody can start a command.

### Fairness

`FairSpec` of `AccessRequests` assumes only that Lambda goes on with a handler
it started (`WF_vars(Proceed(i))`); nobody has to submit, approve, deny or
revoke. `FairSpec` of `Documents` assumes in addition that time passes, that the
hourly rule fires while something has expired, and that EventBridge delivers an
event to a free creator; faults are never fair. Both liveness properties are
checked with failures. The code retries neither a failed publish nor a handler
that died, so `TwoTierApprovalPublished` excepts the requests whose own handler
lost the event (`unpublished`): nothing else may lose one.
`ExpiredDocumentsDeleted` excepts the documents whose creator did not get to
save them (`unsaved`); a deletion that fails is tried again when the cleanup comes
the next hour. `BreakerFairness` assumes that time passes, that callers keep calling and
that calls return, but for those that hang; the service has to stay up only in
the property itself.

## 4. The proofs

tlapm proves the theorems for all values of the constants that meet
the assumption of each module (`ConstantsAssumption` and the like), which gives the constants their types and
keeps "nothing" apart from real values. The constants need not be finite.

**AccessRequests** (`InvariantHolds`, `TypeCorrect`, `RecordsStayConsistent`,
`ApproversStayAuthorised`). That the table is sound is not inductive, because
what is saved is made from a copy that may no longer be what the table holds.
`IInv` therefore says of every copy a handler is about to use what it says of the
table: it was in the table once, and the service accepted the operation on it
(`InvocationsSound`); and of prompts and offers that they went to people
entitled to act on them. One lemma (`DecisionSound`) shows that any accepted
decision on a sound copy is a sound item, for each operation; with it each action
preserves `IInv`, whatever the age of the copies. The invariants follow with any
number of slots and with failures.

`CompletionIsPublished`: a request that both tiers approved has its event, or a
handler that is about to publish it, or that handler failed to. The hard part
is the old copies: a copy that is complete was completed in the table before
(`CopiesAnnounced`), so saving it once more needs no second event, and saving an
incomplete one over it only takes the hypothesis away. Any number of handlers
may overlap.

`HandlersFollowProtocol`: `Spec` implements `ApprovalProtocol`, with no
assumption on what overlaps. A save that finds in the table what its handler read
is a `Grant`, `Override`, `Deny` or `Revoke`; one that does not is an
`Overwrite`, which needs that what is saved is a sound item, hence `IInv`; every
other step stutters.

`TruthInv` adds that what was told or published agrees with the table, and that a
handler which is about to tell or publish holds an item with which it agrees,
for the requests outside `raced`; `TableStands` says how such an item may
move in one step, and no such move contradicts what was told. From these:
`RequesterAlwaysToldTruth`, `EventsStayJustified`, and
`DeniedProcessedOnlyByRace`: what `denied_yet_published` shows has no other cause
than a save over an item that changed. `SeparateRequestsUnraced` says when
there is no such save: where overlapping invocations are about different
requests (`OneAtATime`). That is a hypothesis of that theorem only, and the code
does not ensure it.

**Documents** (`InvariantHolds`, `TypeCorrect`, `DocumentsStayTracked`). An
active record may be about to be marked deleted. `Keeps` asks in addition that no
worker is about to drop the record. This is inductive because a worker that is
about to drop a record has deleted the document of that name just before, so if
a document of that name exists it was created since, and its creator has saved,
or is about to save, a record of its own under a fresh id; the only exception is
a creator that stopped in between, which is what `unsaved` counts. So the proof
covers failures, repeated deliveries and any number of creators and revocations.
`TrackedUnderAnyWorkflow`: the same invariant survives any change of `status` and
`events` (`WorkflowChanges`). So keeping track of documents does not rest on how
requests move, not even where a raced save takes an approval back.

`DocumentsRemovedByTheirRequests`: a document goes only because a request of its
own name has expired or is being revoked, or because its creator could not save
it; with every overlap and failure. What makes it hard is that handlers act on
records and lists read some calls ago. The invariant (`OwnInv`) says what stays
true of them: a record bears the name of its request, also after it was marked,
removed or brought back (`RecordsNamed`), and its date is that of some
request of its name, however extensions overwrite each other (`RecordsDated`);
what the cleanup has listed stays a document of which some request has expired
(`PickedLate`), even if the record was extended or removed since. That
the access of *each* request lasts is not so: `access_cut_short`.

**Administration** (`TypeCorrect`, `RolesStayValidated`,
`AdministratorAlwaysRemains`), all without an assumption on what overlaps or
fails. For the roles: a role once tried stays tried, and an account whose role is
not tried again keeps a role that was (`RolesTried`). For the administrators: a
removal that passed the checks is one of somebody other than its caller
(`RemoversAreOthers`), so if it leaves nobody, its caller was none any more.
One security group is not a theorem but a finding.

**CircuitBreaker** (`BreakerCountsMatch`, `BreakerSparesService`): `BreakerInv`
says what the counters are in each state, `probes = halfOpenReqs + 1` in the
half-open one, which gives the limit of HalfOpenMaxReqs + 1
(`OneBeyondTheLimit`); late results keep it because what they do depends on the state
they meet and not on the one they come from.

**GroupCache** (`CacheAnswersFresh`): everything that holds members also holds a
time since which Slack agrees with it unless membership changed (`AsOf`); a
fetch's is its start, an entry's follows from its expiry. A change of
membership is now, hence after all of these times.

**Retry** (`RetriesStop`, `WaitsStayBounded`): a late call leaves the loop at a
place from which the check of the context comes before any other call. No delay
is negative or exceeds `LongestDelay` (`DelaysBounded`): MaxDelay with its jitter,
or the initial delay where that is longer and stands in for a negative one. Each
attempt adds one delay, and there are at most MaxRetries. That the powers of the
multiplier are numbers at all is shown by recursion (`ExponentialDefined`).

**DocumentNames** (`SanitizeCleans`, `SanitizeIdempotent`, `NamesStayValid`,
`NamesAlwaysParseBack`): for every alphabet, prefix and limits within
`NamesAssumption`, and words of any length. Sanitising leaves no two hyphens in a
row (`CollapseRows`, by induction along the string), none at the ends and no upper
case, and strings like that it leaves alone. What is joined has a non-empty
numeric port behind its last hyphen, because a port has no hyphen; that is what
ParseDocumentName relies on.

**Induction**: the library's induction theorems take an operator as a parameter,
which the provers cannot instantiate. This module has them for sets instead: a
set of numbers that contains 0 and every successor contains all up to a
bound (`InductionUpTo`, by a least counterexample), and a function with a given
start and step exists (`RecursionUpTo`).

**Only model-checked**: the liveness properties (`TwoTierApprovalPublished`,
`ExpiredDocumentsDeleted`, `BreakerRecovers`; liveness under fairness, like
ENABLED, is out of the prover's reach) and the counterexamples. Every invariant
and every action property of a passing run, and the refinement, is a theorem.
No module declares a RECURSIVE operator.

## 5. What could follow

The request workflow with its abstract protocol, the documents, the
administration, the retry library, the membership cache and the names are done.
What is left is less:

1. The messages of the approvers: a late update of one may show buttons of a
   request that is decided. Today `prompts` never shrink, which allows every
   click such an update could.
2. The single validators of `validator.go`.

## 6. What is not modelled

* The role assumer's credential cache: a configuration follows from its key alone
  and its credentials refresh themselves, so a late store is harmless.
* The validators of hosts, ports, dates and names, and the patterns of
  IsRetryable: regular expressions and limits of single inputs.
* The breaker's state-change callback: nothing sets one.
* Opening the modal, listings, URL verification, audit-logs: they read and
  change nothing.
* UpdateRequestStatus, UpdateRequest and DeleteRequest of the repository,
  CreateInitialAdministrator, UpdateAccountStatus, UpdateUser, DeleteUser: no
  handler calls them.
* Audit, logging, the Slack client, wording: output that nothing reads back.
* The content of a document and of a message: no property is about it.
* Terraform: read for what calls what (routes, the hourly rule, indexes); the
  rest of it is not behaviour.

------------------------------- MODULE Documents -------------------------------
(***************************************************************************)
(* The life of an SSM document: document-creator makes or extends it when  *)
(* the "Request Approved" event arrives, RevokeRequest and the hourly      *)
(* expiration-cleanup delete it.  Each keeps two stores in step, the       *)
(* documents that exist in the target AWS account and the metadata table,  *)
(* with one call at a time to either, so a handler is split at its calls.  *)
(*                                                                         *)
(* Of the requests only the status matters here; how it becomes "approved" *)
(* is the subject of AccessRequests.  Documents of one account are         *)
(* modelled: two accounts share nothing.  An operator whose name ends in   *)
(* _Bug is a faulty variant of the operator after it, used by nothing.     *)
(***************************************************************************)
EXTENDS Integers

CONSTANTS
    RequestIDs,
    Names,              \* document names
    NameOf,             \* NameOf[r]: GenerateName for r's user, host and port
    ExpiryOf,           \* ExpiryOf[r]: r's expiration date
    DocumentIDs,        \* uuids of metadata records (bounds the table)
    Creators,           \* slots for invocations of document-creator
    Revokers,           \* slots for administrators' revoke-request commands
    Cleaner,            \* the expiration-cleanup invocation: one per hour,
                        \* over within five minutes, so there is never another
    EndOfTime,          \* the last date considered (bounds now)
    Nothing,            \* no request, no record, no name
    Faults              \* how many calls fail, invocations are cut short or
                        \* events delivered again (bounds failures)

VARIABLES
    now,            \* today
    status,         \* status[r]: "open", "approved" or "revoked"
    events,         \* events[r]: r's event, "none", "published", "delivered"
    ssm,            \* names of the documents that exist in AWS
    documents,      \* documents[d]: the metadata record
    workers,        \* workers[w]: the invocation in slot w
    faults,         \* how many of the Faults are still to come
    unsaved,        \* history: names of documents in AWS whose creator stopped
                    \* before it saved a record of them
    served          \* history: requests whose requester was sent "SSM Document
                    \* Created" with the date until which it lasts

vars == <<now, status, events, ssm, documents, workers, faults, unsaved,
          served>>

Workers == Creators \cup Revokers \cup {Cleaner}

Dates == 0 .. EndOfTime

\* "removed" is a record that was deleted from the table.  A record's name and
\* request never change, so a handler's copy of them is the record's own.
Document == [status : {"unused", "active", "deleted", "removed"},
             name : Names \cup {Nothing}, req : RequestIDs \cup {Nothing},
             expires : Dates]

Unused == [status |-> "unused", name |-> Nothing, req |-> Nothing,
           expires |-> 0]

Steps == {"idle", "read", "lookup", "create", "save", "tag", "extend",
          "find", "next", "delete", "mark", "remove", "revoke"}

Worker == [step : Steps, req : RequestIDs \cup {Nothing},
           doc : DocumentIDs \cup {Nothing}, pending : SUBSET DocumentIDs]

Idle == [step |-> "idle", req |-> Nothing, doc |-> Nothing, pending |-> {}]

ASSUME ConstantsAssumption ==
    /\ EndOfTime \in Nat
    /\ NameOf \in [RequestIDs -> Names]
    /\ ExpiryOf \in [RequestIDs -> Dates]
    /\ Nothing \notin RequestIDs \cup Names \cup DocumentIDs
    /\ Cleaner \notin Creators \cup Revokers
    /\ Creators \cap Revokers = {}
    /\ Faults \in Nat

Init ==
    /\ now = 0
    /\ status = [r \in RequestIDs |-> "open"]
    /\ events = [r \in RequestIDs |-> "none"]
    /\ ssm = {}
    /\ documents = [d \in DocumentIDs |-> Unused]
    /\ workers = [w \in Workers |-> Idle]
    /\ faults = Faults
    /\ unsaved = {}
    /\ served = {}

-------------------------------------------------------------------------------

IsActive(d) == documents[d].status = "active"

\* Records an index of the table can return: status "deleted" included.
Listed(d) == documents[d].status \in {"active", "deleted"}

\* The name the handler in slot w works on.
NameFor(w) ==
    IF w \in Creators THEN NameOf[workers[w].req]
    ELSE documents[workers[w].doc].name

At(w, step) == workers[w].step = step

Go(w, step) == workers' = [workers EXCEPT ![w].step = step]

GoWith(w, step, d) ==
    workers' = [workers EXCEPT ![w].step = step, ![w].doc = d]

\* One call fails, or one invocation is cut short.
Fail == faults > 0 /\ faults' = faults - 1

\* The handler returns: done, or with an error.
Finish(w) == workers' = [workers EXCEPT ![w] = Idle]

\* Its deletion of one document over, successfully or not, the cleanup goes on
\* to the next one.
Continue(w, step) == IF w = Cleaner THEN Go(w, "next") ELSE step

-------------------------------------------------------------------------------
(* What happens around the handlers.                                       *)

Tick ==
    /\ now < EndOfTime
    /\ now' = now + 1
    /\ UNCHANGED <<status, events, ssm, documents, workers, faults,
                   unsaved, served>>

\* A request is approved and its event published; publishing may fail.
Approve(r) ==
    /\ status[r] = "open"
    /\ status' = [status EXCEPT ![r] = "approved"]
    /\ \/ events' = [events EXCEPT ![r] = "published"]
          /\ UNCHANGED faults
       \/ Fail /\ UNCHANGED events
    /\ UNCHANGED <<now, ssm, documents, workers, unsaved, served>>

\* A call fails and the handler returns the error, or the Lambda dies.  The
\* calls whose failure the code handles otherwise come with it below.
Abort(w) ==
    /\ Fail
    /\ ~At(w, "idle")
    /\ Finish(w)
    /\ unsaved' = IF At(w, "save") THEN unsaved \cup ({NameFor(w)} \cap ssm)
                 ELSE unsaved
    /\ UNCHANGED <<now, status, events, ssm, documents, served>>

-------------------------------------------------------------------------------
(* document-creator.                                                       *)

\* The document is there, tell the requester.
Serve(w) == served' = served \cup {workers[w].req}

Begin(w, r) ==
    workers' = [workers EXCEPT ![w] = [Idle EXCEPT !.step = "read", !.req = r]]

\* Lambda delivers the event.
Deliver(w, r) ==
    /\ At(w, "idle")
    /\ events[r] = "published"
    /\ events' = [events EXCEPT ![r] = "delivered"]
    /\ Begin(w, r)
    /\ UNCHANGED <<now, status, ssm, documents, faults, unsaved, served>>

\* Lambda delivers it again, after an error or just so.
Redeliver(w, r) ==
    /\ Fail
    /\ At(w, "idle")
    /\ events[r] = "delivered"
    /\ Begin(w, r)
    /\ UNCHANGED <<now, status, events, ssm, documents, unsaved, served>>

\* Read the request: an error unless it is approved.  (A missing or inactive
\* account is an error too: Abort.)
ReadApproved(w) ==
    /\ At(w, "read")
    /\ IF status[workers[w].req] = "approved"
       THEN Go(w, "lookup")
       ELSE Finish(w)
    /\ UNCHANGED <<now, status, events, ssm, documents, faults, unsaved,
                   served>>

\* CheckExistingDocument: the first record of that name, whatever its status;
\* the index does not say in which order records of one name come.
LookupDocument(w) ==
    LET found == {d \in DocumentIDs :
                     Listed(d) /\ documents[d].name = NameFor(w)}
        expiry == ExpiryOf[workers[w].req] IN
    /\ At(w, "lookup")
    /\ \/ found = {} /\ Go(w, "create") /\ UNCHANGED served
       \/ \E d \in found :
              \/ ~IsActive(d) /\ Go(w, "create") /\ UNCHANGED served
              \/ /\ IsActive(d) /\ expiry > documents[d].expires
                 /\ GoWith(w, "tag", d) /\ UNCHANGED served
              \/ /\ IsActive(d) /\ expiry <= documents[d].expires
                 /\ Finish(w) /\ Serve(w)
    /\ UNCHANGED <<now, status, events, ssm, documents, faults, unsaved>>

\* ssm:CreateDocument refuses a name that exists.
CreateInSSM(w) ==
    /\ At(w, "create")
    /\ IF NameFor(w) \in ssm
       THEN Finish(w) /\ UNCHANGED ssm
       ELSE Go(w, "save") /\ ssm' = ssm \cup {NameFor(w)}
    /\ UNCHANGED <<now, status, events, documents, faults, unsaved,
                   served>>

UnusedIDs == {d \in DocumentIDs : documents[d] = Unused}

\* Save the metadata under a fresh uuid.
SaveDocument(w) ==
    LET fresh == CHOOSE d \in UnusedIDs : TRUE IN
    /\ At(w, "save")
    /\ UnusedIDs # {}
    /\ documents' = [documents EXCEPT ![fresh] =
           [status |-> "active", name |-> NameFor(w), req |-> workers[w].req,
            expires |-> ExpiryOf[workers[w].req]]]
    /\ Finish(w)
    /\ Serve(w)
    /\ UNCHANGED <<now, status, events, ssm, faults, unsaved>>

\* Saving fails: try to delete the document again, and ignore whether it works.
RollBack(w) ==
    /\ Fail
    /\ At(w, "save")
    /\ \/ ssm' = ssm \ {NameFor(w)} /\ unsaved' = unsaved \ {NameFor(w)}
       \/ UNCHANGED ssm /\ unsaved' = unsaved \cup ({NameFor(w)} \cap ssm)
    /\ Finish(w)
    /\ UNCHANGED <<now, status, events, documents, served>>

\* ExtendDocumentExpiration: tag the document, which must exist ...
TagDocument(w) ==
    /\ At(w, "tag")
    /\ IF NameFor(w) \in ssm THEN Go(w, "extend") ELSE Finish(w)
    /\ UNCHANGED <<now, status, events, ssm, documents, faults, unsaved,
                   served>>

\* ... then write the record read in the lookup back with the later date,
\* active as it was then.
SaveExtension(w) ==
    /\ At(w, "extend")
    /\ documents' = [documents EXCEPT
           ![workers[w].doc].status = "active",
           ![workers[w].doc].expires = ExpiryOf[workers[w].req]]
    /\ Finish(w)
    /\ Serve(w)
    /\ UNCHANGED <<now, status, events, ssm, faults, unsaved>>

-------------------------------------------------------------------------------
(* RevokeRequest and expiration-cleanup.                                   *)

\* The administrator's command reads the request and checks it is approved.
StartRevoke(w, r) ==
    /\ At(w, "idle")
    /\ status[r] = "approved"
    /\ workers' = [workers EXCEPT
                       ![w] = [Idle EXCEPT !.step = "find", !.req = r]]
    /\ UNCHANGED <<now, status, events, ssm, documents, faults, unsaved,
                   served>>

\* GetDocumentByRequestID: the first record of the request, if there is one.  A
\* query that fails is taken for none.
FindDocument(w) ==
    LET found == {d \in DocumentIDs :
                     Listed(d) /\ documents[d].req = workers[w].req} IN
    /\ At(w, "find")
    /\ \/ found = {} /\ Go(w, "revoke") /\ UNCHANGED faults
       \/ \E d \in found : GoWith(w, "delete", d) /\ UNCHANGED faults
       \/ Fail /\ Go(w, "revoke")
    /\ UNCHANGED <<now, status, events, ssm, documents, unsaved, served>>

\* Faulty: asks for records whose status says "expired", which none ever does.
Expired_Bug(d) == documents[d].status = "expired" /\ documents[d].expires < now

\* Faulty: takes the last day of access for past.
ExpiredEarly_Bug(d) == IsActive(d) /\ documents[d].expires <= now

\* GetExpiredDocuments.
Expired(d) == IsActive(d) /\ documents[d].expires < now

\* The hourly rule starts the cleanup, which lists what has expired.
StartCleanup ==
    LET expired == {d \in DocumentIDs : Expired(d)} IN
    /\ At(Cleaner, "idle")
    /\ expired # {}
    /\ workers' = [workers EXCEPT ![Cleaner] =
                      [Idle EXCEPT !.step = "next", !.pending = expired]]
    /\ UNCHANGED <<now, status, events, ssm, documents, faults, unsaved,
                   served>>

NextExpired(w) ==
    /\ At(w, "next")
    /\ \/ workers[w].pending = {} /\ Finish(w)
       \/ \E d \in workers[w].pending :
              workers' = [workers EXCEPT ![w].step = "delete", ![w].doc = d,
                                         ![w].pending = @ \ {d}]
    /\ UNCHANGED <<now, status, events, ssm, documents, faults, unsaved,
                   served>>

\* DeleteDocument: delete in AWS, an error when there is no such document ...
DeleteInSSM(w) ==
    /\ At(w, "delete")
    /\ IF NameFor(w) \in ssm
       THEN Go(w, "mark") /\ ssm' = ssm \ {NameFor(w)}
       ELSE Continue(w, Finish(w)) /\ UNCHANGED ssm
    /\ unsaved' = unsaved \ {NameFor(w)}
    /\ UNCHANGED <<now, status, events, documents, faults, served>>

\* Faulty: the update is keyed by the document's name, not by its id.
Marked_Bug(d) ==
    [e \in DocumentIDs |->
        IF documents[e].name = documents[d].name /\ IsActive(e)
        THEN [documents[e] EXCEPT !.status = "deleted"] ELSE documents[e]]

\* Faulty: a status that nothing else in the system uses.
MarkedExpired_Bug(d) == [documents EXCEPT ![d].status = "expired"]

\* The table after UpdateDocumentStatus(d, "deleted").  On a record that is
\* gone the update makes an item of key and status only, which no index lists.
Marked(d) ==
    [documents EXCEPT ![d].status = IF @ = "removed" THEN @ ELSE "deleted"]

\* ... then mark the record deleted.
MarkDeleted(w) ==
    /\ At(w, "mark")
    /\ documents' = Marked(workers[w].doc)
    /\ Continue(w, Go(w, "remove"))
    /\ UNCHANGED <<now, status, events, ssm, faults, unsaved, served>>

\* Deleting or marking one document fails: the cleanup goes on to the next one.
SkipDocument ==
    /\ Fail
    /\ At(Cleaner, "delete") \/ At(Cleaner, "mark")
    /\ Go(Cleaner, "next")
    /\ UNCHANGED <<now, status, events, ssm, documents, unsaved, served>>

\* RevokeRequest also deletes the record; when that fails it goes on.
RemoveRecord(w) ==
    /\ At(w, "remove")
    /\ \/ documents' = [documents EXCEPT ![workers[w].doc].status = "removed"]
          /\ UNCHANGED faults
       \/ Fail /\ UNCHANGED documents
    /\ Go(w, "revoke")
    /\ UNCHANGED <<now, status, events, ssm, unsaved, served>>

\* Save the request as revoked.
SaveRevoked(w) ==
    /\ At(w, "revoke")
    /\ status' = [status EXCEPT ![workers[w].req] = "revoked"]
    /\ Finish(w)
    /\ UNCHANGED <<now, events, ssm, documents, faults, unsaved, served>>

-------------------------------------------------------------------------------

\* The calls Lambda goes on to make once an invocation has started.
Proceed(w) ==
    \/ ReadApproved(w) \/ LookupDocument(w) \/ CreateInSSM(w)
    \/ SaveDocument(w) \/ TagDocument(w) \/ SaveExtension(w)
    \/ FindDocument(w) \/ NextExpired(w) \/ DeleteInSSM(w)
    \/ MarkDeleted(w) \/ RemoveRecord(w) \/ SaveRevoked(w)

Next ==
    \/ Tick
    \/ StartCleanup
    \/ SkipDocument
    \/ \E r \in RequestIDs :
           \/ Approve(r)
           \/ \E w \in Creators : Deliver(w, r) \/ Redeliver(w, r)
           \/ \E w \in Revokers : StartRevoke(w, r)
    \/ \E w \in Workers : Proceed(w) \/ RollBack(w) \/ Abort(w)

Spec == Init /\ [][Next]_vars

\* Time passes, the hourly rule fires, events are delivered, and what Lambda
\* started runs on; nobody has to approve or revoke anything.
Fairness ==
    /\ WF_vars(Tick)
    /\ WF_vars(StartCleanup)
    /\ \A w \in Creators : WF_vars(\E r \in RequestIDs : Deliver(w, r))
    /\ \A w \in Workers : WF_vars(Proceed(w))

FairSpec == Spec /\ Fairness

-------------------------------------------------------------------------------
(* Properties.                                                             *)

TypeOK ==
    /\ now \in Dates
    /\ status \in [RequestIDs -> {"open", "approved", "revoked"}]
    /\ events \in [RequestIDs -> {"none", "published", "delivered"}]
    /\ ssm \subseteq Names
    /\ documents \in [DocumentIDs -> Document]
    /\ workers \in [Workers -> Worker]
    /\ faults \in 0 .. Faults
    /\ unsaved \subseteq ssm
    /\ served \subseteq RequestIDs

Tracked(n) ==
    \/ \E d \in DocumentIDs : IsActive(d) /\ documents[d].name = n
    \/ \E w \in Creators : At(w, "save") /\ NameFor(w) = n

\* Whatever creators, revocations and the cleanup do to each other's documents
\* and records, and wherever they stop, there is one way to lose track of a
\* document: its creator does not get to save it.  Any other that exists has an
\* active record, which the cleanup will list, or is about to have one.
EveryDocumentTracked == \A n \in ssm : Tracked(n) \/ n \in unsaved

\* What a document of request q may be removed for: q has expired, is being
\* revoked, or its creator fails to save the record of what it created.
RemovalDue(q) ==
    \/ ExpiryOf[q] < now
    \/ \E w \in Revokers : At(w, "delete") /\ workers[w].req = q
    \/ \E w \in Creators : At(w, "save") /\ workers[w].req = q

\* Revocations, the cleanup and creators act on records and lists they read some
\* calls ago, which others have changed since; still none of them removes a
\* document but for a request of that document's own name.
RemovedByItsRequests ==
    [][\A n \in ssm \ ssm' :
           \E q \in RequestIDs : NameOf[q] = n /\ RemovalDue(q)]_vars

\* "The SSM document will be automatically deleted": once every access has
\* expired no document stays for ever, however the failures that do happen fall
\* on creators, revocations and the cleanup, unless its creator never got to
\* save it.
ExpiredDocumentsDeleted ==
    \A n \in Names :
        (n \in ssm /\ now = EndOfTime) ~> (n \notin ssm \/ n \in unsaved)

\* "Your access automatically expires on the date you specified", "To extend
\* access, submit a new request": until that date a requester who was told of
\* the document has it, unless that very request is revoked.
AccessLasts ==
    \A r \in served :
        /\ now <= ExpiryOf[r]
        /\ status[r] = "approved"
        /\ \A w \in Revokers : workers[w].req # r
        => NameOf[r] \in ssm

\* What the administrator is told after revoke-request: "The SSM document has
\* been deleted".  (Requests that share a name are left aside.)
RevokedHasNoDocument ==
    \A r \in RequestIDs :
        /\ status[r] = "revoked"
        /\ \A q \in RequestIDs \ {r} : NameOf[q] # NameOf[r]
        => NameOf[r] \notin ssm

===============================================================================

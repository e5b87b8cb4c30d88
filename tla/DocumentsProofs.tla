---------------------------- MODULE DocumentsProofs ----------------------------
(***************************************************************************)
(* Theorems about Documents, for every number of requests, names, records, *)
(* overlapping invocations, repeated events and failing calls.             *)
(*                                                                         *)
(* That a document which exists has an active record is not inductive: a   *)
(* handler about to write "deleted" may hold that very record.  It never   *)
(* does, because whoever holds a record to write so has deleted the        *)
(* document first, and a document that exists now was created after that   *)
(* and has, or will have, a record of its own.                             *)
(***************************************************************************)
EXTENDS Documents, TLAPS

\* The part of TypeOK the invariant needs; faults and served, which no document
\* or record depends on, are left to a lemma of their own.
StateOK ==
    /\ now \in Dates
    /\ status \in [RequestIDs -> {"open", "approved", "revoked"}]
    /\ events \in [RequestIDs -> {"none", "published", "delivered"}]
    /\ ssm \subseteq Names
    /\ documents \in [DocumentIDs -> Document]
    /\ workers \in [Workers -> Worker]
    /\ unsaved \subseteq ssm

CountsOK == faults \in 0 .. Faults /\ served \subseteq RequestIDs

CreatorSteps == {"idle", "read", "lookup", "create", "save", "tag", "extend"}

DeleterSteps == {"idle", "find", "next", "delete", "mark", "remove", "revoke"}

\* What the invocation x in slot w is about, when the table is table.
WorkerSound(w, x, table) ==
    /\ x \in Worker
    /\ w \in Creators =>
           x.step \in CreatorSteps /\ (x.step # "idle" => x.req \in RequestIDs)
    /\ w \notin Creators => x.step \in DeleterSteps
    /\ x.step \in {"tag", "extend", "delete", "mark", "remove"} =>
           x.doc \in DocumentIDs /\ table[x.doc].status # "unused"
    /\ \A d \in x.pending : table[d].status # "unused"

WorkersSound == \A w \in Workers : WorkerSound(w, workers[w], documents)

\* x deleted the document of record d in AWS and will change the record.
WillDrop(x, d) == x.step \in {"mark", "remove"} /\ x.doc = d

\* Record d of a document named n is active, and nobody is about to drop it.
Keeps(d, n) ==
    /\ IsActive(d)
    /\ documents[d].name = n
    /\ \A w \in Workers : ~WillDrop(workers[w], d)

Saving(w, n) == At(w, "save") /\ NameFor(w) = n

Kept(n) ==
    \/ \E d \in DocumentIDs : Keeps(d, n)
    \/ \E w \in Creators : Saving(w, n)

DocumentsKept == \A n \in ssm : Kept(n) \/ n \in unsaved

IInv == StateOK /\ WorkersSound /\ DocumentsKept

\* What a step has to establish about the invocations.
WorkersStaySound ==
    /\ workers' \in [Workers -> Worker]
    /\ WorkersSound'
    /\ DocumentsKept'

-------------------------------------------------------------------------------

\* The invariant holds of the empty system.
LEMMA InitSound == Init => IInv
<1> SUFFICES ASSUME Init PROVE IInv
  OBVIOUS
<1>1. StateOK
  BY ConstantsAssumption
  DEF Init, StateOK, Dates, Document, Unused, Worker, Idle, Steps
<1>2. WorkersSound
  BY DEF Init, WorkersSound, WorkerSound, Worker, Idle, Steps, CreatorSteps,
         DeleterSteps
<1>3. DocumentsKept
  BY DEF Init, DocumentsKept
<1> QED
  BY <1>1, <1>2, <1>3 DEF IInv

\* An invocation that changes nothing but its own state, was not about to save
\* a record and is not about to drop one, keeps every document kept.
LEMMA MoveSound ==
    ASSUME IInv, NEW w \in Workers, NEW x,
           WorkerSound(w, x, documents),
           workers' = [workers EXCEPT ![w] = x],
           ~At(w, "save"),
           x.step \notin {"mark", "remove"},
           UNCHANGED <<ssm, documents, unsaved>>
    PROVE  WorkersStaySound
<1>1. workers' \in [Workers -> Worker]
  BY DEF IInv, StateOK, WorkerSound
<1>2. WorkersSound'
  BY DEF IInv, StateOK, WorkersSound
<1>3. ASSUME NEW d \in DocumentIDs, NEW n, Keeps(d, n)
      PROVE  Keeps(d, n)'
  BY <1>3 DEF Keeps, IsActive, WillDrop, IInv, StateOK
<1>4. ASSUME NEW v \in Creators, NEW n, Saving(v, n)
      PROVE  Saving(v, n)'
  BY <1>4 DEF Saving, At, NameFor, IInv, StateOK, Workers
<1>5. DocumentsKept'
  BY <1>3, <1>4 DEF IInv, DocumentsKept, Kept
<1> QED
  BY <1>1, <1>2, <1>5 DEF WorkersStaySound

\* The return of an invocation that was not about to save a record.
LEMMA FinishSound ==
    ASSUME IInv, NEW w \in Workers, Finish(w), ~At(w, "save"),
           UNCHANGED <<ssm, documents, unsaved>>
    PROVE  WorkersStaySound
<1>1. WorkerSound(w, Idle, documents)
  BY DEF WorkerSound, Idle, Worker, Steps, CreatorSteps, DeleterSteps
<1> QED
  BY <1>1, MoveSound DEF Finish, Idle

-------------------------------------------------------------------------------
(* The actions that change neither a record nor a document.                *)

\* Time and approvals leave documents and records alone.
LEMMA SurroundingStep ==
    ASSUME IInv, Tick \/ \E r \in RequestIDs : Approve(r)
    PROVE  IInv'
<1>1. UNCHANGED <<ssm, documents, workers, unsaved>>
  BY DEF Tick, Approve
<1>2. StateOK'
  BY <1>1, ConstantsAssumption DEF IInv, StateOK, Tick, Approve, Dates
<1>3. WorkersSound'
  BY <1>1 DEF IInv, WorkersSound
<1>4. DocumentsKept'
  BY <1>1 DEF IInv, DocumentsKept, Kept, Keeps, IsActive, Saving, At, NameFor
<1> QED
  BY <1>2, <1>3, <1>4 DEF IInv

\* An invocation that starts holds nothing yet.
LEMMA StartStep ==
    ASSUME IInv, NEW w \in Workers, NEW r \in RequestIDs,
           \/ w \in Creators /\ (Deliver(w, r) \/ Redeliver(w, r))
           \/ w \in Revokers /\ StartRevoke(w, r)
    PROVE  IInv'
<1> DEFINE read == [Idle EXCEPT !.step = "read", !.req = r]
           find == [Idle EXCEPT !.step = "find", !.req = r]
<1>1. CASE w \in Creators /\ (Deliver(w, r) \/ Redeliver(w, r))
  <2>1. WorkerSound(w, read, documents) /\ read.step = "read"
    BY <1>1 DEF WorkerSound, Idle, Worker, Steps, CreatorSteps
  <2>2. UNCHANGED <<now, status, ssm, documents, unsaved>>
    BY <1>1 DEF Deliver, Redeliver
  <2>3. events' \in [RequestIDs -> {"none", "published", "delivered"}]
    BY <1>1 DEF Deliver, Redeliver, IInv, StateOK
  <2>4. WorkersStaySound
    <3>1. ~At(w, "save") /\ workers' = [workers EXCEPT ![w] = read]
      BY <1>1 DEF Deliver, Redeliver, Begin, At
    <3> HIDE DEF read
    <3> QED
      BY <2>1, <2>2, <3>1, MoveSound
  <2> QED
    BY <2>2, <2>3, <2>4 DEF IInv, StateOK, WorkersStaySound
<1>2. CASE w \in Revokers /\ StartRevoke(w, r)
  <2>1. WorkerSound(w, find, documents) /\ find.step = "find"
    BY <1>2, ConstantsAssumption
    DEF WorkerSound, Idle, Worker, Steps, DeleterSteps
  <2>2. UNCHANGED <<now, status, events, ssm, documents, unsaved>>
    BY <1>2 DEF StartRevoke
  <2>3. WorkersStaySound
    <3>1. ~At(w, "save") /\ workers' = [workers EXCEPT ![w] = find]
      BY <1>2 DEF StartRevoke, At
    <3> HIDE DEF find
    <3> QED
      BY <2>1, <2>2, <3>1, MoveSound
  <2> QED
    BY <2>2, <2>3 DEF IInv, StateOK, WorkersStaySound
<1> QED
  BY <1>1, <1>2

\* A worker's slot as its record.
LEMMA SlotSound ==
    ASSUME IInv, NEW w \in Workers
    PROVE  WorkerSound(w, workers[w], documents) /\ workers[w] \in Worker
BY DEF IInv, WorkersSound, WorkerSound

\* A creator reads, looks up and tags.
LEMMA CreatorReadsStep ==
    ASSUME IInv, NEW w \in Workers,
           ReadApproved(w) \/ LookupDocument(w) \/ TagDocument(w)
    PROVE  IInv'
<1>1. UNCHANGED <<now, status, events, ssm, documents, unsaved>>
  BY DEF ReadApproved, LookupDocument, TagDocument
<1>2. ~At(w, "save") /\ workers[w].step \in {"read", "lookup", "tag"}
  BY DEF ReadApproved, LookupDocument, TagDocument, At
<1>3. w \in Creators /\ workers[w].req \in RequestIDs
  BY <1>2, SlotSound DEF WorkerSound, DeleterSteps
<1>4. WorkersStaySound
  <2>1. CASE Finish(w)
    BY <1>1, <1>2, <2>1, FinishSound
  <2>2. ASSUME NEW s \in {"lookup", "create"}, Go(w, s)
        PROVE  WorkersStaySound
    <3> DEFINE x == [workers[w] EXCEPT !.step = s]
    <3>1. WorkerSound(w, x, documents) /\ x.step = s
      BY <1>3, SlotSound DEF WorkerSound, Worker, Steps, CreatorSteps
    <3>2. workers' = [workers EXCEPT ![w] = x]
      BY <2>2 DEF Go, IInv, StateOK
    <3> HIDE DEF x
    <3> QED
      BY <1>1, <1>2, <3>1, <3>2, MoveSound
  <2>3. ASSUME NEW d \in DocumentIDs, Listed(d), GoWith(w, "tag", d)
        PROVE  WorkersStaySound
    <3> DEFINE x == [workers[w] EXCEPT !.step = "tag", !.doc = d]
    <3>1. WorkerSound(w, x, documents) /\ x.step = "tag"
      BY <1>3, <2>3, SlotSound
      DEF WorkerSound, Worker, Steps, CreatorSteps, Listed
    <3>2. workers' = [workers EXCEPT ![w] = x]
      BY <2>3 DEF GoWith, IInv, StateOK
    <3> HIDE DEF x
    <3> QED
      BY <1>1, <1>2, <3>1, <3>2, MoveSound
  <2>4. CASE TagDocument(w) /\ Go(w, "extend")
    <3> DEFINE x == [workers[w] EXCEPT !.step = "extend"]
    <3>1. WorkerSound(w, x, documents) /\ x.step = "extend"
      BY <1>3, <2>4, SlotSound
      DEF WorkerSound, Worker, Steps, CreatorSteps, TagDocument, At
    <3>2. workers' = [workers EXCEPT ![w] = x]
      BY <2>4 DEF Go, IInv, StateOK
    <3> HIDE DEF x
    <3> QED
      BY <1>1, <1>2, <3>1, <3>2, MoveSound
  <2> QED
    BY <2>1, <2>2, <2>3, <2>4
    DEF ReadApproved, LookupDocument, TagDocument, Listed, IsActive
<1> QED
  BY <1>1, <1>4 DEF IInv, StateOK, WorkersStaySound

\* A revocation or the cleanup reads, goes on to a record, or is over.
LEMMA DeleterReadsStep ==
    ASSUME IInv, NEW w \in Workers,
           \/ FindDocument(w) \/ NextExpired(w) \/ SaveRevoked(w)
           \/ w = Cleaner /\ StartCleanup
    PROVE  IInv'
<1>1. UNCHANGED <<now, events, ssm, documents, unsaved>>
  BY DEF FindDocument, NextExpired, SaveRevoked, StartCleanup
<1>2. /\ ~At(w, "save")
      /\ w \notin Creators
  BY SlotSound, ConstantsAssumption
  DEF FindDocument, NextExpired, SaveRevoked, StartCleanup, At, WorkerSound,
      CreatorSteps
<1>3. status' \in [RequestIDs -> {"open", "approved", "revoked"}]
  BY DEF IInv, StateOK, FindDocument, NextExpired, SaveRevoked, StartCleanup
<1>4. WorkersStaySound
  <2>1. CASE Finish(w)
    BY <1>1, <1>2, <2>1, FinishSound
  <2>2. CASE Go(w, "revoke")
    <3> DEFINE x == [workers[w] EXCEPT !.step = "revoke"]
    <3>1. WorkerSound(w, x, documents) /\ x.step = "revoke"
      BY <1>2, SlotSound DEF WorkerSound, Worker, Steps, DeleterSteps
    <3>2. workers' = [workers EXCEPT ![w] = x]
      BY <2>2 DEF Go, IInv, StateOK
    <3> HIDE DEF x
    <3> QED
      BY <1>1, <1>2, <3>1, <3>2, MoveSound
  <2>3. ASSUME NEW d \in DocumentIDs, Listed(d), GoWith(w, "delete", d)
        PROVE  WorkersStaySound
    <3> DEFINE x == [workers[w] EXCEPT !.step = "delete", !.doc = d]
    <3>1. WorkerSound(w, x, documents) /\ x.step = "delete"
      BY <1>2, <2>3, SlotSound
      DEF WorkerSound, Worker, Steps, DeleterSteps, Listed
    <3>2. workers' = [workers EXCEPT ![w] = x]
      BY <2>3 DEF GoWith, IInv, StateOK
    <3> HIDE DEF x
    <3> QED
      BY <1>1, <1>2, <3>1, <3>2, MoveSound
  <2>4. ASSUME NEW d \in workers[w].pending,
               workers' = [workers EXCEPT ![w].step = "delete", ![w].doc = d,
                                          ![w].pending = @ \ {d}]
        PROVE  WorkersStaySound
    <3> DEFINE x == [workers[w] EXCEPT !.step = "delete", !.doc = d,
                                       !.pending = @ \ {d}]
    <3>1. WorkerSound(w, x, documents) /\ x.step = "delete"
      BY <1>2, SlotSound DEF WorkerSound, Worker, Steps, DeleterSteps
    <3>2. workers' = [workers EXCEPT ![w] = x]
      BY <2>4 DEF IInv, StateOK
    <3> HIDE DEF x
    <3> QED
      BY <1>1, <1>2, <3>1, <3>2, MoveSound
  <2>5. CASE w = Cleaner /\ StartCleanup
    <3> DEFINE x == [Idle EXCEPT !.step = "next",
                                 !.pending = {d \in DocumentIDs : Expired(d)}]
    <3>1. WorkerSound(w, x, documents) /\ x.step = "next"
      BY <1>2
      DEF WorkerSound, Worker, Steps, DeleterSteps, Idle, Expired, IsActive
    <3>2. workers' = [workers EXCEPT ![w] = x]
      BY <2>5 DEF StartCleanup
    <3> HIDE DEF x
    <3> QED
      BY <1>1, <1>2, <3>1, <3>2, MoveSound
  <2> QED
    BY <2>1, <2>2, <2>3, <2>4, <2>5
    DEF FindDocument, NextExpired, SaveRevoked
<1> QED
  BY <1>1, <1>3, <1>4 DEF IInv, StateOK, WorkersStaySound

-------------------------------------------------------------------------------
(* The actions of a creator that change a record or a document.            *)

\* The document a creator makes is the one it is about to save.
LEMMA CreateStep ==
    ASSUME IInv, NEW w \in Workers, CreateInSSM(w)
    PROVE  IInv'
<1> DEFINE x == [workers[w] EXCEPT !.step = "save"]
           n == NameFor(w)
<1>1. workers[w].step = "create" /\ ~At(w, "save")
  BY DEF CreateInSSM, At
<1>2. w \in Creators /\ workers[w].req \in RequestIDs
  BY <1>1, SlotSound DEF WorkerSound, DeleterSteps
<1>3. UNCHANGED <<now, status, events, documents, unsaved>>
  BY DEF CreateInSSM
<1>4. CASE n \in ssm
  <2>1. Finish(w) /\ UNCHANGED ssm
    BY <1>4 DEF CreateInSSM
  <2>2. WorkersStaySound
    BY <1>1, <1>3, <2>1, FinishSound
  <2> QED
    BY <1>3, <2>1, <2>2 DEF IInv, StateOK, WorkersStaySound
<1>5. CASE n \notin ssm
  <2>1. workers' = [workers EXCEPT ![w] = x] /\ ssm' = ssm \cup {n}
    BY <1>5 DEF CreateInSSM, Go, IInv, StateOK
  <2>2. WorkerSound(w, x, documents)
    BY <1>2, SlotSound DEF WorkerSound, Worker, Steps, CreatorSteps
  <2>3. StateOK' /\ WorkersSound'
    <3>1. n \in Names
      BY <1>2, ConstantsAssumption DEF NameFor
    <3>2. workers' \in [Workers -> Worker]
      BY <2>1, <2>2 DEF IInv, StateOK, WorkerSound
    <3> HIDE DEF x, n
    <3> QED
      BY <1>3, <2>1, <2>2, <3>1, <3>2 DEF IInv, StateOK, WorkersSound
  <2>4. ASSUME NEW m, m = n
        PROVE  Saving(w, m)'
    BY <1>2, <2>1, <2>4 DEF Saving, At, NameFor, IInv, StateOK
  <2>5. ASSUME NEW d \in DocumentIDs, NEW m, Keeps(d, m)
        PROVE  Keeps(d, m)'
    BY <1>3, <2>1, <2>5 DEF Keeps, IsActive, WillDrop, IInv, StateOK
  <2>6. ASSUME NEW v \in Creators, NEW m, Saving(v, m)
        PROVE  Saving(v, m)'
    BY <1>1, <2>1, <2>6 DEF Saving, At, NameFor, IInv, StateOK, Workers
  <2>7. DocumentsKept'
    <3>1. ASSUME NEW m \in ssm' PROVE Kept(m)' \/ m \in unsaved
      <4>1. CASE m = n
        BY <1>2, <2>4, <4>1 DEF Kept
      <4>2. CASE m \in ssm
        BY <2>5, <2>6, <4>2 DEF IInv, DocumentsKept, Kept
      <4> QED
        BY <2>1, <3>1, <4>1, <4>2
    <3> QED
      BY <1>3, <3>1 DEF DocumentsKept
  <2> QED
    BY <2>3, <2>7 DEF IInv
<1> QED
  BY <1>4, <1>5

\* A record nobody has used becomes the record of the saved document.
LEMMA SaveStep ==
    ASSUME IInv, NEW w \in Workers, SaveDocument(w)
    PROVE  IInv'
<1>1. PICK d \in DocumentIDs :
          /\ documents[d] = Unused
          /\ documents' = [documents EXCEPT ![d] =
                 [status |-> "active", name |-> NameFor(w),
                  req |-> workers[w].req,
                  expires |-> ExpiryOf[workers[w].req]]]
  <2>1. (CHOOSE d \in UnusedIDs : TRUE) \in UnusedIDs
    BY DEF SaveDocument
  <2> QED
    BY <2>1 DEF SaveDocument, UnusedIDs
<1>2. workers[w].step = "save" /\ workers' = [workers EXCEPT ![w] = Idle]
  BY DEF SaveDocument, At, Finish
<1>3. UNCHANGED <<now, status, events, ssm, unsaved>>
  BY DEF SaveDocument
<1>4. w \in Creators /\ workers[w].req \in RequestIDs
  BY <1>2, SlotSound DEF WorkerSound, DeleterSteps
<1>5. documents[d].status = "unused"
  BY <1>1 DEF Unused
<1>6. StateOK'
  <2>1. documents' \in [DocumentIDs -> Document]
    BY <1>1, <1>4, ConstantsAssumption
    DEF IInv, StateOK, Document, NameFor
  <2>2. workers' \in [Workers -> Worker]
    BY <1>2 DEF IInv, StateOK, Worker, Idle, Steps
  <2> QED
    BY <1>3, <2>1, <2>2 DEF IInv, StateOK
<1>7. ASSUME NEW e \in DocumentIDs, documents[e].status # "unused"
      PROVE  documents'[e] = documents[e]
  BY <1>1, <1>5, <1>7 DEF IInv, StateOK
<1>8. WorkersSound'
  <2>1. WorkerSound(w, Idle, documents')
    BY DEF WorkerSound, Idle, Worker, Steps, CreatorSteps, DeleterSteps
  <2>2. ASSUME NEW v \in Workers PROVE WorkerSound(v, workers[v], documents')
    <3>1. WorkerSound(v, workers[v], documents) /\ workers[v] \in Worker
      BY SlotSound
    <3> QED
      BY <1>7, <3>1 DEF WorkerSound, Worker
  <2> QED
    BY <1>2, <2>1, <2>2 DEF IInv, StateOK, WorkersSound
<1>9. ASSUME NEW e \in DocumentIDs, NEW m, Keeps(e, m)
      PROVE  Keeps(e, m)'
  <2>1. documents'[e] = documents[e]
    BY <1>7, <1>9 DEF Keeps, IsActive
  <2> QED
    BY <1>2, <1>9, <2>1 DEF Keeps, IsActive, WillDrop, Idle, IInv, StateOK
<1>10. ASSUME NEW m, m = NameFor(w)
       PROVE  Keeps(d, m)'
  <2>1. \A v \in Workers : ~WillDrop(workers[v], d)
    BY <1>5, SlotSound DEF WillDrop, WorkerSound
  <2>2. \A v \in Workers : ~WillDrop(workers'[v], d)
    BY <1>2, <2>1 DEF WillDrop, Idle, IInv, StateOK
  <2>3. documents'[d].status = "active" /\ documents'[d].name = m
    BY <1>1, <1>10 DEF IInv, StateOK
  <2> QED
    BY <2>2, <2>3 DEF Keeps, IsActive
<1>11. ASSUME NEW v \in Creators, NEW m, Saving(v, m)
       PROVE  v = w \/ Saving(v, m)'
  BY <1>2, <1>11 DEF Saving, At, NameFor, IInv, StateOK, Workers
<1>12. DocumentsKept'
  <2>1. ASSUME NEW m \in ssm PROVE Kept(m)' \/ m \in unsaved
    <3>1. ASSUME NEW v \in Creators, Saving(v, m) PROVE Kept(m)'
      BY <1>4, <1>10, <1>11, <3>1 DEF Kept, Saving
    <3> QED
      BY <1>9, <2>1, <3>1 DEF IInv, DocumentsKept, Kept
  <2> QED
    BY <1>3, <2>1 DEF DocumentsKept
<1> QED
  BY <1>6, <1>8, <1>12 DEF IInv

\* A record written back as it was read stays, or becomes, active.
LEMMA ExtendStep ==
    ASSUME IInv, NEW w \in Workers, SaveExtension(w)
    PROVE  IInv'
<1> DEFINE d == workers[w].doc
<1>1. documents' = [documents EXCEPT
          ![d].status = "active", ![d].expires = ExpiryOf[workers[w].req]]
  BY DEF SaveExtension
<1>2. workers[w].step = "extend" /\ workers' = [workers EXCEPT ![w] = Idle]
  BY DEF SaveExtension, At, Finish
<1>3. UNCHANGED <<now, status, events, ssm, unsaved>>
  BY DEF SaveExtension
<1>4. /\ workers[w].req \in RequestIDs
      /\ d \in DocumentIDs
  BY <1>2, SlotSound DEF WorkerSound, DeleterSteps
<1> HIDE DEF d
<1>5. StateOK'
  <2>1. documents' \in [DocumentIDs -> Document]
    <3>1. ExpiryOf[workers[w].req] \in Dates
      BY <1>4, ConstantsAssumption
    <3> DEFINE written == [documents[d] EXCEPT
            !.status = "active", !.expires = ExpiryOf[workers[w].req]]
    <3>2. documents[d] \in Document
      BY <1>4 DEF IInv, StateOK
    <3>3. written \in Document
      BY <3>1, <3>2 DEF Document
    <3>4. documents' = [documents EXCEPT ![d] = written]
      BY <1>1, <1>4 DEF IInv, StateOK
    <3> HIDE DEF written
    <3> QED
      BY <1>4, <3>3, <3>4 DEF IInv, StateOK
  <2>2. workers' \in [Workers -> Worker]
    BY <1>2 DEF IInv, StateOK, Worker, Idle, Steps
  <2> QED
    BY <1>3, <2>1, <2>2 DEF IInv, StateOK
<1>6. ASSUME NEW e \in DocumentIDs
      PROVE  /\ documents'[e].name = documents[e].name
             /\ documents[e].status # "unused" =>
                    documents'[e].status # "unused"
             /\ documents[e].status = "active" =>
                    documents'[e].status = "active"
  BY <1>1, <1>4 DEF IInv, StateOK, Document
<1>7. WorkersSound'
  <2>1. WorkerSound(w, Idle, documents')
    BY DEF WorkerSound, Idle, Worker, Steps, CreatorSteps, DeleterSteps
  <2>2. ASSUME NEW v \in Workers PROVE WorkerSound(v, workers[v], documents')
    <3>1. WorkerSound(v, workers[v], documents) /\ workers[v] \in Worker
      BY SlotSound
    <3> QED
      BY <1>6, <3>1 DEF WorkerSound, Worker
  <2> QED
    BY <1>2, <2>1, <2>2 DEF IInv, StateOK, WorkersSound
<1>8. ASSUME NEW e \in DocumentIDs, NEW m, Keeps(e, m)
      PROVE  Keeps(e, m)'
  BY <1>2, <1>6, <1>8 DEF Keeps, IsActive, WillDrop, Idle, IInv, StateOK
<1>9. ASSUME NEW v \in Creators, NEW m, Saving(v, m)
      PROVE  Saving(v, m)'
  BY <1>2, <1>9 DEF Saving, At, NameFor, IInv, StateOK, Workers
<1>10. DocumentsKept'
  BY <1>3, <1>8, <1>9 DEF IInv, DocumentsKept, Kept
<1> QED
  BY <1>5, <1>7, <1>10 DEF IInv

\* A creator that stops before it saves leaves its document among the unsaved.
LEMMA StopStep ==
    ASSUME IInv, NEW w \in Workers, RollBack(w) \/ Abort(w)
    PROVE  IInv'
<1> DEFINE n == NameFor(w)
<1>1. UNCHANGED <<now, status, events, documents>> /\ Finish(w)
  BY DEF RollBack, Abort
<1>2. CASE ~At(w, "save")
  <2>1. UNCHANGED <<ssm, unsaved>>
    BY <1>2 DEF RollBack, Abort
  <2> QED
    BY <1>1, <1>2, <2>1, FinishSound DEF IInv, StateOK, WorkersStaySound
<1>3. CASE At(w, "save")
  <2>1. \/ ssm' = ssm \ {n} /\ unsaved' = unsaved \ {n}
        \/ ssm' = ssm /\ unsaved' = unsaved \cup ({n} \cap ssm)
    BY <1>3 DEF RollBack, Abort
  <2>2. workers' = [workers EXCEPT ![w] = Idle]
    BY <1>1 DEF Finish
  <2>3. StateOK'
    <3>1. workers' \in [Workers -> Worker]
      BY <2>2 DEF IInv, StateOK, Worker, Idle, Steps
    <3> HIDE DEF n
    <3> QED
      BY <1>1, <2>1, <3>1 DEF IInv, StateOK
  <2>4. WorkersSound'
    <3>1. WorkerSound(w, Idle, documents)
      BY DEF WorkerSound, Idle, Worker, Steps, CreatorSteps, DeleterSteps
    <3> QED
      BY <1>1, <2>2, <3>1 DEF IInv, StateOK, WorkersSound
  <2>5. ASSUME NEW d \in DocumentIDs, NEW m, Keeps(d, m)
        PROVE  Keeps(d, m)'
    BY <1>1, <2>2, <2>5 DEF Keeps, IsActive, WillDrop, Idle, IInv, StateOK
  <2>6. ASSUME NEW v \in Creators, NEW m, Saving(v, m)
        PROVE  (v = w /\ m = n) \/ Saving(v, m)'
    BY <2>2, <2>6 DEF Saving, At, NameFor, IInv, StateOK, Workers
  <2>7. DocumentsKept'
    <3>1. ASSUME NEW m \in ssm' PROVE Kept(m)' \/ m \in unsaved'
      <4>1. m \in ssm
        BY <2>1, <3>1
      <4>2. CASE m = n
        BY <2>1, <3>1, <4>1, <4>2
      <4>3. CASE m # n /\ m \in unsaved
        BY <2>1, <4>3
      <4>4. CASE m # n /\ Kept(m)
        BY <2>5, <2>6, <4>4 DEF Kept
      <4> QED
        BY <4>1, <4>2, <4>3, <4>4 DEF IInv, DocumentsKept
    <3> QED
      BY <3>1 DEF DocumentsKept
  <2> QED
    BY <2>3, <2>4, <2>7 DEF IInv
<1> QED
  BY <1>2, <1>3

-------------------------------------------------------------------------------
(* The actions of a revocation and the cleanup that delete.                *)

\* A document that is deleted leaves the others their records, since these
\* have other names.
LEMMA DeleteStep ==
    ASSUME IInv, NEW w \in Workers, DeleteInSSM(w)
    PROVE  IInv'
<1> DEFINE n == NameFor(w)
           d == workers[w].doc
           x == [workers[w] EXCEPT !.step = "mark"]
<1>1. UNCHANGED <<now, status, events, documents>>
  BY DEF DeleteInSSM
<1>2. workers[w].step = "delete" /\ ~At(w, "save")
  BY DEF DeleteInSSM, At
<1>3. /\ w \notin Creators
      /\ d \in DocumentIDs
      /\ documents[d].status # "unused"
      /\ n = documents[d].name
  BY <1>2, SlotSound DEF WorkerSound, CreatorSteps, NameFor
<1>4. unsaved' = unsaved \ {n}
  BY DEF DeleteInSSM
<1>5. CASE n \notin ssm
  <2>1. UNCHANGED <<ssm, unsaved>>
    BY <1>4, <1>5 DEF DeleteInSSM, IInv, StateOK
  <2>2. WorkersStaySound
    <3>1. CASE Finish(w)
      BY <1>1, <1>2, <2>1, <3>1, FinishSound
    <3>2. CASE Go(w, "next")
      <4> DEFINE y == [workers[w] EXCEPT !.step = "next"]
      <4>1. WorkerSound(w, y, documents) /\ y.step = "next"
        BY <1>3, SlotSound DEF WorkerSound, Worker, Steps, DeleterSteps
      <4>2. workers' = [workers EXCEPT ![w] = y]
        BY <3>2 DEF Go, IInv, StateOK
      <4> HIDE DEF y
      <4> QED
        BY <1>1, <1>2, <2>1, <4>1, <4>2, MoveSound
    <3> QED
      BY <1>5, <3>1, <3>2 DEF DeleteInSSM, Continue
  <2> QED
    BY <1>1, <2>1, <2>2 DEF IInv, StateOK, WorkersStaySound
<1>6. CASE n \in ssm
  <2>1. workers' = [workers EXCEPT ![w] = x] /\ ssm' = ssm \ {n}
    BY <1>6 DEF DeleteInSSM, Go, IInv, StateOK
  <2>2. WorkerSound(w, x, documents)
    BY <1>3, SlotSound DEF WorkerSound, Worker, Steps, DeleterSteps
  <2>3. x.doc = d
    BY SlotSound DEF Worker
  <2> HIDE DEF x, n, d
  <2>4. StateOK'
    <3>1. workers' \in [Workers -> Worker]
      BY <2>1, <2>2 DEF IInv, StateOK, WorkerSound
    <3> QED
      BY <1>1, <1>4, <2>1, <3>1 DEF IInv, StateOK
  <2>5. WorkersSound'
    BY <1>1, <2>1, <2>2 DEF IInv, StateOK, WorkersSound
  <2>6. ASSUME NEW e \in DocumentIDs, NEW m, m # n, Keeps(e, m)
        PROVE  Keeps(e, m)'
    <3>1. e # d
      BY <1>3, <2>6 DEF Keeps
    <3>2. \A v \in Workers : ~WillDrop(workers'[v], e)
      BY <2>1, <2>3, <2>6, <3>1 DEF Keeps, WillDrop, IInv, StateOK
    <3> QED
      BY <1>1, <2>6, <3>2 DEF Keeps, IsActive
  <2>7. ASSUME NEW v \in Creators, NEW m, Saving(v, m)
        PROVE  Saving(v, m)'
    BY <1>3, <2>1, <2>7 DEF Saving, At, NameFor, IInv, StateOK, Workers
  <2>8. DocumentsKept'
    <3>1. ASSUME NEW m \in ssm' PROVE Kept(m)' \/ m \in unsaved'
      <4>1. m \in ssm /\ m # n
        BY <2>1, <3>1
      <4> QED
        BY <1>4, <2>6, <2>7, <4>1 DEF IInv, DocumentsKept, Kept
    <3> QED
      BY <3>1 DEF DocumentsKept
  <2> QED
    BY <2>4, <2>5, <2>8 DEF IInv
<1> QED
  BY <1>5, <1>6

\* No document that exists relies on a record that is dropped.
LEMMA DropStep ==
    ASSUME IInv, NEW w \in Workers, MarkDeleted(w) \/ RemoveRecord(w)
    PROVE  IInv'
<1> DEFINE d == workers[w].doc
<1>1. UNCHANGED <<now, status, events, ssm, unsaved>>
  BY DEF MarkDeleted, RemoveRecord
<1>2. workers[w].step \in {"mark", "remove"}
  BY DEF MarkDeleted, RemoveRecord, At
<1>3. /\ w \notin Creators
      /\ d \in DocumentIDs
      /\ documents[d].status # "unused"
  BY <1>2, SlotSound DEF WorkerSound, CreatorSteps
<1>4. PICK s \in {"next", "remove", "revoke"} : Go(w, s)
  BY DEF MarkDeleted, RemoveRecord, Continue
<1> DEFINE x == [workers[w] EXCEPT !.step = s]
<1>5. workers' = [workers EXCEPT ![w] = x] /\ x.doc = d /\ x.step = s
  BY <1>4, SlotSound DEF Go, IInv, StateOK, Worker
<1>6. /\ documents' \in [DocumentIDs -> Document]
      /\ documents'[d].status # "unused"
      /\ \A e \in DocumentIDs \ {d} : documents'[e] = documents[e]
  <2>1. CASE MarkDeleted(w)
    BY <1>3, <2>1 DEF MarkDeleted, Marked, IInv, StateOK, Document
  <2>2. CASE RemoveRecord(w)
    BY <1>3, <2>2 DEF RemoveRecord, IInv, StateOK, Document
  <2> QED
    BY <2>1, <2>2
<1>7. WorkerSound(w, x, documents')
  BY <1>2, <1>3, <1>4, <1>6, SlotSound
  DEF WorkerSound, Worker, Steps, DeleterSteps
<1> HIDE DEF x, d
<1>8. StateOK'
  <2>1. workers' \in [Workers -> Worker]
    BY <1>5, <1>7 DEF IInv, StateOK, WorkerSound
  <2> QED
    BY <1>1, <1>6, <2>1 DEF IInv, StateOK
<1>9. WorkersSound'
  <2>1. ASSUME NEW v \in Workers PROVE WorkerSound(v, workers[v], documents')
    <3>1. WorkerSound(v, workers[v], documents) /\ workers[v] \in Worker
      BY SlotSound
    <3> QED
      BY <1>6, <3>1 DEF WorkerSound, Worker
  <2> QED
    BY <1>5, <1>7, <2>1 DEF IInv, StateOK, WorkersSound
<1>10. ASSUME NEW e \in DocumentIDs, NEW m, Keeps(e, m)
       PROVE  Keeps(e, m)'
  <2>1. e # d
    BY <1>2, <1>10 DEF Keeps, WillDrop, d
  <2>2. \A v \in Workers : ~WillDrop(workers'[v], e)
    BY <1>5, <1>10, <2>1 DEF Keeps, WillDrop, IInv, StateOK
  <2> QED
    BY <1>6, <1>10, <2>1, <2>2 DEF Keeps, IsActive
<1>11. ASSUME NEW v \in Creators, NEW m, Saving(v, m)
       PROVE  Saving(v, m)'
  BY <1>3, <1>5, <1>11 DEF Saving, At, NameFor, IInv, StateOK, Workers
<1>12. DocumentsKept'
  BY <1>1, <1>10, <1>11 DEF IInv, DocumentsKept, Kept
<1> QED
  BY <1>8, <1>9, <1>12 DEF IInv

\* The cleanup leaves the document whose deletion failed for the next time.
LEMMA SkipStep ==
    ASSUME IInv, SkipDocument
    PROVE  IInv'
<1> DEFINE x == [workers[Cleaner] EXCEPT !.step = "next"]
<1>1. UNCHANGED <<now, status, events, ssm, documents, unsaved>>
  BY DEF SkipDocument
<1>2. Cleaner \in Workers /\ Cleaner \notin Creators
  BY ConstantsAssumption DEF Workers
<1>3. ~At(Cleaner, "save")
  BY DEF SkipDocument, At
<1>4. WorkerSound(Cleaner, x, documents) /\ x.step = "next"
  BY <1>2, SlotSound DEF WorkerSound, Worker, Steps, DeleterSteps
<1>5. workers' = [workers EXCEPT ![Cleaner] = x]
  BY <1>2 DEF SkipDocument, Go, IInv, StateOK
<1> HIDE DEF x
<1>6. WorkersStaySound
  BY <1>1, <1>2, <1>3, <1>4, <1>5, MoveSound
<1> QED
  BY <1>1, <1>6 DEF IInv, StateOK, WorkersStaySound

\* Failures are counted down, and only requests are served.
LEMMA CountsStep ==
    ASSUME IInv, CountsOK, [Next]_vars
    PROVE  CountsOK'
<1> USE ConstantsAssumption DEF CountsOK
<1>1. CASE UNCHANGED <<faults, served>>
  BY <1>1
<1>2. CASE Fail /\ UNCHANGED served
  BY <1>2 DEF Fail
<1>3. ASSUME NEW w \in Workers, UNCHANGED faults, Serve(w), ~At(w, "idle"),
             w \in Creators
      PROVE  CountsOK'
  <2>1. workers[w].req \in RequestIDs
    BY <1>3, SlotSound DEF At, WorkerSound
  <2> QED
    BY <1>3, <2>1 DEF Serve
<1>4. ASSUME NEW w \in Workers, Proceed(w)
      PROVE  \/ UNCHANGED <<faults, served>>
             \/ Fail /\ UNCHANGED served
             \/ UNCHANGED faults /\ Serve(w) /\ ~At(w, "idle") /\ w \in Creators
  <2>1. CASE LookupDocument(w) \/ SaveDocument(w) \/ SaveExtension(w)
    <3>1. workers[w].step \in {"lookup", "save", "extend"}
      BY <2>1 DEF LookupDocument, SaveDocument, SaveExtension, At
    <3>2. w \in Creators /\ ~At(w, "idle")
      BY <3>1, SlotSound DEF WorkerSound, DeleterSteps, At
    <3> QED
      BY <2>1, <3>2 DEF LookupDocument, SaveDocument, SaveExtension
  <2>2. CASE FindDocument(w) \/ RemoveRecord(w)
    BY <2>2 DEF FindDocument, RemoveRecord
  <2>3. CASE \/ ReadApproved(w) \/ CreateInSSM(w) \/ TagDocument(w)
             \/ NextExpired(w) \/ DeleteInSSM(w) \/ MarkDeleted(w)
             \/ SaveRevoked(w)
    BY <2>3 DEF ReadApproved, CreateInSSM, TagDocument, NextExpired,
                DeleteInSSM, MarkDeleted, SaveRevoked
  <2> QED
    BY <1>4, <2>1, <2>2, <2>3 DEF Proceed
<1>5. CASE UNCHANGED vars
  BY <1>5 DEF vars
<1>6. CASE Tick \/ StartCleanup \/ SkipDocument
  BY <1>1, <1>2, <1>6 DEF Tick, StartCleanup, SkipDocument
<1>7. ASSUME NEW r \in RequestIDs,
             \/ Approve(r)
             \/ \E w \in Creators : Deliver(w, r) \/ Redeliver(w, r)
             \/ \E w \in Revokers : StartRevoke(w, r)
      PROVE  CountsOK'
  BY <1>1, <1>2, <1>7 DEF Approve, Deliver, Redeliver, StartRevoke
<1>8. ASSUME NEW w \in Workers, RollBack(w) \/ Abort(w)
      PROVE  CountsOK'
  BY <1>2, <1>8 DEF RollBack, Abort
<1> QED
  BY <1>1, <1>2, <1>3, <1>4, <1>5, <1>6, <1>7, <1>8 DEF Next

-------------------------------------------------------------------------------
(* The theorems.                                                           *)

\* Every step preserves the invariant.
LEMMA StepSound == IInv /\ [Next]_vars => IInv'
<1> SUFFICES ASSUME IInv, [Next]_vars PROVE IInv'
  OBVIOUS
<1>1. CASE UNCHANGED vars
  BY <1>1
  DEF vars, IInv, StateOK, WorkersSound, DocumentsKept, Kept, Keeps, IsActive,
      Saving, At, NameFor
<1>2. CASE Tick
  BY <1>2, SurroundingStep
<1>3. CASE StartCleanup
  BY <1>3, DeleterReadsStep DEF Workers
<1>4. ASSUME NEW r \in RequestIDs, Approve(r) PROVE IInv'
  BY <1>4, SurroundingStep
<1>5. ASSUME NEW r \in RequestIDs, NEW w \in Creators,
             Deliver(w, r) \/ Redeliver(w, r)
      PROVE  IInv'
  BY <1>5, StartStep DEF Workers
<1>6. ASSUME NEW r \in RequestIDs, NEW w \in Revokers, StartRevoke(w, r)
      PROVE  IInv'
  BY <1>6, StartStep DEF Workers
<1>7. ASSUME NEW w \in Workers, Proceed(w) PROVE IInv'
  BY <1>7, CreatorReadsStep, CreateStep, SaveStep, ExtendStep,
     DeleterReadsStep, DeleteStep, DropStep DEF Proceed
<1>8. ASSUME NEW w \in Workers, RollBack(w) \/ Abort(w) PROVE IInv'
  BY <1>8, StopStep
<1>9. CASE SkipDocument
  BY <1>9, SkipStep
<1> QED
  BY <1>1, <1>2, <1>3, <1>4, <1>5, <1>6, <1>7, <1>8, <1>9 DEF Next

\* The invariant holds in every state the handlers can reach.
THEOREM InvariantHolds == Spec => []IInv
BY InitSound, StepSound, PTL DEF Spec

\* The stores and the invocations keep their types; in particular documents
\* counted as unsaved exist.
THEOREM TypeCorrect == Spec => []TypeOK
<1>1. Init => CountsOK
  BY ConstantsAssumption DEF Init, CountsOK
<1>2. IInv /\ CountsOK /\ [Next]_vars => CountsOK'
  BY CountsStep
<1>3. IInv /\ CountsOK => TypeOK
  BY DEF IInv, StateOK, CountsOK, TypeOK
<1> QED
  BY <1>1, <1>2, <1>3, InvariantHolds, PTL DEF Spec

\* Every document that exists in AWS has an active record or is about to get
\* one, unless its creator failed or died before it saved it: deletions and
\* extensions, however they overlap and wherever they stop, never lose track
\* of one.
THEOREM DocumentsStayTracked == Spec => []EveryDocumentTracked
<1>1. IInv => EveryDocumentTracked
  BY DEF IInv, DocumentsKept, Kept, Keeps, Saving, EveryDocumentTracked, Tracked
<1> QED
  BY <1>1, InvariantHolds, PTL

-------------------------------------------------------------------------------
(* Documents whatever the workflow.  The status of a request and its event  *)
(* are only read here.                                                     *)

\* What AccessRequests can do to the requests at most: any status may follow
\* any other, as when a stale save takes an approval back, and any event may
\* be published, once more or without an approval.
WorkflowChanges ==
    /\ status' \in [RequestIDs -> {"open", "approved", "revoked"}]
    /\ events' \in [RequestIDs -> {"none", "published", "delivered"}]
    /\ UNCHANGED <<now, ssm, documents, workers, faults, unsaved, served>>

AnyWorkflowSpec == Init /\ [][Next \/ WorkflowChanges]_vars

LEMMA WorkflowStep ==
    ASSUME IInv, WorkflowChanges
    PROVE  IInv'
<1>1. UNCHANGED <<now, ssm, documents, workers, unsaved>>
  BY DEF WorkflowChanges
<1>2. StateOK'
  BY <1>1 DEF IInv, StateOK, WorkflowChanges
<1>3. WorkersSound'
  BY <1>1 DEF IInv, WorkersSound
<1>4. DocumentsKept'
  BY <1>1 DEF IInv, DocumentsKept, Kept, Keeps, IsActive, Saving, At, NameFor
<1> QED
  BY <1>2, <1>3, <1>4 DEF IInv

\* Documents stay tracked whatever becomes of the requests, also where two
\* overlapping decisions on one request take back an approval whose document
\* exists.
THEOREM TrackedUnderAnyWorkflow == AnyWorkflowSpec => []EveryDocumentTracked
<1>1. IInv /\ [Next \/ WorkflowChanges]_vars => IInv'
  BY StepSound, WorkflowStep
<1>2. IInv => EveryDocumentTracked
  BY DEF IInv, DocumentsKept, Kept, Keeps, Saving, EveryDocumentTracked, Tracked
<1> QED
  BY InitSound, <1>1, <1>2, PTL DEF AnyWorkflowSpec

-------------------------------------------------------------------------------
(* Who removes a document.  Handlers act on records they read some calls ago: *)
(* what follows says what such a record still has in common with the request  *)
(* the handler works for, or with the date on which the record was listed.    *)

\* A record bears the name of its request.
RecordsNamed ==
    \A d \in DocumentIDs :
        documents[d].status # "unused" =>
            /\ documents[d].req \in RequestIDs
            /\ documents[d].name = NameOf[documents[d].req]

RevokerSteps == {"idle", "find", "delete", "mark", "remove", "revoke"}

\* What the revocation x is about, when the table is table.
RevokerSound(x, table) ==
    /\ x.step \in RevokerSteps
    /\ x.step # "idle" => x.req \in RequestIDs
    /\ x.step \in {"delete", "mark", "remove"} => table[x.doc].req = x.req

RevokersSound ==
    /\ \A w \in Revokers : RevokerSound(workers[w], documents)
    /\ workers[Cleaner].step \in {"idle", "next", "delete", "mark"}

\* A record lasts until the expiration date of a request of its name.
RecordsDated ==
    \A d \in DocumentIDs :
        documents[d].status # "unused" =>
            \E q \in RequestIDs : /\ NameOf[q] = documents[d].name
                                  /\ ExpiryOf[q] = documents[d].expires

\* Who extends a record extends the one of its own document.
ExtendersSound ==
    \A c \in Creators :
        workers[c].step \in {"tag", "extend"} =>
            documents[workers[c].doc].name = NameOf[workers[c].req]

\* The cleanup has listed record d and may still delete its document.
Picked(d) ==
    \/ d \in workers[Cleaner].pending
    \/ workers[Cleaner].step = "delete" /\ workers[Cleaner].doc = d

\* Some request of that name has expired.
Late(n) == \E q \in RequestIDs : NameOf[q] = n /\ ExpiryOf[q] < now

PickedLate == \A d \in DocumentIDs : Picked(d) => Late(documents[d].name)

OwnInv ==
    /\ RecordsNamed /\ RevokersSound /\ RecordsDated /\ ExtendersSound
    /\ PickedLate

\* What the invocation in slot w may do next.
Acts(w) ==
    \/ Proceed(w) \/ RollBack(w) \/ Abort(w)
    \/ w \in Creators /\ \E r \in RequestIDs : Deliver(w, r) \/ Redeliver(w, r)
    \/ w \in Revokers /\ \E r \in RequestIDs : StartRevoke(w, r)
    \/ w = Cleaner /\ (StartCleanup \/ SkipDocument)

LEMMA StepsAreActs ==
    ASSUME Next
    PROVE  \/ Tick \/ \E r \in RequestIDs : Approve(r)
           \/ \E w \in Workers : Acts(w)
BY DEF Next, Acts, Workers

\* A step of one slot leaves the other slots as they are.
LEMMA SlotsOfOthers ==
    ASSUME IInv, NEW w \in Workers, Acts(w), NEW v \in Workers \ {w}
    PROVE  workers'[v] = workers[v]
<1> USE DEF IInv, StateOK
<1>1. CASE RollBack(w) \/ Abort(w)
  BY <1>1 DEF RollBack, Abort, Finish
<1>2. ASSUME NEW r, Deliver(w, r) \/ Redeliver(w, r) \/ StartRevoke(w, r)
      PROVE  workers'[v] = workers[v]
  BY <1>2 DEF Deliver, Redeliver, StartRevoke, Begin
<1>3. CASE w = Cleaner /\ (StartCleanup \/ SkipDocument)
  BY <1>3 DEF StartCleanup, SkipDocument, Go
<1>4. CASE Proceed(w)
  <2>1. CASE \/ ReadApproved(w) \/ LookupDocument(w) \/ CreateInSSM(w)
             \/ SaveDocument(w) \/ TagDocument(w) \/ SaveExtension(w)
    BY <2>1
    DEF ReadApproved, LookupDocument, CreateInSSM, SaveDocument, TagDocument,
        SaveExtension, Go, GoWith, Finish
  <2>2. CASE \/ FindDocument(w) \/ NextExpired(w) \/ DeleteInSSM(w)
             \/ MarkDeleted(w) \/ RemoveRecord(w) \/ SaveRevoked(w)
    BY <2>2
    DEF FindDocument, NextExpired, DeleteInSSM, MarkDeleted, RemoveRecord,
        SaveRevoked, Go, GoWith, Finish, Continue
  <2> QED
    BY <1>4, <2>1, <2>2 DEF Proceed
<1> QED
  BY <1>1, <1>2, <1>3, <1>4 DEF Acts

\* The actions that write to the table of records.
LEMMA RecordWriters ==
    ASSUME [Next]_vars
    PROVE  \/ UNCHANGED documents
           \/ \E w \in Workers : \/ SaveDocument(w) \/ SaveExtension(w)
                                 \/ MarkDeleted(w) \/ RemoveRecord(w)
<1>1. CASE UNCHANGED vars
  BY <1>1 DEF vars
<1>2. ASSUME NEW w \in Workers, Proceed(w)
      PROVE  \/ UNCHANGED documents
             \/ SaveDocument(w) \/ SaveExtension(w)
             \/ MarkDeleted(w) \/ RemoveRecord(w)
  BY <1>2
  DEF Proceed, ReadApproved, LookupDocument, CreateInSSM, TagDocument,
      FindDocument, NextExpired, DeleteInSSM, SaveRevoked
<1>3. CASE Tick \/ StartCleanup \/ SkipDocument
  BY <1>3 DEF Tick, StartCleanup, SkipDocument
<1>4. ASSUME NEW r \in RequestIDs,
             \/ Approve(r)
             \/ \E w \in Creators : Deliver(w, r) \/ Redeliver(w, r)
             \/ \E w \in Revokers : StartRevoke(w, r)
      PROVE  UNCHANGED documents
  BY <1>4 DEF Approve, Deliver, Redeliver, StartRevoke
<1>5. ASSUME NEW w \in Workers, RollBack(w) \/ Abort(w)
      PROVE  UNCHANGED documents
  BY <1>5 DEF RollBack, Abort
<1> QED
  BY <1>1, <1>2, <1>3, <1>4, <1>5 DEF Next

\* A record keeps its name and its request; a new one bears its request's name.
LEMMA RecordsMove ==
    ASSUME IInv, [Next]_vars, NEW d \in DocumentIDs
    PROVE  \/ /\ documents'[d].name = documents[d].name
              /\ documents'[d].req = documents[d].req
              /\ documents[d].status = "unused" <=>
                     documents'[d].status = "unused"
           \/ /\ documents[d].status = "unused"
              /\ documents'[d].req \in RequestIDs
              /\ documents'[d].name = NameOf[documents'[d].req]
<1>1. documents \in [DocumentIDs -> Document]
  BY DEF IInv, StateOK
<1>2. CASE UNCHANGED documents
  BY <1>2
<1>3. ASSUME NEW w \in Workers, SaveDocument(w), documents'[d] # documents[d]
      PROVE  /\ documents[d].status = "unused"
             /\ documents'[d].req \in RequestIDs
             /\ documents'[d].name = NameOf[documents'[d].req]
  <2>1. workers[w].step = "save" BY <1>3 DEF SaveDocument, At
  <2>2. w \in Creators /\ workers[w].req \in RequestIDs
    BY <2>1, SlotSound DEF WorkerSound, DeleterSteps
  <2>3. PICK e \in UnusedIDs :
            documents' = [documents EXCEPT ![e] =
                [status |-> "active", name |-> NameFor(w),
                 req |-> workers[w].req, expires |-> ExpiryOf[workers[w].req]]]
    <3>1. (CHOOSE e \in UnusedIDs : TRUE) \in UnusedIDs
      BY <1>3 DEF SaveDocument
    <3> QED
      BY <1>3, <3>1 DEF SaveDocument
  <2>4. d = e
    BY <1>1, <1>3, <2>3 DEF UnusedIDs
  <2> QED
    BY <1>1, <2>2, <2>3, <2>4 DEF UnusedIDs, Unused, NameFor
<1>4. ASSUME NEW w \in Workers,
             SaveExtension(w) \/ MarkDeleted(w) \/ RemoveRecord(w)
      PROVE  /\ documents'[d].name = documents[d].name
             /\ documents'[d].req = documents[d].req
             /\ documents[d].status = "unused" <=>
                    documents'[d].status = "unused"
  <2> DEFINE e == workers[w].doc
  <2>1. workers[w].step \in {"extend", "mark", "remove"}
    BY <1>4 DEF SaveExtension, MarkDeleted, RemoveRecord, At
  <2>2. e \in DocumentIDs /\ documents[e].status # "unused"
    BY <2>1, SlotSound DEF WorkerSound
  <2> QED
    BY <1>1, <1>4, <2>2
    DEF SaveExtension, MarkDeleted, RemoveRecord, Marked, Document
<1> QED
  BY <1>2, <1>3, <1>4, RecordWriters

\* What a step does to the revocation in slot w.
RevokerMoves(w) ==
    LET x == workers[w]
        y == workers'[w] IN
    \/ y = x
    \/ y.step = "idle"
    \/ y.step = "find" /\ y.req \in RequestIDs
    \/ /\ y.req = x.req /\ x.step = "find" /\ y.step = "delete"
       /\ y.doc \in DocumentIDs /\ Listed(y.doc)
       /\ documents[y.doc].req = x.req
    \/ y.req = x.req /\ x.step = "find" /\ y.step = "revoke"
    \/ /\ y.req = x.req /\ y.doc = x.doc
       /\ x.step = "delete" /\ y.step = "mark"
       /\ documents[x.doc].name \notin ssm'
    \/ /\ y.req = x.req /\ y.doc = x.doc
       /\ \/ x.step = "mark" /\ y.step = "remove"
          \/ x.step = "remove" /\ y.step = "revoke"

LEMMA RevokersMove ==
    ASSUME IInv, RevokersSound, [Next]_vars, NEW w \in Revokers
    PROVE  RevokerMoves(w)
<1>1. /\ w \in Workers /\ w \notin Creators /\ w # Cleaner
      /\ workers[w] \in Worker /\ workers \in [Workers -> Worker]
      /\ workers[w].step \in RevokerSteps
  BY SlotSound, ConstantsAssumption
  DEF Workers, RevokersSound, RevokerSound, IInv, StateOK
<1>2. CASE workers'[w] = workers[w]
  BY <1>2 DEF RevokerMoves
<1>3. CASE Finish(w)
  BY <1>1, <1>3 DEF Finish, Idle, RevokerMoves
<1>4. ASSUME NEW s, Go(w, s)
      PROVE  /\ workers'[w].step = s
             /\ workers'[w].req = workers[w].req
             /\ workers'[w].doc = workers[w].doc
  BY <1>1, <1>4 DEF Go, Worker
<1>5. CASE Acts(w)
  <2>1. CASE RollBack(w) \/ Abort(w)
    BY <1>3, <2>1 DEF RollBack, Abort
  <2>2. ASSUME NEW r \in RequestIDs, StartRevoke(w, r)
        PROVE  RevokerMoves(w)
    BY <1>1, <2>2 DEF StartRevoke, Idle, RevokerMoves
  <2>3. CASE FindDocument(w)
    <3>1. At(w, "find") /\ (Go(w, "revoke") \/ \E d \in DocumentIDs :
              /\ Listed(d) /\ documents[d].req = workers[w].req
              /\ GoWith(w, "delete", d))
      BY <2>3 DEF FindDocument
    <3>2. CASE Go(w, "revoke")
      BY <1>1, <1>4, <3>1, <3>2 DEF At, RevokerMoves, Worker
    <3>3. ASSUME NEW d \in DocumentIDs, Listed(d),
                 documents[d].req = workers[w].req, GoWith(w, "delete", d)
          PROVE  RevokerMoves(w)
      BY <1>1, <3>1, <3>3 DEF At, GoWith, RevokerMoves, Worker
    <3> QED
      BY <3>1, <3>2, <3>3
  <2>4. CASE DeleteInSSM(w)
    <3>1. \/ Finish(w)
          \/ /\ At(w, "delete") /\ Go(w, "mark")
             /\ ssm' = ssm \ {documents[workers[w].doc].name}
      BY <1>1, <2>4 DEF DeleteInSSM, Continue, NameFor
    <3>2. CASE /\ At(w, "delete") /\ Go(w, "mark")
               /\ ssm' = ssm \ {documents[workers[w].doc].name}
      BY <1>1, <1>4, <3>2 DEF At, RevokerMoves, Worker
    <3> QED
      BY <1>3, <3>1, <3>2
  <2>5. CASE MarkDeleted(w)
    <3>1. At(w, "mark") /\ Go(w, "remove")
      BY <1>1, <2>5 DEF MarkDeleted, Continue
    <3> QED
      BY <1>1, <1>4, <3>1 DEF At, RevokerMoves, Worker
  <2>6. CASE RemoveRecord(w)
    <3>1. At(w, "remove") /\ Go(w, "revoke")
      BY <2>6 DEF RemoveRecord
    <3> QED
      BY <1>1, <1>4, <3>1 DEF At, RevokerMoves, Worker
  <2>7. CASE SaveRevoked(w)
    BY <1>3, <2>7 DEF SaveRevoked
  <2>8. CASE \/ ReadApproved(w) \/ LookupDocument(w) \/ CreateInSSM(w)
             \/ SaveDocument(w) \/ TagDocument(w) \/ SaveExtension(w)
             \/ NextExpired(w)
    BY <1>1, <2>8
    DEF ReadApproved, LookupDocument, CreateInSSM, SaveDocument, TagDocument,
        SaveExtension, NextExpired, At, RevokerSteps
  <2> QED
    BY <1>1, <1>5, <2>1, <2>2, <2>3, <2>4, <2>5, <2>6, <2>7, <2>8
    DEF Acts, Proceed
<1>6. CASE UNCHANGED vars \/ Tick \/ \E r \in RequestIDs : Approve(r)
  BY <1>2, <1>6 DEF vars, Tick, Approve
<1>7. ASSUME NEW v \in Workers, Acts(v), v # w
      PROVE  RevokerMoves(w)
  BY <1>1, <1>2, <1>7, SlotsOfOthers
<1> QED
  BY <1>5, <1>6, <1>7, StepsAreActs

\* The cleanup never looks up a request.
LEMMA CleanerStep ==
    ASSUME IInv, RevokersSound, [Next]_vars
    PROVE  workers'[Cleaner].step \in {"idle", "next", "delete", "mark"}
<1>1. /\ Cleaner \in Workers /\ Cleaner \notin Creators \cup Revokers
      /\ workers[Cleaner] \in Worker /\ workers \in [Workers -> Worker]
      /\ workers[Cleaner].step \in {"idle", "next", "delete", "mark"}
  BY SlotSound, ConstantsAssumption
  DEF Workers, RevokersSound, IInv, StateOK
<1>2. CASE UNCHANGED vars \/ Tick \/ \E r \in RequestIDs : Approve(r)
  BY <1>1, <1>2 DEF vars, Tick, Approve
<1>3. ASSUME NEW v \in Workers, Acts(v), v # Cleaner
      PROVE  workers'[Cleaner].step \in {"idle", "next", "delete", "mark"}
  BY <1>1, <1>3, SlotsOfOthers
<1>4. CASE Acts(Cleaner)
  <2>1. \/ Finish(Cleaner) \/ StartCleanup
        \/ Go(Cleaner, "next") \/ Go(Cleaner, "mark")
        \/ NextExpired(Cleaner)
    BY <1>1, <1>4
    DEF Acts, Proceed, RollBack, Abort, SkipDocument, ReadApproved,
        LookupDocument, CreateInSSM, SaveDocument, TagDocument, SaveExtension,
        FindDocument, DeleteInSSM, MarkDeleted, RemoveRecord, SaveRevoked, At,
        Continue
  <2>2. ASSUME NEW x, workers' = [workers EXCEPT ![Cleaner] = x]
        PROVE  workers'[Cleaner] = x
    BY <1>1, <2>2
  <2>3. CASE Finish(Cleaner)
    BY <2>2, <2>3 DEF Finish, Idle
  <2>4. CASE StartCleanup
    BY <2>2, <2>4 DEF StartCleanup, Idle
  <2>5. CASE Go(Cleaner, "next") \/ Go(Cleaner, "mark")
    BY <1>1, <2>5 DEF Go, Worker
  <2>6. CASE NextExpired(Cleaner)
    <3>1. CASE Finish(Cleaner)
      BY <2>3, <3>1
    <3>2. ASSUME NEW d \in workers[Cleaner].pending,
                 workers' = [workers EXCEPT ![Cleaner].step = "delete",
                                            ![Cleaner].doc = d,
                                            ![Cleaner].pending = @ \ {d}]
          PROVE  workers'[Cleaner].step = "delete"
      BY <1>1, <3>2 DEF Worker
    <3> QED
      BY <2>6, <3>1, <3>2 DEF NextExpired
  <2> QED
    BY <2>1, <2>3, <2>4, <2>5, <2>6
<1> QED
  BY <1>2, <1>3, <1>4, StepsAreActs

\* Records and revocations stay as they are described.
LEMMA RevokersStep ==
    ASSUME IInv, RecordsNamed, RevokersSound, [Next]_vars
    PROVE  RecordsNamed' /\ RevokersSound'
<1>1. RecordsNamed'
  BY RecordsMove DEF RecordsNamed
<1>2. ASSUME NEW w \in Revokers PROVE RevokerSound(workers'[w], documents')
  <2>1. RevokerMoves(w)
    BY RevokersMove
  <2>2. RevokerSound(workers[w], documents)
    BY DEF RevokersSound
  <2>3. WorkerSound(w, workers[w], documents)
    BY SlotSound DEF Workers
  <2>4. ASSUME NEW d \in DocumentIDs, documents[d].status # "unused"
        PROVE  documents'[d].req = documents[d].req
    BY <2>4, RecordsMove
  <2>5. workers'[w].step \in {"delete", "mark", "remove"} =>
            /\ workers'[w].doc \in DocumentIDs
            /\ documents[workers'[w].doc].status # "unused"
            /\ documents[workers'[w].doc].req = workers'[w].req
    BY <2>1, <2>2, <2>3
    DEF RevokerMoves, RevokerSound, WorkerSound, Listed
  <2> QED
    BY <2>1, <2>2, <2>4, <2>5 DEF RevokerMoves, RevokerSound, RevokerSteps
<1>3. RevokersSound'
  BY <1>2, CleanerStep DEF RevokersSound
<1> QED
  BY <1>1, <1>3

\* The cleanup picks up what has expired, or what it picked up before.
LEMMA PickedMoves ==
    ASSUME IInv, RevokersSound, [Next]_vars, NEW d \in DocumentIDs, Picked(d)'
    PROVE  Picked(d) \/ Expired(d)
<1>1. /\ Cleaner \in Workers /\ Cleaner \notin Creators \cup Revokers
      /\ workers[Cleaner] \in Worker /\ workers \in [Workers -> Worker]
      /\ workers[Cleaner].step \in {"idle", "next", "delete", "mark"}
  BY SlotSound, ConstantsAssumption
  DEF Workers, RevokersSound, IInv, StateOK
<1>2. CASE workers'[Cleaner] = workers[Cleaner]
  BY <1>2 DEF Picked
<1>3. CASE Acts(Cleaner)
  <2>1. \/ Finish(Cleaner) \/ StartCleanup
        \/ Go(Cleaner, "next") \/ Go(Cleaner, "mark")
        \/ NextExpired(Cleaner)
    BY <1>1, <1>3
    DEF Acts, Proceed, RollBack, Abort, SkipDocument, ReadApproved,
        LookupDocument, CreateInSSM, SaveDocument, TagDocument, SaveExtension,
        FindDocument, DeleteInSSM, MarkDeleted, RemoveRecord, SaveRevoked, At,
        Continue
  <2>2. ~Finish(Cleaner)
    BY <1>1 DEF Finish, Idle, Picked
  <2>3. CASE StartCleanup
    BY <1>1, <2>3 DEF StartCleanup, Idle, Picked
  <2>4. CASE Go(Cleaner, "next") \/ Go(Cleaner, "mark")
    BY <1>1, <2>4 DEF Go, Worker, Picked
  <2>5. CASE NextExpired(Cleaner)
    <3>1. PICK e \in workers[Cleaner].pending :
              workers' = [workers EXCEPT ![Cleaner].step = "delete",
                                         ![Cleaner].doc = e,
                                         ![Cleaner].pending = @ \ {e}]
      BY <2>2, <2>5 DEF NextExpired
    <3>2. /\ workers'[Cleaner].doc = e
          /\ workers'[Cleaner].pending = workers[Cleaner].pending \ {e}
      BY <1>1, <3>1 DEF Worker
    <3> QED
      BY <3>1, <3>2 DEF Picked
  <2> QED
    BY <2>1, <2>2, <2>3, <2>4, <2>5
<1>4. CASE UNCHANGED vars \/ Tick \/ \E q \in RequestIDs : Approve(q)
  BY <1>2, <1>4 DEF vars, Tick, Approve
<1>5. ASSUME NEW v \in Workers, Acts(v), v # Cleaner
      PROVE  workers'[Cleaner] = workers[Cleaner]
  BY <1>1, <1>5, SlotsOfOthers
<1> QED
  BY <1>2, <1>3, <1>4, <1>5, StepsAreActs

\* A creator that is about to extend a record found it under its own name.
LEMMA ExtendersStep ==
    ASSUME IInv, RecordsNamed, ExtendersSound, [Next]_vars
    PROVE  ExtendersSound'
<1> SUFFICES ASSUME NEW c \in Creators, workers'[c].step \in {"tag", "extend"}
             PROVE  documents'[workers'[c].doc].name = NameOf[workers'[c].req]
  BY DEF ExtendersSound
<1>1. /\ c \in Workers /\ c \notin Revokers /\ c # Cleaner
      /\ workers[c] \in Worker /\ workers \in [Workers -> Worker]
      /\ WorkerSound(c, workers[c], documents)
  BY SlotSound, ConstantsAssumption DEF Workers, IInv, StateOK
<1>2. ~Finish(c)
  BY <1>1 DEF Finish, Idle
<1>3. ASSUME workers'[c].req = workers[c].req,
             workers'[c].doc = workers[c].doc,
             workers[c].step \in {"tag", "extend"}
      PROVE  documents'[workers'[c].doc].name = NameOf[workers'[c].req]
  BY <1>1, <1>3, RecordsMove DEF WorkerSound, ExtendersSound
<1>4. CASE Acts(c)
  <2>1. CASE TagDocument(c)
    <3>1. At(c, "tag") /\ Go(c, "extend")
      BY <1>2, <2>1 DEF TagDocument
    <3> QED
      BY <1>1, <1>3, <3>1 DEF Go, At, Worker
  <2>2. CASE LookupDocument(c)
    <3>1. UNCHANGED documents /\ (Go(c, "create") \/ \E d \in DocumentIDs :
              documents[d].name = NameFor(c) /\ GoWith(c, "tag", d))
      BY <1>2, <2>2 DEF LookupDocument
    <3>2. ~Go(c, "create")
      BY <1>1 DEF Go, Worker
    <3> QED
      BY <1>1, <3>1, <3>2 DEF GoWith, Worker, NameFor
  <2>3. ~ReadApproved(c) /\ ~CreateInSSM(c)
    BY <1>1, <1>2 DEF ReadApproved, CreateInSSM, Go, Worker
  <2>4. ~SaveDocument(c) /\ ~SaveExtension(c)
    BY <1>2 DEF SaveDocument, SaveExtension
  <2>5. /\ ~FindDocument(c) /\ ~NextExpired(c) /\ ~DeleteInSSM(c)
        /\ ~MarkDeleted(c) /\ ~RemoveRecord(c) /\ ~SaveRevoked(c)
    BY <1>1
    DEF FindDocument, NextExpired, DeleteInSSM, MarkDeleted, RemoveRecord,
        SaveRevoked, At, WorkerSound, CreatorSteps
  <2>6. ~RollBack(c) /\ ~Abort(c)
    BY <1>2 DEF RollBack, Abort
  <2>7. \A q \in RequestIDs : ~Deliver(c, q) /\ ~Redeliver(c, q)
    BY <1>1 DEF Deliver, Redeliver, Begin, Idle
  <2> QED
    BY <1>1, <1>4, <2>1, <2>2, <2>3, <2>4, <2>5, <2>6, <2>7 DEF Acts, Proceed
<1>5. CASE workers'[c] = workers[c]
  BY <1>3, <1>5
<1>6. CASE UNCHANGED vars \/ Tick \/ \E q \in RequestIDs : Approve(q)
  BY <1>5, <1>6 DEF vars, Tick, Approve
<1>7. ASSUME NEW v \in Workers, Acts(v), v # c
      PROVE  workers'[c] = workers[c]
  BY <1>1, <1>7, SlotsOfOthers
<1> QED
  BY <1>4, <1>5, <1>6, <1>7, StepsAreActs

LEMMA TimePasses ==
    ASSUME IInv, [Next]_vars
    PROVE  now <= now'
<1>1. now \in Int
  BY ConstantsAssumption DEF IInv, StateOK, Dates
<1>2. CASE UNCHANGED vars \/ Tick \/ \E q \in RequestIDs : Approve(q)
  BY <1>1, <1>2 DEF vars, Tick, Approve
<1>3. ASSUME NEW w \in Workers, Acts(w)
      PROVE  UNCHANGED now
  BY <1>3
  DEF Acts, Proceed, RollBack, Abort, SkipDocument, StartCleanup, ReadApproved,
      LookupDocument, CreateInSSM, SaveDocument, TagDocument, SaveExtension,
      FindDocument, NextExpired, DeleteInSSM, MarkDeleted, RemoveRecord,
      SaveRevoked, Deliver, Redeliver, StartRevoke
<1> QED
  BY <1>1, <1>2, <1>3, StepsAreActs

\* Whoever writes a record's date writes that of a request of the record's name.
LEMMA DatesStep ==
    ASSUME IInv, OwnInv, [Next]_vars
    PROVE  RecordsDated'
<1>1. documents \in [DocumentIDs -> Document]
  BY DEF IInv, StateOK
<1> SUFFICES ASSUME NEW d \in DocumentIDs, documents'[d].status # "unused"
             PROVE  \E q \in RequestIDs : /\ NameOf[q] = documents'[d].name
                                          /\ ExpiryOf[q] = documents'[d].expires
  BY DEF RecordsDated
<1>2. CASE documents'[d] = documents[d]
  BY <1>2 DEF OwnInv, RecordsDated
<1>3. ASSUME NEW w \in Workers, SaveDocument(w), documents'[d] # documents[d]
      PROVE  \E q \in RequestIDs : /\ NameOf[q] = documents'[d].name
                                   /\ ExpiryOf[q] = documents'[d].expires
  <2>1. workers[w].step = "save"
    BY <1>3 DEF SaveDocument, At
  <2>2. w \in Creators /\ workers[w].req \in RequestIDs
    BY <2>1, SlotSound DEF WorkerSound, DeleterSteps
  <2>3. PICK e \in UnusedIDs :
            documents' = [documents EXCEPT ![e] =
                [status |-> "active", name |-> NameFor(w),
                 req |-> workers[w].req, expires |-> ExpiryOf[workers[w].req]]]
    <3>1. (CHOOSE e \in UnusedIDs : TRUE) \in UnusedIDs
      BY <1>3 DEF SaveDocument
    <3> QED
      BY <1>3, <3>1 DEF SaveDocument
  <2>4. d = e
    BY <1>1, <1>3, <2>3 DEF UnusedIDs
  <2>5. /\ documents'[d].name = NameOf[workers[w].req]
        /\ documents'[d].expires = ExpiryOf[workers[w].req]
    BY <1>1, <2>2, <2>3, <2>4 DEF UnusedIDs, NameFor
  <2> QED
    BY <2>2, <2>5
<1>4. ASSUME NEW w \in Workers, SaveExtension(w), documents'[d] # documents[d]
      PROVE  \E q \in RequestIDs : /\ NameOf[q] = documents'[d].name
                                   /\ ExpiryOf[q] = documents'[d].expires
  <2>1. workers[w].step = "extend"
    BY <1>4 DEF SaveExtension, At
  <2>2. w \in Creators /\ workers[w].req \in RequestIDs
    BY <2>1, SlotSound DEF WorkerSound, DeleterSteps
  <2>3. d = workers[w].doc
    BY <1>1, <1>4 DEF SaveExtension
  <2>4. documents[d].name = NameOf[workers[w].req]
    BY <2>1, <2>2, <2>3 DEF OwnInv, ExtendersSound
  <2>5. /\ documents'[d].name = documents[d].name
        /\ documents'[d].expires = ExpiryOf[workers[w].req]
    BY <1>1, <1>4, <2>3 DEF SaveExtension, Document
  <2> QED
    BY <2>2, <2>4, <2>5
<1>5. ASSUME NEW w \in Workers, MarkDeleted(w) \/ RemoveRecord(w)
      PROVE  /\ documents'[d].name = documents[d].name
             /\ documents'[d].expires = documents[d].expires
             /\ documents[d].status # "unused"
  <2> DEFINE e == workers[w].doc
  <2>1. workers[w].step \in {"mark", "remove"}
    BY <1>5 DEF MarkDeleted, RemoveRecord, At
  <2>2. e \in DocumentIDs /\ documents[e].status # "unused"
    BY <2>1, SlotSound DEF WorkerSound
  <2> QED
    BY <1>1, <1>5, <2>2 DEF MarkDeleted, RemoveRecord, Marked, Document
<1>6. ASSUME NEW w \in Workers, MarkDeleted(w) \/ RemoveRecord(w)
      PROVE  \E q \in RequestIDs : /\ NameOf[q] = documents'[d].name
                                   /\ ExpiryOf[q] = documents'[d].expires
  BY <1>5, <1>6 DEF OwnInv, RecordsDated
<1> QED
  BY <1>2, <1>3, <1>4, <1>6, RecordWriters

\* What the cleanup has listed stays late, whatever becomes of its record.
LEMMA PickedStep ==
    ASSUME IInv, OwnInv, [Next]_vars
    PROVE  PickedLate'
<1> SUFFICES ASSUME NEW d \in DocumentIDs, Picked(d)'
             PROVE  Late(documents[d].name)'
  BY DEF PickedLate
<1>1. Picked(d) \/ Expired(d)
  BY PickedMoves DEF OwnInv
<1>2. documents[d].status # "unused"
  BY <1>1, SlotSound DEF Picked, Expired, IsActive, WorkerSound, Workers
<1>3. documents'[d].name = documents[d].name
  BY <1>2, RecordsMove
<1>4. Late(documents[d].name)
  <2>1. CASE Picked(d)
    BY <2>1 DEF OwnInv, PickedLate
  <2>2. CASE Expired(d)
    BY <1>2, <2>2 DEF OwnInv, RecordsDated, Expired, Late
  <2> QED
    BY <1>1, <2>1, <2>2
<1>5. PICK q \in RequestIDs : NameOf[q] = documents[d].name /\ ExpiryOf[q] < now
  BY <1>4 DEF Late
<1>6. ExpiryOf[q] \in Int /\ now \in Int /\ now' \in Int /\ now <= now'
  BY StepSound, TimePasses, ConstantsAssumption DEF IInv, StateOK, Dates
<1>7. ExpiryOf[q] < now'
  BY <1>5, <1>6
<1> QED
  BY <1>3, <1>5, <1>7 DEF Late

LEMMA OwnStep ==
    ASSUME IInv, OwnInv, [Next]_vars
    PROVE  OwnInv'
BY RevokersStep, ExtendersStep, DatesStep, PickedStep DEF OwnInv

\* Only deletions and rollbacks take a document away.
LEMMA RemovedBy ==
    ASSUME [Next]_vars, NEW n \in ssm \ ssm'
    PROVE  \E w \in Workers :
               /\ \/ DeleteInSSM(w) /\ At(w, "delete")
                  \/ RollBack(w) /\ At(w, "save")
               /\ NameFor(w) = n
<1>1. CASE UNCHANGED vars \/ Tick \/ \E q \in RequestIDs : Approve(q)
  BY <1>1 DEF vars, Tick, Approve
<1>2. ASSUME NEW w \in Workers, Acts(w), ~DeleteInSSM(w), ~RollBack(w)
      PROVE  FALSE
  BY <1>2
  DEF Acts, Proceed, Abort, SkipDocument, StartCleanup, ReadApproved,
      LookupDocument, CreateInSSM, SaveDocument, TagDocument, SaveExtension,
      FindDocument, NextExpired, MarkDeleted, RemoveRecord, SaveRevoked,
      Deliver, Redeliver, StartRevoke
<1>3. ASSUME NEW w \in Workers, DeleteInSSM(w)
      PROVE  At(w, "delete") /\ NameFor(w) = n
  BY <1>3 DEF DeleteInSSM
<1>4. ASSUME NEW w \in Workers, RollBack(w)
      PROVE  At(w, "save") /\ NameFor(w) = n
  BY <1>4 DEF RollBack
<1> QED
  BY <1>1, <1>2, <1>3, <1>4, StepsAreActs

\* The step of RemovedByItsRequests.
LEMMA RemovalsAreOwn ==
    ASSUME IInv, OwnInv, [Next]_vars, NEW n \in ssm \ ssm'
    PROVE  \E q \in RequestIDs : NameOf[q] = n /\ RemovalDue(q)
<1>1. PICK w \in Workers :
          /\ \/ DeleteInSSM(w) /\ At(w, "delete")
             \/ RollBack(w) /\ At(w, "save")
          /\ NameFor(w) = n
  BY RemovedBy
<1>2. CASE At(w, "save")
  <2>1. w \in Creators /\ workers[w].req \in RequestIDs
    BY <1>2, SlotSound DEF At, WorkerSound, DeleterSteps
  <2> QED
    BY <1>1, <1>2, <2>1 DEF NameFor, RemovalDue
<1>3. CASE At(w, "delete")
  <2> DEFINE d == workers[w].doc
  <2>1. /\ w \notin Creators /\ d \in DocumentIDs
        /\ documents[d].status # "unused"
    BY <1>3, SlotSound DEF At, WorkerSound, CreatorSteps
  <2>2. documents[d].name = n
    BY <1>1, <2>1 DEF NameFor
  <2>3. CASE w = Cleaner
    <3>1. Late(n)
      BY <1>3, <2>1, <2>2, <2>3 DEF OwnInv, PickedLate, Picked, At
    <3> QED
      BY <3>1 DEF Late, RemovalDue
  <2>4. CASE w \in Revokers
    <3>1. documents[d].req = workers[w].req
      BY <1>3, <2>4 DEF OwnInv, RevokersSound, RevokerSound, At
    <3>2. workers[w].req \in RequestIDs /\ NameOf[workers[w].req] = n
      BY <2>1, <2>2, <3>1 DEF OwnInv, RecordsNamed
    <3> QED
      BY <1>3, <2>4, <3>2 DEF RemovalDue
  <2> QED
    BY <2>1, <2>3, <2>4 DEF Workers
<1> QED
  BY <1>1, <1>2, <1>3

\* However creators, revocations and the cleanup overlap, however old the
\* records they act on, whichever calls fail and events come again, nobody
\* removes a document but for a request of its own name: one that has expired,
\* one being revoked, or one whose creator rolls back.
THEOREM DocumentsRemovedByTheirRequests == Spec => RemovedByItsRequests
<1>1. Init => OwnInv
  BY DEF Init, OwnInv, RecordsNamed, Unused, RevokersSound, RevokerSound,
         RevokerSteps, RecordsDated, ExtendersSound, PickedLate, Picked, Idle,
         Workers
<1>2. IInv /\ OwnInv /\ [Next]_vars => OwnInv'
  BY OwnStep
<1>3. IInv /\ OwnInv /\ [Next]_vars =>
          [\A n \in ssm \ ssm' :
              \E q \in RequestIDs : NameOf[q] = n /\ RemovalDue(q)]_vars
  BY RemovalsAreOwn
<1> QED
  BY <1>1, <1>2, <1>3, InvariantHolds, PTL DEF Spec, RemovedByItsRequests

===============================================================================

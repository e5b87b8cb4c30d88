--------------------------- MODULE GroupCacheProofs ---------------------------
(***************************************************************************)
(* The theorem about GroupCache, for any users, callers and time-outs.     *)
(***************************************************************************)
EXTENDS GroupCache, TLAPS

\* A fetch holds what Slack said since it began; an entry holds what Slack said
\* since one TTL and one fetch before it expires.
CacheInv ==
    /\ clock \in Nat
    /\ changed \in [SlackUsers -> Nat]
    /\ entry \in [members : SUBSET SlackUsers, expires : Int]
    /\ entry.expires <= clock + TTL
    /\ group \subseteq SlackUsers
    /\ callers \in [Callers -> Caller]
    /\ \A c \in Callers :
           /\ callers[c].since <= clock
           /\ Fetching(c) => clock - callers[c].since <= FetchLimit
           /\ callers[c].step = "fetched" =>
                  AsOf(callers[c].members, callers[c].since)
    /\ AsOf(entry.members, entry.expires - TTL - FetchLimit)
    /\ AnswersFresh

\* What is known as of some time is also known as of an earlier one.
LEMMA AsOfEarlier ==
    ASSUME CacheInv, NEW members, NEW s \in Int, NEW t \in Int, t <= s,
           AsOf(members, s)
    PROVE  AsOf(members, t)
  BY DEF CacheInv, AsOf

\* What is known as of the past survives a change of membership, which is now.
LEMMA AsOfSurvives ==
    ASSUME CacheInv, NEW u \in SlackUsers, MembershipChanges(u),
           NEW members, NEW s \in Int, s <= clock, AsOf(members, s)
    PROVE  \A v \in SlackUsers :
               ((v \in members) # (v \in group')) => changed'[v] >= s
<1> SUFFICES ASSUME NEW v \in SlackUsers, (v \in members) # (v \in group')
             PROVE  changed'[v] >= s
  OBVIOUS
<1>1. CASE v = u
  BY <1>1 DEF MembershipChanges, CacheInv
<1>2. CASE v # u
  <2>1. (v \in group') = (v \in group) /\ changed'[v] = changed[v]
    BY <1>2 DEF MembershipChanges, CacheInv
  <2> QED
    BY <2>1 DEF AsOf
<1> QED
  BY <1>1, <1>2

\* Nothing that the invariant says of a caller is about anything but its own
\* slot, so a step of one caller has only that slot to answer for.
CallerSound(r) ==
    /\ r \in Caller
    /\ r.since <= clock
    /\ r.step \in {"fetching", "fetched"} => clock - r.since <= FetchLimit
    /\ r.step = "fetched" => AsOf(r.members, r.since)
    /\ r.step = "answered" => AsOf(r.members, r.since - TTL - FetchLimit)

LEMMA CallersSound ==
    CacheInv => \A c \in Callers : CallerSound(callers[c])
  BY DEF CacheInv, CallerSound, AnswersFresh, Fetching

\* A step in which one caller gets a sound record and the group, its history
\* and the time stay as they are.
LEMMA OneCaller ==
    ASSUME CacheInv, NEW c \in Callers, NEW r, CallerSound(r),
           callers' = [callers EXCEPT ![c] = r],
           UNCHANGED <<clock, group, changed>>,
           entry' \in [members : SUBSET SlackUsers, expires : Int],
           entry'.expires <= clock + TTL,
           AsOf(entry'.members, entry'.expires - TTL - FetchLimit)
    PROVE  CacheInv'
<1>1. \A d \in Callers : CallerSound(callers'[d])
  BY CallersSound DEF CacheInv
<1>2. callers' \in [Callers -> Caller]
  BY <1>1 DEF CacheInv, CallerSound
<1>3. AnswersFresh'
  BY <1>1 DEF AnswersFresh, CallerSound, AsOf
<1>4. \A d \in Callers :
          /\ callers'[d].since <= clock
          /\ Fetching(d)' => clock - callers'[d].since <= FetchLimit
          /\ callers'[d].step = "fetched" =>
                 AsOf(callers'[d].members, callers'[d].since)
  BY <1>1 DEF CallerSound, Fetching
<1> QED
  BY <1>2, <1>3, <1>4 DEF CacheInv, AsOf

LEMMA CacheCallerStep ==
    ASSUME CacheInv, NEW c \in Callers,
           \/ Hit(c) \/ StartFetch(c) \/ SlackAnswers(c)
           \/ FetchFails(c) \/ Store(c)
    PROVE  CacheInv'
<1> USE CacheAssumption
<1>1. CallerSound(callers[c])
  BY CallersSound
<1>2. /\ entry \in [members : SUBSET SlackUsers, expires : Int]
      /\ entry.expires <= clock + TTL
      /\ AsOf(entry.members, entry.expires - TTL - FetchLimit)
      /\ clock \in Nat /\ group \subseteq SlackUsers
  BY DEF CacheInv
<1>3. CASE Hit(c)
  <2> DEFINE r == [step |-> "answered", members |-> entry.members,
                   since |-> clock]
  <2>1. AsOf(entry.members, clock - TTL - FetchLimit)
    <3>1. clock <= entry.expires
      BY <1>2, <1>3 DEF Hit, IsExpired
    <3> DEFINE s == entry.expires - TTL - FetchLimit
               t == clock - TTL - FetchLimit
    <3>2. s \in Int /\ t \in Int /\ t <= s
      BY <1>2, <3>1
    <3>3. AsOf(entry.members, s)
      BY <1>2
    <3> HIDE DEF s, t
    <3>4. AsOf(entry.members, t)
      BY <3>2, <3>3, AsOfEarlier
    <3> QED
      BY <3>4 DEF t
  <2>2. CallerSound(r)
    BY <1>2, <2>1 DEF CallerSound, Caller
  <2>3. callers' = [callers EXCEPT ![c] = r] /\ UNCHANGED <<clock, group, changed, entry>>
    BY <1>3 DEF Hit, Becomes
  <2> QED
    BY <1>2, <2>2, <2>3, OneCaller
<1>4. CASE StartFetch(c)
  <2> DEFINE r == [step |-> "fetching", members |-> {}, since |-> clock]
  <2>1. CallerSound(r)
    BY <1>2 DEF CallerSound, Caller
  <2>2. callers' = [callers EXCEPT ![c] = r] /\ UNCHANGED <<clock, group, changed, entry>>
    BY <1>4 DEF StartFetch, Becomes
  <2> QED
    BY <1>2, <2>1, <2>2, OneCaller
<1>5. CASE SlackAnswers(c)
  <2> DEFINE r == [step |-> "fetched", members |-> group,
                   since |-> callers[c].since]
  <2>1. AsOf(group, callers[c].since)
    BY DEF AsOf
  <2>2. CallerSound(r)
    BY <1>1, <1>2, <1>5, <2>1 DEF CallerSound, Caller, SlackAnswers
  <2>3. callers' = [callers EXCEPT ![c] = r] /\ UNCHANGED <<clock, group, changed, entry>>
    BY <1>5 DEF SlackAnswers, Becomes
  <2> QED
    BY <1>2, <2>2, <2>3, OneCaller
<1>6. CASE FetchFails(c)
  <2> DEFINE r == [step |-> "idle", members |-> {}, since |-> 0]
  <2>1. CallerSound(r)
    BY <1>2 DEF CallerSound, Caller
  <2>2. callers' = [callers EXCEPT ![c] = r] /\ UNCHANGED <<clock, group, changed, entry>>
    BY <1>6 DEF FetchFails, Becomes
  <2> QED
    BY <1>2, <2>1, <2>2, OneCaller
<1>7. CASE Store(c)
  <2> DEFINE m == callers[c].members
             r == [step |-> "answered", members |-> m, since |-> clock]
             e == [members |-> m, expires |-> clock + TTL]
  <2>1. AsOf(m, clock - FetchLimit)
    <3>1. /\ AsOf(m, callers[c].since) /\ callers[c].since \in Int
          /\ clock - FetchLimit <= callers[c].since
      BY <1>1, <1>2, <1>7 DEF Store, CallerSound, Caller
    <3>2. clock - FetchLimit \in Int
      BY <1>2
    <3> QED
      BY <3>1, <3>2, AsOfEarlier
  <2>2. AsOf(m, clock - TTL - FetchLimit)
    BY <1>2, <2>1, AsOfEarlier
  <2>3. CallerSound(r)
    BY <1>1, <1>2, <2>2 DEF CallerSound, Caller
  <2>4. /\ entry' = e /\ callers' = [callers EXCEPT ![c] = r]
        /\ UNCHANGED <<clock, group, changed>>
    BY <1>7 DEF Store, Stored, Becomes
  <2>5. /\ e \in [members : SUBSET SlackUsers, expires : Int]
        /\ e.expires <= clock + TTL
        /\ e.members = m /\ e.expires - TTL - FetchLimit = clock - FetchLimit
    BY <1>1, <1>2 DEF CallerSound, Caller
  <2> QED
    BY <2>1, <2>3, <2>4, <2>5, OneCaller
<1> QED
  BY <1>3, <1>4, <1>5, <1>6, <1>7

\* What the environment does: members come and go, entries are dropped, time
\* passes.
LEMMA CacheEnvironmentStep ==
    ASSUME CacheInv,
           \/ \E u \in SlackUsers : MembershipChanges(u)
           \/ Invalidate
           \/ CacheTick
    PROVE  CacheInv'
<1> USE CacheAssumption
<1>1. ASSUME NEW u \in SlackUsers, MembershipChanges(u) PROVE CacheInv'
  <2>1. /\ UNCHANGED <<clock, entry, callers>>
        /\ changed' \in [SlackUsers -> Nat] /\ group' \subseteq SlackUsers
    BY <1>1 DEF MembershipChanges, CacheInv
  <2>2. AsOf(entry.members, entry.expires - TTL - FetchLimit)'
    <3> DEFINE s == entry.expires - TTL - FetchLimit
    <3>1. s \in Int /\ s <= clock /\ AsOf(entry.members, s)
      BY DEF CacheInv
    <3> HIDE DEF s
    <3>2. \A v \in SlackUsers :
              ((v \in entry.members) # (v \in group')) => changed'[v] >= s
      BY <1>1, <3>1, AsOfSurvives
    <3> QED
      BY <2>1, <3>2 DEF AsOf, s
  <2>3. ASSUME NEW c \in Callers, callers[c].step = "fetched"
        PROVE  AsOf(callers[c].members, callers[c].since)'
    <3>1. /\ callers[c].since \in Int /\ callers[c].since <= clock
          /\ AsOf(callers[c].members, callers[c].since)
      BY <2>3, CallersSound DEF CallerSound, Caller
    <3>2. \A v \in SlackUsers :
              ((v \in callers[c].members) # (v \in group'))
                  => changed'[v] >= callers[c].since
      BY <1>1, <3>1, AsOfSurvives
    <3> QED
      BY <2>1, <3>2 DEF AsOf
  <2>4. ASSUME NEW c \in Callers, callers[c].step = "answered"
        PROVE  AsOf(callers[c].members, callers[c].since - TTL - FetchLimit)'
    <3> DEFINE s == callers[c].since - TTL - FetchLimit
    <3>1. s \in Int /\ s <= clock /\ AsOf(callers[c].members, s)
      BY <2>4, CallersSound DEF CallerSound, Caller, CacheInv
    <3> HIDE DEF s
    <3>2. \A v \in SlackUsers :
              ((v \in callers[c].members) # (v \in group')) => changed'[v] >= s
      BY <1>1, <3>1, AsOfSurvives
    <3> QED
      BY <2>1, <3>2 DEF AsOf, s
  <2> QED
    BY <2>1, <2>2, <2>3, <2>4 DEF CacheInv, AnswersFresh, Fetching
<1>2. CASE Invalidate
  <2>1. AsOf(NoEntry.members, NoEntry.expires - TTL - FetchLimit)
    BY DEF AsOf, NoEntry, CacheInv
  <2> QED
    BY <1>2, <2>1 DEF Invalidate, NoEntry, CacheInv, AnswersFresh, AsOf, Fetching
<1>3. CASE CacheTick
  <2>1. /\ clock' = clock + 1 /\ clock \in Nat
        /\ UNCHANGED <<group, changed, entry, callers>>
    BY <1>3 DEF CacheTick, CacheInv
  <2>2. ASSUME NEW c \in Callers
        PROVE  /\ callers[c].since <= clock'
               /\ Fetching(c) => clock' - callers[c].since <= FetchLimit
    BY <1>3, <2>1, CallersSound DEF CacheTick, CallerSound, Caller
  <2> QED
    BY <2>1, <2>2 DEF CacheInv, AnswersFresh, AsOf, Fetching
<1> QED
  BY <1>1, <1>2, <1>3

LEMMA CacheInvariant == CacheSpec => []CacheInv
<1>1. CacheInit => CacheInv
  BY CacheAssumption
  DEF CacheInit, CacheInv, NoEntry, Caller, AsOf, AnswersFresh, Fetching
<1>2. CacheInv /\ [CacheNext]_cacheVars => CacheInv'
  <2>1. CacheInv /\ UNCHANGED cacheVars => CacheInv'
    BY DEF CacheInv, cacheVars, AnswersFresh, AsOf, Fetching
  <2> QED
    BY <2>1, CacheCallerStep, CacheEnvironmentStep DEF CacheNext
<1> QED
  BY <1>1, <1>2, PTL DEF CacheSpec

\* No answer is older than the TTL and one fetch.
THEOREM CacheAnswersFresh == CacheSpec => []AnswersFresh
<1>1. CacheInv => AnswersFresh
  BY DEF CacheInv
<1> QED
  BY <1>1, CacheInvariant, PTL

===============================================================================

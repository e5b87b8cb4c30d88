------------------------------- MODULE GroupCache -------------------------------
(***************************************************************************)
(* GroupMembershipCache: one warm Lambda's copy of a Slack group, which    *)
(* every approval asks.  GetMembers looks under the lock, fetches without  *)
(* it and stores under it, so fetches overlap each other and Invalidate.   *)
(* Groups are cached under their own keys: one group is modelled.          *)
(*                                                                         *)
(* An operator whose name ends in _Bug is a faulty variant of the operator *)
(* after it, used by nothing.                                              *)
(***************************************************************************)
EXTENDS Integers

CONSTANTS
    SlackUsers,     \* users who join and leave the group
    Callers,        \* slots for callers of GetMembers
    TTL,            \* how long an entry is good for, in ticks
    FetchLimit,     \* how long a fetch takes at most: the Lambda's time-out
    Horizon         \* the last moment considered (bounds clock)

VARIABLES
    clock,          \* the time
    group,          \* the members, as Slack knows them
    changed,        \* changed[u]: when u joined or left last
    entry,          \* the cached members and when they expire
    callers         \* callers[c]: a caller, its fetch and its answer

cacheVars == <<clock, group, changed, entry, callers>>

\* An entry that does not exist is one that has expired.
NoEntry == [members |-> {}, expires |-> -1]

\* `since' is when the fetch began, or when the answer was given.
Caller == [step : {"idle", "fetching", "fetched", "answered"},
           members : SUBSET SlackUsers, since : Nat]

ASSUME CacheAssumption ==
    TTL \in Nat /\ FetchLimit \in Nat /\ Horizon \in Nat

CacheInit ==
    /\ clock = 0
    /\ group \in SUBSET SlackUsers
    /\ changed = [u \in SlackUsers |-> 0]
    /\ entry = NoEntry
    /\ callers = [c \in Callers |->
                     [step |-> "idle", members |-> {}, since |-> 0]]

-------------------------------------------------------------------------------

Fetching(c) == callers[c].step \in {"fetching", "fetched"}

Becomes(c, step, members, since) ==
    callers' = [callers EXCEPT
        ![c] = [step |-> step, members |-> members, since |-> since]]

\* IsExpired is strict.
IsExpired == clock > entry.expires

\* The entry is still good.
Hit(c) ==
    /\ ~Fetching(c)
    /\ ~IsExpired
    /\ Becomes(c, "answered", entry.members, clock)
    /\ UNCHANGED <<clock, group, changed, entry>>

StartFetch(c) ==
    /\ ~Fetching(c)
    /\ IsExpired
    /\ Becomes(c, "fetching", {}, clock)
    /\ UNCHANGED <<clock, group, changed, entry>>

\* Slack answers.
SlackAnswers(c) ==
    /\ callers[c].step = "fetching"
    /\ Becomes(c, "fetched", group, callers[c].since)
    /\ UNCHANGED <<clock, group, changed, entry>>

\* Or it does not: the error is returned and nothing is cached.
FetchFails(c) ==
    /\ Fetching(c)
    /\ Becomes(c, "idle", {}, 0)
    /\ UNCHANGED <<clock, group, changed, entry>>

\* Faulty: keeps the later expiry and so prolongs older members.
Stored_Bug(members) ==
    IF entry = NoEntry THEN [members |-> members, expires |-> clock + TTL]
    ELSE [entry EXCEPT !.expires = clock + TTL]

Stored(members) == [members |-> members, expires |-> clock + TTL]

\* Whichever fetch comes last replaces the entry, be it the older one.
Store(c) ==
    /\ callers[c].step = "fetched"
    /\ entry' = Stored(callers[c].members)
    /\ Becomes(c, "answered", callers[c].members, clock)
    /\ UNCHANGED <<clock, group, changed>>

Invalidate ==
    /\ entry' = NoEntry
    /\ UNCHANGED <<clock, group, changed, callers>>

\* Somebody joins or leaves.
MembershipChanges(u) ==
    /\ group' = IF u \in group THEN group \ {u} ELSE group \cup {u}
    /\ changed' = [changed EXCEPT ![u] = clock]
    /\ UNCHANGED <<clock, entry, callers>>

\* Time passes; no fetch outlives the Lambda.
CacheTick ==
    /\ clock < Horizon
    /\ \A c \in Callers : Fetching(c) => clock - callers[c].since < FetchLimit
    /\ clock' = clock + 1
    /\ UNCHANGED <<group, changed, entry, callers>>

-------------------------------------------------------------------------------

CacheNext ==
    \/ \E c \in Callers : \/ Hit(c) \/ StartFetch(c) \/ SlackAnswers(c)
                          \/ FetchFails(c) \/ Store(c)
    \/ \E u \in SlackUsers : MembershipChanges(u)
    \/ Invalidate
    \/ CacheTick

CacheSpec == CacheInit /\ [][CacheNext]_cacheVars

-------------------------------------------------------------------------------
(* Properties.                                                             *)

\* Do members and Slack agree on every user whose membership has not changed
\* since then?
AsOf(members, since) ==
    \A u \in SlackUsers :
        ((u \in members) # (u \in group)) => changed[u] >= since

\* Changes are "cached for 5 minutes" and no longer: however fetches overtake
\* each other and Invalidate, an answer is what Slack said at some time within
\* the TTL and one fetch before it.
AnswersFresh ==
    \A c \in Callers :
        callers[c].step = "answered" =>
            AsOf(callers[c].members, callers[c].since - TTL - FetchLimit)

===============================================================================

----------------------------- MODULE CircuitBreaker -----------------------------
(***************************************************************************)
(* CircuitBreaker.Execute by concurrent callers: ask under the lock, call  *)
(* the service without it, record the result under the lock.  A call may   *)
(* therefore return in another state than the one that admitted it.        *)
(*                                                                         *)
(* An operator whose name ends in _Bug is a faulty variant of the operator *)
(* after it, used by nothing.                                              *)
(***************************************************************************)
EXTENDS Integers

CONSTANTS
    Calls,              \* slots for calls of Execute in flight
    MaxFailures,        \* failures before the breaker opens
    Timeout,            \* how long it stays open, in ticks
    HalfOpenMaxReqs,    \* config.HalfOpenMaxReqs
    Hangs               \* calls that never return, or panic (bounds them)

VARIABLES
    state,          \* cb.state
    failures,       \* cb.failures, counted up to MaxFailures
    halfOpenReqs,   \* cb.halfOpenReqs
    age,            \* time since cb.lastFailTime, counted up to Timeout + 1
    running,        \* calls that were admitted and have not returned
    up,             \* is the service up?  Else a call of it may fail.
    hangs,          \* how many of the Hangs are still to come
    probes          \* history: calls admitted since the breaker last opened

breaker == <<state, failures, halfOpenReqs, age>>
breakerVars == <<breaker, running, up, hangs, probes>>

States == {"closed", "open", "half_open"}

ASSUME BreakerAssumption ==
    /\ MaxFailures \in Nat \ {0}
    /\ Timeout \in Nat
    /\ HalfOpenMaxReqs \in Nat
    /\ Hangs \in Nat

BreakerInit ==
    /\ state = "closed"
    /\ failures = 0
    /\ halfOpenReqs = 0
    /\ age = Timeout + 1
    /\ running = {}
    /\ up = TRUE
    /\ hangs = Hangs
    /\ probes = 0

-------------------------------------------------------------------------------

\* Faulty: goes on counting where the last half-open state ended.
HalfOpen_Bug ==
    /\ state = "open"
    /\ age > Timeout
    /\ state' = "half_open"
    /\ UNCHANGED <<failures, halfOpenReqs, age>>

\* The request that finds the time-out over turns the breaker half-open; it is
\* not counted.
HalfOpen ==
    /\ state = "open"
    /\ age > Timeout
    /\ state' = "half_open"
    /\ halfOpenReqs' = 0
    /\ UNCHANGED <<failures, age>>

CountProbe ==
    /\ state = "half_open"
    /\ halfOpenReqs < HalfOpenMaxReqs
    /\ halfOpenReqs' = halfOpenReqs + 1
    /\ UNCHANGED <<state, failures, age>>

\* allowRequest says yes; when it says no nothing changes.
AllowRequest(c) ==
    /\ c \notin running
    /\ \/ state = "closed" /\ UNCHANGED <<breaker, probes>>
       \/ (HalfOpen \/ CountProbe) /\ probes' = probes + 1
    /\ running' = running \cup {c}
    /\ UNCHANGED <<up, hangs>>

\* Faulty: closes and does not forget the failures.
Close_Bug ==
    /\ state' = "closed"
    /\ halfOpenReqs' = 0
    /\ UNCHANGED <<failures, age>>

Close ==
    /\ state' = "closed"
    /\ failures' = 0
    /\ halfOpenReqs' = 0
    /\ UNCHANGED age

Success ==
    \/ state = "closed" /\ failures' = 0 /\ UNCHANGED <<state, halfOpenReqs, age>>
    \/ state = "half_open" /\ Close
    \/ state = "open" /\ UNCHANGED breaker

RecordSuccess(c) ==
    /\ c \in running
    /\ Success
    /\ running' = running \ {c}
    /\ UNCHANGED <<up, hangs, probes>>

\* The failure is counted and dated in every state.
Failure ==
    LET count == IF failures < MaxFailures THEN failures + 1 ELSE failures IN
    /\ failures' = count
    /\ age' = 0
    /\ state' = IF state = "half_open" \/ count >= MaxFailures
                THEN "open" ELSE state
    /\ UNCHANGED halfOpenReqs

RecordFailure(c) ==
    /\ c \in running
    /\ ~up
    /\ Failure
    /\ probes' = IF state # "open" /\ state' = "open" THEN 0 ELSE probes
    /\ running' = running \ {c}
    /\ UNCHANGED <<up, hangs>>

\* The function panics or never returns: nothing is recorded.
Hang(c) ==
    /\ hangs > 0
    /\ c \in running
    /\ hangs' = hangs - 1
    /\ running' = running \ {c}
    /\ UNCHANGED <<breaker, up, probes>>

Reset ==
    /\ Close
    /\ UNCHANGED <<running, up, hangs, probes>>

\* Time passes.
BreakerTick ==
    /\ age <= Timeout
    /\ age' = age + 1
    /\ UNCHANGED <<state, failures, halfOpenReqs, running, up, hangs, probes>>

ServiceChanges ==
    /\ up' = ~up
    /\ UNCHANGED <<breaker, running, hangs, probes>>

-------------------------------------------------------------------------------

Return(c) == RecordSuccess(c) \/ RecordFailure(c)

BreakerNext ==
    \/ \E c \in Calls : AllowRequest(c) \/ Return(c) \/ Hang(c)
    \/ Reset
    \/ BreakerTick
    \/ ServiceChanges

BreakerSpec == BreakerInit /\ [][BreakerNext]_breakerVars

\* Time passes, callers keep calling, and calls that do not hang return.
BreakerFairness ==
    /\ WF_breakerVars(BreakerTick)
    /\ \A c \in Calls : WF_breakerVars(AllowRequest(c))
                        /\ WF_breakerVars(Return(c))

-------------------------------------------------------------------------------
(* Properties.                                                             *)

\* Whatever late results arrive in whatever state, the count and the state go
\* together: the breaker is closed exactly while fewer than MaxFailures
\* failures have been counted.
CountMatchesState == state = "closed" <=> failures < MaxFailures

\* A service that stays up is used again: results that come late, calls that
\* never return (no more than HalfOpenMaxReqs of them) and refusals do not keep
\* the breaker from closing for good.
BreakerRecovers == <>[]up => <>[](state = "closed")

===============================================================================

------------------------- MODULE CircuitBreakerProofs -------------------------
(***************************************************************************)
(* Theorems about CircuitBreaker, for any number of callers, any limits    *)
(* and any number of calls that never return.                              *)
(***************************************************************************)
EXTENDS CircuitBreaker, TLAPS

\* What the counters are in each state: the probes are those counted and the
\* one that turned the breaker half-open.
BreakerInv ==
    /\ state \in States
    /\ failures \in 0 .. MaxFailures
    /\ halfOpenReqs \in Nat
    /\ probes \in Nat
    /\ CountMatchesState
    /\ state = "open" => probes = 0
    /\ state = "half_open" => /\ probes = halfOpenReqs + 1
                              /\ halfOpenReqs <= HalfOpenMaxReqs

\* allowRequest keeps the counters in step.
LEMMA AllowStep ==
    ASSUME BreakerInv, NEW c \in Calls, AllowRequest(c)
    PROVE  BreakerInv'
<1>1. CASE state = "closed" /\ UNCHANGED <<breaker, probes>>
  BY <1>1 DEF BreakerInv, breaker, CountMatchesState
<1>2. CASE HalfOpen /\ probes' = probes + 1
  BY <1>2, BreakerAssumption
  DEF BreakerInv, HalfOpen, CountMatchesState, States
<1>3. CASE CountProbe /\ probes' = probes + 1
  BY <1>3, BreakerAssumption
  DEF BreakerInv, CountProbe, CountMatchesState, States
<1> QED
  BY <1>1, <1>2, <1>3 DEF AllowRequest

\* So does the result of a call, however old the call is.
LEMMA ReturnStep ==
    ASSUME BreakerInv, NEW c \in Calls, Return(c)
    PROVE  BreakerInv'
<1>1. CASE RecordSuccess(c)
  <2>1. CASE state = "half_open" /\ Close
    BY <1>1, <2>1, BreakerAssumption
    DEF BreakerInv, RecordSuccess, Close, CountMatchesState, States
  <2>2. CASE state = "closed" /\ failures' = 0 /\ UNCHANGED <<state, halfOpenReqs, age>>
    BY <1>1, <2>2, BreakerAssumption
    DEF BreakerInv, RecordSuccess, CountMatchesState, States
  <2>3. CASE state = "open" /\ UNCHANGED breaker
    BY <1>1, <2>3 DEF BreakerInv, RecordSuccess, breaker, CountMatchesState
  <2> QED
    BY <1>1, <2>1, <2>2, <2>3 DEF RecordSuccess, Success
<1>2. CASE RecordFailure(c)
  <2> DEFINE count == IF failures < MaxFailures THEN failures + 1 ELSE failures
  <2>1. /\ failures' = count
        /\ state' = IF state = "half_open" \/ count >= MaxFailures
                    THEN "open" ELSE state
        /\ halfOpenReqs' = halfOpenReqs
        /\ probes' = IF state # "open" /\ state' = "open" THEN 0 ELSE probes
    BY <1>2 DEF RecordFailure, Failure
  <2>2. count \in 0 .. MaxFailures
    BY BreakerAssumption DEF BreakerInv
  <2>3. CASE state = "closed"
    BY <2>1, <2>2, <2>3, BreakerAssumption
    DEF BreakerInv, CountMatchesState, States
  <2>4. CASE state # "closed"
    <3>1. count = failures /\ failures = MaxFailures
      BY <2>4, BreakerAssumption DEF BreakerInv, CountMatchesState
    <3> QED
      BY <2>1, <2>4, <3>1, BreakerAssumption
      DEF BreakerInv, CountMatchesState, States
  <2> QED
    BY <2>3, <2>4
<1> QED
  BY <1>1, <1>2 DEF Return

\* The invariant is inductive.
LEMMA BreakerStep ==
    ASSUME BreakerInv, [BreakerNext]_breakerVars
    PROVE  BreakerInv'
<1>1. CASE UNCHANGED breakerVars
  BY <1>1 DEF BreakerInv, breakerVars, breaker, CountMatchesState
<1>2. ASSUME NEW c \in Calls, Hang(c) PROVE BreakerInv'
  BY <1>2 DEF BreakerInv, Hang, breaker, CountMatchesState
<1>3. CASE Reset
  BY <1>3, BreakerAssumption
  DEF BreakerInv, Reset, Close, CountMatchesState, States
<1>4. CASE BreakerTick
  BY <1>4 DEF BreakerInv, BreakerTick, CountMatchesState
<1>5. CASE ServiceChanges
  BY <1>5 DEF BreakerInv, ServiceChanges, breaker, CountMatchesState
<1> QED
  BY <1>1, <1>2, <1>3, <1>4, <1>5, AllowStep, ReturnStep DEF BreakerNext

LEMMA BreakerInvariant == BreakerSpec => []BreakerInv
<1>1. BreakerInit => BreakerInv
  BY BreakerAssumption DEF BreakerInit, BreakerInv, CountMatchesState, States
<1>2. BreakerInv /\ [BreakerNext]_breakerVars => BreakerInv'
  BY BreakerStep
<1> QED
  BY <1>1, <1>2, PTL DEF BreakerSpec

\* The breaker is closed exactly while fewer than MaxFailures failures have
\* been counted, whatever results arrive late.
THEOREM BreakerCountsMatch == BreakerSpec => []CountMatchesState
<1>1. BreakerInv => CountMatchesState
  BY DEF BreakerInv
<1> QED
  BY <1>1, BreakerInvariant, PTL

\* circuit_breaker.go:40 calls HalfOpenMaxReqs the "Max requests allowed in
\* half-open state".  That is not so: the request that ends the time-out is let
\* through and not counted.  It is the only one.
OneBeyondTheLimit ==
    /\ state = "half_open" => probes = halfOpenReqs + 1
    /\ state # "closed" => probes <= HalfOpenMaxReqs + 1

\* Between two openings one call more than HalfOpenMaxReqs reaches the service,
\* and never two, whatever results arrive late.
THEOREM BreakerSparesService == BreakerSpec => []OneBeyondTheLimit
<1>1. BreakerInv => OneBeyondTheLimit
  BY BreakerAssumption DEF BreakerInv, OneBeyondTheLimit, States
<1> QED
  BY <1>1, BreakerInvariant, PTL

===============================================================================

----------------------------- MODULE RetryProofs -----------------------------
(***************************************************************************)
(* The theorems about Retry, for any configuration.                        *)
(***************************************************************************)
EXTENDS Retry, Induction

\* A call after the cancellation is one Do had decided on before it: none was
\* made before that call, and none is decided on after it.
RetryInv ==
    /\ lateCalls \in {0, 1}
    /\ lateCalls = 1 => cancelled /\ at # "call"

LEMMA RetryStep ==
    ASSUME RetryInv, [RetryNext]_retryVars
    PROVE  RetryInv'
<1>1. CASE CheckContext
  BY <1>1 DEF RetryInv, CheckContext
<1>2. CASE CallFunction
  <2>1. lateCalls = 0 /\ at' # "call" /\ cancelled' = cancelled
    BY <1>2 DEF RetryInv, CallFunction
  <2>2. lateCalls' = IF cancelled THEN 1 ELSE 0
    BY <1>2, <2>1 DEF CallFunction
  <2> QED
    BY <2>1, <2>2 DEF RetryInv
<1>3. CASE WakeUp
  BY <1>3 DEF RetryInv, WakeUp
<1>4. CASE SleepCancelled
  BY <1>4 DEF RetryInv, SleepCancelled
<1>5. CASE Cancel
  BY <1>5 DEF RetryInv, Cancel
<1>6. CASE DoAgain
  BY <1>6 DEF RetryInv, DoAgain
<1>7. CASE UNCHANGED retryVars
  BY <1>7 DEF RetryInv, retryVars
<1> QED
  BY <1>1, <1>2, <1>3, <1>4, <1>5, <1>6, <1>7 DEF RetryNext

\* After a cancellation at most one more call is made.
THEOREM RetriesStop == RetrySpec => []CancelStopsRetries
<1>1. RetryInit => RetryInv
  BY DEF RetryInit, RetryInv
<1>2. RetryInv /\ [RetryNext]_retryVars => RetryInv'
  BY RetryStep
<1>3. RetryInv => CancelStopsRetries
  BY DEF RetryInv, CancelStopsRetries
<1> QED
  BY <1>1, <1>2, <1>3, PTL DEF RetrySpec

-------------------------------------------------------------------------------
(* The delays.                                                             *)

\* Exponential is defined by recursion: there is a function that its equation
\* holds of.
LEMMA ExponentialDefined ==
    /\ Exponential \in [0 .. MaxRetries -> Nat]
    /\ Exponential = [n \in 0 .. MaxRetries |->
           IF n = 0 THEN InitialDelay ELSE Multiplier * Exponential[n - 1]]
  <1>1. MaxRetries \in Nat /\ InitialDelay \in Nat /\ Multiplier \in Nat
    BY RetryAssumption
  <1> DEFINE step == [p \in (1 .. MaxRetries) \X Nat |-> Multiplier * p[2]]
  <1>2. step \in [(1 .. MaxRetries) \X Nat -> Nat] BY <1>1
  <1> HIDE DEF step
  <1>3. PICK f \in [0 .. MaxRetries -> Nat] :
            Recursion(f, MaxRetries, InitialDelay, step)
    <2>1. HasRecursion(MaxRetries, Nat, InitialDelay, step)
      BY <1>1, <1>2, RecursionUpTo
    <2> QED BY <2>1 DEF HasRecursion
  <1>4. \A n \in 1 .. MaxRetries : f[n] = Multiplier * f[n - 1]
    <2> SUFFICES ASSUME NEW n \in 1 .. MaxRetries
                 PROVE  f[n] = Multiplier * f[n - 1]
      OBVIOUS
    <2>1. <<n, f[n - 1]>> \in (1 .. MaxRetries) \X Nat BY <1>1
    <2>2. step[<<n, f[n - 1]>>] = Multiplier * f[n - 1] BY <2>1 DEF step
    <2> QED BY <1>3, <2>2 DEF Recursion
  <1>5. Exponential = [n \in 0 .. MaxRetries |->
           IF n = 0 THEN InitialDelay ELSE Multiplier * Exponential[n - 1]]
    <2>1. f = [n \in 0 .. MaxRetries |->
                  IF n = 0 THEN InitialDelay ELSE Multiplier * f[n - 1]]
      <3>1. f \in [0 .. MaxRetries -> Nat] /\ f[0] = InitialDelay
        BY <1>3 DEF Recursion
      <3>2. MaxRetries \in Nat BY <1>1
      <3> QED BY <1>4, <3>1, <3>2
    <2> QED BY <2>1 DEF Exponential
  <1> DEFINE Typed == {n \in 0 .. MaxRetries : Exponential[n] \in Nat}
  <1>6. 0 \in Typed BY <1>1, <1>5, RetryAssumption
  <1>7. ASSUME NEW n \in 0 .. MaxRetries - 1, n \in Typed
        PROVE  n + 1 \in Typed
    <2>1. Exponential[n + 1] = Multiplier * Exponential[n] BY <1>1, <1>5
    <2> QED BY <1>1, <1>7, <2>1, RetryAssumption
  <1>8. 0 .. MaxRetries \subseteq Typed
    <2> HIDE DEF Typed
    <2> QED BY <1>1, <1>6, <1>7, InductionUpTo
  <1> QED BY <1>5, <1>8

\* No delay is negative, none exceeds the longest.
LEMMA DelaysBounded ==
    ASSUME NEW n \in 0 .. MaxRetries, NEW delay \in Delays(n)
    PROVE  delay \in Nat /\ delay <= LongestDelay
  <1> DEFINE b == Backoff(n)
             most == (b * JitterPercent) \div 100
             top == (MaxDelay * JitterPercent) \div 100
  <1>1. MaxDelay \in Nat /\ InitialDelay \in Nat /\ JitterPercent \in Nat
    BY RetryAssumption
  <1>2. b \in 0 .. MaxDelay
    <2>1. Exponential[n] \in Nat BY ExponentialDefined
    <2>2. b = IF Exponential[n] > MaxDelay THEN MaxDelay ELSE Exponential[n]
      BY DEF Backoff
    <2> HIDE DEF b
    <2> QED BY <1>1, <2>1, <2>2
  <1>3. PICK jitter \in -most .. most :
            delay = IF b + jitter < 0 THEN InitialDelay ELSE b + jitter
    BY DEF Delays, b
  <1> HIDE DEF b
  <1>4. b * JitterPercent \in Nat /\ MaxDelay * JitterPercent \in Nat
        /\ b * JitterPercent <= MaxDelay * JitterPercent
    BY <1>1, <1>2
  <1>5. most \in Nat /\ top \in Nat /\ most <= top
    BY <1>4
  <1>6. JitterPercent <= 100 => most <= b
    <2> SUFFICES ASSUME JitterPercent <= 100 PROVE most <= b
      OBVIOUS
    <2>1. b * JitterPercent <= b * 100 BY <1>1, <1>2
    <2> QED BY <1>2, <1>4, <2>1
  <1> HIDE DEF most, top
  <1>7. /\ MaxDelay + top <= LongestDelay
        /\ JitterPercent > 100 => InitialDelay <= LongestDelay
    BY <1>1, <1>5 DEF LongestDelay, top
  <1>8. LongestDelay \in Nat
    BY <1>1, <1>5 DEF LongestDelay, top
  <1>9. CASE b + jitter < 0
    <2>1. JitterPercent > 100 BY <1>1, <1>2, <1>3, <1>5, <1>6, <1>9
    <2> QED BY <1>1, <1>3, <1>7, <1>9, <2>1
  <1>10. CASE ~(b + jitter < 0)
    BY <1>1, <1>2, <1>3, <1>5, <1>7, <1>8, <1>10
  <1> QED BY <1>9, <1>10

LEMMA LongestDefined == MaxRetries \in Nat /\ LongestDelay \in Nat
  <1>1. /\ MaxRetries \in Nat /\ MaxDelay \in Nat /\ InitialDelay \in Nat
        /\ JitterPercent \in Nat /\ MaxDelay * JitterPercent \in Nat
    BY RetryAssumption
  <1>2. (MaxDelay * JitterPercent) \div 100 \in Nat BY <1>1
  <1> QED BY <1>1, <1>2 DEF LongestDelay

\* Each attempt adds one delay.
WaitInv ==
    /\ attempt \in 0 .. MaxRetries
    /\ waited \in Nat
    /\ waited <= attempt * LongestDelay
    /\ at = "sleep" => /\ attempt < MaxRetries
                       /\ wait \in Nat /\ wait <= LongestDelay

LEMMA WaitStep ==
    ASSUME WaitInv, [RetryNext]_retryVars
    PROVE  WaitInv'
  <1>0. MaxRetries \in Nat /\ LongestDelay \in Nat
    BY LongestDefined
  <1>1. CASE CallFunction
    <2>1. /\ UNCHANGED <<attempt, waited>>
          /\ \/ at' = "done"
             \/ attempt < MaxRetries /\ wait' \in Delays(attempt)
      BY <1>1 DEF CallFunction
    <2> QED BY <2>1, DelaysBounded DEF WaitInv
  <1>2. CASE WakeUp
    <2>1. /\ attempt' = attempt + 1 /\ waited' = waited + wait /\ at' = "check"
          /\ attempt < MaxRetries /\ wait \in Nat /\ wait <= LongestDelay
      BY <1>2 DEF WakeUp, WaitInv
    <2>2. (attempt + 1) * LongestDelay = attempt * LongestDelay + LongestDelay
          /\ attempt * LongestDelay \in Nat
      BY <1>0 DEF WaitInv
    <2> QED BY <1>0, <2>1, <2>2 DEF WaitInv
  <1>3. CASE DoAgain
    BY <1>0, <1>3 DEF WaitInv, DoAgain
  <1>4. CASE CheckContext \/ SleepCancelled \/ Cancel \/ UNCHANGED retryVars
    BY <1>4 DEF WaitInv, CheckContext, SleepCancelled, Cancel, retryVars
  <1> QED
    BY <1>1, <1>2, <1>3, <1>4 DEF RetryNext

\* Whatever the delays, the multiplier and the jitter, all the waiting of one Do
\* stays within MaxRetries times MaxDelay and its jitter or, where jitter beyond
\* 100% lets InitialDelay stand in for a negative delay, times InitialDelay.
THEOREM WaitsStayBounded == RetrySpec => []WaitsBounded
  <1>0. MaxRetries \in Nat /\ LongestDelay \in Nat
    BY LongestDefined
  <1>1. RetryInit => WaitInv
    BY <1>0 DEF RetryInit, WaitInv
  <1>2. WaitInv /\ [RetryNext]_retryVars => WaitInv'
    BY WaitStep
  <1>3. WaitInv => WaitsBounded
    <2> SUFFICES ASSUME WaitInv PROVE waited <= MaxRetries * LongestDelay
      BY DEF WaitsBounded
    <2>1. attempt * LongestDelay <= MaxRetries * LongestDelay
      BY <1>0 DEF WaitInv
    <2> QED BY <1>0, <2>1 DEF WaitInv
  <1> QED
    BY <1>1, <1>2, <1>3, PTL DEF RetrySpec

===============================================================================

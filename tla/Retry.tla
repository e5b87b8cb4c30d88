--------------------------------- MODULE Retry ---------------------------------
(***************************************************************************)
(* Retryer.Do: call, classify the error, wait with exponential backoff and *)
(* jitter, call again, while the caller's context may be cancelled at any  *)
(* moment.  DoWithResult is the same loop.                                 *)
(*                                                                         *)
(* An operator whose name ends in _Bug is a faulty variant of the operator *)
(* after it, used by nothing.                                              *)
(***************************************************************************)
EXTENDS Integers

CONSTANTS
    MaxRetries, InitialDelay, MaxDelay, Multiplier,     \* of Config
    JitterPercent                                       \* JitterFraction

VARIABLES
    attempt,        \* the attempt it is at
    at,             \* "check", "call", "sleep" or "done"
    cancelled,      \* is the context cancelled?
    wait,           \* the delay before the next attempt
    waited,         \* history: the delays so far
    lateCalls       \* history: calls made after the context was cancelled

retryVars == <<attempt, at, cancelled, wait, waited, lateCalls>>

ASSUME RetryAssumption ==
    /\ {MaxRetries, InitialDelay, MaxDelay, JitterPercent} \subseteq Nat
    /\ Multiplier \in Nat \ {0}

RetryInit ==
    /\ attempt = 0
    /\ at = "check"
    /\ cancelled = FALSE
    /\ wait = 0
    /\ waited = 0
    /\ lateCalls = 0

-------------------------------------------------------------------------------

\* InitialDelay times the n-th power of the multiplier.
Exponential[n \in 0 .. MaxRetries] ==
    IF n = 0 THEN InitialDelay ELSE Multiplier * Exponential[n - 1]

\* Faulty: the exponential delay is not capped.
Backoff_Bug(n) == Exponential[n]

Backoff(n) ==
    IF Exponential[n] > MaxDelay THEN MaxDelay ELSE Exponential[n]

\* calculateDelay: the jitter comes after the cap, and a delay that would be
\* negative is the initial one.
Delays(n) ==
    LET most == (Backoff(n) * JitterPercent) \div 100 IN
    {IF Backoff(n) + jitter < 0 THEN InitialDelay ELSE Backoff(n) + jitter :
         jitter \in -most .. most}

\* Faulty: the context is only looked at while sleeping.
CheckContext_Bug ==
    /\ at = "check"
    /\ at' = "call"
    /\ UNCHANGED <<attempt, cancelled, wait, waited, lateCalls>>

CheckContext ==
    /\ at = "check"
    /\ at' = IF cancelled THEN "done" ELSE "call"
    /\ UNCHANGED <<attempt, cancelled, wait, waited, lateCalls>>

\* The function succeeds, fails for good, or fails with a retryable error.
CallFunction ==
    /\ at = "call"
    /\ lateCalls' = IF cancelled THEN lateCalls + 1 ELSE lateCalls
    /\ \/ at' = "done" /\ UNCHANGED wait
       \/ attempt < MaxRetries /\ at' = "sleep" /\ wait' \in Delays(attempt)
    /\ UNCHANGED <<attempt, cancelled, waited>>

\* The select of a cancelled context whose delay is over too may go either way.
WakeUp ==
    /\ at = "sleep"
    /\ at' = "check"
    /\ attempt' = attempt + 1
    /\ waited' = waited + wait
    /\ UNCHANGED <<cancelled, wait, lateCalls>>

SleepCancelled ==
    /\ at = "sleep"
    /\ cancelled
    /\ at' = "done"
    /\ UNCHANGED <<attempt, cancelled, wait, waited, lateCalls>>

Cancel ==
    /\ ~cancelled
    /\ cancelled' = TRUE
    /\ UNCHANGED <<attempt, at, wait, waited, lateCalls>>

\* The next call of Do.
DoAgain ==
    /\ at = "done"
    /\ attempt' = 0
    /\ at' = "check"
    /\ cancelled' = FALSE
    /\ wait' = 0
    /\ waited' = 0
    /\ lateCalls' = 0

RetryNext == CheckContext \/ CallFunction \/ WakeUp \/ SleepCancelled
             \/ Cancel \/ DoAgain

RetrySpec == RetryInit /\ [][RetryNext]_retryVars

-------------------------------------------------------------------------------
(* Properties.                                                             *)

\* Once its context is cancelled Do calls the function at most once more: the
\* call it had just decided on.
CancelStopsRetries == lateCalls <= 1

\* The longest delay there is: the jitter may exceed MaxDelay by its own
\* fraction.  The initial delay that replaces a negative one is not capped, and
\* nothing validates that it is below MaxDelay; with jitter of up to 100% no
\* delay is negative.
LongestDelay ==
    LET most == MaxDelay + (MaxDelay * JitterPercent) \div 100 IN
    IF JitterPercent > 100 /\ InitialDelay > most THEN InitialDelay ELSE most

\* Over all its attempts Do waits no longer than the configuration says.
WaitsBounded == waited <= MaxRetries * LongestDelay

===============================================================================

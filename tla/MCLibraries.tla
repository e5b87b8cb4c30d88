------------------------------- MODULE MCLibraries -------------------------------
(***************************************************************************)
(* Small instances of the libraries the handlers use.  They share nothing: *)
(* a behaviour is one of the breaker, of Do, of the cache or of the names. *)
(***************************************************************************)
EXTENDS CircuitBreaker, Retry, GroupCache, DocumentNames

VARIABLE library    \* the one this behaviour is about

libraryVars == <<library, breakerVars, retryVars, cacheVars, named>>

Init ==
    /\ library \in {"breaker", "retry", "cache", "names"}
    /\ BreakerInit
    /\ RetryInit
    /\ CacheInit
    /\ NamesInit
    /\ library # "cache" => group = {}

Next ==
    /\ UNCHANGED library
    /\ \/ /\ library = "breaker" /\ BreakerNext
          /\ UNCHANGED <<retryVars, cacheVars, named>>
       \/ /\ library = "retry" /\ RetryNext
          /\ UNCHANGED <<breakerVars, cacheVars, named>>
       \/ /\ library = "cache" /\ CacheNext
          /\ UNCHANGED <<breakerVars, retryVars, named>>
       \/ /\ library = "names" /\ NamesNext
          /\ UNCHANGED <<breakerVars, retryVars, cacheVars>>

Spec ==
    /\ Init
    /\ [][Next]_libraryVars
    /\ library = "breaker" => BreakerFairness

\* Two letters of each case and two digits, a prefix, ports of one and two
\* digits, and the words of up to two characters of every kind, of up to three
\* of those that sanitising treats differently.
MCLowerOf == [c \in Upper |-> CASE c = "A" -> "a" [] c = "B" -> "b"]
MCPrefix == <<"A", "B">>
MCPorts == {<<"1">>, <<"2", "2">>}
MCWords ==
    BoundedSeq({"a", "B", "2", "-", "_", "."}, 2) \cup
    BoundedSeq({"a", "-", "."}, 3)

===============================================================================

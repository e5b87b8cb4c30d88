----------------------------- MODULE DocumentNames -----------------------------
(***************************************************************************)
(* Document names: {PREFIX}-{username}-{host}-{port}, of sanitised parts,  *)
(* truncated when too long, and read back by ParseDocumentName.  Strings   *)
(* are sequences of characters.                                            *)
(*                                                                         *)
(* An operator whose name ends in _Bug is a faulty variant of the operator *)
(* after it, used by nothing.                                              *)
(***************************************************************************)
EXTENDS Integers, Sequences, SequencesExt

CONSTANTS
    Lower, Upper,   \* the letters
    Digits,
    LowerOf,        \* LowerOf[c]: the lower-case letter of an upper-case one
    Prefix,         \* the DOCUMENT_PREFIX
    Words,          \* usernames and hosts, of any characters
    Ports,          \* ports, as they are printed
    MaxName,        \* 128: the longest name AWS takes
    MaxUsername,    \* 30 and 60: what is kept of the username and of the host
    MaxHost         \* of a name that is too long

Alphanumeric == Lower \cup Upper \cup Digits
NameChars == Alphanumeric \cup {"-", "_"}

ASSUME NamesAssumption ==
    /\ {"-", "_"} \cap Alphanumeric = {}
    /\ Upper \cap (Lower \cup Digits) = {}
    /\ LowerOf \in [Upper -> Lower]
    /\ Prefix \in Seq(NameChars) /\ Prefix # <<>>
    /\ Head(Prefix) \in Alphanumeric
    /\ Words \subseteq Seq(STRING)
    /\ Ports \subseteq Seq(Digits) \ {<<>>}
    /\ {MaxName, MaxUsername, MaxHost} \subseteq Nat
    /\ \A p \in Ports :
           Len(Prefix) + MaxUsername + MaxHost + Len(p) + 3 <= MaxName

-------------------------------------------------------------------------------
(* SanitizeForDocumentName.                                                *)

Replace(s) == [i \in 1 .. Len(s) |-> IF s[i] \in NameChars THEN s[i] ELSE "-"]

CollapseStep(t, c) ==
    IF c = "-" /\ t # <<>> /\ Last(t) = "-" THEN t ELSE Append(t, c)

Collapse(s) ==
    LET collapsed[n \in 0 .. Len(s)] ==
            IF n = 0 THEN <<>> ELSE CollapseStep(collapsed[n - 1], s[n]) IN
    collapsed[Len(s)]

\* Of collapsed strings: there is at most one hyphen at either end.
Trim(s) ==
    LET from == IF s # <<>> /\ Head(s) = "-" THEN 2 ELSE 1
        to == IF s # <<>> /\ Last(s) = "-" THEN Len(s) - 1 ELSE Len(s) IN
    SubSeq(s, from, to)

LowerCase(c) == IF c \in Upper THEN LowerOf[c] ELSE c

ToLower(s) == [i \in 1 .. Len(s) |-> LowerCase(s[i])]

\* Faulty: collapses before it replaces, so replaced characters stay in a row.
Sanitize_Bug(s) == ToLower(Trim(Replace(Collapse(s))))

Sanitize(s) == ToLower(Trim(Collapse(Replace(s))))

-------------------------------------------------------------------------------
(* DocumentNameGenerator.                                                  *)

Join(username, host, port) ==
    Prefix \o <<"-">> \o username \o <<"-">> \o host \o <<"-">> \o port

Cut(s, n) == IF Len(s) > n THEN SubSeq(s, 1, n) ELSE s

\* Faulty: what is too long is the parts, not the name with its separators.
TooLong_Bug(username, host, port) ==
    Len(Prefix) + Len(username) + Len(host) + Len(port) > MaxName

TooLong(username, host, port) == Len(Join(username, host, port)) > MaxName

GenerateName(username, host, port) ==
    LET u == Sanitize(username)
        h == Sanitize(host) IN
    IF TooLong(u, h, port)
    THEN Join(Cut(u, MaxUsername), Cut(h, MaxHost), port)
    ELSE Join(u, h, port)

ValidateDocumentName(name) ==
    /\ name # <<>>
    /\ Len(name) <= MaxName
    /\ ToSet(name) \subseteq NameChars
    /\ Head(name) \in Alphanumeric

HyphensIn(s) == {i \in 1 .. Len(s) : s[i] = "-"}

Failed == [ok |-> FALSE, username |-> <<>>, host |-> <<>>, port |-> <<>>]

\* Faulty: looks for the last hyphen of username and host.
SplitAt_Bug(s) == CHOOSE i \in HyphensIn(s) : \A j \in HyphensIn(s) : j <= i

\* The hyphen between username and host: the first one.
SplitAt(s) == CHOOSE i \in HyphensIn(s) : \A j \in HyphensIn(s) : i <= j

\* The port is what follows the last hyphen, if it starts with a number.
ParseDocumentName(name) ==
    LET rest == SubSeq(name, Len(Prefix) + 2, Len(name))
        last == CHOOSE i \in HyphensIn(rest) :
                    \A j \in HyphensIn(rest) : j <= i
        port == SubSeq(rest, last + 1, Len(rest))
        both == SubSeq(rest, 1, last - 1) IN
    IF /\ IsPrefix(Prefix \o <<"-">>, name)
       /\ HyphensIn(rest) # {}
       /\ port # <<>> /\ Head(port) \in Digits
       /\ HyphensIn(both) # {}
    THEN [ok |-> TRUE,
          username |-> SubSeq(both, 1, SplitAt(both) - 1),
          host |-> SubSeq(both, SplitAt(both) + 1, Len(both)),
          port |-> port]
    ELSE Failed

-------------------------------------------------------------------------------
(* Every request is given a name, and every name is that of some request.  *)

VARIABLE
    named           \* the request a name is made for, and the name

NoName == [username |-> <<>>, host |-> <<>>, port |-> <<>>, name |-> <<>>]

NamesInit == named = NoName

NameRequest(username, host, port) ==
    /\ named = NoName
    /\ named' = [username |-> username, host |-> host, port |-> port,
                 name |-> GenerateName(username, host, port)]

NextRequest == named # NoName /\ named' = NoName

NamesNext ==
    \/ \E u, h \in Words, p \in Ports : NameRequest(u, h, p)
    \/ NextRequest

NamesSpec == NamesInit /\ [][NamesNext]_named

-------------------------------------------------------------------------------
(* Properties, of every username, host and port.                           *)

Cleaned == [username |-> Sanitize(named.username),
            host |-> Sanitize(named.host)]

\* Whatever people type, and however long it is, AWS takes the name made of
\* it, and sanitising what is sanitised changes nothing.
NamesValid ==
    named # NoName =>
        /\ ValidateDocumentName(named.name)
        /\ Sanitize(Cleaned.username) = Cleaned.username
        /\ Sanitize(Cleaned.host) = Cleaned.host

\* A name that was not cut is read back: the port always, username and host
\* up to where one ends and the other begins, and exactly when the sanitised
\* username has no hyphen.
NamesParseBack ==
    LET parsed == ParseDocumentName(named.name)
        u == Cleaned.username
        h == Cleaned.host IN
    named # NoName =>
        /\ parsed.ok /\ parsed.port = named.port
        /\ ~TooLong(u, h, named.port) =>
               /\ parsed.username \o <<"-">> \o parsed.host = u \o <<"-">> \o h
               /\ HyphensIn(u) = {} => parsed.username = u /\ parsed.host = h

===============================================================================

-------------------------- MODULE DocumentNamesProofs --------------------------
(***************************************************************************)
(* The theorems about DocumentNames, for any alphabet, prefix, usernames,  *)
(* hosts and ports, of any length.                                         *)
(***************************************************************************)
EXTENDS DocumentNames, Induction, SequenceTheorems

Strings == Seq(NameChars)

\* No two hyphens in a row.
NoRow(s) == \A i \in 1 .. Len(s) - 1 : ~(s[i] = "-" /\ s[i + 1] = "-")

\* No hyphen at either end.
Trimmed(s) == s # <<>> => Head(s) # "-" /\ Last(s) # "-"

\* What Sanitize makes of any string.
Clean(s) ==
    /\ s \in Seq(NameChars \ Upper)
    /\ NoRow(s)
    /\ Trimmed(s)

-------------------------------------------------------------------------------
(* Replace.                                                                *)

LEMMA ReplaceType ==
    ASSUME NEW s \in Seq(STRING)
    PROVE  Replace(s) \in Strings
  <1>1. Len(s) \in Nat BY LenProperties
  <1>2. Replace(s) \in [1 .. Len(s) -> NameChars] BY DEF Replace, NameChars
  <1> QED BY <1>1, <1>2, SeqDef DEF Strings

LEMMA ReplaceNothing ==
    ASSUME NEW s \in Strings
    PROVE  Replace(s) = s
  <1>1. s \in [1 .. Len(s) -> NameChars] BY LenProperties DEF Strings
  <1>2. \A i \in 1 .. Len(s) : s[i] \in NameChars BY <1>1
  <1>3. Replace(s) = [i \in 1 .. Len(s) |-> s[i]] BY <1>2 DEF Replace
  <1> QED BY <1>1, <1>3

-------------------------------------------------------------------------------
(* Collapse.                                                               *)

LEMMA CollapseStepKeeps ==
    ASSUME NEW t \in Strings, NoRow(t), NEW c \in NameChars
    PROVE  CollapseStep(t, c) \in Strings /\ NoRow(CollapseStep(t, c))
  <1>1. Len(t) \in Nat /\ (t = <<>> <=> Len(t) = 0)
    BY LenProperties, EmptySeq DEF Strings
  <1>2. CASE c = "-" /\ t # <<>> /\ Last(t) = "-"
    BY <1>2 DEF CollapseStep
  <1>3. CASE ~(c = "-" /\ t # <<>> /\ Last(t) = "-")
    <2> DEFINE r == Append(t, c)
    <2>1. CollapseStep(t, c) = r BY <1>3 DEF CollapseStep
    <2>2. /\ r \in Strings /\ Len(r) = Len(t) + 1
          /\ \A i \in 1 .. Len(t) : r[i] = t[i]
          /\ r[Len(t) + 1] = c
      BY AppendProperties DEF Strings
    <2> HIDE DEF r
    <2>3. ASSUME NEW i \in 1 .. Len(r) - 1
          PROVE  ~(r[i] = "-" /\ r[i + 1] = "-")
      <3>1. CASE i = Len(t)
        <4>1. r[i] = Last(t) /\ t # <<>> /\ r[i + 1] = c
          BY <1>1, <2>2, <3>1 DEF Last
        <4> QED BY <1>3, <4>1
      <3>2. CASE i # Len(t)
        <4>1. i \in 1 .. Len(t) - 1 /\ r[i] = t[i] /\ r[i + 1] = t[i + 1]
          BY <1>1, <2>2, <3>2
        <4> QED BY <4>1 DEF NoRow
      <3> QED BY <3>1, <3>2
    <2> QED BY <2>1, <2>2, <2>3 DEF NoRow
  <1> QED BY <1>2, <1>3

LEMMA CollapseStepType ==
    ASSUME NEW t \in Strings, NEW c \in NameChars
    PROVE  CollapseStep(t, c) \in Strings
  BY AppendProperties DEF CollapseStep, Strings

\* What Collapse has made of the first characters of s.
Collapsing(f, s) ==
    /\ f \in [0 .. Len(s) -> Strings]
    /\ f[0] = <<>>
    /\ \A n \in 1 .. Len(s) : f[n] = CollapseStep(f[n - 1], s[n])
    /\ f[Len(s)] = Collapse(s)

LEMMA CollapseDefined ==
    ASSUME NEW s \in Strings
    PROVE  \E f : Collapsing(f, s)
  <1>1. Len(s) \in Nat /\ \A n \in 1 .. Len(s) : s[n] \in NameChars
    BY LenProperties, ElementOfSeq DEF Strings
  <1>2. <<>> \in Strings BY EmptySeq DEF Strings
  <1> DEFINE step == [p \in (1 .. Len(s)) \X Strings |->
                          CollapseStep(p[2], s[p[1]])]
  <1>3. step \in [(1 .. Len(s)) \X Strings -> Strings]
    BY <1>1, CollapseStepType
  <1> HIDE DEF step
  <1>4. PICK f \in [0 .. Len(s) -> Strings] : Recursion(f, Len(s), <<>>, step)
    <2>1. HasRecursion(Len(s), Strings, <<>>, step)
      BY <1>1, <1>2, <1>3, RecursionUpTo
    <2> QED BY <2>1 DEF HasRecursion
  <1>5. \A n \in 1 .. Len(s) : f[n] = CollapseStep(f[n - 1], s[n])
    <2> SUFFICES ASSUME NEW n \in 1 .. Len(s)
                 PROVE  f[n] = CollapseStep(f[n - 1], s[n])
      OBVIOUS
    <2>1. <<n, f[n - 1]>> \in (1 .. Len(s)) \X Strings BY <1>1
    <2>2. step[<<n, f[n - 1]>>] = CollapseStep(f[n - 1], s[n])
      BY <2>1 DEF step
    <2> QED BY <1>4, <2>2 DEF Recursion
  <1> DEFINE Equation(g) ==
          g = [n \in 0 .. Len(s) |->
                  IF n = 0 THEN <<>> ELSE CollapseStep(g[n - 1], s[n])]
             collapsed == CHOOSE g : Equation(g)
  <1>6. f[0] = <<>> BY <1>4 DEF Recursion
  <1>7. Equation(f) BY <1>1, <1>5, <1>6
  <1>8. Equation(collapsed) BY <1>7
  <1>9. Collapse(s) = collapsed[Len(s)] BY DEF Collapse
  <1> HIDE DEF collapsed
  <1>10. \A n \in 0 .. Len(s) : f[n] = collapsed[n]
    <2> DEFINE Same == {n \in 0 .. Len(s) : f[n] = collapsed[n]}
    <2>1. 0 \in Same BY <1>1, <1>6, <1>8
    <2>2. ASSUME NEW n \in 0 .. Len(s) - 1, n \in Same
          PROVE  n + 1 \in Same
      <3>1. f[n + 1] = CollapseStep(f[n], s[n + 1]) BY <1>1, <1>5
      <3>2. collapsed[n + 1] = CollapseStep(collapsed[n], s[n + 1])
        BY <1>1, <1>8
      <3> QED BY <1>1, <2>2, <3>1, <3>2
    <2>3. 0 .. Len(s) \subseteq Same
      <3> HIDE DEF Same
      <3> QED BY <1>1, <2>1, <2>2, InductionUpTo
    <2> QED BY <2>3
  <1> QED BY <1>1, <1>4, <1>5, <1>6, <1>9, <1>10 DEF Collapsing

\* No two hyphens in a row are left.
LEMMA CollapseRows ==
    ASSUME NEW s \in Strings
    PROVE  Collapse(s) \in Strings /\ NoRow(Collapse(s))
  <1>1. PICK f : Collapsing(f, s) BY CollapseDefined
  <1>2. Len(s) \in Nat /\ \A n \in 1 .. Len(s) : s[n] \in NameChars
    BY LenProperties, ElementOfSeq DEF Strings
  <1> DEFINE Good == {n \in 0 .. Len(s) : f[n] \in Strings /\ NoRow(f[n])}
  <1>3. 0 \in Good
    <2>1. <<>> \in Strings /\ NoRow(<<>>) BY EmptySeq DEF Strings, NoRow
    <2> QED BY <1>1, <1>2, <2>1 DEF Collapsing
  <1>4. ASSUME NEW n \in 0 .. Len(s) - 1, n \in Good
        PROVE  n + 1 \in Good
    <2>1. n + 1 \in 1 .. Len(s) /\ (n + 1) - 1 = n BY <1>2
    <2>2. f[n + 1] = CollapseStep(f[n], s[n + 1]) BY <1>1, <2>1 DEF Collapsing
    <2>3. s[n + 1] \in NameChars BY <1>2, <2>1
    <2>4. f[n + 1] \in Strings /\ NoRow(f[n + 1])
      BY <1>4, <2>2, <2>3, CollapseStepKeeps
    <2> QED BY <2>1, <2>4
  <1>5. 0 .. Len(s) \subseteq Good
    <2> HIDE DEF Good
    <2> QED BY <1>2, <1>3, <1>4, InductionUpTo
  <1>6. Len(s) \in 0 .. Len(s) BY <1>2
  <1> QED BY <1>1, <1>5, <1>6 DEF Collapsing

LEMMA CollapseNothing ==
    ASSUME NEW s \in Strings, NoRow(s)
    PROVE  Collapse(s) = s
  <1>1. PICK f : Collapsing(f, s) BY CollapseDefined
  <1>2. Len(s) \in Nat /\ \A n \in 1 .. Len(s) : s[n] \in NameChars
    BY LenProperties, ElementOfSeq DEF Strings
  <1> DEFINE Same == {n \in 0 .. Len(s) : f[n] = SubSeq(s, 1, n)}
  <1>3. 0 \in Same
    <2>1. SubSeq(s, 1, 0) = <<>> BY SubSeqEmpty
    <2>2. f[0] = SubSeq(s, 1, 0) BY <1>1, <2>1 DEF Collapsing
    <2>3. 0 \in 0 .. Len(s) BY <1>2
    <2> QED BY <2>2, <2>3
  <1>4. ASSUME NEW n \in 0 .. Len(s) - 1, n \in Same
        PROVE  n + 1 \in Same
    <2>1. n + 1 \in 1 .. Len(s) /\ (n + 1) - 1 = n /\ n \in 0 .. Len(s)
      BY <1>2
    <2> DEFINE t == SubSeq(s, 1, n)
               c == s[n + 1]
    <2>2. f[n + 1] = CollapseStep(t, c) BY <1>1, <1>4, <2>1 DEF Collapsing
    <2>3. t \in Strings /\ Len(t) = n /\ \A i \in 1 .. n : t[i] = s[i]
      <3>1. \A i \in 1 .. n : s[i] \in NameChars BY <1>2, <2>1
      <3> QED BY <2>1, <3>1, SubSeqProperties DEF Strings
    <2>4. SubSeq(s, 1, n + 1) = Append(t, c)
      <3>1. SubSeq(s, 1, n + 1) = SubSeq(s, 1, (n + 1) - 1) \o <<s[n + 1]>>
        BY <1>2, <2>1, SubSeqRecursiveSecond DEF Strings
      <3>2. c \in NameChars BY <1>2, <2>1
      <3>3. Append(t, c) = t \o <<c>> BY <2>3, <3>2, AppendIsConcat DEF Strings
      <3> QED BY <2>1, <3>1, <3>3
    <2>5. ~(c = "-" /\ t # <<>> /\ Last(t) = "-")
      <3> SUFFICES ASSUME c = "-", t # <<>>, Last(t) = "-" PROVE FALSE
        OBVIOUS
      <3>1. n # 0 BY <2>3, EmptySeq DEF Strings
      <3>2. n \in 1 .. Len(s) - 1 /\ s[n] = "-"
        <4> HIDE DEF t
        <4> QED BY <1>2, <2>1, <2>3, <3>1 DEF Last
      <3> QED BY <3>2 DEF NoRow
    <2>6. CollapseStep(t, c) = Append(t, c) BY <2>5 DEF CollapseStep
    <2> QED BY <2>1, <2>2, <2>4, <2>6
  <1>5. 0 .. Len(s) \subseteq Same
    <2> HIDE DEF Same
    <2> QED BY <1>2, <1>3, <1>4, InductionUpTo
  <1>6. Len(s) \in 0 .. Len(s) BY <1>2
  <1>7. SubSeq(s, 1, Len(s)) = s BY SubSeqFull DEF Strings
  <1> QED BY <1>1, <1>5, <1>6, <1>7 DEF Collapsing

-------------------------------------------------------------------------------
(* Trim and ToLower.                                                       *)

LEMMA TrimEnds ==
    ASSUME NEW s \in Strings, NoRow(s)
    PROVE  Trim(s) \in Strings /\ NoRow(Trim(s)) /\ Trimmed(Trim(s))
  <1>1. /\ Len(s) \in Nat /\ \A i \in 1 .. Len(s) : s[i] \in NameChars
        /\ s # <<>> => Len(s) # 0 /\ Head(s) = s[1] /\ Last(s) = s[Len(s)]
    BY LenProperties, ElementOfSeq, EmptySeq DEF Strings, Last
  <1> DEFINE from == IF s # <<>> /\ Head(s) = "-" THEN 2 ELSE 1
             to == IF s # <<>> /\ Last(s) = "-" THEN Len(s) - 1 ELSE Len(s)
             r == SubSeq(s, from, to)
  <1>2. Trim(s) = r BY DEF Trim
  <1>3. /\ from \in Int /\ to \in Int /\ from >= 1 /\ to <= Len(s)
        /\ from <= to => s[from] # "-" /\ s[to] # "-"
    <2>1. CASE s = <<>>
      <3>1. Len(s) = 0 BY <2>1, EmptySeq
      <3> QED BY <1>1, <2>1, <3>1
    <2>2. CASE s # <<>>
      <3>1. from = 2 => s[1] = "-" BY <1>1, <2>2
      <3>2. to = Len(s) - 1 => s[Len(s)] = "-" BY <1>1, <2>2
      <3>3. from = 2 /\ Len(s) >= 2 => s[2] # "-" BY <1>1, <3>1 DEF NoRow
      <3>4. to = Len(s) - 1 /\ Len(s) >= 2 => s[Len(s) - 1] # "-"
        BY <1>1, <3>2 DEF NoRow
      <3>5. from = 1 => s[1] # "-" BY <1>1, <2>2
      <3>6. to = Len(s) => s[Len(s)] # "-" BY <1>1, <2>2
      <3>7. from \in {1, 2} /\ to \in {Len(s) - 1, Len(s)} OBVIOUS
      <3> HIDE DEF from, to
      <3> QED BY <1>1, <2>2, <3>3, <3>4, <3>5, <3>6, <3>7
    <2> QED BY <2>1, <2>2
  <1> HIDE DEF from, to
  <1>4. /\ r \in Strings
        /\ Len(r) = IF from <= to THEN to - from + 1 ELSE 0
        /\ \A i \in 1 .. to - from + 1 : r[i] = s[from + i - 1]
    <2>1. \A i \in from .. to : s[i] \in NameChars BY <1>1, <1>3
    <2> QED BY <1>3, <2>1, SubSeqProperties DEF Strings
  <1> HIDE DEF r
  <1>5. NoRow(r)
    <2> SUFFICES ASSUME NEW i \in 1 .. Len(r) - 1
                 PROVE  ~(r[i] = "-" /\ r[i + 1] = "-")
      BY DEF NoRow
    <2> DEFINE k == from + i - 1
    <2>1. /\ i \in 1 .. to - from + 1 /\ i + 1 \in 1 .. to - from + 1
          /\ k \in 1 .. Len(s) - 1 /\ from + (i + 1) - 1 = k + 1
      BY <1>1, <1>3, <1>4
    <2>2. r[i] = s[k] /\ r[i + 1] = s[k + 1] BY <1>4, <2>1
    <2> HIDE DEF k
    <2> QED BY <2>1, <2>2 DEF NoRow
  <1>6. Trimmed(r)
    <2> SUFFICES ASSUME r # <<>> PROVE Head(r) # "-" /\ Last(r) # "-"
      BY DEF Trimmed
    <2>1. Len(r) # 0 /\ Len(r) \in Nat BY <1>4, EmptySeq DEF Strings
    <2>2. from <= to /\ Len(r) = to - from + 1 BY <1>4, <2>1
    <2>3. r[1] = s[from] /\ r[Len(r)] = s[to] BY <1>3, <1>4, <2>1, <2>2
    <2>4. Head(r) = r[1] BY <1>4, <2>1 DEF Strings
    <2> QED BY <1>3, <2>2, <2>3, <2>4 DEF Last
  <1> QED BY <1>2, <1>4, <1>5, <1>6

LEMMA TrimNothing ==
    ASSUME NEW s \in Strings, Trimmed(s)
    PROVE  Trim(s) = s
  <1>1. Trim(s) = SubSeq(s, 1, Len(s)) BY DEF Trim, Trimmed
  <1> QED BY <1>1, SubSeqFull DEF Strings

\* The lower-case letter of a hyphen, and of nothing else, is a hyphen.
LEMMA LowerCaseOf ==
    ASSUME NEW c \in NameChars
    PROVE  /\ LowerCase(c) \in NameChars \ Upper
           /\ LowerCase(c) = "-" <=> c = "-"
           /\ c \notin Upper => LowerCase(c) = c
  <1>1. /\ Upper \cap Lower = {} /\ LowerOf \in [Upper -> Lower]
        /\ "-" \notin Lower /\ "-" \notin Upper
    BY NamesAssumption DEF Alphanumeric
  <1>2. CASE c \in Upper
    <2>1. LowerCase(c) \in Lower BY <1>1, <1>2 DEF LowerCase
    <2> QED BY <1>1, <1>2, <2>1 DEF NameChars, Alphanumeric
  <1>3. CASE c \notin Upper
    BY <1>3 DEF LowerCase
  <1> QED BY <1>2, <1>3

LEMMA ToLowerClean ==
    ASSUME NEW s \in Strings, NoRow(s), Trimmed(s)
    PROVE  Clean(ToLower(s))
  <1> DEFINE r == ToLower(s)
  <1>1. Len(s) \in Nat /\ \A i \in 1 .. Len(s) : s[i] \in NameChars
    BY LenProperties, ElementOfSeq DEF Strings
  <1>2. /\ r \in Seq(NameChars \ Upper) /\ Len(r) = Len(s)
        /\ \A i \in 1 .. Len(s) : r[i] = LowerCase(s[i])
    <2>1. r = [i \in 1 .. Len(s) |-> LowerCase(s[i])] BY DEF ToLower
    <2>2. r \in [1 .. Len(s) -> NameChars \ Upper]
      BY <1>1, <2>1, LowerCaseOf
    <2>3. r \in Seq(NameChars \ Upper) BY <1>1, <2>2, SeqDef
    <2>4. DOMAIN r = 1 .. Len(s) /\ DOMAIN r = 1 .. Len(r) /\ Len(r) \in Nat
      BY <2>1, <2>3, LenProperties
    <2>5. Len(r) = Len(s) BY <1>1, <2>4
    <2> QED BY <2>1, <2>3, <2>5
  <1>3. \A i \in 1 .. Len(s) : r[i] = "-" <=> s[i] = "-"
    BY <1>1, <1>2, LowerCaseOf
  <1> HIDE DEF r
  <1>4. NoRow(r)
    <2> SUFFICES ASSUME NEW i \in 1 .. Len(s) - 1
                 PROVE  ~(r[i] = "-" /\ r[i + 1] = "-")
      BY <1>2 DEF NoRow
    <2>1. i \in 1 .. Len(s) /\ i + 1 \in 1 .. Len(s) BY <1>1
    <2> QED BY <1>3, <2>1 DEF NoRow
  <1>5. Trimmed(r)
    <2> SUFFICES ASSUME r # <<>> PROVE Head(r) # "-" /\ Last(r) # "-"
      BY DEF Trimmed
    <2>1. Len(s) # 0 /\ s # <<>> BY <1>1, <1>2, EmptySeq
    <2>2. Head(r) = r[1] /\ Head(s) = s[1] BY <1>2, <2>1 DEF Strings
    <2>3. Last(r) = r[Len(s)] /\ Last(s) = s[Len(s)] BY <1>2 DEF Last
    <2>4. 1 \in 1 .. Len(s) /\ Len(s) \in 1 .. Len(s) BY <1>1, <2>1
    <2> QED BY <1>3, <2>1, <2>2, <2>3, <2>4 DEF Trimmed
  <1> QED BY <1>2, <1>4, <1>5 DEF Clean, r

LEMMA ToLowerNothing ==
    ASSUME NEW s \in Seq(NameChars \ Upper)
    PROVE  ToLower(s) = s
  <1>1. s \in [1 .. Len(s) -> NameChars \ Upper] BY LenProperties
  <1>2. \A i \in 1 .. Len(s) : LowerCase(s[i]) = s[i]
    BY <1>1 DEF LowerCase
  <1>3. ToLower(s) = [i \in 1 .. Len(s) |-> s[i]] BY <1>2 DEF ToLower
  <1> QED BY <1>1, <1>3

-------------------------------------------------------------------------------
(* Sanitize.                                                               *)

LEMMA CleanType ==
    ASSUME NEW s, Clean(s)
    PROVE  s \in Strings
  BY SeqMonotonic DEF Clean, Strings

\* Whatever is sanitised, the result has no upper-case letter, no two hyphens
\* in a row and none at its ends.
THEOREM SanitizeCleans ==
    ASSUME NEW s \in Seq(STRING)
    PROVE  Clean(Sanitize(s))
  <1> DEFINE c == Collapse(Replace(s))
  <1>1. c \in Strings /\ NoRow(c) BY ReplaceType, CollapseRows
  <1> HIDE DEF c
  <1>2. Trim(c) \in Strings /\ NoRow(Trim(c)) /\ Trimmed(Trim(c))
    BY <1>1, TrimEnds
  <1>3. Clean(ToLower(Trim(c))) BY <1>2, ToLowerClean
  <1> QED BY <1>3 DEF Sanitize, c

\* Sanitising what is clean changes nothing, so sanitising twice is the same
\* as sanitising once.
THEOREM SanitizeIdempotent ==
    ASSUME NEW s, Clean(s)
    PROVE  Sanitize(s) = s
  <1>1. s \in Strings /\ NoRow(s) /\ Trimmed(s) BY CleanType DEF Clean
  <1>2. Replace(s) = s /\ Collapse(s) = s /\ Trim(s) = s
    BY <1>1, ReplaceNothing, CollapseNothing, TrimNothing
  <1>3. ToLower(s) = s BY ToLowerNothing DEF Clean
  <1> QED BY <1>2, <1>3 DEF Sanitize

-------------------------------------------------------------------------------
(* Names and their parts.                                                  *)

LEMMA PrefixAndSuffix ==
    ASSUME NEW S, NEW s \in Seq(S), NEW t \in Seq(S)
    PROVE  /\ SubSeq(s \o t, 1, Len(s)) = s
           /\ SubSeq(s \o t, Len(s) + 1, Len(s \o t)) = t
  <1> DEFINE st == s \o t
  <1>1. /\ Len(s) \in Nat /\ Len(t) \in Nat /\ Len(st) = Len(s) + Len(t)
        /\ \A i \in 1 .. Len(st) : st[i] \in S
        /\ \A i \in 1 .. Len(s) : st[i] = s[i]
        /\ \A i \in 1 .. Len(t) : st[Len(s) + i] = t[i]
    BY ConcatProperties, LenProperties, ElementOfSeq
  <1> HIDE DEF st
  <1>2. SubSeq(st, 1, Len(s)) = s
    <2> DEFINE r == SubSeq(st, 1, Len(s))
    <2>1. \A i \in 1 .. Len(s) : st[i] \in S BY <1>1
    <2>2. /\ r \in Seq(S) /\ Len(r) = Len(s)
          /\ \A i \in 1 .. Len(s) : r[i] = st[i]
      BY <1>1, <2>1, SubSeqProperties
    <2> HIDE DEF r
    <2>3. r = s BY <1>1, <2>2, SeqEqual
    <2> QED BY <2>3 DEF r
  <1>3. SubSeq(st, Len(s) + 1, Len(st)) = t
    <2> DEFINE r == SubSeq(st, Len(s) + 1, Len(st))
    <2>1. \A i \in Len(s) + 1 .. Len(st) : st[i] \in S BY <1>1
    <2>2. /\ r \in Seq(S)
          /\ Len(r) = IF Len(s) + 1 <= Len(st)
                      THEN Len(st) - (Len(s) + 1) + 1 ELSE 0
          /\ \A i \in 1 .. Len(st) - (Len(s) + 1) + 1 :
                 r[i] = st[Len(s) + 1 + i - 1]
      BY <1>1, <2>1, SubSeqProperties
    <2>3. Len(r) = Len(t) /\ \A i \in 1 .. Len(t) : r[i] = st[Len(s) + i]
      BY <1>1, <2>2
    <2> HIDE DEF r
    <2>4. r = t BY <1>1, <2>2, <2>3, SeqEqual
    <2> QED BY <2>4 DEF r
  <1> QED BY <1>2, <1>3 DEF st

LEMMA PartTypes ==
    /\ Prefix \in Strings /\ <<"-">> \in Strings
    /\ Len(Prefix) \in Nat /\ Len(Prefix) # 0
    /\ Ports \subseteq Strings
  <1>1. "-" \in NameChars BY DEF NameChars
  <1>2. Digits \subseteq NameChars BY DEF NameChars, Alphanumeric
  <1>3. Prefix \in Strings /\ Prefix # <<>> BY NamesAssumption DEF Strings
  <1>4. Ports \subseteq Strings
    BY <1>2, SeqMonotonic, NamesAssumption DEF Strings
  <1>5. <<"-">> \in Strings BY <1>1 DEF Strings
  <1> QED BY <1>3, <1>4, <1>5, EmptySeq, LenProperties DEF Strings

Both(username, host) == username \o <<"-">> \o host

\* What is left of a name without its prefix and the hyphen after it.
Rest(username, host, port) == Both(username, host) \o <<"-">> \o port

\* What ConcatProperties and ConcatAssociative say of three strings.
Concats(r, s, t) ==
    /\ s \o t \in Strings
    /\ Len(s \o t) = Len(s) + Len(t)
    /\ (r \o s) \o t = r \o (s \o t)

LEMMA Concatenate ==
    ASSUME NEW r \in Strings, NEW s \in Strings, NEW t \in Strings
    PROVE  Concats(r, s, t)
  BY ConcatProperties, ConcatAssociative DEF Concats, Strings

LEMMA JoinParts ==
    ASSUME NEW u \in Strings, NEW h \in Strings, NEW p \in Ports
    PROVE  /\ Both(u, h) \in Strings /\ Rest(u, h, p) \in Strings
           /\ Join(u, h, p) = (Prefix \o <<"-">>) \o Rest(u, h, p)
           /\ Join(u, h, p) \in Strings
           /\ Len(Join(u, h, p)) =
                  Len(Prefix) + Len(u) + Len(h) + Len(p) + 3
  <1> DEFINE sep == <<"-">>
             a == Prefix \o sep
             b == u \o sep
             c == b \o h
             d == c \o sep
             r == d \o p
  <1>1. Prefix \in Strings /\ sep \in Strings /\ p \in Strings /\ Len(sep) = 1
    BY PartTypes
  <1>2. Join(u, h, p) = ((((a \o u) \o sep) \o h) \o sep) \o p
    BY DEF Join
  <1>3. Both(u, h) = c /\ Rest(u, h, p) = r
    BY DEF Both, Rest
  <1>4. \A s \in {u, h, p, Prefix} : Len(s) \in Nat
    BY <1>1, LenProperties DEF Strings
  <1> HIDE DEF sep
  <1>5. a \in Strings /\ Len(a) = Len(Prefix) + 1
    <2>1. Concats(sep, Prefix, sep) BY <1>1, Concatenate
    <2> QED BY <1>1, <2>1 DEF Concats
  <1> HIDE DEF a
  <1>6. b \in Strings /\ (a \o u) \o sep = a \o b /\ Len(b) = Len(u) + Len(sep)
    <2>1. Concats(a, u, sep) BY <1>1, <1>5, Concatenate
    <2> QED BY <2>1 DEF Concats
  <1> HIDE DEF b
  <1>7. c \in Strings /\ (a \o b) \o h = a \o c /\ Len(c) = Len(b) + Len(h)
    <2>1. Concats(a, b, h) BY <1>5, <1>6, Concatenate
    <2> QED BY <2>1 DEF Concats
  <1> HIDE DEF c
  <1>8. d \in Strings /\ (a \o c) \o sep = a \o d /\ Len(d) = Len(c) + Len(sep)
    <2>1. Concats(a, c, sep) BY <1>1, <1>5, <1>7, Concatenate
    <2> QED BY <2>1 DEF Concats
  <1> HIDE DEF d
  <1>9. r \in Strings /\ (a \o d) \o p = a \o r /\ Len(r) = Len(d) + Len(p)
    <2>1. Concats(a, d, p) BY <1>1, <1>5, <1>8, Concatenate
    <2> QED BY <2>1 DEF Concats
  <1> HIDE DEF r
  <1>10. Join(u, h, p) = a \o r
    BY <1>2, <1>6, <1>7, <1>8, <1>9
  <1>11. a \o r \in Strings /\ Len(a \o r) = Len(a) + Len(r)
    <2>1. Concats(a, a, r) BY <1>5, <1>9, Concatenate
    <2> QED BY <2>1 DEF Concats
  <1>12. Len(Join(u, h, p)) = Len(Prefix) + Len(u) + Len(h) + Len(p) + 3
    BY <1>1, <1>4, <1>5, <1>6, <1>7, <1>8, <1>9, <1>10, <1>11
  <1> QED BY <1>3, <1>7, <1>9, <1>10, <1>11, <1>12 DEF a, sep

\* Two strings with a hyphen between them.
LEMMA AroundHyphen ==
    ASSUME NEW s \in Strings, NEW t \in Strings
    PROVE  LET r == s \o <<"-">> \o t IN
           /\ r \in Strings /\ Len(r) = Len(s) + 1 + Len(t)
           /\ SubSeq(r, 1, Len(s)) = s
           /\ SubSeq(r, Len(s) + 2, Len(r)) = t
           /\ \A i \in 1 .. Len(s) : r[i] = s[i]
           /\ r[Len(s) + 1] = "-"
           /\ \A i \in 1 .. Len(t) : r[Len(s) + 1 + i] = t[i]
  <1> DEFINE sep == <<"-">>
             a == s \o sep
             c == sep \o t
             r == a \o t
  <1>1. sep \in Strings /\ Len(sep) = 1 /\ sep[1] = "-" BY PartTypes
  <1>2. Len(s) \in Nat /\ Len(t) \in Nat BY LenProperties DEF Strings
  <1> HIDE DEF sep
  <1>3. /\ a \in Strings /\ Len(a) = Len(s) + 1 /\ a[Len(s) + 1] = "-"
        /\ \A i \in 1 .. Len(s) : a[i] = s[i]
    <2>1. /\ a \in Strings /\ Len(a) = Len(s) + Len(sep)
          /\ \A i \in 1 .. Len(s) + Len(sep) :
                 a[i] = IF i <= Len(s) THEN s[i] ELSE sep[i - Len(s)]
      BY <1>1, ConcatProperties DEF Strings
    <2> HIDE DEF a
    <2> QED BY <1>1, <1>2, <2>1
  <1>4. c \in Strings /\ r = s \o c
    <2>1. Concats(s, sep, t) BY <1>1, Concatenate
    <2> QED BY <2>1 DEF Concats
  <1>5. SubSeq(r, 1, Len(s)) = s
    <2> HIDE DEF c, r
    <2> QED BY <1>4, PrefixAndSuffix DEF Strings
  <1> HIDE DEF a, c
  <1>6. SubSeq(r, Len(a) + 1, Len(r)) = t
    BY <1>3, PrefixAndSuffix DEF Strings
  <1>7. /\ r \in Strings /\ Len(r) = Len(a) + Len(t)
        /\ \A i \in 1 .. Len(a) + Len(t) :
               r[i] = IF i <= Len(a) THEN a[i] ELSE t[i - Len(a)]
    BY <1>3, ConcatProperties DEF Strings
  <1> HIDE DEF r
  <1>8. \A i \in 1 .. Len(s) : r[i] = s[i] BY <1>2, <1>3, <1>7
  <1>9. r[Len(s) + 1] = "-" BY <1>2, <1>3, <1>7
  <1>10. \A i \in 1 .. Len(t) : r[Len(s) + 1 + i] = t[i] BY <1>2, <1>3, <1>7
  <1>11. Len(a) + 1 = Len(s) + 2 /\ Len(r) = Len(s) + 1 + Len(t)
    BY <1>2, <1>3, <1>7
  <1>12. SubSeq(r, Len(s) + 2, Len(r)) = t BY <1>6, <1>11
  <1> QED BY <1>5, <1>7, <1>8, <1>9, <1>10, <1>11, <1>12 DEF r, a, sep

\* The last hyphen of what is left of a name is the one before the port.
LEMMA LastHyphen ==
    ASSUME NEW s \in Strings, NEW p \in Ports
    PROVE  LET r == s \o <<"-">> \o p IN
           /\ HyphensIn(r) # {}
           /\ (CHOOSE i \in HyphensIn(r) : \A j \in HyphensIn(r) : j <= i)
                  = Len(s) + 1
  <1> DEFINE r == s \o <<"-">> \o p
             k == Len(s) + 1
  <1>1. p \in Strings BY PartTypes
  <1>2. /\ Len(r) = k + Len(p) /\ r[k] = "-"
        /\ \A i \in 1 .. Len(p) : r[k + i] = p[i]
    BY <1>1, AroundHyphen
  <1>3. Len(s) \in Nat /\ Len(p) \in Nat
    BY <1>1, LenProperties DEF Strings
  <1>4. \A i \in 1 .. Len(p) : p[i] # "-"
    BY ElementOfSeq, NamesAssumption DEF Alphanumeric
  <1> HIDE DEF r
  <1>5. k \in HyphensIn(r) BY <1>2, <1>3 DEF HyphensIn
  <1>6. \A j \in HyphensIn(r) : j <= k
    <2> SUFFICES ASSUME NEW j \in HyphensIn(r), j > k PROVE FALSE
      BY <1>3 DEF HyphensIn
    <2>1. j - k \in 1 .. Len(p) /\ k + (j - k) = j /\ r[j] = "-"
      BY <1>2, <1>3 DEF HyphensIn
    <2> HIDE DEF k
    <2> QED BY <1>2, <1>4, <2>1
  <1>7. \A i \in HyphensIn(r) : i \in Int BY DEF HyphensIn
  <1> HIDE DEF k
  <1>8. ASSUME NEW i \in HyphensIn(r), \A j \in HyphensIn(r) : j <= i
        PROVE  i = k
    BY <1>5, <1>6, <1>7, <1>8
  <1>9. (CHOOSE i \in HyphensIn(r) : \A j \in HyphensIn(r) : j <= i) = k
    BY <1>5, <1>6, <1>8
  <1> QED BY <1>5, <1>9 DEF r, k

LEMMA FirstHyphen ==
    ASSUME NEW s, HyphensIn(s) # {}
    PROVE  /\ SplitAt(s) \in HyphensIn(s)
           /\ \A j \in HyphensIn(s) : SplitAt(s) <= j
  <1>1. HyphensIn(s) \subseteq Nat BY DEF HyphensIn
  <1>2. \E i \in HyphensIn(s) : \A j \in HyphensIn(s) : i <= j
    BY <1>1, LeastElement
  <1> QED BY <1>2 DEF SplitAt

\* Splitting a string at any of its hyphens loses nothing.
LEMMA SplitAndJoin ==
    ASSUME NEW s \in Strings, NEW k \in HyphensIn(s)
    PROVE  SubSeq(s, 1, k - 1) \o <<"-">> \o SubSeq(s, k + 1, Len(s)) = s
  <1> DEFINE before == SubSeq(s, 1, k - 1)
             after == SubSeq(s, k + 1, Len(s))
             sep == <<"-">>
  <1>1. Len(s) \in Nat /\ k \in 1 .. Len(s) /\ s[k] = "-"
    BY LenProperties DEF HyphensIn, Strings
  <1>2. sep \in Strings BY PartTypes
  <1>3. before \in Strings /\ after \in Strings
    <2>1. \A i \in 1 .. Len(s) : s[i] \in NameChars
      BY ElementOfSeq DEF Strings
    <2>2. \A i \in 1 .. k - 1 : s[i] \in NameChars BY <1>1, <2>1
    <2>3. \A i \in k + 1 .. Len(s) : s[i] \in NameChars BY <1>1, <2>1
    <2> QED BY <1>1, <2>2, <2>3, SubSeqProperties DEF Strings
  <1>4. SubSeq(s, k, Len(s)) = sep \o after
    <2>1. Len(s) \in k .. Len(s) BY <1>1
    <2>2. SubSeq(s, k, Len(s)) = <<s[k]>> \o SubSeq(s, k + 1, Len(s))
      BY <1>1, <2>1, SubSeqRecursiveFirst DEF Strings
    <2> QED BY <1>1, <2>2
  <1>5. before \o SubSeq(s, k, Len(s)) = s
    <2>1. 1 \in 1 .. Len(s) + 1 /\ k - 1 \in 1 - 1 .. Len(s)
          /\ Len(s) \in k - 1 .. Len(s) /\ (k - 1) + 1 = k
      BY <1>1
    <2>2. SubSeq(s, 1, k - 1) \o SubSeq(s, (k - 1) + 1, Len(s))
              = SubSeq(s, 1, Len(s))
      BY <2>1, ConcatAdjacentSubSeq DEF Strings
    <2> QED BY <2>1, <2>2, SubSeqFull DEF Strings
  <1> HIDE DEF before, after, sep
  <1>6. Concats(before, sep, after) BY <1>2, <1>3, Concatenate
  <1>7. (before \o sep) \o after = s BY <1>4, <1>5, <1>6 DEF Concats
  <1> QED BY <1>7 DEF before, after, sep

\* What ParseDocumentName reads back of a name.
LEMMA ParseOfJoin ==
    ASSUME NEW u \in Strings, NEW h \in Strings, NEW p \in Ports
    PROVE  LET b == Both(u, h) IN
           /\ HyphensIn(b) # {}
           /\ ParseDocumentName(Join(u, h, p)) =
                  [ok |-> TRUE,
                   username |-> SubSeq(b, 1, SplitAt(b) - 1),
                   host |-> SubSeq(b, SplitAt(b) + 1, Len(b)),
                   port |-> p]
  <1> DEFINE b == Both(u, h)
             r == Rest(u, h, p)
             lead == Prefix \o <<"-">>
             name == Join(u, h, p)
             last == CHOOSE i \in HyphensIn(r) : \A j \in HyphensIn(r) : j <= i
  <1>1. b \in Strings /\ r \in Strings /\ name = lead \o r /\ p \in Strings
    BY JoinParts, PartTypes
  <1>2. lead \in Strings /\ Len(lead) = Len(Prefix) + 1 /\ Len(lead) \in Nat
    <2>1. <<"-">> \in Strings /\ Prefix \in Strings BY PartTypes
    <2>2. Concats(<<"-">>, Prefix, <<"-">>) BY <2>1, Concatenate
    <2> QED BY <2>2, PartTypes DEF Concats
  <1>3. SubSeq(name, 1, Len(lead)) = lead
        /\ SubSeq(name, Len(lead) + 1, Len(name)) = r
    BY <1>1, <1>2, PrefixAndSuffix DEF Strings
  <1>4. SubSeq(name, Len(Prefix) + 2, Len(name)) = r
    <2>1. Len(lead) + 1 = Len(Prefix) + 2 BY <1>2, PartTypes
    <2> QED BY <1>3, <2>1
  <1>5. IsPrefix(lead, name)
    <2>1. SubSeq(lead, 1, Len(lead)) = lead BY <1>2, SubSeqFull DEF Strings
    <2>2. Len(name) = Len(lead) + Len(r) /\ Len(r) \in Nat
      BY <1>1, <1>2, ConcatProperties, LenProperties DEF Strings
    <2> QED BY <1>2, <1>3, <2>1, <2>2 DEF IsPrefix
  <1>6. HyphensIn(r) # {} /\ last = Len(b) + 1
    BY <1>1, LastHyphen DEF Rest
  <1>7. Len(b) \in Nat BY <1>1, LenProperties DEF Strings
  <1>8. SubSeq(r, last + 1, Len(r)) = p /\ SubSeq(r, 1, last - 1) = b
    <2>1. SubSeq(r, 1, Len(b)) = b /\ SubSeq(r, Len(b) + 2, Len(r)) = p
      BY <1>1, AroundHyphen DEF Rest
    <2>2. last + 1 = Len(b) + 2 /\ last - 1 = Len(b)
      <3> HIDE DEF last, b
      <3> QED BY <1>6, <1>7
    <2> QED BY <2>1, <2>2
  <1>9. p # <<>> /\ Head(p) \in Digits
    <2>1. p \in Seq(Digits) /\ p # <<>> BY NamesAssumption
    <2> QED BY <2>1, HeadTailProperties
  <1>10. HyphensIn(b) # {}
    <2>1. b[Len(u) + 1] = "-" /\ Len(b) = Len(u) + 1 + Len(h)
      BY AroundHyphen DEF Both
    <2>2. Len(u) \in Nat /\ Len(h) \in Nat BY LenProperties DEF Strings
    <2>3. Len(u) + 1 \in HyphensIn(b) BY <2>1, <2>2 DEF HyphensIn
    <2> QED BY <2>3
  <1>11. ParseDocumentName(name) =
            IF /\ IsPrefix(lead, name)
               /\ HyphensIn(r) # {}
               /\ p # <<>> /\ Head(p) \in Digits
               /\ HyphensIn(b) # {}
            THEN [ok |-> TRUE,
                  username |-> SubSeq(b, 1, SplitAt(b) - 1),
                  host |-> SubSeq(b, SplitAt(b) + 1, Len(b)),
                  port |-> p]
            ELSE Failed
    <2> HIDE DEF b, r, lead, name
    <2> QED BY <1>4, <1>8 DEF ParseDocumentName, lead
  <1> QED BY <1>5, <1>6, <1>9, <1>10, <1>11

LEMMA FirstHyphenBetween ==
    ASSUME NEW u \in Strings, NEW h \in Strings, HyphensIn(u) = {}
    PROVE  LET b == Both(u, h) IN
           /\ SubSeq(b, 1, SplitAt(b) - 1) = u
           /\ SubSeq(b, SplitAt(b) + 1, Len(b)) = h
  <1> DEFINE b == Both(u, h)
             k == Len(u) + 1
  <1>1. /\ Len(b) = k + Len(h) /\ b[k] = "-"
        /\ \A i \in 1 .. Len(u) : b[i] = u[i]
        /\ SubSeq(b, 1, Len(u)) = u /\ SubSeq(b, Len(u) + 2, Len(b)) = h
    BY AroundHyphen DEF Both
  <1>2. Len(u) \in Nat /\ Len(h) \in Nat BY LenProperties DEF Strings
  <1> HIDE DEF b
  <1>3. k \in HyphensIn(b) BY <1>1, <1>2 DEF HyphensIn
  <1>4. SplitAt(b) \in HyphensIn(b) /\ SplitAt(b) <= k
    BY <1>3, FirstHyphen
  <1>5. SplitAt(b) \notin 1 .. Len(u)
    <2> SUFFICES ASSUME SplitAt(b) \in 1 .. Len(u) PROVE FALSE
      OBVIOUS
    <2>1. u[SplitAt(b)] = "-" BY <1>1, <1>4 DEF HyphensIn
    <2> QED BY <2>1 DEF HyphensIn
  <1>6. SplitAt(b) = k BY <1>2, <1>4, <1>5 DEF HyphensIn
  <1>7. SplitAt(b) - 1 = Len(u) /\ SplitAt(b) + 1 = Len(u) + 2
    BY <1>2, <1>6
  <1> QED BY <1>1, <1>7 DEF b

LEMMA CutFits ==
    ASSUME NEW s \in Strings, NEW n \in Nat
    PROVE  Cut(s, n) \in Strings /\ Len(Cut(s, n)) <= n
  <1>1. Len(s) \in Nat /\ \A i \in 1 .. Len(s) : s[i] \in NameChars
    BY LenProperties, ElementOfSeq DEF Strings
  <1>2. CASE Len(s) > n
    <2> DEFINE r == SubSeq(s, 1, n)
    <2>1. \A i \in 1 .. n : s[i] \in NameChars BY <1>1, <1>2
    <2>2. r \in Strings /\ Len(r) = IF 1 <= n THEN n - 1 + 1 ELSE 0
      BY <2>1, SubSeqProperties DEF Strings
    <2> HIDE DEF r
    <2>3. Len(r) <= n BY <2>2
    <2>4. Cut(s, n) = r BY <1>2 DEF Cut, r
    <2> QED BY <2>2, <2>3, <2>4
  <1>3. CASE ~(Len(s) > n)
    BY <1>1, <1>3 DEF Cut
  <1> QED BY <1>2, <1>3

\* What GenerateName makes: a name of the length AWS takes, of the sanitised
\* parts or of what is kept of them.
MadeOf(u, h, p, name) ==
    /\ name = Join(u, h, p)
    /\ Len(name) <= MaxName

LEMMA GenerateNameJoins ==
    ASSUME NEW username \in Words, NEW host \in Words, NEW port \in Ports
    PROVE  \E u, h \in Strings :
               /\ MadeOf(u, h, port, GenerateName(username, host, port))
               /\ ~TooLong(Sanitize(username), Sanitize(host), port) =>
                      u = Sanitize(username) /\ h = Sanitize(host)
  <1> DEFINE u == Sanitize(username)
             h == Sanitize(host)
  <1>1. u \in Strings /\ h \in Strings
    <2>1. username \in Seq(STRING) /\ host \in Seq(STRING)
      BY NamesAssumption
    <2> QED BY <2>1, SanitizeCleans, CleanType
  <1>2. /\ MaxName \in Nat /\ MaxUsername \in Nat /\ MaxHost \in Nat
        /\ Len(Prefix) + MaxUsername + MaxHost + Len(port) + 3 <= MaxName
    BY NamesAssumption
  <1>3. Len(Prefix) \in Nat /\ Len(port) \in Nat
    BY PartTypes, LenProperties DEF Strings
  <1>4. GenerateName(username, host, port) =
            IF TooLong(u, h, port)
            THEN Join(Cut(u, MaxUsername), Cut(h, MaxHost), port)
            ELSE Join(u, h, port)
    BY DEF GenerateName
  <1> HIDE DEF u, h
  <1>5. CASE TooLong(u, h, port)
    <2> DEFINE U == Cut(u, MaxUsername)
               H == Cut(h, MaxHost)
    <2>1. U \in Strings /\ Len(U) <= MaxUsername
      BY <1>1, <1>2, CutFits
    <2>2. H \in Strings /\ Len(H) <= MaxHost
      BY <1>1, <1>2, CutFits
    <2> HIDE DEF U, H
    <2>3. Len(U) \in Nat /\ Len(H) \in Nat
      BY <2>1, <2>2, LenProperties DEF Strings
    <2>4. Len(Join(U, H, port)) =
              Len(Prefix) + Len(U) + Len(H) + Len(port) + 3
      BY <2>1, <2>2, JoinParts
    <2>5. Len(Join(U, H, port)) <= MaxName
      BY <1>2, <1>3, <2>1, <2>2, <2>3, <2>4
    <2>6. GenerateName(username, host, port) = Join(U, H, port)
      BY <1>4, <1>5 DEF U, H
    <2>7. MadeOf(U, H, port, GenerateName(username, host, port))
      BY <2>5, <2>6 DEF MadeOf
    <2> QED BY <1>5, <2>1, <2>2, <2>7 DEF u, h
  <1>6. CASE ~TooLong(u, h, port)
    <2>1. Len(Join(u, h, port)) \in Nat
      BY <1>1, JoinParts, LenProperties DEF Strings
    <2>2. Len(Join(u, h, port)) <= MaxName
      BY <1>2, <1>6, <2>1 DEF TooLong
    <2>3. MadeOf(u, h, port, GenerateName(username, host, port))
      BY <1>4, <1>6, <2>2 DEF MadeOf
    <2> QED BY <1>1, <2>3 DEF u, h
  <1> QED BY <1>5, <1>6

-------------------------------------------------------------------------------
(* The theorems.                                                           *)

NamesInv ==
    named # NoName =>
        /\ named.username \in Words /\ named.host \in Words
        /\ named.port \in Ports
        /\ named.name = GenerateName(named.username, named.host, named.port)

LEMMA NamesInvHolds == NamesSpec => []NamesInv
  <1>1. NamesInit => NamesInv
    BY DEF NamesInit, NamesInv
  <1>2. NamesInv /\ [NamesNext]_named => NamesInv'
    <2> SUFFICES ASSUME NamesInv, [NamesNext]_named PROVE NamesInv'
      OBVIOUS
    <2>1. ASSUME NEW u \in Words, NEW h \in Words, NEW p \in Ports,
                 NameRequest(u, h, p)
          PROVE  NamesInv'
      BY <2>1 DEF NameRequest, NamesInv
    <2>2. CASE NextRequest
      BY <2>2 DEF NextRequest, NamesInv
    <2>3. CASE UNCHANGED named
      BY <2>3 DEF NamesInv
    <2> QED BY <2>1, <2>2, <2>3 DEF NamesNext
  <1> QED BY <1>1, <1>2, PTL DEF NamesSpec

\* Whatever usernames, hosts and prefix there are, AWS takes the name.
LEMMA JoinsAreValid ==
    ASSUME NEW u \in Strings, NEW h \in Strings, NEW p \in Ports,
           NEW name, MadeOf(u, h, p, name)
    PROVE  ValidateDocumentName(name)
  <1>1. /\ name \in Strings /\ name = (Prefix \o <<"-">>) \o Rest(u, h, p)
        /\ Rest(u, h, p) \in Strings /\ Len(name) <= MaxName
    BY JoinParts DEF MadeOf
  <1>2. <<"-">> \in Strings /\ Prefix \in Strings /\ Prefix # <<>>
    BY PartTypes, NamesAssumption
  <1> DEFINE tail == <<"-">> \o Rest(u, h, p)
  <1>3. name = Prefix \o tail /\ tail \in Strings
    <2>1. Concats(Prefix, <<"-">>, Rest(u, h, p))
      BY <1>1, <1>2, Concatenate
    <2> QED BY <1>1, <2>1 DEF Concats
  <1> HIDE DEF tail
  <1>4. Len(name) # 0 /\ name[1] = Prefix[1]
    <2>1. Len(Prefix) \in Nat /\ Len(Prefix) # 0 /\ Len(tail) \in Nat
      BY <1>3, PartTypes, LenProperties DEF Strings
    <2> QED BY <1>2, <1>3, <2>1, ConcatProperties DEF Strings
  <1>5. name # <<>> BY <1>4, EmptySeq
  <1>6. Head(name) \in Alphanumeric
    <2>1. Head(name) = name[1] /\ Head(Prefix) = Prefix[1]
      BY <1>1, <1>2, <1>5 DEF Strings
    <2> QED BY <1>4, <2>1, NamesAssumption
  <1>7. ToSet(name) \subseteq NameChars
    <2>1. DOMAIN name = 1 .. Len(name) /\
          \A i \in 1 .. Len(name) : name[i] \in NameChars
      BY <1>1, LenProperties, ElementOfSeq DEF Strings
    <2> QED BY <2>1 DEF ToSet
  <1> QED BY <1>1, <1>5, <1>6, <1>7 DEF ValidateDocumentName

\* NamesValid for any words: every name is one AWS takes, and sanitising its
\* parts again changes nothing.
THEOREM NamesStayValid == NamesSpec => []NamesValid
  <1>1. NamesInv => NamesValid
    <2> SUFFICES ASSUME NamesInv, named # NoName
                 PROVE  /\ ValidateDocumentName(named.name)
                        /\ Sanitize(Sanitize(named.username)) =
                               Sanitize(named.username)
                        /\ Sanitize(Sanitize(named.host)) =
                               Sanitize(named.host)
      BY DEF NamesValid, Cleaned
    <2>1. /\ named.username \in Words /\ named.host \in Words
          /\ named.port \in Ports
          /\ named.name = GenerateName(named.username, named.host, named.port)
      BY DEF NamesInv
    <2>2. ValidateDocumentName(named.name)
      <3>1. PICK u \in Strings, h \in Strings :
                MadeOf(u, h, named.port, named.name)
        BY <2>1, GenerateNameJoins
      <3> QED BY <2>1, <3>1, JoinsAreValid
    <2>3. named.username \in Seq(STRING) /\ named.host \in Seq(STRING)
      BY <2>1, NamesAssumption
    <2> QED BY <2>2, <2>3, SanitizeCleans, SanitizeIdempotent
  <1> QED BY <1>1, NamesInvHolds, PTL

\* NamesParseBack for any words: the port is always read back, username and
\* host up to where one ends, unless the name was cut.
THEOREM NamesAlwaysParseBack == NamesSpec => []NamesParseBack
  <1>1. NamesInv => NamesParseBack
    <2> SUFFICES ASSUME NamesInv, named # NoName
                 PROVE  NamesParseBack
      BY DEF NamesParseBack
    <2>1. /\ named.username \in Words /\ named.host \in Words
          /\ named.port \in Ports
          /\ named.name = GenerateName(named.username, named.host, named.port)
      BY DEF NamesInv
    <2> DEFINE cu == Sanitize(named.username)
               ch == Sanitize(named.host)
               parsed == ParseDocumentName(named.name)
    <2>2. PICK u \in Strings, h \in Strings :
              /\ MadeOf(u, h, named.port, named.name)
              /\ ~TooLong(cu, ch, named.port) => u = cu /\ h = ch
      BY <2>1, GenerateNameJoins
    <2> DEFINE b == Both(u, h)
    <2>3. /\ HyphensIn(b) # {}
          /\ parsed = [ok |-> TRUE,
                       username |-> SubSeq(b, 1, SplitAt(b) - 1),
                       host |-> SubSeq(b, SplitAt(b) + 1, Len(b)),
                       port |-> named.port]
      <3>1. named.name = Join(u, h, named.port)
        BY <2>2 DEF MadeOf
      <3>2. named.port \in Ports
        BY <2>1
      <3>3. /\ HyphensIn(b) # {}
            /\ ParseDocumentName(Join(u, h, named.port)) =
                   [ok |-> TRUE,
                    username |-> SubSeq(b, 1, SplitAt(b) - 1),
                    host |-> SubSeq(b, SplitAt(b) + 1, Len(b)),
                    port |-> named.port]
        BY <3>2, ParseOfJoin, Zenon
      <3> QED BY <3>1, <3>3, Zenon
    <2>4. parsed.ok /\ parsed.port = named.port
      BY <2>3
    <2>5. parsed.username \o <<"-">> \o parsed.host = b
      <3>1. b \in Strings /\ SplitAt(b) \in HyphensIn(b)
        BY <2>1, <2>3, JoinParts, FirstHyphen
      <3> HIDE DEF b
      <3>2. SubSeq(b, 1, SplitAt(b) - 1) \o <<"-">>
                \o SubSeq(b, SplitAt(b) + 1, Len(b)) = b
        BY <3>1, SplitAndJoin
      <3> HIDE DEF parsed
      <3> QED BY <2>3, <3>2
    <2>6. HyphensIn(u) = {} => parsed.username = u /\ parsed.host = h
      BY <2>3, FirstHyphenBetween
    <2>7. b = u \o <<"-">> \o h BY DEF Both
    <2> HIDE DEF parsed, b, cu, ch
    <2>8. ~TooLong(cu, ch, named.port) =>
              /\ parsed.username \o <<"-">> \o parsed.host =
                     cu \o <<"-">> \o ch
              /\ HyphensIn(cu) = {} =>
                     parsed.username = cu /\ parsed.host = ch
      BY <2>2, <2>5, <2>6, <2>7
    <2> QED BY <2>4, <2>8 DEF NamesParseBack, Cleaned, parsed, cu, ch
  <1> QED BY <1>1, NamesInvHolds, PTL

===============================================================================

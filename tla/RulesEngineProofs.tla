-------------------------- MODULE RulesEngineProofs --------------------------
(***************************************************************************)
(* Proofs about the rules, for any rules files, however they change, any   *)
(* places to look at and any folders.  Two arguments.  One pass over each  *)
(* group of rules finds what a pass per rule would, for a matcher knows of *)
(* the lines seen so far what the model of one rule says of them (IInv).   *)
(* And what was loaded is what is written in the files: each of them waits *)
(* to be looked up, to be read or to be parsed, or was dealt with rule by  *)
(* rule, of which the diagnostics and the number of rules loaded tell      *)
(* (LoadingInv, CountingInv).                                              *)
(***************************************************************************)
EXTENDS RulesEngine, FiniteSetTheorems, SequenceTheorems, WellFoundedInduction, TLAPS

-----------------------------------------------------------------------------
(* Induction, from the least element of a set of natural numbers.             *)
LEMMA Least ==
    ASSUME NEW T, T \subseteq Nat, T # {}
    PROVE  \E m \in T : \A n \in T : m <= n
<1> DEFINE R == {ss \in Nat \X Nat : ss[1] < ss[2]}
<1>1. IsWellFoundedOn(R, Nat)
  BY NatLessThanWellFounded DEF OpToRel
<1>2. \A x, y \in Nat : <<x, y>> \in R <=> x < y
  OBVIOUS
<1> HIDE DEF R
<1>3. PICK m \in T : \A n \in T : ~(<<n, m>> \in R)
  BY <1>1, WFMin
<1>4. \A n \in T : ~(n < m)
  BY <1>2, <1>3
<1>5. \A a, b \in Nat : ~(b < a) => a <= b
  OBVIOUS
<1> QED
  BY <1>4, <1>5

LEMMA Induction ==
    ASSUME NEW N \in Nat, NEW T, 0 \in T, \A n \in 1..N : n - 1 \in T => n \in T
    PROVE  \A n \in 0..N : n \in T
<1> DEFINE Out == {n \in 0..N : n \notin T}
<1>1. SUFFICES ASSUME Out # {} PROVE FALSE
  OBVIOUS
<1>2. PICK n \in Out : \A m \in Out : n <= m
  <2>1. Out \subseteq Nat
    OBVIOUS
  <2> HIDE DEF Out
  <2> QED
    BY <1>1, <2>1, Least
<1>3. n \in 1..N /\ n \notin T
  BY <1>2
<1>4. n - 1 \in 0..N /\ ~(n <= n - 1)
  BY <1>3
<1>5. n - 1 \in T
  BY <1>2, <1>4
<1> QED
  BY <1>3, <1>5

\* f follows a recursion up to k.
Follows(f, k, V, base, step) ==
    /\ f \in [0..k -> V]
    /\ f[0] = base /\ \A n \in 1..k : f[n] = step[n][f[n - 1]]

\* A function defined by recursion on 0..N exists.
LEMMA RecursionExists ==
    ASSUME NEW N \in Nat, NEW V, NEW base \in V, NEW step \in [1..N -> [V -> V]]
    PROVE  \E f : Follows(f, N, V, base, step)
<1> DEFINE T == {k \in 0..N : \E f : Follows(f, k, V, base, step)}
<1>1. 0 \in T
  <2>1. Follows([n \in 0..0 |-> base], 0, V, base, step)
    BY DEF Follows
  <2> QED
    BY <2>1
<1>2. ASSUME NEW k \in 1..N, k - 1 \in T PROVE k \in T
  <2>2. PICK f : Follows(f, k - 1, V, base, step)
    BY <1>2
  <2> DEFINE g == [n \in 0..k |-> IF n = k THEN step[k][f[k - 1]] ELSE f[n]]
  <2>3. /\ f \in [0..(k - 1) -> V] /\ f[0] = base
        /\ \A n \in 1..(k - 1) : f[n] = step[n][f[n - 1]]
    BY <2>2 DEF Follows
  <2>4. f[k - 1] \in V /\ step[k] \in [V -> V]
    BY <2>3
  <2>5. step[k][f[k - 1]] \in V
    BY <2>4
  <2>6. g \in [0..k -> V] /\ g[0] = base
    BY <2>3, <2>5
  <2>7. ASSUME NEW n \in 1..k PROVE g[n] = step[n][g[n - 1]]
    <3>1. CASE n = k
      BY <3>1
    <3>2. CASE n # k
      BY <3>2, <2>3
    <3> QED
      BY <3>1, <3>2
  <2> HIDE DEF g
  <2>8. Follows(g, k, V, base, step)
    BY <2>6, <2>7 DEF Follows
  <2> QED
    BY <2>8
<1> HIDE DEF T
<1>3. N \in T
  <2>1. \A k \in 1..N : k - 1 \in T => k \in T
    BY <1>2
  <2>2. \A k \in 0..N : k \in T
    BY <1>1, <2>1, Induction
  <2> QED
    BY <2>2
<1> QED
  BY <1>3 DEF T

-----------------------------------------------------------------------------
(* The invariant of the evaluation.                                          *)

Fields == {"key", "file", "line", "order", "lineNo", "scanned"}
Matcher == [hits : SUBSET Nat, lineNo : Nat, satisfied : BOOLEAN, evidence : Nat \X Nat]

\* A matcher that has seen these lines only, of those that satisfy its rule.
Told(m, places) ==
    /\ m.satisfied <=> places # {}
    /\ m.satisfied => m.evidence \in places /\ \A y \in places : ~Before(y, m.evidence)

ReadSoFar(i) ==
    {x \in FiredOn(i) : x[1] < scan.file \/ (x[1] = scan.file /\ x[2] <= scan.line)}

\* The lines that rule i has seen.
Seen(i) ==
    IF FilesOf(i) \notin scan.scanned THEN {}
    ELSE IF phase = "scan" /\ FilesOf(i) = scan.key THEN ReadSoFar(i) ELSE FiredOn(i)

\* Rules are well formed, whether loaded or about to be.
RulesOK ==
    /\ \E S : infos \in Seq(S) /\ \A x \in S : x.rule \in Rule
    /\ doc.rules \in Seq(Rule) /\ doc.at \in Nat \ {0}

Reading ==
    /\ scan.key \in Seq(LogFiles) /\ scan.file \in 1..(Len(scan.key) + 1) /\ scan.line \in Nat
    /\ scan.file <= Len(scan.key) => scan.line <= Len(folder[scan.key[scan.file]])
    /\ ElementsOf(scan.order) = LiteralsOf(Group)
    /\ scan.key \in scan.scanned

MatchersOK ==
    /\ DOMAIN matchers = DOMAIN infos
    /\ \A i \in DOMAIN infos : /\ matchers[i] \in Matcher
                               /\ matchers[i].lineNo <= scan.lineNo
                               /\ Told(matchers[i], Seen(i))

IInv ==
    /\ folder \in Folders
    /\ RulesOK
    /\ DOMAIN scan = Fields /\ scan.lineNo \in Nat
    /\ phase = "scan" => Reading
    /\ phase \in {"groups", "scan"} => MatchersOK
    /\ phase \in {"idle", "describe", "load"} => findings = {}
    /\ OnePassIsAPassPerRule

-----------------------------------------------------------------------------
(* One line and one rule.                                                    *)

LEMMA InfoRules == ASSUME RulesOK, NEW i \in DOMAIN infos
                   PROVE  infos[i].rule \in Rule /\ FilesOf(i) \in Seq(LogFiles)
  BY RulesAssumption DEF RulesOK, FilesOf, Rule

\* The shared automaton and the posting list find what is in the line.
LEMMA HitsAreFound ==
    ASSUME ElementsOf(scan.order) = LiteralsOf(Group), NEW i \in Group,
           NEW line, NoLiteral \notin line
    PROVE  HitsOf(i, line) = Found(infos[i].rule, line)
<1> DEFINE r == infos[i].rule
<1>1. CASE r.regex
  BY <1>1 DEF HitsOf, Found
<1>2. CASE ~r.regex
  <2>1. ASSUME NEW p \in DOMAIN r.patterns, Fold[r.patterns[p]] \in line
        PROVE  \E c \in DOMAIN scan.order : scan.order[c] \in line /\ <<i, p>> \in Posting(c)
    <3>1. Fold[r.patterns[p]] \in LiteralsOf(Group)
      BY <1>2, <2>1 DEF LiteralsOf, ElementsOf
    <3>2. Fold[r.patterns[p]] \in {scan.order[c] : c \in DOMAIN scan.order}
      BY <3>1 DEF ElementsOf
    <3> HIDE DEF r
    <3>4. PICK c \in DOMAIN scan.order : scan.order[c] = Fold[r.patterns[p]]
      BY <3>2
    <3>3. <<i, p>> \in Posting(c)
      BY <1>2, <3>4 DEF Posting, r
    <3> QED BY <2>1, <3>4, <3>3
  <2>2. ASSUME NEW p \in DOMAIN r.patterns, NEW c \in DOMAIN scan.order, scan.order[c] \in line,
               <<i, p>> \in Posting(c)
        PROVE  Fold[r.patterns[p]] \in line
    BY <2>2 DEF Posting
  <2> QED BY <1>2, <2>1, <2>2 DEF HitsOf, Found
<1> QED BY <1>1, <1>2

\* What a line makes of a matcher whose hits, if any, are of an earlier line.
LEMMA LineIsFed ==
    ASSUME NEW m \in Matcher, NEW r \in Rule, NEW line, NEW n \in Nat, m.lineNo < n,
           NEW place \in Nat \X Nat
    PROVE  LET s == Settled(Marked(m, Found(r, line), n), r, Found(r, line), place)
           IN  /\ s \in Matcher /\ s.lineNo <= n
               /\ m.satisfied => s = m
               /\ ~m.satisfied /\ ~Satisfies(r, line) => ~s.satisfied
               /\ ~m.satisfied /\ Satisfies(r, line) => s.satisfied /\ s.evidence = place
<1> DEFINE hits == Found(r, line)
           k == Marked(m, hits, n)
           kept == IF m.lineNo = n THEN m.hits ELSE {}
<1>1. hits \subseteq Nat
  BY DEF Found, Rule
<1>2. /\ m = [hits |-> m.hits, lineNo |-> m.lineNo, satisfied |-> m.satisfied,
             evidence |-> m.evidence]
      /\ m.hits \in SUBSET Nat /\ m.lineNo \in Nat /\ m.satisfied \in BOOLEAN
      /\ m.evidence \in Nat \X Nat
  BY DEF Matcher
<1>3. kept = {}
  BY <1>2
<1>4. CASE m.satisfied \/ hits = {}
  BY <1>2, <1>4 DEF Settled, Marked, Satisfies
<1>5. CASE ~m.satisfied /\ hits # {}
  <2>1. k = [hits |-> hits, lineNo |-> n, satisfied |-> FALSE, evidence |-> m.evidence]
    BY <1>2, <1>3, <1>5 DEF Marked
  <2> DEFINE s == Settled(k, r, hits, place)
  <2> HIDE DEF k, hits, kept, s
  <2>2. CASE r.all /\ hits # DOMAIN r.patterns
    <3>1. s = k
      BY <2>1, <2>2 DEF Settled, s
    <3>2. s \in Matcher /\ s.lineNo <= n /\ ~s.satisfied
      <4>1. s = [hits |-> hits, lineNo |-> n, satisfied |-> FALSE, evidence |-> m.evidence]
        BY <2>1, <3>1
      <4> QED BY <1>1, <1>2, <4>1 DEF Matcher
    <3> QED BY <1>5, <2>2, <3>2 DEF Satisfies, s, k, hits
  <2>3. CASE ~(r.all /\ hits # DOMAIN r.patterns)
    <3>1. s = [hits |-> hits, lineNo |-> n, satisfied |-> TRUE, evidence |-> place]
      BY <1>2, <1>5, <2>1, <2>3 DEF Settled, s
    <3>2. s \in Matcher /\ s.lineNo <= n /\ s.satisfied /\ s.evidence = place
      BY <1>1, <3>1 DEF Matcher
    <3> QED BY <1>5, <2>3, <3>2 DEF Satisfies, s, k, hits
  <2> QED BY <2>2, <2>3
<1> QED BY <1>4, <1>5

-----------------------------------------------------------------------------
(* The lines that satisfy a rule.                                            *)

LEMMA LinesOfFolder ==
    ASSUME folder \in Folders, NEW f \in LogFiles
    PROVE  /\ folder[f] \in Seq(Line)
           /\ \A n \in DOMAIN folder[f] : NoLiteral \notin folder[f][n]
  BY RulesAssumption

LEMMA FiredOnPlaces ==
    ASSUME RulesOK, folder \in Folders, NEW i \in DOMAIN infos, NEW x
    PROVE  x \in FiredOn(i) <=>
             /\ x = <<x[1], x[2]>>
             /\ x[1] \in DOMAIN FilesOf(i) /\ x[2] \in DOMAIN folder[FilesOf(i)[x[1]]]
             /\ Satisfies(infos[i].rule, folder[FilesOf(i)[x[1]]][x[2]])
  BY DEF FiredOn

LEMMA PlacesAreNumbers ==
    ASSUME RulesOK, folder \in Folders, NEW i \in DOMAIN infos, NEW x \in FiredOn(i)
    PROVE  /\ x \in (Nat \ {0}) \X (Nat \ {0})
           /\ x[1] <= Len(FilesOf(i)) /\ x[2] <= Len(folder[FilesOf(i)[x[1]]])
<1>1. FilesOf(i) \in Seq(LogFiles)
  BY InfoRules, RulesOK
<1>2. /\ x = <<x[1], x[2]>>
      /\ x[1] \in DOMAIN FilesOf(i) /\ x[2] \in DOMAIN folder[FilesOf(i)[x[1]]]
  BY FiredOnPlaces, RulesOK, folder \in Folders
<1>3. FilesOf(i)[x[1]] \in LogFiles
  BY <1>1, <1>2
<1>4. folder[FilesOf(i)[x[1]]] \in Seq(Line)
  BY <1>3, LinesOfFolder, folder \in Folders
<1> QED BY <1>1, <1>2, <1>4

\* The evidence of a matcher that has seen all is the first line that satisfies its rule.
LEMMA ToldIsFirst ==
    ASSUME NEW places, places \subseteq Nat \X Nat, NEW m, Told(m, places), m.satisfied
    PROVE  m.evidence = First(places)
<1>1. m.evidence \in places /\ \A y \in places : ~Before(y, m.evidence)
  BY DEF Told
<1>2. ASSUME NEW x \in places, \A y \in places : ~Before(y, x)
      PROVE  x = m.evidence
  <2>1. ~Before(x, m.evidence) /\ ~Before(m.evidence, x)
    BY <1>1, <1>2
  <2>2. PICK a \in Nat, b \in Nat : x = <<a, b>>
    OBVIOUS
  <2>3. PICK c \in Nat, d \in Nat : m.evidence = <<c, d>>
    BY <1>1
  <2>4. a = c /\ b = d
    BY <2>1, <2>2, <2>3 DEF Before
  <2> QED BY <2>2, <2>3, <2>4
<1> QED BY <1>1, <1>2 DEF First

\* The findings of a scan for each rule alone.
Firsts ==
    {[at |-> i, evidence |-> First(FiredOn(i))] : i \in {j \in DOMAIN infos : FiredOn(j) # {}}}

\* What satisfies a rule depends on the rules loaded and the folder only.
LEMMA FiredOnStays ==
    ASSUME UNCHANGED <<infos, folder>>
    PROVE  (\A i : FiredOn(i)' = FiredOn(i) /\ FilesOf(i)' = FilesOf(i)) /\ Firsts' = Firsts
<1>1. \A i : FiredOn(i)' = FiredOn(i) /\ FilesOf(i)' = FilesOf(i)
  BY DEF FiredOn, FilesOf, Satisfies, Found
<1>2. Firsts' = Firsts
  BY DEF Firsts, First, FiredOn, FilesOf, Satisfies, Found
<1> QED BY <1>1, <1>2

-----------------------------------------------------------------------------
(* The invariant.                                                            *)

LEMMA InitIInv == Init => IInv
<1> SUFFICES ASSUME Init PROVE IInv
  OBVIOUS
<1>1. RulesOK
  <2>1. infos \in Seq({}) /\ \A x \in {} : x.rule \in Rule
    BY DEF Init
  <2>2. doc.rules \in Seq(Rule) /\ doc.at \in Nat \ {0}
    BY DEF Init, NoDocument
  <2> QED BY <2>1, <2>2 DEF RulesOK
<1>2. DOMAIN scan = Fields /\ scan.lineNo \in Nat
  BY DEF Init, NoGroup, Fields
<1> QED BY <1>1, <1>2 DEF Init, IInv, OnePassIsAPassPerRule

LEMMA CallIInv == ASSUME IInv, NEW k, NEW d \in Folders, Call(k, d) PROVE IInv'
<1>1. RulesOK'
  <2>1. infos' \in Seq({}) /\ \A x \in {} : x.rule \in Rule
    BY DEF Call
  <2>2. doc'.rules \in Seq(Rule) /\ doc'.at \in Nat \ {0}
    BY DEF Call, NoDocument
  <2> QED BY <2>1, <2>2 DEF RulesOK
<1>2. (DOMAIN scan = Fields /\ scan.lineNo \in Nat)'
  BY DEF Call, NoGroup, Fields
<1> QED BY <1>1, <1>2 DEF Call, IInv, OnePassIsAPassPerRule

\* A step of discovery and parsing that does not end it.
LEMMA LoadingIInv ==
    ASSUME IInv, Loading, Loading', RulesOK', UNCHANGED <<folder, scan, findings>>
    PROVE  IInv'
  BY DEF IInv, Loading, OnePassIsAPassPerRule

LEMMA ExpandIInv == ASSUME IInv, Expand PROVE IInv'
<1>1. RulesOK'
  BY DEF IInv, RulesOK, Expand
<1> QED BY <1>1, LoadingIInv DEF Expand, Loading, scanning, results

LEMMA ReadFileIInv == ASSUME IInv, ReadFile PROVE IInv'
<1>1. RulesOK'
  <2>1. UNCHANGED infos /\ (doc' = doc \/ \E d \in Documents : doc'.rules = d.rules /\ doc'.at = 1)
    BY DEF ReadFile
  <2>2. ASSUME NEW d \in Documents PROVE d.rules \in Seq(Rule)
    BY RulesAssumption DEF Document
  <2> QED BY <2>1, <2>2 DEF IInv, RulesOK
<1> QED BY <1>1, LoadingIInv DEF ReadFile, Loading, scanning, results

LEMMA ParseRuleIInv == ASSUME IInv, ParseRule PROVE IInv'
<1> DEFINE r == doc.rules[doc.at]
           info == [rule |-> r, file |-> doc.file, at |-> doc.at]
<1>1. r \in Rule
  BY DEF IInv, RulesOK, ParseRule, Parsed
<1>2. PICK S : infos \in Seq(S) /\ \A x \in S : x.rule \in Rule
  BY DEF IInv, RulesOK
<1>3. infos' = infos \/ infos' = Append(infos, info)
  BY DEF ParseRule
<1> HIDE DEF info
<1>4. infos' \in Seq(S \cup {info})
  <2>1. infos \in Seq(S \cup {info})
    BY <1>2, SeqMonotonic
  <2>2. info \in S \cup {info}
    OBVIOUS
  <2>3. Append(infos, info) \in Seq(S \cup {info})
    BY <2>1, <2>2, AppendProperties
  <2> QED BY <1>3, <2>1, <2>3
<1>5. \A x \in S \cup {info} : x.rule \in Rule
  BY <1>1, <1>2 DEF info
<1>6. doc'.rules \in Seq(Rule) /\ doc'.at \in Nat \ {0}
  BY DEF IInv, RulesOK, ParseRule
<1>7. RulesOK'
  BY <1>4, <1>5, <1>6 DEF RulesOK
<1> QED BY <1>7, LoadingIInv DEF ParseRule, Loading, scanning, results

\* Nothing loaded, nothing found.
LEMMA LoadedIInv == ASSUME IInv, Loaded PROVE IInv'
<1>1. RulesOK'
  BY DEF IInv, RulesOK, Loaded
<1>2. CASE phase = "describe"
  BY <1>1, <1>2, LoadingIInv DEF Loaded, Loading, scanning, results
<1>3. CASE phase = "load"
  <2>1. phase' \in {"compile", "done"} /\ findings' = {} /\ kind' = kind
        /\ (phase' = "done" => kind = "inventory" \/ infos' = <<>>)
    BY <1>3 DEF IInv, Loaded, results
  <2>2. OnePassIsAPassPerRule'
    BY <2>1 DEF OnePassIsAPassPerRule
  <2> QED BY <1>1, <2>1, <2>2 DEF IInv, Loaded, scanning
<1> QED BY <1>2, <1>3 DEF Loaded, Loading

\* No rule has seen a line yet.
LEMMA CompileIInv == ASSUME IInv, Compile PROVE IInv'
<1> DEFINE fresh == [hits |-> {}, lineNo |-> 0, satisfied |-> FALSE, evidence |-> <<0, 0>>]
<1>1. RulesOK' /\ folder' \in Folders /\ phase' \in {"panicked", "groups"}
  BY DEF IInv, RulesOK, Compile, loading
<1>2. /\ DOMAIN matchers' = DOMAIN infos' /\ \A i \in DOMAIN infos' : matchers'[i] = fresh
      /\ scan' = NoGroup
  BY DEF Compile, loading
<1>3. DOMAIN scan' = Fields /\ scan'.lineNo = 0 /\ scan'.scanned = {}
  BY <1>2 DEF NoGroup, Fields
<1>4. \A i : Seen(i)' = {}
  BY <1>3 DEF Seen
<1>5. fresh \in Matcher
  BY DEF Matcher
<1>6. fresh.lineNo = 0 /\ ~fresh.satisfied
  OBVIOUS
<1> HIDE DEF fresh
<1>7. MatchersOK'
  BY <1>2, <1>3, <1>4, <1>5, <1>6 DEF MatchersOK, Told
<1> QED BY <1>1, <1>3, <1>7 DEF IInv, OnePassIsAPassPerRule

\* A step of the evaluation that neither loads nor ends.
LEMMA EvaluationIInv ==
    ASSUME IInv, phase' \in {"groups", "scan"}, UNCHANGED <<infos, doc, folder>>,
           DOMAIN scan' = Fields, scan'.lineNo \in Nat, phase' = "scan" => Reading', MatchersOK'
    PROVE  IInv'
<1>1. RulesOK'
  BY DEF IInv, RulesOK
<1> QED BY <1>1 DEF IInv, OnePassIsAPassPerRule

\* Matchers that stay told what they were told.
LEMMA MatchersStay ==
    ASSUME MatchersOK, UNCHANGED <<infos, matchers>>, scan'.lineNo = scan.lineNo,
           \A i \in DOMAIN infos : Seen(i)' = Seen(i)
    PROVE  MatchersOK'
  BY DEF MatchersOK, Told

\* A fresh group has seen nothing, and keeps what its rules are told apart by.
LEMMA StartGroupIInv == ASSUME IInv, StartGroup PROVE IInv'
<1>1. UNCHANGED <<infos, doc, folder, matchers>> /\ phase = "groups" /\ phase' = "scan"
  BY DEF StartGroup, loading
<1>2. PICK first \in Unscanned :
        \E order \in Orders(LiteralsOf({i \in DOMAIN infos : FilesOf(i) = FilesOf(first)})) :
          scan' = [scan EXCEPT !.key = FilesOf(first), !.file = 1, !.line = 0, !.order = order,
                               !.scanned = @ \cup {FilesOf(first)}]
  BY DEF StartGroup
<1> DEFINE key == FilesOf(first)
           group == {i \in DOMAIN infos : FilesOf(i) = key}
<1>3. PICK order \in Orders(LiteralsOf(group)) :
        scan' = [scan EXCEPT !.key = key, !.file = 1, !.line = 0, !.order = order,
                             !.scanned = @ \cup {key}]
  BY <1>2
<1>4. first \in DOMAIN infos /\ key \notin scan.scanned
  BY DEF Unscanned
<1>5. key \in Seq(LogFiles)
  BY <1>4, InfoRules DEF IInv
<1> HIDE DEF key
<1>6. /\ DOMAIN scan' = Fields /\ scan'.lineNo = scan.lineNo /\ scan'.lineNo \in Nat
      /\ scan'.key = key /\ scan'.file = 1 /\ scan'.line = 0 /\ scan'.order = order
      /\ scan'.scanned = scan.scanned \cup {key}
  BY <1>3 DEF IInv, Fields
<1>7. \A i : FiredOn(i)' = FiredOn(i) /\ FilesOf(i)' = FilesOf(i)
  BY <1>1, FiredOnStays
<1>8. Group' = group
  BY <1>1, <1>6, <1>7 DEF Group
<1>8a. LiteralsOf(Group)' = LiteralsOf(group)
  BY <1>1, <1>8 DEF LiteralsOf
<1>9. Reading'
  <2>1. ElementsOf(order) = LiteralsOf(group)
    BY DEF Orders
  <2>2. 1 <= Len(key) => key[1] \in LogFiles
    BY <1>5
  <2>3. 1 <= Len(key) => Len(folder[key[1]]) \in Nat
    BY <2>2, LinesOfFolder DEF IInv
  <2>4. ElementsOf(scan.order)' = ElementsOf(order)
    BY <1>6 DEF ElementsOf
  <2>5. (scan.file <= Len(scan.key) => scan.line <= Len(folder[scan.key[scan.file]]))'
    BY <1>1, <1>6, <2>3
  <2>6. Len(key) \in Nat
    BY <1>5
  <2> QED BY <1>5, <1>6, <1>8a, <2>1, <2>4, <2>5, <2>6 DEF Reading
<1>10. ASSUME NEW i \in DOMAIN infos PROVE Seen(i)' = Seen(i)
  <2>1. CASE FilesOf(i) = key
    <3>1. \A x \in FiredOn(i) : x[1] \in Nat \ {0} /\ x[2] \in Nat \ {0}
      BY PlacesAreNumbers DEF IInv
    <3>2. ReadSoFar(i)' = {}
      BY <1>6, <1>7, <3>1 DEF ReadSoFar
    <3> QED BY <1>1, <1>4, <1>6, <1>7, <2>1, <3>2 DEF Seen
  <2>2. CASE FilesOf(i) # key
    BY <1>1, <1>6, <1>7, <2>2 DEF Seen
  <2> QED BY <2>1, <2>2
<1>11. MatchersOK'
  BY <1>1, <1>6, <1>10, MatchersStay DEF IInv
<1> QED BY <1>1, <1>6, <1>9, <1>11, EvaluationIInv

\* Each rule of the group is told of the line, the others have seen all or nothing.
LEMMA FeedLineIInv == ASSUME IInv, FeedLine PROVE IInv'
<1> DEFINE f == scan.file
           at == scan.line + 1
           n == scan.lineNo + 1
           lines == folder[scan.key[f]]
           line == lines[at]
           After(i) == Settled(Marked(matchers[i], HitsOf(i, line), n), infos[i].rule,
                               HitsOf(i, line), <<f, at>>)
<1>1. UNCHANGED <<infos, doc, folder, phase>> /\ phase = "scan"
      /\ f <= Len(scan.key) /\ scan.line < Len(lines)
  BY DEF FeedLine, loading
<1>2. /\ matchers' = [i \in DOMAIN matchers |-> IF i \in Group THEN After(i) ELSE matchers[i]]
      /\ scan' = [scan EXCEPT !.line = at, !.lineNo = n]
  BY DEF FeedLine
<1>3. Reading /\ MatchersOK /\ RulesOK /\ folder \in Folders
      /\ DOMAIN scan = Fields /\ scan.lineNo \in Nat
  BY <1>1 DEF IInv
<1>4. scan.key \in Seq(LogFiles) /\ f \in DOMAIN scan.key /\ scan.line \in Nat /\ f \in Nat
  BY <1>1, <1>3 DEF Reading
<1>5. lines \in Seq(Line) /\ at \in DOMAIN lines /\ NoLiteral \notin line
  <2>1. scan.key[f] \in LogFiles
    BY <1>4
  <2>2. lines \in Seq(Line)
    BY <1>3, <2>1, LinesOfFolder
  <2>3. at \in DOMAIN lines
    BY <1>1, <1>4, <2>2
  <2> QED BY <1>3, <2>1, <2>2, <2>3, LinesOfFolder
<1>6. /\ DOMAIN scan' = Fields /\ scan'.lineNo = n /\ n \in Nat
      /\ scan'.key = scan.key /\ scan'.file = f /\ scan'.line = at /\ scan'.order = scan.order
      /\ scan'.scanned = scan.scanned
  BY <1>2, <1>3 DEF Fields
<1>7. \A i : FiredOn(i)' = FiredOn(i) /\ FilesOf(i)' = FilesOf(i)
  BY <1>1, FiredOnStays
<1>8. Group' = Group
  BY <1>1, <1>6, <1>7 DEF Group
<1>9. Reading'
  <2>1. LiteralsOf(Group)' = LiteralsOf(Group)
    BY <1>1, <1>8 DEF LiteralsOf
  <2>2. ElementsOf(scan.order)' = ElementsOf(scan.order)
    BY <1>6 DEF ElementsOf
  <2>3. at \in Nat /\ at <= Len(lines)
    BY <1>5
  <2>4. (scan.file <= Len(scan.key) => scan.line <= Len(folder[scan.key[scan.file]]))'
    BY <1>1, <1>6, <2>3
  <2> QED BY <1>3, <1>6, <2>1, <2>2, <2>3, <2>4 DEF Reading
<1>10. ASSUME NEW i \in DOMAIN infos
       PROVE  /\ matchers'[i] \in Matcher /\ matchers'[i].lineNo <= n
              /\ Told(matchers'[i], Seen(i)')
  <2>1. matchers[i] \in Matcher /\ matchers[i].lineNo <= scan.lineNo /\ Told(matchers[i], Seen(i))
    BY <1>3 DEF MatchersOK
  <2>2. CASE i \notin Group
    <3>1. matchers'[i] = matchers[i]
      BY <1>2, <1>3, <2>2 DEF MatchersOK
    <3>2. Seen(i)' = Seen(i)
      BY <1>1, <1>6, <1>7, <2>2 DEF Seen, Group
    <3>3. matchers[i].lineNo <= n
      BY <1>3, <2>1 DEF Matcher
    <3> QED BY <2>1, <3>1, <3>2, <3>3
  <2>3. CASE i \in Group
    <3> DEFINE r == infos[i].rule
               hits == Found(r, line)
               s == Settled(Marked(matchers[i], hits, n), r, hits, <<f, at>>)
               fires == Satisfies(r, line)
    <3>1. HitsOf(i, line) = hits
      BY <1>3, <1>5, <2>3, HitsAreFound DEF Reading
    <3>2. matchers'[i] = s
      BY <1>2, <1>3, <2>3, <3>1 DEF MatchersOK
    <3>3. r \in Rule /\ FilesOf(i) = scan.key
      BY <1>3, <2>3, InfoRules DEF Group
    <3>4. matchers[i].lineNo < n
      BY <1>3, <2>1 DEF Matcher
    <3>4a. at \in Nat /\ <<f, at>> \in Nat \X Nat
      BY <1>4
    <3> HIDE DEF n, r, line, at, f
    <3>5. /\ s \in Matcher /\ s.lineNo <= n
          /\ matchers[i].satisfied => s = matchers[i]
          /\ ~matchers[i].satisfied /\ ~fires => ~s.satisfied
          /\ ~matchers[i].satisfied /\ fires => s.satisfied /\ s.evidence = <<f, at>>
      BY <1>6, <2>1, <3>3, <3>4, <3>4a, LineIsFed
    <3> HIDE DEF s
    <3>6. Seen(i) = ReadSoFar(i) /\ Seen(i)' = ReadSoFar(i)'
      BY <1>1, <1>3, <1>6, <1>7, <3>3 DEF Seen, Reading
    <3>7. \A x \in FiredOn(i) : x \in Nat \X Nat
      BY <1>3, PlacesAreNumbers
    <3>8. <<f, at>> \in FiredOn(i) <=> fires
      BY <1>4, <1>5, <3>3 DEF FiredOn, line, r
    <3>9. ReadSoFar(i)' = IF fires THEN ReadSoFar(i) \cup {<<f, at>>} ELSE ReadSoFar(i)
      <4>1. ASSUME NEW x \in FiredOn(i)
            PROVE  x[1] < f \/ (x[1] = f /\ x[2] <= at)
                     <=> x[1] < f \/ (x[1] = f /\ x[2] <= scan.line) \/ x = <<f, at>>
        BY <1>4, <3>7 DEF at
      <4>2. ReadSoFar(i)' = {x \in FiredOn(i) : x[1] < f \/ (x[1] = f /\ x[2] <= at)}
        BY <1>6, <1>7 DEF ReadSoFar
      <4> QED BY <3>8, <4>1, <4>2 DEF ReadSoFar, f
    <3>10. \A x \in ReadSoFar(i) : x \in Nat \X Nat /\ (x[1] < f \/ (x[1] = f /\ x[2] < at))
      BY <1>4, <3>7 DEF ReadSoFar, at, f
    <3>11. /\ f \in Nat /\ at \in Nat /\ Told(matchers[i], ReadSoFar(i))
           /\ matchers[i].satisfied => s = matchers[i]
      BY <1>4, <2>1, <3>4a, <3>5, <3>6
    <3>12. \/ ReadSoFar(i)' = ReadSoFar(i) /\ (matchers[i].satisfied \/ ~s.satisfied)
           \/ /\ ReadSoFar(i)' = ReadSoFar(i) \cup {<<f, at>>}
              /\ matchers[i].satisfied \/ (s.satisfied /\ s.evidence = <<f, at>>)
      BY <3>5, <3>9
    <3> HIDE DEF fires
    <3>13. Told(s, ReadSoFar(i)')
      <4> DEFINE m == matchers[i]
                 places == ReadSoFar(i)
                 more == ReadSoFar(i)'
      <4>1. f \in Nat /\ at \in Nat /\ Told(m, places)
        BY <3>11
      <4>2. m.satisfied => s = m
        BY <3>11
      <4>3. \A x \in places : x \in Nat \X Nat /\ (x[1] < f \/ (x[1] = f /\ x[2] < at))
        BY <3>10
      <4>4. \/ more = places /\ (m.satisfied \/ ~s.satisfied)
            \/ /\ more = places \cup {<<f, at>>}
               /\ m.satisfied \/ (s.satisfied /\ s.evidence = <<f, at>>)
        BY <3>12
      <4> HIDE DEF m, places, more
      <4>5. CASE m.satisfied
        <5>1. m.evidence \in places /\ \A y \in places : ~Before(y, m.evidence)
          BY <4>1, <4>5 DEF Told
        <5>2. ~Before(<<f, at>>, m.evidence)
          BY <4>1, <4>3, <5>1 DEF Before
        <5>3. m.evidence \in more /\ \A y \in more : ~Before(y, m.evidence)
          BY <4>4, <5>1, <5>2
        <5> QED BY <4>2, <4>5, <5>3 DEF Told, more
      <4>6. CASE ~m.satisfied
        <5>1. places = {}
          BY <4>1, <4>6 DEF Told
        <5>2. ~Before(<<f, at>>, <<f, at>>)
          BY <4>1 DEF Before
        <5>3. Told(s, more)
          BY <4>4, <4>6, <5>1, <5>2 DEF Told
        <5> QED BY <5>3 DEF more
      <4> QED BY <4>5, <4>6
    <3> QED BY <3>2, <3>5, <3>6, <3>13
  <2> QED BY <2>2, <2>3
<1>11. DOMAIN matchers' = DOMAIN infos
  BY <1>2, <1>3 DEF MatchersOK
<1>12. MatchersOK'
  BY <1>1, <1>6, <1>10, <1>11 DEF MatchersOK
<1> QED BY <1>1, <1>6, <1>9, <1>12, EvaluationIInv

\* Between files nothing is left to see.
LEMMA NextFileIInv == ASSUME IInv, NextFile PROVE IInv'
<1> DEFINE f == scan.file
           lines == folder[scan.key[f]]
<1>1. /\ UNCHANGED <<infos, doc, folder, phase, matchers>> /\ phase = "scan"
      /\ f <= Len(scan.key) /\ scan.line = Len(lines)
      /\ scan' = [scan EXCEPT !.file = @ + 1, !.line = 0]
  BY DEF NextFile, loading
<1>2. Reading /\ MatchersOK /\ RulesOK /\ folder \in Folders
      /\ DOMAIN scan = Fields /\ scan.lineNo \in Nat
  BY <1>1 DEF IInv
<1>3. scan.key \in Seq(LogFiles) /\ f \in DOMAIN scan.key /\ f \in Nat
  BY <1>1, <1>2 DEF Reading
<1>4. /\ DOMAIN scan' = Fields /\ scan'.lineNo = scan.lineNo
      /\ scan'.key = scan.key /\ scan'.file = f + 1 /\ scan'.line = 0
      /\ scan'.order = scan.order /\ scan'.scanned = scan.scanned
  BY <1>1, <1>2 DEF Fields
<1>5. \A i : FiredOn(i)' = FiredOn(i) /\ FilesOf(i)' = FilesOf(i)
  BY <1>1, FiredOnStays
<1>6. Group' = Group
  BY <1>1, <1>4, <1>5 DEF Group
<1>7. Reading'
  <2>1. LiteralsOf(Group)' = LiteralsOf(Group)
    BY <1>1, <1>6 DEF LiteralsOf
  <2>2. ElementsOf(scan.order)' = ElementsOf(scan.order)
    BY <1>4 DEF ElementsOf
  <2>3. ASSUME f + 1 <= Len(scan.key) PROVE Len(folder[scan.key[f + 1]]) \in Nat
    <3>1. scan.key[f + 1] \in LogFiles
      BY <1>3, <2>3
    <3> QED BY <1>2, <3>1, LinesOfFolder
  <2>4. (scan.file <= Len(scan.key) => scan.line <= Len(folder[scan.key[scan.file]]))'
    BY <1>1, <1>4, <2>3
  <2>5. f + 1 \in 1..(Len(scan.key) + 1)
    BY <1>3
  <2> QED BY <1>2, <1>4, <2>1, <2>2, <2>4, <2>5 DEF Reading
<1>8. ASSUME NEW i \in DOMAIN infos PROVE Seen(i)' = Seen(i)
  <2>1. CASE FilesOf(i) = scan.key
    <3>1. \A x \in FiredOn(i) :
            x[1] \in Nat /\ x[2] \in Nat \ {0} /\ (x[1] = f => x[2] <= scan.line)
      BY <1>1, <1>2, <2>1, PlacesAreNumbers
    <3>2. ReadSoFar(i)' = {x \in FiredOn(i) : x[1] < f + 1 \/ (x[1] = f + 1 /\ x[2] <= 0)}
      BY <1>4, <1>5 DEF ReadSoFar
    <3>3. \A x \in FiredOn(i) : x[1] < f + 1 \/ (x[1] = f + 1 /\ x[2] <= 0)
                                <=> x[1] < f \/ (x[1] = f /\ x[2] <= scan.line)
      BY <1>3, <3>1
    <3>4. ReadSoFar(i)' = ReadSoFar(i)
      BY <3>2, <3>3 DEF ReadSoFar
    <3> QED BY <1>1, <1>4, <1>5, <3>4 DEF Seen
  <2>2. CASE FilesOf(i) # scan.key
    BY <1>1, <1>4, <1>5, <2>2 DEF Seen
  <2> QED BY <2>1, <2>2
<1>9. MatchersOK'
  BY <1>1, <1>2, <1>4, <1>8, MatchersStay
<1> QED BY <1>1, <1>2, <1>4, <1>7, <1>9, EvaluationIInv

\* After the last file the rules of the group have seen all of them.
LEMMA EndGroupIInv == ASSUME IInv, EndGroup PROVE IInv'
<1>1. UNCHANGED <<infos, doc, folder, matchers, scan>> /\ phase = "scan" /\ phase' = "groups"
      /\ scan.file > Len(scan.key)
  BY DEF EndGroup, loading, scanning
<1>2. Reading /\ MatchersOK /\ RulesOK /\ folder \in Folders
      /\ DOMAIN scan = Fields /\ scan.lineNo \in Nat
  BY <1>1 DEF IInv
<1>3. \A i : FiredOn(i)' = FiredOn(i) /\ FilesOf(i)' = FilesOf(i)
  BY <1>1, FiredOnStays
<1>4. ASSUME NEW i \in DOMAIN infos PROVE Seen(i)' = Seen(i)
  <2>1. CASE FilesOf(i) = scan.key
    <3>1. scan.file \in Nat /\ Len(scan.key) \in Nat
      BY <1>2 DEF Reading
    <3>2. \A x \in FiredOn(i) : x[1] \in Nat /\ x[1] <= Len(scan.key)
      BY <1>2, <2>1, PlacesAreNumbers
    <3>3. ReadSoFar(i) = FiredOn(i)
      BY <1>1, <3>1, <3>2 DEF ReadSoFar
    <3> QED BY <1>1, <1>3, <3>3 DEF Seen
  <2>2. CASE FilesOf(i) # scan.key
    BY <1>1, <1>3, <2>2 DEF Seen
  <2> QED BY <2>1, <2>2
<1>5. MatchersOK'
  BY <1>1, <1>2, <1>4, MatchersStay
<1> QED BY <1>1, <1>2, <1>5, EvaluationIInv

\* All groups were scanned: each rule has seen all lines of its files.
LEMMA EmitIInv == ASSUME IInv, Emit PROVE IInv'
<1>1. /\ UNCHANGED <<infos, doc, folder, matchers, scan, kind>>
      /\ phase = "groups" /\ phase' = "done" /\ Unscanned = {}
      /\ findings' = {[at |-> i, evidence |-> matchers[i].evidence] : i \in Satisfied}
  BY DEF Emit, loading, scanning
<1>2. MatchersOK /\ RulesOK /\ folder \in Folders
  BY <1>1 DEF IInv
<1>3. Firsts' = Firsts
  BY <1>1, FiredOnStays
<1>4. ASSUME NEW i \in DOMAIN infos
      PROVE  /\ matchers[i].satisfied <=> FiredOn(i) # {}
             /\ matchers[i].satisfied => matchers[i].evidence = First(FiredOn(i))
  <2>1. Told(matchers[i], FiredOn(i))
    BY <1>1, <1>2 DEF MatchersOK, Seen, Unscanned
  <2>2. FiredOn(i) \subseteq Nat \X Nat
    BY <1>2, PlacesAreNumbers
  <2> QED BY <2>1, <2>2, ToldIsFirst DEF Told
<1>5. Satisfied = {i \in DOMAIN infos : FiredOn(i) # {}}
  BY <1>2, <1>4 DEF Satisfied, MatchersOK
<1>6. findings' = Firsts
  BY <1>1, <1>4, <1>5 DEF Firsts
<1>7. OnePassIsAPassPerRule'
  BY <1>3, <1>6 DEF OnePassIsAPassPerRule, Firsts
<1>8. RulesOK' /\ (DOMAIN scan = Fields /\ scan.lineNo \in Nat)'
  BY <1>1 DEF IInv, RulesOK
<1> QED BY <1>1, <1>2, <1>7, <1>8 DEF IInv

\* Files and places that change meanwhile are not what is evaluated, which is a copy.
LEMMA EditIInv == ASSUME IInv, UNCHANGED <<phase, kind, folder, loading, scanning, results>>
                  PROVE  IInv'
<1>1. UNCHANGED <<infos, doc, matchers, scan, findings>>
  BY DEF loading, scanning, results
<1>2. \A i : FiredOn(i)' = FiredOn(i) /\ FilesOf(i)' = FilesOf(i)
  BY <1>1, FiredOnStays
<1>3. RulesOK'
  BY <1>1 DEF IInv, RulesOK
<1>4. Reading => Reading'
  <2>1. Group' = Group
    BY <1>1, <1>2 DEF Group
  <2>2. LiteralsOf(Group)' = LiteralsOf(Group)
    BY <1>1, <2>1 DEF LiteralsOf
  <2>3. ElementsOf(scan.order)' = ElementsOf(scan.order)
    BY <1>1 DEF ElementsOf
  <2> QED BY <1>1, <2>2, <2>3 DEF Reading
<1>5. \A i : Seen(i)' = Seen(i)
  BY <1>1, <1>2 DEF Seen, ReadSoFar
<1>6. MatchersOK => MatchersOK'
  BY <1>1, <1>5 DEF MatchersOK, Told
<1>7. Firsts' = Firsts
  BY <1>1, FiredOnStays
<1>8. OnePassIsAPassPerRule => OnePassIsAPassPerRule'
  BY <1>1, <1>7 DEF OnePassIsAPassPerRule, Firsts
<1> QED BY <1>1, <1>3, <1>4, <1>6, <1>8 DEF IInv

LEMMA NextIInv == IInv /\ [Next]_vars => IInv'
<1> SUFFICES ASSUME IInv, [Next]_vars PROVE IInv'
  OBVIOUS
<1>1. ASSUME NEW k \in {"analysis", "dryrun", "inventory"}, NEW d \in Folders, Call(k, d)
      PROVE  IInv'
  BY <1>1, CallIInv
<1>2. CASE Expand
  BY <1>2, ExpandIInv
<1>3. CASE ReadFile
  BY <1>3, ReadFileIInv
<1>4. CASE ParseRule
  BY <1>4, ParseRuleIInv
<1>5. CASE Loaded
  BY <1>5, LoadedIInv
<1>6. ASSUME NEW f \in RuleFiles, NEW content \in Contents, Edit(f, content) PROVE IInv'
  BY <1>6, EditIInv DEF Edit
<1>14. ASSUME NEW l \in Guarded, ChangeAccess(l) PROVE IInv'
  BY <1>14, EditIInv DEF ChangeAccess
<1>7. CASE Compile
  BY <1>7, CompileIInv
<1>8. CASE StartGroup
  BY <1>8, StartGroupIInv
<1>9. CASE FeedLine
  BY <1>9, FeedLineIInv
<1>10. CASE NextFile
  BY <1>10, NextFileIInv
<1>11. CASE EndGroup
  BY <1>11, EndGroupIInv
<1>12. CASE Emit
  BY <1>12, EmitIInv
<1>13. CASE UNCHANGED vars
  BY <1>13, EditIInv DEF vars
<1> QED BY <1>1, <1>2, <1>3, <1>4, <1>5, <1>6, <1>7, <1>8, <1>9, <1>10, <1>11, <1>12, <1>13, <1>14 DEF Next

\* The findings are those that a scan for each rule alone would make, for any rules files,
\* however they change, and any folder (applyAnalysisRules, "Semantics are unchanged").
THEOREM OnePassFindsWhatEachRuleWould == Spec => []OnePassIsAPassPerRule
<1>1. IInv => OnePassIsAPassPerRule
  BY DEF IInv
<1> QED BY <1>1, InitIInv, NextIInv, PTL DEF Spec

-----------------------------------------------------------------------------
(* The invariants of discovery and parsing.                                  *)

\* What parsing knows.
Info == [rule : Rule, file : RuleFiles, at : Nat \ {0}]

LoadingType ==
    /\ disk \in [RuleFiles -> Contents]
    /\ infos \in Seq(Info) /\ todo \in Seq(RuleFiles) /\ rows \in Seq(Nat)
    /\ next \in 1..(Len(Candidates) + 1)
    /\ doc \in [file : RuleFiles \cup {Absent}, rules : Seq(Rule), at : Nat \ {0}]
    /\ doc.at <= Len(doc.rules) + 1
    /\ ~Parsed => doc.file \in RuleFiles
    /\ Loading /\ next = 1 => todo = <<>> /\ Parsed
    /\ phase = "describe" => infos = <<>> /\ Len(rows) = next - 1
    /\ phase = "idle" => infos = <<>>

\* Rules were loaded as they were written, and what was to be said of them was said.
AsWritten(x) ==
    /\ Loads(x.rule)
    /\ x.file \notin edited =>
         /\ disk[x.file] \in Documents /\ x.at \in DOMAIN disk[x.file].rules
         /\ x.rule = disk[x.file].rules[x.at]
         /\ \A what \in RemarksOn(disk[x.file].rules, x.at) :
                Diagnostic(x.file, x.at, what) \in diags

Right == \A i \in DOMAIN infos : AsWritten(infos[i])

DocumentIsCurrent ==
    ~Parsed /\ doc.file \notin edited =>
        disk[doc.file] \in Documents /\ doc.rules = disk[doc.file].rules

Untouched(f) == (\A i \in DOMAIN infos : infos[i].file # f) /\ (Parsed \/ doc.file # f)
PlaceAhead(l) == \E c \in next..Len(Candidates) : Candidates[c] = l
Ahead(f) == \E c \in next..Len(Candidates) : f \in ElementsOf(FilesAt[Candidates[c]])

\* A file that is listed once is looked up, read and parsed in this order, and never again.
InTurn(f) ==
    /\ Ahead(f) => f \notin ElementsOf(todo) /\ Untouched(f)
    /\ f \in ElementsOf(todo) => Untouched(f)
    /\ \A p, q \in DOMAIN todo : todo[p] = f /\ todo[q] = f => p = q
    /\ ~Parsed /\ doc.file = f =>
         \A i \in {j \in DOMAIN infos : infos[j].file = f} :
             /\ infos[i].at < doc.at /\ infos[i].at \in DOMAIN doc.rules
             /\ infos[i].rule = doc.rules[infos[i].at]

Once ==
    /\ \A i, j \in DOMAIN infos :
         infos[i].file = infos[j].file /\ infos[i].at = infos[j].at /\ ListedOnce(infos[i].file)
           => i = j
    /\ phase = "load" => \A f \in RuleFiles : ListedOnce(f) => InTurn(f)

\* Of two rules with a name, one is reported, unless their file is listed twice.
Namesakes(i) == {j \in DOMAIN infos : infos[j].rule.name = infos[i].rule.name}
Reported(i) ==
    \E j \in Namesakes(i), what \in Clash : Diagnostic(infos[j].file, infos[j].at, what) \in diags

ClashesAreReported ==
    \A i \in DOMAIN infos : \A j \in Namesakes(i) :
        \/ i = j \/ Reported(i)
        \/ infos[i].file = infos[j].file /\ ~ListedOnce(infos[i].file)

\* What became of the n-th rule of a file, and of a file.
RuleDealt(f, n) ==
    IF Loads(disk[f].rules[n]) THEN \E i \in DOMAIN infos : infos[i].file = f /\ infos[i].at = n
    ELSE \E what \in Refused(disk[f].rules[n]) : Diagnostic(f, n, what) \in diags

Dealt(f) ==
    \/ disk[f] = Absent
    \/ \E what \in {"broken", "unreadable"} : Diagnostic(f, 0, what) \in diags
    \/ disk[f] \in Documents /\ \A n \in DOMAIN disk[f].rules : RuleDealt(f, n)

BeingParsed(f) ==
    /\ ~Parsed /\ doc.file = f
    /\ \A n \in DOMAIN doc.rules : n < doc.at => RuleDealt(f, n)

Covered ==
    /\ phase = "load" => \A l \in Open : \A f \in ElementsOf(FilesAt[l]) \ edited :
         Dealt(f) \/ PlaceAhead(l) \/ f \in ElementsOf(todo) \/ BeingParsed(f)
    /\ phase \notin {"idle", "describe", "load"} => \A f \in Reachable \ edited : Dealt(f)

\* The rules loaded, or counted, and those still to come are those of the files.
Sum(s, n) == LET sum[k \in 0..Len(s)] == IF k = 0 THEN 0 ELSE sum[k - 1] + s[k] IN sum[n]
Counts(rules) == [n \in DOMAIN rules |-> Counted(rules[n])]
InFile(content) ==
    IF content \in Documents THEN IF content.broken THEN 0 ELSE Total(Counts(content.rules)) ELSE 0
InFiles(d, s) == Total([n \in DOMAIN s |-> InFile(d[s[n]])])
PerPlace(d, s) ==
    [c \in DOMAIN Candidates |->
       IF Candidates[c] \in s THEN 0 ELSE InFiles(d, FilesAt[Candidates[c]])]

AddsUpTo(found) ==
    found + Total(Counts(doc.rules)) + InFiles(disk, todo)
      = Sum(PerPlace(disk, shut), next - 1) + Sum(Counts(doc.rules), doc.at - 1)

Counting ==
    edited = {} =>
        /\ phase = "describe" => AddsUpTo(Total(rows))
        /\ phase = "load" /\ kind = "inventory" =>
             AddsUpTo(Len(infos)) /\ Total(rows) = Total(PerPlace(disk, shut))

CountingInv ==
    Counting /\ InventoryAddsUp /\ (phase \in {"compile", "groups", "scan"} => kind # "inventory")

-----------------------------------------------------------------------------
(* What discovery finds.                                                     *)

\* Each place once, in order.
LEMMA CandidatesAreThePlaces ==
    /\ Candidates \in Seq(Locations) /\ ElementsOf(Candidates) = ElementsOf(Places)
    /\ \A c, d \in DOMAIN Candidates : Candidates[c] = Candidates[d] => c = d
<1> DEFINE N == Len(Places)
           V == Seq(Locations)
           With(n, t) == IF Places[n] \in ElementsOf(t) THEN t ELSE Append(t, Places[n])
           step == [n \in 1..N |-> [t \in V |-> With(n, t)]]
           Body(g) == [n \in 0..N |-> IF n = 0 THEN <<>> ELSE With(n, g[n - 1])]
<1>1. N \in Nat /\ <<>> \in V /\ \A n \in 1..N : Places[n] \in Locations
  <2>1. Places \in Seq(Locations)
    BY RulesAssumption
  <2> QED
    BY <2>1
<1>2. \A n \in 1..N : \A t \in V : With(n, t) \in V
  <2>1. \A x \in Locations : \A t \in V : Append(t, x) \in V
    OBVIOUS
  <2> HIDE DEF V
  <2> QED
    BY <1>1, <2>1
<1>3. Candidates = (CHOOSE g : g = Body(g))[N]
  BY DEF Candidates
<1> HIDE DEF N, V, With
<1>4. step \in [1..N -> [V -> V]] /\ \A n \in 1..N : \A t \in V : step[n][t] = With(n, t)
  BY <1>2
<1> HIDE DEF step
<1>5. PICK f : Follows(f, N, V, <<>>, step)
  BY <1>1, <1>4, RecursionExists
<1>6. f = Body(f)
  <2>1. \A n \in 1..N : n - 1 \in 0..N
    BY <1>1
  <2>2. f \in [0..N -> V] /\ f[0] = <<>> /\ \A n \in 1..N : f[n] = step[n][f[n - 1]]
    BY <1>5 DEF Follows
  <2>3. \A n \in 1..N : f[n] = With(n, f[n - 1])
    BY <1>4, <2>1, <2>2
  <2> QED
    BY <1>1, <2>2, <2>3
<1>7. PICK g : g = Body(g) /\ Candidates = g[N]
  BY <1>3, <1>6
<1> DEFINE Sound(t, n) ==
             /\ t \in V /\ ElementsOf(t) = {Places[k] : k \in 1..n}
             /\ \A c, d \in DOMAIN t : t[c] = t[d] => c = d
           T == {n \in 0..N : Sound(g[n], n)}
<1>8. 0 \in T
  <2>1. g[0] = <<>>
    BY <1>1, <1>7
  <2>2. ElementsOf(<<>>) = {} /\ {Places[k] : k \in 1..0} = {}
    BY DEF ElementsOf
  <2>3. <<>> \in V
    BY DEF V
  <2> QED
    BY <1>1, <2>1, <2>2, <2>3
<1>9. ASSUME NEW n \in 1..N, n - 1 \in T PROVE n \in T
  <2>1. n \in 0..N /\ n # 0 /\ n - 1 \in Nat
    BY <1>1
  <2> DEFINE t == g[n - 1]
             x == Places[n]
  <2>2. g[n] = With(n, t)
    BY <1>7, <2>1
  <2>3. Sound(t, n - 1)
    BY <1>9
  <2>4. x \in Locations
    BY <1>1
  <2>5. {Places[k] : k \in 1..n} = {Places[k] : k \in 1..(n - 1)} \cup {x}
    <3>1. 1..n = (1..(n - 1)) \cup {n}
      BY <2>1
    <3> QED
      BY <3>1
  <2> HIDE DEF t, x
  <2>6. CASE x \in ElementsOf(t)
    <3>1. g[n] = t
      BY <2>2, <2>6 DEF With, x
    <3>2. {Places[k] : k \in 1..n} = {Places[k] : k \in 1..(n - 1)}
      BY <2>3, <2>5, <2>6
    <3> QED
      BY <2>1, <2>3, <3>1, <3>2
  <2>7. CASE x \notin ElementsOf(t)
    <3>1. g[n] = Append(t, x)
      BY <2>2, <2>7 DEF With, x
    <3> DEFINE u == Append(t, x)
    <3>2. /\ t \in V /\ u \in V /\ Len(t) \in Nat /\ DOMAIN t = 1..Len(t) /\ DOMAIN u = 1..(Len(t) + 1)
          /\ \A c \in 1..Len(t) : u[c] = t[c]
          /\ u[Len(t) + 1] = x
      BY <2>3, <2>4 DEF V
    <3> HIDE DEF u
    <3>3. \A c \in 1..Len(t) : t[c] \in ElementsOf(t) /\ t[c] # x
      BY <2>7, <3>2 DEF ElementsOf
    <3>4. DOMAIN u = DOMAIN t \cup {Len(t) + 1}
      BY <3>2
    <3>5. ElementsOf(u) = ElementsOf(t) \cup {x}
      BY <3>2, <3>4 DEF ElementsOf
    <3>6. \A c, d \in DOMAIN u : u[c] = u[d] => c = d
      BY <2>3, <3>2, <3>3, <3>4
    <3>7. ElementsOf(u) = {Places[k] : k \in 1..n}
      BY <2>3, <2>5, <3>5
    <3>8. Sound(u, n)
      BY <3>2, <3>6, <3>7
    <3> QED
      BY <2>1, <3>1, <3>8 DEF u
  <2> QED
    BY <2>6, <2>7
<1> HIDE DEF T
<1>10. N \in T
  <2>1. \A n \in 1..N : n - 1 \in T => n \in T
    BY <1>9
  <2>2. N \in Nat
    BY <1>1
  <2>3. \A n \in 0..N : n \in T
    BY <1>8, <2>1, <2>2, Induction
  <2> QED
    BY <2>2, <2>3
<1>11. ElementsOf(Places) = {Places[k] : k \in 1..N}
  <2>1. Places \in Seq(Locations)
    BY RulesAssumption
  <2> QED
    BY <2>1 DEF ElementsOf, N
<1>12. Sound(Candidates, N)
  BY <1>7, <1>10 DEF T
<1> QED
  BY <1>11, <1>12 DEF V

\* Of the files of a place those that are there, in order.
-----------------------------------------------------------------------------
(* Sums.                                                                     *)

LEMMA SumIs ==
    ASSUME NEW s \in Seq(Nat)
    PROVE  /\ Sum(s, 0) = 0 /\ Total(s) = Sum(s, Len(s))
           /\ \A n \in 0..Len(s) : Sum(s, n) \in Nat
           /\ \A n \in 1..Len(s) : Sum(s, n) = Sum(s, n - 1) + s[n]
<1> DEFINE N == Len(s)
           step == [n \in 1..N |-> [t \in Nat |-> t + s[n]]]
           Body(g) == [k \in 0..N |-> IF k = 0 THEN 0 ELSE g[k - 1] + s[k]]
           sum == CHOOSE g : g = Body(g)
<1>1. N \in Nat /\ \A n \in 1..N : s[n] \in Nat
  OBVIOUS
<1>2. \A n : Sum(s, n) = sum[n]
  BY DEF Sum
<1>3. Total(s) = sum[N]
  BY DEF Total
<1> HIDE DEF N
<1>4. step \in [1..N -> [Nat -> Nat]] /\ \A n \in 1..N : \A t \in Nat : step[n][t] = t + s[n]
  BY <1>1
<1> HIDE DEF step
<1>5. PICK f : Follows(f, N, Nat, 0, step)
  <2>1. 0 \in Nat
    OBVIOUS
  <2> QED
    BY <1>1, <1>4, <2>1, RecursionExists
<1>6. f = Body(f)
  <2>1. \A n \in 1..N : n - 1 \in 0..N
    BY <1>1
  <2>2. f \in [0..N -> Nat] /\ f[0] = 0 /\ \A n \in 1..N : f[n] = step[n][f[n - 1]]
    BY <1>5 DEF Follows
  <2>3. \A n \in 1..N : f[n] = f[n - 1] + s[n]
    BY <1>4, <2>1, <2>2
  <2> QED
    BY <1>1, <2>2, <2>3
<1>7. sum = Body(sum)
  BY <1>6
<1> HIDE DEF sum
<1>8. sum[0] = 0 /\ \A n \in 1..N : sum[n] = sum[n - 1] + s[n]
  <2>1. 0 \in 0..N /\ \A n \in 1..N : n \in 0..N /\ n # 0
    BY <1>1
  <2> QED
    BY <1>7, <2>1
<1> DEFINE T == {n \in 0..N : sum[n] \in Nat}
<1>9. 0 \in T
  BY <1>1, <1>8
<1>10. \A n \in 1..N : n - 1 \in T => n \in T
  BY <1>1, <1>8
<1> HIDE DEF T
<1>11. \A n \in 0..N : n \in T
  BY <1>1, <1>9, <1>10, Induction
<1> QED
  BY <1>2, <1>3, <1>8, <1>11 DEF T, N

\* The sum depends on what is added up only.
LEMMA SumsAgree ==
    ASSUME NEW s \in Seq(Nat), NEW t \in Seq(Nat), NEW m \in Nat, m <= Len(s), m <= Len(t),
           \A k \in 1..m : s[k] = t[k]
    PROVE  Sum(s, m) = Sum(t, m)
<1> DEFINE T == {n \in 0..m : Sum(s, n) = Sum(t, n)}
<1>1. 0 \in T
  BY SumIs
<1>2. ASSUME NEW n \in 1..m, n - 1 \in T PROVE n \in T
  <2>1. n \in 1..Len(s) /\ n \in 1..Len(t) /\ n \in 0..m
    OBVIOUS
  <2>2. Sum(s, n) = Sum(s, n - 1) + s[n] /\ Sum(t, n) = Sum(t, n - 1) + t[n]
    BY <2>1, SumIs
  <2> QED
    BY <1>2, <2>1, <2>2
<1> HIDE DEF T
<1>3. \A n \in 1..m : n - 1 \in T => n \in T
  BY <1>2
<1>4. \A n \in 0..m : n \in T
  BY <1>1, <1>3, Induction
<1>5. m \in T
  BY <1>4
<1> QED
  BY <1>5 DEF T

LEMMA TotalOfNone == Total(<<>>) = 0
<1>1. <<>> \in Seq(Nat) /\ Len(<<>>) = 0
  OBVIOUS
<1> QED
  BY <1>1, SumIs

LEMMA TotalOfMore ==
    ASSUME NEW s \in Seq(Nat), NEW x \in Nat
    PROVE  Total(Append(s, x)) = Total(s) + x /\ Total(s) \in Nat
<1> DEFINE t == Append(s, x)
<1>1. /\ t \in Seq(Nat) /\ Len(s) \in Nat /\ Len(t) = Len(s) + 1 /\ t[Len(t)] = x
      /\ \A k \in 1..Len(s) : t[k] = s[k]
  OBVIOUS
<1> HIDE DEF t
<1>2. Sum(t, Len(s)) = Sum(s, Len(s))
  <2>1. Len(s) <= Len(s) /\ Len(s) <= Len(t)
    BY <1>1
  <2> QED
    BY <1>1, <2>1, SumsAgree
<1>3. Len(t) \in 1..Len(t) /\ Len(t) - 1 = Len(s)
  BY <1>1
<1>4. Sum(t, Len(t)) = Sum(t, Len(s)) + x
  BY <1>1, <1>3, SumIs
<1>5. Total(t) = Sum(t, Len(t)) /\ Total(s) = Sum(s, Len(s)) /\ Sum(s, Len(s)) \in Nat
  BY <1>1, SumIs
<1> QED
  BY <1>2, <1>4, <1>5 DEF t

\* One more counted for the last.
LEMMA TotalOfLast ==
    ASSUME NEW s \in Seq(Nat), s # <<>>, NEW x \in Nat
    PROVE  LET t == [s EXCEPT ![Len(s)] = @ + x] IN t \in Seq(Nat) /\ Total(t) = Total(s) + x
<1> DEFINE n == Len(s)
           t == [s EXCEPT ![n] = @ + x]
<1>1. n \in 1..Len(s) /\ n - 1 \in Nat /\ n - 1 <= Len(s)
  OBVIOUS
<1>2. t \in Seq(Nat) /\ Len(t) = n /\ t[n] = s[n] + x /\ \A k \in 1..(n - 1) : s[k] = t[k]
  OBVIOUS
<1> HIDE DEF t, n
<1>3. Sum(s, n - 1) = Sum(t, n - 1)
  <2>1. n - 1 <= Len(t)
    BY <1>1, <1>2 DEF n
  <2> QED
    BY <1>1, <1>2, <2>1, SumsAgree
<1>4. Sum(s, n) = Sum(s, n - 1) + s[n] /\ Sum(t, n) = Sum(t, n - 1) + t[n]
  <2>1. n \in 1..Len(t)
    BY <1>1, <1>2 DEF n
  <2> QED
    BY <1>1, <1>2, <2>1, SumIs
<1>5. s[n] \in Nat /\ Sum(s, n - 1) \in Nat
  <2>1. n - 1 \in 0..Len(s)
    BY <1>1 DEF n
  <2> QED
    BY <1>1, <2>1, SumIs
<1>6. Total(s) = Sum(s, n) /\ Total(t) = Sum(t, n)
  BY <1>2, SumIs DEF n
<1>7. Total(t) = Total(s) + x
  BY <1>2, <1>3, <1>4, <1>5, <1>6
<1> QED
  BY <1>2, <1>7 DEF t, n

LEMMA TotalOfTail ==
    ASSUME NEW s \in Seq(Nat), s # <<>>
    PROVE  Total(s) = s[1] + Total(Tail(s)) /\ Total(Tail(s)) \in Nat
<1> DEFINE t == Tail(s)
           N == Len(t)
           T == {n \in 0..N : Sum(s, n + 1) = s[1] + Sum(t, n)}
<1>1. /\ t \in Seq(Nat) /\ N \in Nat /\ Len(s) = N + 1 /\ s[1] \in Nat
      /\ \A k \in 1..N : t[k] = s[k + 1]
  OBVIOUS
<1> HIDE DEF t, N
<1>2. 0 \in T
  <2>1. 1 \in 1..Len(s) /\ 1 - 1 = 0
    BY <1>1
  <2>2. Sum(s, 1) = Sum(s, 0) + s[1] /\ Sum(s, 0) = 0 /\ Sum(t, 0) = 0
    BY <1>1, <2>1, SumIs
  <2> QED
    BY <1>1, <2>2
<1>3. ASSUME NEW n \in 1..N, n - 1 \in T PROVE n \in T
  <2>1. n \in 0..N /\ n \in 1..Len(t) /\ n + 1 \in 1..Len(s) /\ (n + 1) - 1 = n /\ (n - 1) + 1 = n
    BY <1>1 DEF N
  <2>2. Sum(t, n) = Sum(t, n - 1) + t[n]
    BY <1>1, <2>1, SumIs
  <2>3. Sum(s, n + 1) = Sum(s, n) + s[n + 1]
    BY <1>1, <2>1, SumIs
  <2>4. Sum(s, n) = s[1] + Sum(t, n - 1)
    BY <1>3, <2>1
  <2>5. Sum(t, n - 1) \in Nat /\ t[n] \in Nat
    <3>1. n - 1 \in 0..Len(t)
      BY <1>1 DEF N
    <3>2. t[n] \in Nat
      BY <1>1, <2>1
    <3> QED
      BY <1>1, <3>1, <3>2, SumIs
  <2> QED
    BY <1>1, <2>1, <2>2, <2>3, <2>4, <2>5
<1> HIDE DEF T
<1>4. N \in T
  <2>1. \A n \in 1..N : n - 1 \in T => n \in T
    BY <1>3
  <2>2. \A n \in 0..N : n \in T
    BY <1>1, <1>2, <2>1, Induction
  <2> QED
    BY <1>1, <2>2
<1>5. /\ Total(s) = Sum(s, N + 1) /\ Total(t) = Sum(t, N)
      /\ Sum(t, N) \in Nat
  <2>1. N \in 0..Len(t)
    BY <1>1 DEF N
  <2> QED
    BY <1>1, <2>1, SumIs DEF N
<1> QED
  BY <1>4, <1>5 DEF T, t

\* What is in files, one after the other.
LEMMA InFileIsCounted ==
    ASSUME NEW content
    PROVE  /\ InFile(content) \in Nat
           /\ \A rules : rules \in Seq(Rule) => Counts(rules) \in Seq(Nat)
<1>1. ASSUME NEW rules \in Seq(Rule) PROVE Counts(rules) \in Seq(Nat)
  <2>1. \A r : Counted(r) \in Nat
    BY DEF Counted
  <2>2. \A n \in DOMAIN rules : Counts(rules)[n] \in Nat
    BY <2>1 DEF Counts
  <2>3. DOMAIN Counts(rules) = 1..Len(rules) /\ Len(rules) \in Nat
    BY DEF Counts
  <2> DEFINE t == Counts(rules)
             N == Len(rules)
  <2>4. t = [n \in 1..N |-> t[n]] /\ N \in Nat /\ \A n \in 1..N : t[n] \in Nat
    BY <2>2, <2>3 DEF Counts
  <2> HIDE DEF t, N
  <2>5. t \in [1..N -> Nat]
    BY <2>4
  <2>6. t \in Seq(Nat)
    BY <2>4, <2>5
  <2> QED
    BY <2>6 DEF t
<1>2. CASE content \in Documents /\ ~content.broken
  <2>1. content.rules \in Seq(Rule)
    BY <1>2, RulesAssumption DEF Document
  <2>2. Counts(content.rules) \in Seq(Nat)
    BY <1>1, <2>1
  <2>3. Total(Counts(content.rules)) \in Nat
    BY <2>2, TotalOfMore
  <2> QED
    BY <1>1, <1>2, <2>3 DEF InFile
<1>3. CASE ~(content \in Documents /\ ~content.broken)
  BY <1>1, <1>3 DEF InFile
<1> QED
  BY <1>2, <1>3

LEMMA InFilesAre ==
    ASSUME NEW d, NEW s \in Seq(RuleFiles)
    PROVE  LET t == [n \in DOMAIN s |-> InFile(d[s[n]])]
           IN  t \in Seq(Nat) /\ Len(t) = Len(s) /\ InFiles(d, s) = Total(t) /\ InFiles(d, s) \in Nat
<1> DEFINE t == [n \in DOMAIN s |-> InFile(d[s[n]])]
<1>1. t \in Seq(Nat) /\ Len(t) = Len(s)
  <2>1. \A n \in DOMAIN s : InFile(d[s[n]]) \in Nat
    BY InFileIsCounted
  <2> QED
    BY <2>1
<1>2. InFiles(d, s) = Total(t)
  BY DEF InFiles
<1> HIDE DEF t
<1>3. Total(t) \in Nat
  BY <1>1, TotalOfMore
<1> QED
  BY <1>1, <1>2, <1>3 DEF t

LEMMA InMoreFiles ==
    ASSUME NEW d, NEW s \in Seq(RuleFiles), NEW f \in RuleFiles
    PROVE  InFiles(d, Append(s, f)) = InFiles(d, s) + InFile(d[f])
<1> DEFINE t == [n \in DOMAIN s |-> InFile(d[s[n]])]
           z == Append(s, f)
           u == [n \in DOMAIN z |-> InFile(d[z[n]])]
           x == InFile(d[f])
<1>1. t \in Seq(Nat) /\ Len(t) = Len(s) /\ InFiles(d, s) = Total(t)
  BY InFilesAre
<1>2. InFiles(d, z) = Total(u)
  BY DEF InFiles
<1>3. x \in Nat
  BY InFileIsCounted
<1>4. u = Append(t, x)
  <2>1. /\ z \in Seq(RuleFiles) /\ Len(z) = Len(s) + 1 /\ Len(s) \in Nat /\ z[Len(s) + 1] = f
        /\ \A n \in 1..Len(s) : z[n] = s[n]
    OBVIOUS
  <2> HIDE DEF z, x
  <2>2. \A n \in 1..Len(s) : t[n] = InFile(d[s[n]])
    OBVIOUS
  <2>3. u \in Seq(Nat) /\ Len(u) = Len(z)
    BY <2>1, InFilesAre
  <2>4. \A n \in 1..Len(z) : u[n] = InFile(d[z[n]])
    BY <2>1
  <2> HIDE DEF t, u
  <2> DEFINE v == Append(t, x)
  <2>5. /\ v \in Seq(Nat) /\ Len(v) = Len(s) + 1 /\ v[Len(s) + 1] = x
        /\ \A n \in 1..Len(s) : v[n] = t[n]
    BY <1>1, <1>3, AppendProperties
  <2> HIDE DEF v
  <2>6. \A n \in 1..Len(u) : u[n] = v[n]
    <3>1. ASSUME NEW n \in 1..Len(u) PROVE u[n] = v[n]
      <4>1. n \in 1..Len(s) \/ n = Len(s) + 1
        BY <2>1, <2>3
      <4> QED
        BY <4>1, <2>1, <2>2, <2>3, <2>4, <2>5 DEF x
    <3> QED
      BY <3>1
  <2>7. u = v
    BY <2>1, <2>3, <2>5, <2>6, SeqEqual
  <2> QED
    BY <2>7 DEF v
<1> HIDE DEF t, u, x
<1>5. Total(u) = Total(t) + x
  BY <1>1, <1>3, <1>4, TotalOfMore
<1> QED
  BY <1>1, <1>2, <1>5 DEF z, x

LEMMA InFilesBehind ==
    ASSUME NEW d, NEW s \in Seq(RuleFiles), s # <<>>
    PROVE  InFiles(d, s) = InFile(d[Head(s)]) + InFiles(d, Tail(s))
<1> DEFINE t == [n \in DOMAIN s |-> InFile(d[s[n]])]
           z == Tail(s)
           u == [n \in DOMAIN z |-> InFile(d[z[n]])]
<1>1. t \in Seq(Nat) /\ Len(t) = Len(s) /\ InFiles(d, s) = Total(t)
  BY InFilesAre
<1>2. InFiles(d, z) = Total(u)
  BY DEF InFiles
<1>3. u = Tail(t)
  <2>1. /\ z \in Seq(RuleFiles) /\ Len(z) = Len(s) - 1 /\ Len(s) \in Nat \ {0}
        /\ \A n \in 1..Len(z) : z[n] = s[n + 1] /\ n + 1 \in DOMAIN s
    OBVIOUS
  <2> HIDE DEF z
  <2>2. \A n \in DOMAIN s : t[n] = InFile(d[s[n]])
    OBVIOUS
  <2>3. u \in Seq(Nat) /\ Len(u) = Len(z)
    BY <2>1, InFilesAre
  <2>4. \A n \in 1..Len(z) : u[n] = InFile(d[z[n]])
    BY <2>1
  <2> HIDE DEF t, u
  <2> DEFINE v == Tail(t)
  <2>5. t # <<>>
    BY <1>1, <2>1
  <2>6. v \in Seq(Nat) /\ Len(v) = Len(s) - 1 /\ \A n \in 1..Len(v) : v[n] = t[n + 1]
    BY <1>1, <2>5, HeadTailProperties
  <2> HIDE DEF v
  <2>7. \A n \in 1..Len(u) : u[n] = v[n]
    BY <2>1, <2>2, <2>3, <2>4, <2>6
  <2>8. u = v
    BY <2>1, <2>3, <2>6, <2>7, SeqEqual
  <2> QED
    BY <2>8 DEF v
<1>4. t[1] = InFile(d[Head(s)])
  OBVIOUS
<1>5. t # <<>>
  BY <1>1
<1> HIDE DEF t, u
<1>6. Total(t) = t[1] + Total(Tail(t))
  BY <1>1, <1>5, TotalOfTail
<1> QED
  BY <1>1, <1>2, <1>3, <1>4, <1>6 DEF z

-----------------------------------------------------------------------------
(* The files of a place.                                                     *)

\* A file is met once in a sequence.
Single(s, f) == \A p, q \in DOMAIN s : s[p] = f /\ s[q] = f => p = q

LEMMA SingleInMore ==
    ASSUME NEW s \in Seq(RuleFiles), NEW x \in RuleFiles
    PROVE  /\ ElementsOf(Append(s, x)) = ElementsOf(s) \cup {x}
           /\ \A f : Single(s, f) /\ (f = x => f \notin ElementsOf(s)) => Single(Append(s, x), f)
<1> DEFINE u == Append(s, x)
<1>1. /\ DOMAIN s = 1..Len(s) /\ DOMAIN u = 1..(Len(s) + 1) /\ Len(s) \in Nat
      /\ \A n \in 1..Len(s) : u[n] = s[n]
      /\ u[Len(s) + 1] = x
  OBVIOUS
<1> HIDE DEF u
<1>2. DOMAIN u = DOMAIN s \cup {Len(s) + 1}
  BY <1>1
<1>3. ElementsOf(u) = ElementsOf(s) \cup {x}
  BY <1>1, <1>2 DEF ElementsOf
<1>4. ASSUME NEW f, Single(s, f), f = x => f \notin ElementsOf(s) PROVE Single(u, f)
  <2>1. \A n \in 1..Len(s) : s[n] \in ElementsOf(s)
    BY <1>1 DEF ElementsOf
  <2>2. ASSUME NEW p \in DOMAIN u, NEW q \in DOMAIN u, u[p] = f, u[q] = f PROVE p = q
    <3>1. p \in 1..Len(s) \/ p = Len(s) + 1
      BY <1>1
    <3>2. q \in 1..Len(s) \/ q = Len(s) + 1
      BY <1>1
    <3>3. CASE p \in 1..Len(s) /\ q \in 1..Len(s)
      BY <1>1, <1>4, <2>2, <3>3 DEF Single
    <3>4. CASE f = x
      BY <1>1, <1>4, <2>1, <2>2, <3>1, <3>2, <3>4
    <3>5. CASE f # x
      BY <1>1, <2>2, <3>1, <3>2, <3>3, <3>5
    <3> QED
      BY <3>4, <3>5
  <2> QED
    BY <2>2 DEF Single
<1> QED
  BY <1>3, <1>4 DEF u

\* Of the files of a place those that are there, in order; the others hold no rules.
LEMMA PresentOnes ==
    ASSUME NEW s \in Seq(RuleFiles)
    PROVE  /\ PresentOf(s) \in Seq(RuleFiles)
           /\ ElementsOf(PresentOf(s)) = {f \in ElementsOf(s) : Present(f)}
           /\ \A f : Single(s, f) => Single(PresentOf(s), f)
           /\ InFiles(disk, PresentOf(s)) = InFiles(disk, s)
<1> DEFINE N == Len(s)
           V == Seq(RuleFiles)
           With(n, t) == IF Present(s[n]) THEN Append(t, s[n]) ELSE t
           step == [n \in 1..N |-> [t \in V |-> With(n, t)]]
           Body(g) == [n \in 0..N |-> IF n = 0 THEN <<>> ELSE With(n, g[n - 1])]
           sizes == [n \in DOMAIN s |-> InFile(disk[s[n]])]
<1>1. N \in Nat /\ <<>> \in V /\ (\A n \in 1..N : s[n] \in RuleFiles) /\ DOMAIN s = 1..N
  OBVIOUS
<1>1a. sizes \in Seq(Nat) /\ Len(sizes) = N /\ InFiles(disk, s) = Total(sizes)
       /\ \A n \in 1..N : sizes[n] = InFile(disk[s[n]])
  BY <1>1, InFilesAre
<1> HIDE DEF sizes
<1>2. \A n \in 1..N : \A t \in V : With(n, t) \in V
  <2>1. \A x \in RuleFiles : \A t \in V : Append(t, x) \in V
    OBVIOUS
  <2> HIDE DEF V
  <2> QED
    BY <1>1, <2>1
<1>3. PresentOf(s) = (CHOOSE g : g = Body(g))[N]
  BY DEF PresentOf
<1> HIDE DEF N, V, With
<1>4. step \in [1..N -> [V -> V]] /\ \A n \in 1..N : \A t \in V : step[n][t] = With(n, t)
  BY <1>2
<1> HIDE DEF step
<1>5. PICK f : Follows(f, N, V, <<>>, step)
  BY <1>1, <1>4, RecursionExists
<1>6. f = Body(f)
  <2>1. \A n \in 1..N : n - 1 \in 0..N
    BY <1>1
  <2>2. f \in [0..N -> V] /\ f[0] = <<>> /\ \A n \in 1..N : f[n] = step[n][f[n - 1]]
    BY <1>5 DEF Follows
  <2>3. \A n \in 1..N : f[n] = With(n, f[n - 1])
    BY <1>4, <2>1, <2>2
  <2> QED
    BY <1>1, <2>2, <2>3
<1>7. PICK g : g = Body(g) /\ PresentOf(s) = g[N]
  BY <1>3, <1>6
<1> DEFINE Among(n) == {x \in {s[k] : k \in 1..n} : Present(x)}
           Alone(x, n) == \A p, q \in 1..n : s[p] = x /\ s[q] = x => p = q
           Sound(t, n) ==
             /\ t \in V /\ ElementsOf(t) = Among(n)
             /\ \A h : Alone(h, n) => Single(t, h)
             /\ InFiles(disk, t) = Sum(sizes, n)
           T == {n \in 0..N : Sound(g[n], n)}
<1>8. 0 \in T
  <2>1. g[0] = <<>>
    BY <1>1, <1>7
  <2>2. ElementsOf(<<>>) = {} /\ Among(0) = {}
    BY DEF ElementsOf
  <2>3. \A h : Single(<<>>, h)
    BY DEF Single
  <2>4. InFiles(disk, <<>>) = 0
    <3>1. [n \in DOMAIN <<>> |-> InFile(disk[<<>>[n]])] = <<>>
      OBVIOUS
    <3> QED
      BY <3>1, TotalOfNone DEF InFiles
  <2>5. Sum(sizes, 0) = 0
    BY <1>1a, SumIs
  <2> HIDE DEF Among, Alone
  <2>6. Sound(<<>>, 0)
    BY <1>1, <2>2, <2>3, <2>4, <2>5
  <2> HIDE DEF Sound
  <2> QED
    BY <1>1, <2>1, <2>6
<1>9. ASSUME NEW n \in 1..N, n - 1 \in T PROVE n \in T
  <2>1. n \in 0..N /\ n # 0 /\ n - 1 \in Nat /\ n \in 1..Len(sizes)
    BY <1>1, <1>1a
  <2> DEFINE t == g[n - 1]
             x == s[n]
  <2>2. g[n] = IF Present(x) THEN Append(t, x) ELSE t
    BY <1>7, <2>1 DEF With
  <2>3. Sound(t, n - 1)
    BY <1>9
  <2>4. x \in RuleFiles
    BY <1>1
  <2>5. 1..n = (1..(n - 1)) \cup {n} /\ {s[k] : k \in 1..n} = {s[k] : k \in 1..(n - 1)} \cup {x}
    <3>1. 1..n = (1..(n - 1)) \cup {n}
      BY <2>1
    <3> QED
      BY <3>1
  <2>6. Among(n) = IF Present(x) THEN Among(n - 1) \cup {x} ELSE Among(n - 1)
    BY <2>5
  <2>7. Sum(sizes, n) = Sum(sizes, n - 1) + InFile(disk[x]) /\ Sum(sizes, n - 1) \in Nat
    <3>1. n - 1 \in 0..Len(sizes)
      BY <1>1a, <2>1
    <3> QED
      BY <1>1a, <2>1, <3>1, SumIs
  <2>8. ASSUME NEW h, Alone(h, n)
        PROVE  Alone(h, n - 1) /\ (h = x => h \notin {s[k] : k \in 1..(n - 1)})
    <3>1. Alone(h, n - 1)
      BY <2>5, <2>8
    <3>2. ASSUME h = x, NEW k \in 1..(n - 1), s[k] = h PROVE FALSE
      <4>1. k \in 1..n /\ n \in 1..n /\ k # n
        BY <2>1
      <4> QED
        BY <2>8, <3>2, <4>1
    <3> QED
      BY <3>1, <3>2
  <2>9. \A h \in Among(n - 1) : h \in {s[k] : k \in 1..(n - 1)}
    OBVIOUS
  <2> HIDE DEF t, x, Among, Alone
  <2>10. CASE Present(x)
    <3>1. g[n] = Append(t, x)
      BY <2>2, <2>10
    <3> DEFINE u == Append(t, x)
    <3>2. t \in Seq(RuleFiles) /\ u \in V
      BY <2>3, <2>4 DEF V
    <3>3. /\ ElementsOf(u) = ElementsOf(t) \cup {x}
          /\ \A h : Single(t, h) /\ (h = x => h \notin ElementsOf(t)) => Single(u, h)
      BY <2>4, <3>2, SingleInMore
    <3>4. InFiles(disk, u) = InFiles(disk, t) + InFile(disk[x])
      BY <2>4, <3>2, InMoreFiles
    <3> HIDE DEF u
    <3>5. ElementsOf(u) = Among(n)
      BY <2>3, <2>6, <2>10, <3>3
    <3>6. \A h : Alone(h, n) => Single(u, h)
      BY <2>3, <2>8, <2>9, <3>3
    <3>7. Sound(u, n)
      BY <2>3, <2>7, <3>2, <3>4, <3>5, <3>6
    <3> QED
      BY <2>1, <3>1, <3>7 DEF u
  <2>11. CASE ~Present(x)
    <3>1. g[n] = t
      BY <2>2, <2>11
    <3>2. InFile(disk[x]) = 0
      <4>1. Absent \notin Documents
        BY RulesAssumption
      <4> QED
        BY <2>11, <4>1 DEF InFile, Present
    <3>3. Sound(t, n)
      BY <2>3, <2>6, <2>7, <2>8, <2>11, <3>2
    <3> QED
      BY <2>1, <3>1, <3>3
  <2> QED
    BY <2>10, <2>11
<1> HIDE DEF T
<1>10. N \in T
  <2>1. \A n \in 1..N : n - 1 \in T => n \in T
    BY <1>9
  <2>2. N \in Nat
    BY <1>1
  <2>3. \A n \in 0..N : n \in T
    BY <1>8, <2>1, <2>2, Induction
  <2> QED
    BY <2>2, <2>3
<1>11. Sound(PresentOf(s), N)
  BY <1>7, <1>10 DEF T
<1>12. {s[k] : k \in 1..N} = ElementsOf(s) /\ \A h : Single(s, h) => Alone(h, N)
  BY <1>1 DEF ElementsOf, Single
<1>13. Sum(sizes, N) = InFiles(disk, s)
  BY <1>1a, SumIs
<1> QED
  BY <1>11, <1>12, <1>13 DEF V

-----------------------------------------------------------------------------
(* Discovery and parsing.                                                    *)

LoadingInv ==
    LoadingType /\ Right /\ DocumentIsCurrent /\ Once /\ ClashesAreReported /\ Covered

LEMMA InitLoading == Init => LoadingInv
<1> SUFFICES ASSUME Init PROVE LoadingInv
  OBVIOUS
<1>1. /\ disk \in [RuleFiles -> Contents] /\ phase = "idle" /\ next = 1 /\ todo = <<>>
      /\ doc = NoDocument /\ infos = <<>> /\ rows = <<>>
  BY DEF Init
<1>2. Parsed
  BY <1>1 DEF Parsed, NoDocument
<1>3. Len(Candidates) \in Nat
  BY CandidatesAreThePlaces
<1>4. LoadingType
  <2>1. doc \in [file : RuleFiles \cup {Absent}, rules : Seq(Rule), at : Nat \ {0}]
        /\ doc.at <= Len(doc.rules) + 1
    BY <1>1 DEF NoDocument
  <2>2. next \in 1..(Len(Candidates) + 1)
    BY <1>1, <1>3
  <2>3. infos \in Seq(Info) /\ todo \in Seq(RuleFiles) /\ rows \in Seq(Nat)
    BY <1>1
  <2> QED
    BY <1>1, <1>2, <2>1, <2>2, <2>3 DEF LoadingType
<1>5. DOMAIN infos = {}
  BY <1>1
<1> QED
  BY <1>1, <1>2, <1>4, <1>5
     DEF LoadingInv, Right, DocumentIsCurrent, Once, ClashesAreReported, Covered

LEMMA CallLoading == ASSUME LoadingInv, NEW k, NEW d, Call(k, d) PROVE LoadingInv'
<1>1. /\ UNCHANGED disk /\ phase' \in {"describe", "load"} /\ next' = 1 /\ todo' = <<>>
      /\ doc' = NoDocument /\ infos' = <<>> /\ rows' = <<>> /\ edited' = {}
  BY DEF Call
<1>2. Parsed'
  BY <1>1 DEF Parsed, NoDocument
<1>3. Len(Candidates) \in Nat
  BY CandidatesAreThePlaces
<1>4. LoadingType'
  <2>1. (doc \in [file : RuleFiles \cup {Absent}, rules : Seq(Rule), at : Nat \ {0}]
        /\ doc.at <= Len(doc.rules) + 1)'
    BY <1>1 DEF NoDocument
  <2>2. next' \in 1..(Len(Candidates) + 1)
    BY <1>1, <1>3
  <2>3. (infos \in Seq(Info) /\ todo \in Seq(RuleFiles) /\ rows \in Seq(Nat))'
    BY <1>1
  <2>4. disk' \in [RuleFiles -> Contents]
    BY <1>1 DEF LoadingInv, LoadingType
  <2>5. Len(rows') = next' - 1
    BY <1>1
  <2> QED
    BY <1>1, <1>2, <2>1, <2>2, <2>3, <2>4, <2>5 DEF LoadingType
<1>5. DOMAIN infos' = {} /\ DOMAIN todo' = {} /\ ElementsOf(todo)' = {}
  BY <1>1 DEF ElementsOf
<1>6. (Right /\ DocumentIsCurrent /\ ClashesAreReported)'
  BY <1>2, <1>5 DEF Right, AsWritten, DocumentIsCurrent, ClashesAreReported
<1>7. Once'
  <2>1. \A f : Untouched(f)'
    BY <1>2, <1>5 DEF Untouched
  <2>2. \A f : InTurn(f)'
    BY <1>2, <1>5, <2>1 DEF InTurn
  <2> QED
    BY <1>5, <2>2 DEF Once
<1>8. Covered'
  <2>1. ASSUME NEW l \in ElementsOf(Places) PROVE PlaceAhead(l)'
    <3>1. PICK c \in DOMAIN Candidates : Candidates[c] = l
      BY CandidatesAreThePlaces DEF ElementsOf
    <3>2. c \in 1..Len(Candidates)
      BY CandidatesAreThePlaces
    <3> QED
      BY <1>1, <3>1, <3>2 DEF PlaceAhead
  <2> QED
    BY <1>1, <2>1 DEF Covered, Open
<1> QED
  BY <1>4, <1>6, <1>7, <1>8 DEF LoadingInv

\* A file found in the next place was not met before, if it is listed once.
LEMMA ExpandLoading == ASSUME LoadingInv, Expand PROVE LoadingInv'
<1> DEFINE files == FilesAt[Candidates[next]]
<1>1. /\ UNCHANGED <<disk, shut, phase, doc, infos, diags, edited>>
      /\ Loading /\ Parsed /\ todo = <<>> /\ next <= Len(Candidates) /\ next' = next + 1
      /\ todo' = IF Candidates[next] \in shut THEN <<>> ELSE PresentOf(files)
      /\ rows' = IF phase = "describe" THEN Append(rows, 0) ELSE rows
  BY DEF Expand, RulesFilesIn
<1>2. LoadingType
  BY DEF LoadingInv
<1>3. next \in 1..Len(Candidates) /\ Len(Candidates) \in Nat /\ DOMAIN Candidates = 1..Len(Candidates)
  BY <1>1, <1>2, CandidatesAreThePlaces DEF LoadingType
<1>4. Candidates[next] \in Locations /\ files \in Seq(RuleFiles)
  BY <1>3, CandidatesAreThePlaces, RulesAssumption
<1> HIDE DEF files
<1>5. /\ todo' \in Seq(RuleFiles) /\ ElementsOf(todo)' \subseteq ElementsOf(files)
      /\ \A f : Single(files, f) => Single(todo', f)
      /\ Candidates[next] \notin shut =>
           ElementsOf(todo)' = {f \in ElementsOf(files) : Present(f)}
  <2>1. CASE Candidates[next] \in shut
    BY <1>1, <2>1 DEF ElementsOf, Single
  <2>2. CASE Candidates[next] \notin shut
    BY <1>1, <1>4, <2>2, PresentOnes DEF ElementsOf
  <2> QED
    BY <2>1, <2>2
<1>6. Parsed' /\ Loading'
  BY <1>1 DEF Parsed, Loading
<1>7. LoadingType'
  <2>1. next' \in 1..(Len(Candidates) + 1) /\ next' # 1
    BY <1>1, <1>3
  <2>2. rows' \in Seq(Nat) /\ (phase = "describe" => Len(rows') = next' - 1)
    BY <1>1, <1>2, <1>3 DEF LoadingType
  <2> QED
    BY <1>1, <1>2, <1>5, <1>6, <2>1, <2>2 DEF LoadingType
<1>8. (Right /\ DocumentIsCurrent /\ ClashesAreReported)'
  BY <1>1, <1>6 DEF LoadingInv, Right, AsWritten, DocumentIsCurrent, ClashesAreReported, Namesakes, Reported
<1>9. \A f : Untouched(f)' <=> Untouched(f)
  BY <1>1, <1>6 DEF Untouched
<1>10. \A f : Ahead(f) <=> Ahead(f)' \/ f \in ElementsOf(files)
  <2>1. next..Len(Candidates) = {next} \cup (next'..Len(Candidates))
    BY <1>1, <1>3
  <2> QED
    BY <2>1 DEF Ahead, files
<1>11. Once'
  <2>1. ASSUME NEW f \in RuleFiles, ListedOnce(f), phase = "load" PROVE InTurn(f)'
    <3>1. InTurn(f)
      BY <2>1 DEF LoadingInv, Once
    <3>2. Candidates[next] \in ElementsOf(Places)
      BY <1>3, CandidatesAreThePlaces DEF ElementsOf
    <3>3. Ahead(f)' => f \notin ElementsOf(files)
      <4>1. SUFFICES ASSUME f \in ElementsOf(files), Ahead(f)' PROVE FALSE
        OBVIOUS
      <4>2. PICK c \in next'..Len(Candidates) : f \in ElementsOf(FilesAt[Candidates[c]])
        BY <4>1 DEF Ahead
      <4>3. c \in DOMAIN Candidates /\ c # next
        BY <1>1, <1>3, <4>2
      <4>4. Candidates[c] \in ElementsOf(Places)
        BY <4>3, CandidatesAreThePlaces DEF ElementsOf
      <4>5. Candidates[c] = Candidates[next]
        BY <2>1, <3>2, <4>1, <4>2, <4>4 DEF ListedOnce, ElementsOf, files
      <4> QED
        BY <1>3, <4>3, <4>5, CandidatesAreThePlaces
    <3>4. Single(files, f)
      BY <2>1, <3>2 DEF ListedOnce, Single, files
    <3>5. Single(todo', f)
      BY <1>5, <3>4
    <3>6. f \in ElementsOf(files) => Untouched(f)
      BY <1>10, <3>1 DEF InTurn
    <3>7. Ahead(f)' => Untouched(f)
      BY <1>10, <3>1 DEF InTurn
    <3> QED
      BY <1>5, <1>6, <1>9, <3>3, <3>5, <3>6, <3>7 DEF InTurn, Single
  <2> QED
    BY <1>1, <2>1 DEF LoadingInv, Once
<1>12. Covered'
  <2>1. \A f : Dealt(f)' <=> Dealt(f)
    BY <1>1 DEF Dealt, RuleDealt
  <2>2. \A f : ~Present(f) => Dealt(f)
    BY DEF Present, Dealt
  <2>3. \A f : ~BeingParsed(f) /\ f \notin ElementsOf(todo)
    BY <1>1 DEF BeingParsed, ElementsOf
  <2>4. \A l : PlaceAhead(l) <=> PlaceAhead(l)' \/ l = Candidates[next]
    <3>1. next..Len(Candidates) = {next} \cup (next'..Len(Candidates))
      BY <1>1, <1>3
    <3> QED
      BY <3>1 DEF PlaceAhead
  <2>5. ASSUME NEW l \in Open, NEW f \in ElementsOf(FilesAt[l]) \ edited, phase = "load"
        PROVE  Dealt(f)' \/ PlaceAhead(l)' \/ f \in ElementsOf(todo)'
    <3>1. Dealt(f) \/ PlaceAhead(l)' \/ l = Candidates[next]
      BY <2>3, <2>4, <2>5 DEF LoadingInv, Covered
    <3>2. l \notin shut
      BY DEF Open
    <3>3. l = Candidates[next] => f \in ElementsOf(files)
      BY DEF files
    <3> QED
      BY <1>5, <2>1, <2>2, <3>1, <3>2, <3>3
  <2> QED
    BY <1>1, <1>6, <2>5 DEF Covered, Loading, Open
<1> QED
  BY <1>7, <1>8, <1>11, <1>12 DEF LoadingInv

\* The first of a queue is met no more if it is met once.
LEMMA QueueMovesOn ==
    ASSUME NEW s \in Seq(RuleFiles), s # <<>>
    PROVE  /\ Head(s) \in RuleFiles /\ Head(s) \in ElementsOf(s) /\ Tail(s) \in Seq(RuleFiles)
           /\ ElementsOf(s) = {Head(s)} \cup ElementsOf(Tail(s))
           /\ \A f : Single(s, f) => Single(Tail(s), f)
           /\ Single(s, Head(s)) => Head(s) \notin ElementsOf(Tail(s))
<1> DEFINE h == Head(s)
           t == Tail(s)
<1>1. /\ h = s[1] /\ h \in RuleFiles /\ t \in Seq(RuleFiles) /\ Len(s) \in Nat \ {0}
      /\ DOMAIN s = 1..Len(s) /\ DOMAIN t = 1..(Len(s) - 1)
      /\ \A n \in 1..(Len(s) - 1) : t[n] = s[n + 1]
  BY HeadTailProperties
<1> HIDE DEF h, t
<1>2. ElementsOf(s) = {h} \cup ElementsOf(t)
  <2>1. ASSUME NEW n \in 1..Len(s) PROVE s[n] \in {h} \cup ElementsOf(t)
    <3>1. CASE n = 1
      BY <1>1, <3>1
    <3>2. CASE n # 1
      <4>1. n - 1 \in 1..(Len(s) - 1) /\ (n - 1) + 1 = n
        BY <1>1, <3>2
      <4> QED
        BY <1>1, <4>1 DEF ElementsOf
    <3> QED
      BY <3>1, <3>2
  <2>2. ASSUME NEW n \in 1..(Len(s) - 1) PROVE t[n] \in ElementsOf(s)
    <3>1. n + 1 \in 1..Len(s)
      BY <1>1
    <3> QED
      BY <1>1, <3>1 DEF ElementsOf
  <2>3. 1 \in 1..Len(s)
    BY <1>1
  <2> QED
    BY <1>1, <2>1, <2>2, <2>3 DEF ElementsOf
<1>3. ASSUME NEW f, Single(s, f) PROVE Single(t, f) /\ (h = f => f \notin ElementsOf(t))
  <2>1. ASSUME NEW p \in DOMAIN t, NEW q \in DOMAIN t, t[p] = f, t[q] = f PROVE p = q
    <3>1. p + 1 \in DOMAIN s /\ q + 1 \in DOMAIN s /\ s[p + 1] = f /\ s[q + 1] = f
      BY <1>1, <2>1
    <3>2. p + 1 = q + 1
      BY <1>3, <3>1 DEF Single
    <3> QED
      BY <1>1, <3>2
  <2>2. ASSUME NEW p \in DOMAIN t, t[p] = f, h = f PROVE FALSE
    <3>1. p + 1 \in DOMAIN s /\ s[p + 1] = f /\ 1 \in DOMAIN s /\ s[1] = f
      BY <1>1, <2>2
    <3>2. p + 1 = 1
      BY <1>3, <3>1 DEF Single
    <3> QED
      BY <1>1, <3>2
  <2> QED
    BY <2>1, <2>2 DEF Single, ElementsOf
<1> QED
  BY <1>1, <1>2, <1>3 DEF h, t

\* A file that is read is parsed from its first rule on, or reported.
LEMMA ReadFileLoading == ASSUME LoadingInv, ReadFile PROVE LoadingInv'
<1>0. PICK h : h = Head(todo)
  OBVIOUS
<1> DEFINE text == disk[h]
<1>1. /\ UNCHANGED <<disk, shut, phase, next, infos, rows, edited>>
      /\ Loading /\ Parsed /\ todo # <<>>
      /\ todo' = Tail(todo) /\ diags \subseteq diags'
  BY DEF ReadFile
<1>2. \/ /\ doc' = doc
         /\ \/ text \in {Absent, Unreadable} /\ Diagnostic(h, 0, "unreadable") \in diags'
            \/ Diagnostic(h, 0, "broken") \in diags'
      \/ text \in Documents /\ ~text.broken /\ doc' = [file |-> h, rules |-> text.rules, at |-> 1]
  BY <1>0 DEF ReadFile
<1>3. LoadingType
  BY DEF LoadingInv
<1>4. /\ h \in RuleFiles /\ h \in ElementsOf(todo) /\ todo' \in Seq(RuleFiles)
      /\ ElementsOf(todo) = {h} \cup ElementsOf(todo)'
      /\ \A f : Single(todo, f) => Single(todo', f)
      /\ Single(todo, h) => h \notin ElementsOf(todo)'
  <2>1. todo \in Seq(RuleFiles) /\ ElementsOf(todo)' = ElementsOf(Tail(todo))
    BY <1>1, <1>3 DEF LoadingType, ElementsOf
  <2> QED
    BY <1>0, <1>1, <2>1, QueueMovesOn
<1>5. Loading' /\ (Parsed' \/ doc'.file = h)
  BY <1>1, <1>2 DEF Loading, Parsed
<1>6. LoadingType'
  <2>1. doc' \in [file : RuleFiles \cup {Absent}, rules : Seq(Rule), at : Nat \ {0}]
        /\ doc'.at <= Len(doc'.rules) + 1 /\ (~Parsed' => doc'.file \in RuleFiles)
    <3>1. CASE doc' = doc
      BY <1>3, <3>1 DEF LoadingType, Parsed
    <3>2. CASE text \in Documents /\ doc' = [file |-> h, rules |-> text.rules, at |-> 1]
      <4>1. text.rules \in Seq(Rule)
        BY <3>2, RulesAssumption DEF Document
      <4> HIDE DEF text
      <4>2. Len(text.rules) \in Nat
        BY <4>1
      <4> QED
        BY <1>4, <3>2, <4>1, <4>2
    <3> QED
      BY <1>2, <3>1, <3>2
  <2>2. next # 1
    BY <1>1, <1>3 DEF LoadingType
  <2> QED
    BY <1>1, <1>3, <1>4, <2>1, <2>2 DEF LoadingType
<1>7. Right'
  BY <1>1 DEF LoadingInv, Right, AsWritten
<1>8. ClashesAreReported'
  BY <1>1 DEF LoadingInv, ClashesAreReported, Namesakes, Reported
<1>9. DocumentIsCurrent'
  BY <1>1, <1>2 DEF DocumentIsCurrent, Parsed
<1>10. Once'
  <2>1. ASSUME NEW f \in RuleFiles, ListedOnce(f), phase = "load" PROVE InTurn(f)'
    <3>1. InTurn(f)
      BY <2>1 DEF LoadingInv, Once
    <3>2. Single(todo, f) /\ Single(todo', f)
      BY <1>4, <3>1 DEF InTurn, Single
    <3>3. Ahead(f)' <=> Ahead(f)
      BY <1>1 DEF Ahead
    <3>4. f # h => (Untouched(f)' <=> Untouched(f))
      BY <1>1, <1>5 DEF Untouched
    <3>5. CASE f # h
      <4>1. ~Parsed' => doc'.file # f
        BY <1>5, <3>5
      <4> QED
        BY <1>4, <3>1, <3>2, <3>3, <3>4, <3>5, <4>1 DEF InTurn, Single
    <3>6. CASE f = h
      <4>1. ~Ahead(f)' /\ f \notin ElementsOf(todo)' /\ Untouched(f)
        BY <1>4, <3>1, <3>2, <3>3, <3>6 DEF InTurn
      <4>2. {j \in DOMAIN infos' : infos'[j].file = f} = {}
        BY <1>1, <4>1 DEF Untouched
      <4> QED
        BY <3>2, <4>1, <4>2 DEF InTurn, Single
    <3> QED
      BY <3>5, <3>6
  <2> QED
    BY <1>1, <2>1 DEF LoadingInv, Once
<1>11. Covered'
  <2>1. \A f : Dealt(f) => Dealt(f)'
    BY <1>1 DEF Dealt, RuleDealt
  <2>2. Dealt(h)' \/ BeingParsed(h)'
    <3>1. CASE text \in {Absent, Unreadable} /\ Diagnostic(h, 0, "unreadable") \in diags'
      BY <3>1 DEF Dealt
    <3>2. CASE Diagnostic(h, 0, "broken") \in diags'
      BY <3>2 DEF Dealt
    <3>3. CASE text \in Documents /\ doc' = [file |-> h, rules |-> text.rules, at |-> 1]
      <4>1. text.rules \in Seq(Rule)
        BY <3>3, RulesAssumption DEF Document
      <4>2. doc'.file = h /\ doc'.rules = text.rules /\ doc'.at = 1 /\ disk'[h] = text
        BY <1>1, <3>3
      <4> HIDE DEF text
      <4>3. CASE 1 > Len(text.rules)
        <5>1. DOMAIN text.rules = {}
          BY <4>1, <4>3
        <5> QED
          BY <3>3, <4>2, <5>1 DEF Dealt
      <4>4. CASE ~(1 > Len(text.rules))
        <5>1. \A n \in DOMAIN text.rules : ~(n < 1)
          BY <4>1
        <5> QED
          BY <4>2, <4>4, <5>1 DEF BeingParsed, Parsed
      <4> QED
        BY <4>3, <4>4
    <3> QED
      BY <1>2, <3>1, <3>2, <3>3
  <2>3. \A l : PlaceAhead(l)' <=> PlaceAhead(l)
    BY <1>1 DEF PlaceAhead
  <2>4. \A f : ~BeingParsed(f)
    BY <1>1 DEF BeingParsed
  <2>5. ASSUME NEW l \in Open, NEW f \in ElementsOf(FilesAt[l]) \ edited, phase = "load"
        PROVE  Dealt(f)' \/ PlaceAhead(l)' \/ f \in ElementsOf(todo)' \/ BeingParsed(f)'
    <3>1. Dealt(f) \/ PlaceAhead(l) \/ f \in ElementsOf(todo)
      BY <2>4, <2>5 DEF LoadingInv, Covered
    <3> QED
      BY <1>4, <2>1, <2>2, <2>3, <3>1
  <2> QED
    BY <1>1, <1>5, <2>5 DEF Covered, Loading, Open
<1> QED
  BY <1>6, <1>7, <1>8, <1>9, <1>10, <1>11 DEF LoadingInv

\* The evaluation leaves what was loaded alone.
LEMMA EvaluationLoading ==
    ASSUME LoadingInv, UNCHANGED <<disk, shut, loading, edited>>,
           phase \notin {"idle", "describe", "load"}, phase' \notin {"idle", "describe", "load"}
    PROVE  LoadingInv'
<1>1. UNCHANGED <<next, todo, doc, infos, diags, rows>>
  BY DEF loading
<1>2. Parsed' <=> Parsed
  BY <1>1 DEF Parsed
<1>3. LoadingType'
  BY <1>1, <1>2 DEF LoadingInv, LoadingType, Loading
<1>4. (Right /\ DocumentIsCurrent /\ ClashesAreReported)'
  BY <1>1, <1>2 DEF LoadingInv, Right, AsWritten, DocumentIsCurrent, ClashesAreReported, Namesakes, Reported
<1>5. Once'
  BY <1>1 DEF LoadingInv, Once
<1>6. \A f : Dealt(f)' <=> Dealt(f)
  BY <1>1 DEF Dealt, RuleDealt
<1>7. Covered'
  BY <1>6 DEF LoadingInv, Covered, Reachable, Open
<1> QED
  BY <1>3, <1>4, <1>5, <1>7 DEF LoadingInv

LEMMA InfosAreTyped ==
    ASSUME LoadingType
    PROVE  \A i \in DOMAIN infos :
             infos[i].at \in Nat \ {0} /\ infos[i].file \in RuleFiles /\ infos[i].rule \in Rule
<1>1. infos \in Seq(Info)
  BY DEF LoadingType
<1>2. \A i \in DOMAIN infos : infos[i] \in Info
  BY <1>1
<1>3. \A x \in Info : x.at \in Nat \ {0} /\ x.file \in RuleFiles /\ x.rule \in Rule
  BY DEF Info
<1> QED
  BY <1>2, <1>3

\* Nothing is known of a file that changed, nor of the files of a place whose access did.
LEMMA ChangesLoading ==
    ASSUME LoadingInv, UNCHANGED <<phase, loading>>, disk' \in [RuleFiles -> Contents],
           edited \subseteq edited',
           \A g \in RuleFiles \ edited' : disk'[g] = disk[g],
           \A l \in Locations \ edited' : l \in shut' <=> l \in shut
    PROVE  LoadingInv'
<1>1. UNCHANGED <<phase, next, todo, doc, infos, diags, rows>>
  BY DEF loading
<1>2. LoadingType
  BY DEF LoadingInv
<1>3. \A g \in RuleFiles : g \notin edited' => disk'[g] = disk[g] /\ g \notin edited
  OBVIOUS
<1>4. (Parsed' <=> Parsed) /\ (Loading' <=> Loading)
  BY <1>1 DEF Parsed, Loading
<1>5. LoadingType'
  BY <1>1, <1>2, <1>4 DEF LoadingType
<1>6. Right'
  <2>1. ASSUME NEW i \in DOMAIN infos PROVE AsWritten(infos[i])'
    <3>1. infos[i].file \in RuleFiles
      BY <1>2, InfosAreTyped
    <3>2. AsWritten(infos[i])
      BY DEF LoadingInv, Right
    <3> QED
      BY <1>1, <1>3, <3>1, <3>2 DEF AsWritten
  <2> QED
    BY <1>1, <2>1 DEF Right
<1>7. DocumentIsCurrent'
  BY <1>1, <1>2, <1>3, <1>4 DEF LoadingInv, LoadingType, DocumentIsCurrent
<1>8. ClashesAreReported'
  BY <1>1 DEF LoadingInv, ClashesAreReported, Namesakes, Reported
<1>9. Once'
  <2>1. \A g : InTurn(g)' <=> InTurn(g)
    BY <1>1, <1>4 DEF InTurn, Ahead, Untouched, ElementsOf
  <2> QED
    BY <1>1, <2>1 DEF LoadingInv, Once
<1>10. Covered'
  <2>1. ASSUME NEW l \in Open', NEW g \in ElementsOf(FilesAt[l]) \ edited'
        PROVE  /\ (Dealt(g) <=> Dealt(g)') /\ (BeingParsed(g) => BeingParsed(g)')
               /\ g \notin edited /\ l \in Open
    <3>1. l \in Locations /\ l \in ElementsOf(Places) /\ g \in RuleFiles
      BY RulesAssumption DEF Open, ElementsOf
    <3>2. disk'[g] = disk[g] /\ g \notin edited /\ l \in Open
      BY <1>3, <3>1 DEF Open
    <3>3. \A n : RuleDealt(g, n)' <=> RuleDealt(g, n)
      BY <1>1, <3>2 DEF RuleDealt
    <3> QED
      BY <1>1, <1>4, <3>2, <3>3 DEF Dealt, BeingParsed
  <2>2. \A l : (PlaceAhead(l)' <=> PlaceAhead(l)) /\ ElementsOf(todo)' = ElementsOf(todo)
    BY <1>1 DEF PlaceAhead, ElementsOf
  <2>3. ASSUME phase = "load", NEW l \in Open', NEW g \in ElementsOf(FilesAt[l]) \ edited'
        PROVE  (Dealt(g) \/ PlaceAhead(l) \/ g \in ElementsOf(todo) \/ BeingParsed(g))'
    BY <2>1, <2>2, <2>3 DEF LoadingInv, Covered
  <2>4. ASSUME phase \notin {"idle", "describe", "load"}, NEW g \in Reachable' \ edited'
        PROVE  Dealt(g)'
    <3>1. PICK l \in Open' : g \in ElementsOf(FilesAt[l])
      BY <2>4 DEF Reachable
    <3>2. g \in Reachable \ edited
      BY <2>1, <2>4, <3>1 DEF Reachable
    <3> QED
      BY <2>1, <2>4, <3>1, <3>2 DEF LoadingInv, Covered
  <2> QED
    BY <1>1, <2>3, <2>4 DEF Covered
<1> QED
  BY <1>5, <1>6, <1>7, <1>8, <1>9, <1>10 DEF LoadingInv

\* Discovery is over when nothing is left to look up, to read or to parse.
LEMMA LoadedLoading == ASSUME LoadingInv, Loaded PROVE LoadingInv'
<1>1. /\ UNCHANGED <<disk, shut, todo, doc, infos, diags, rows, edited>>
      /\ Parsed /\ todo = <<>> /\ next > Len(Candidates) /\ phase \in {"describe", "load"}
      /\ phase = "describe" => phase' = "load" /\ next' = 1
      /\ phase = "load" => phase' \in {"done", "compile"} /\ next' = next
  BY DEF Loaded, Loading
<1>2. LoadingType /\ Parsed' /\ Len(Candidates) \in Nat
  BY <1>1, CandidatesAreThePlaces DEF LoadingInv, Parsed
<1>3. LoadingType'
  <2>1. next' \in 1..(Len(Candidates) + 1)
    BY <1>1, <1>2 DEF LoadingType
  <2> QED
    BY <1>1, <1>2, <2>1 DEF LoadingType
<1>4. (Right /\ DocumentIsCurrent /\ ClashesAreReported)'
  BY <1>1, <1>2 DEF LoadingInv, Right, AsWritten, DocumentIsCurrent, ClashesAreReported, Namesakes, Reported
<1>5. ElementsOf(todo) = {} /\ ElementsOf(todo)' = {} /\ DOMAIN todo' = {}
  BY <1>1 DEF ElementsOf
<1>6. \A f : Dealt(f)' <=> Dealt(f)
  BY <1>1 DEF Dealt, RuleDealt
<1>7. CASE phase = "describe"
  <2>1. DOMAIN infos' = {}
    BY <1>1, <1>2, <1>7 DEF LoadingType
  <2>2. \A f : Untouched(f)' /\ InTurn(f)'
    BY <1>2, <1>5, <2>1 DEF Untouched, InTurn
  <2>3. Once'
    BY <2>1, <2>2 DEF Once
  <2>4. ASSUME NEW l \in ElementsOf(Places) PROVE PlaceAhead(l)'
    <3>1. PICK c \in DOMAIN Candidates : Candidates[c] = l
      BY CandidatesAreThePlaces DEF ElementsOf
    <3>2. c \in 1..Len(Candidates)
      BY CandidatesAreThePlaces
    <3> QED
      BY <1>1, <1>7, <3>1, <3>2 DEF PlaceAhead
  <2>5. Covered'
    BY <1>1, <1>7, <2>4 DEF Covered, Open
  <2> QED
    BY <1>3, <1>4, <2>3, <2>5 DEF LoadingInv
<1>8. CASE phase = "load"
  <2>1. Once'
    BY <1>1, <1>8 DEF LoadingInv, Once
  <2>2. \A f : ~PlaceAhead(f) /\ ~BeingParsed(f)
    <3>1. next..Len(Candidates) = {}
      BY <1>1, <1>2 DEF LoadingType
    <3> QED
      BY <1>1, <3>1 DEF PlaceAhead, BeingParsed
  <2>4. \A f \in Reachable \ edited : Dealt(f)
    BY <1>5, <1>8, <2>2 DEF LoadingInv, Covered, Reachable
  <2>5. Reachable' = Reachable
    BY <1>1 DEF Reachable, Open
  <2>3. Covered'
    BY <1>1, <1>6, <1>8, <2>4, <2>5 DEF Covered
  <2> QED
    BY <1>3, <1>4, <2>1, <2>3 DEF LoadingInv
<1> QED
  BY <1>1, <1>7, <1>8

LEMMA Greatest ==
    ASSUME NEW N \in Nat, NEW S \in SUBSET (1..N), S # {}
    PROVE  \E m \in S : \A k \in S : k <= m
<1> DEFINE T == {k \in 0..N : \A j \in S : j <= k}
<1>1. T \subseteq Nat /\ N \in T
  OBVIOUS
<1> HIDE DEF T
<1>2. PICK k \in T : \A n \in T : k <= n
  BY <1>1, Least
<1>3. k \in 0..N /\ \A j \in S : j <= k
  BY DEF T
<1>4. k \in S
  <2>1. SUFFICES ASSUME k \notin S PROVE FALSE
    OBVIOUS
  <2>0. \A j \in S : j \in Nat /\ j # k /\ j <= k /\ 1 <= j
    BY <1>3, <2>1
  <2>4. PICK j \in S : TRUE
    OBVIOUS
  <2>5. k \in Nat /\ j \in Nat /\ 1 <= j /\ j <= k
    BY <1>3, <2>0
  <2>2. k # 0 /\ \A i \in S : i <= k - 1
    BY <2>0, <2>5
  <2>3. k - 1 \in T
    BY <1>3, <2>2 DEF T
  <2> QED
    BY <1>2, <1>3, <2>3
<1> QED
  BY <1>3, <1>4

\* What a rule adds that is loaded or refused.
LoadsMore(f, n, r) ==
    LET N == Len(infos)
    IN  /\ phase = "load" /\ Loads(r) /\ infos' \in Seq(Info)
        /\ DOMAIN infos' = DOMAIN infos \cup {N + 1}
        /\ \A i \in DOMAIN infos : infos'[i] = infos[i]
        /\ infos'[N + 1].rule = r /\ infos'[N + 1].file = f /\ infos'[N + 1].at = n
        /\ \A what \in Elsewhere(r, f) : Diagnostic(f, n, what) \in diags'

Parses(f, n, r) ==
    /\ f \in RuleFiles /\ n \in Nat \ {0} /\ r \in Rule
    /\ f = doc.file /\ n = doc.at /\ n \in DOMAIN doc.rules /\ r = doc.rules[n]
    /\ doc' = [doc EXCEPT !.at = n + 1]
    /\ doc'.file = f /\ doc'.rules = doc.rules /\ doc'.at = n + 1
    /\ Len(infos) \in Nat /\ DOMAIN infos = 1..Len(infos)
    /\ UNCHANGED <<disk, shut, phase, next, todo, edited>> /\ diags \subseteq diags'
    /\ Loading /\ ~Parsed
    /\ \A what \in RemarksOn(doc.rules, n) : Diagnostic(f, n, what) \in diags'
    /\ \/ phase = "describe" /\ infos' = infos
          /\ rows' = [rows EXCEPT ![Len(rows)] = @ + Counted(r)]
       \/ phase = "load" /\ ~Loads(r) /\ infos' = infos /\ rows' = rows
       \/ LoadsMore(f, n, r) /\ rows' = rows

LEMMA ParseRuleStep ==
    ASSUME LoadingInv, ParseRule
    PROVE  \E f, n, r : Parses(f, n, r)
<1>1. PICK f, n, r : f = doc.file /\ n = doc.at /\ r = doc.rules[n]
  OBVIOUS
<1>2. LoadingType
  BY DEF LoadingInv
<1>3. /\ Loading /\ ~Parsed /\ doc' = [doc EXCEPT !.at = @ + 1]
      /\ UNCHANGED <<disk, shut, phase, next, todo, edited>>
      /\ \/ /\ phase = "describe"
            /\ diags' = diags \cup {Diagnostic(f, n, what) : what \in RemarksOn(doc.rules, n)}
            /\ rows' = [rows EXCEPT ![Len(rows)] = @ + Counted(r)] /\ infos' = infos
         \/ /\ phase = "load" /\ rows' = rows
            /\ diags' = diags \cup {Diagnostic(f, n, what) :
                                      what \in RemarksOn(doc.rules, n) \cup Elsewhere(r, f)}
            /\ infos' = IF Loads(r) THEN Append(infos, [rule |-> r, file |-> f, at |-> n]) ELSE infos
  BY <1>1 DEF ParseRule
<1>4. /\ doc \in [file : RuleFiles \cup {Absent}, rules : Seq(Rule), at : Nat \ {0}]
      /\ doc.at <= Len(doc.rules) + 1 /\ f \in RuleFiles /\ infos \in Seq(Info)
  BY <1>1, <1>2, <1>3 DEF LoadingType
<1>5. n \in Nat \ {0} /\ n \in DOMAIN doc.rules /\ r \in Rule
  <2>1. doc.rules \in Seq(Rule) /\ n <= Len(doc.rules)
    BY <1>1, <1>3, <1>4 DEF Parsed
  <2> QED
    BY <1>1, <1>4, <2>1
<1>6. doc' = [doc EXCEPT !.at = n + 1] /\ doc'.file = f /\ doc'.rules = doc.rules /\ doc'.at = n + 1
  BY <1>1, <1>3, <1>4
<1>7. Len(infos) \in Nat /\ DOMAIN infos = 1..Len(infos)
  BY <1>4
<1>8. diags \subseteq diags' /\ \A what \in RemarksOn(doc.rules, n) : Diagnostic(f, n, what) \in diags'
  BY <1>3
<1>9. CASE phase = "load" /\ Loads(r)
  <2> DEFINE info == [rule |-> r, file |-> f, at |-> n]
  <2>1. info \in Info /\ info.rule = r /\ info.file = f /\ info.at = n
    BY <1>4, <1>5 DEF Info
  <2>2. infos' = Append(infos, info) /\ rows' = rows
    BY <1>3, <1>9
  <2> HIDE DEF info
  <2>3. /\ infos' \in Seq(Info) /\ DOMAIN infos' = 1..(Len(infos) + 1)
        /\ (\A i \in 1..Len(infos) : infos'[i] = infos[i]) /\ infos'[Len(infos) + 1] = info
    BY <1>4, <2>1, <2>2
  <2>4. 1..(Len(infos) + 1) = (1..Len(infos)) \cup {Len(infos) + 1}
    BY <1>7
  <2>5. \A what \in Elsewhere(r, f) : Diagnostic(f, n, what) \in diags'
    BY <1>3, <1>9
  <2>6. LoadsMore(f, n, r)
    BY <1>7, <1>9, <2>1, <2>3, <2>4, <2>5 DEF LoadsMore
  <2>7. Parses(f, n, r)
    BY <1>1, <1>3, <1>4, <1>5, <1>6, <1>7, <1>8, <2>2, <2>6 DEF Parses
  <2> QED
    BY <2>7
<1>10. CASE ~(phase = "load" /\ Loads(r))
  <2>1. Parses(f, n, r)
    BY <1>1, <1>3, <1>4, <1>5, <1>6, <1>7, <1>8, <1>10 DEF Parses
  <2> QED
    BY <2>1
<1> QED
  BY <1>9, <1>10

LEMMA ParseRuleType == ASSUME LoadingInv, NEW f, NEW n, NEW r, Parses(f, n, r) PROVE LoadingType'
<1>1. LoadingType
  BY DEF LoadingInv
<1>2. /\ doc \in [file : RuleFiles \cup {Absent}, rules : Seq(Rule), at : Nat \ {0}]
      /\ f \in RuleFiles /\ n \in DOMAIN doc.rules /\ n \in Nat \ {0} /\ doc.rules \in Seq(Rule)
  BY <1>1 DEF LoadingType, Parses
<1>3. doc' \in [file : RuleFiles \cup {Absent}, rules : Seq(Rule), at : Nat \ {0}]
  BY <1>2 DEF Parses
<1>4. doc'.at <= Len(doc'.rules) + 1 /\ (~Parsed' => doc'.file \in RuleFiles)
  BY <1>2 DEF Parses
<1>5. Loading' /\ next # 1
  BY <1>1 DEF LoadingType, Parses, Loading
<1>6. infos' \in Seq(Info) /\ (phase' = "describe" => infos' = <<>>)
  BY <1>1 DEF LoadingType, Parses, LoadsMore
<1>7. rows' \in Seq(Nat) /\ Len(rows') = Len(rows)
  <2>1. Counted(r) \in Nat
    BY DEF Counted
  <2>2. phase = "describe" => rows # <<>>
    BY <1>1, <1>5, CandidatesAreThePlaces DEF LoadingType
  <2>3. rows' = rows \/ (rows # <<>> /\ rows' = [rows EXCEPT ![Len(rows)] = @ + Counted(r)])
    BY <2>2 DEF Parses
  <2>4. rows \in Seq(Nat)
    BY <1>1 DEF LoadingType
  <2>5. CASE rows # <<>> /\ rows' = [rows EXCEPT ![Len(rows)] = @ + Counted(r)]
    <3> DEFINE c == Counted(r)
    <3>1. c \in Nat /\ rows' = [rows EXCEPT ![Len(rows)] = @ + c]
      BY <2>1, <2>5
    <3> HIDE DEF c
    <3> QED
      BY <2>4, <2>5, <3>1
  <2> QED
    BY <2>3, <2>4, <2>5
<1>8. /\ UNCHANGED <<disk, phase, next, todo>>
  BY DEF Parses
<1> QED
  BY <1>1, <1>3, <1>4, <1>5, <1>6, <1>7, <1>8 DEF LoadingType, Loading

LEMMA ParseRuleRight ==
    ASSUME LoadingInv, NEW f, NEW n, NEW r, Parses(f, n, r)
    PROVE  Right' /\ DocumentIsCurrent'
<1>1. UNCHANGED <<disk, edited>> /\ diags \subseteq diags' /\ doc'.file = f /\ doc'.rules = doc.rules
      /\ f = doc.file /\ n \in DOMAIN doc.rules /\ r = doc.rules[n] /\ ~Parsed
      /\ \A what \in RemarksOn(doc.rules, n) : Diagnostic(f, n, what) \in diags'
  BY DEF Parses
<1>2. f \notin edited => disk[f] \in Documents /\ doc.rules = disk[f].rules
  BY <1>1 DEF LoadingInv, DocumentIsCurrent
<1>3. DocumentIsCurrent'
  BY <1>1, <1>2 DEF DocumentIsCurrent
<1>4. Right
  BY DEF LoadingInv
<1>7. ASSUME NEW x, AsWritten(x) PROVE AsWritten(x)'
  <2>1. disk' = disk /\ edited' = edited /\ diags \subseteq diags'
    BY <1>1
  <2> QED
    BY <1>7, <2>1 DEF AsWritten
<1>8. ASSUME NEW i \in DOMAIN infos, infos'[i] = infos[i] PROVE AsWritten(infos[i])'
  <2>1. PICK x : x = infos[i] /\ x = infos'[i]
    BY <1>8
  <2>2. AsWritten(x)'
    BY <1>4, <1>7, <2>1 DEF Right
  <2> QED
    BY <2>1, <2>2 DEF AsWritten
<1>5. CASE infos' = infos
  BY <1>3, <1>5, <1>8 DEF Right
<1>6. CASE LoadsMore(f, n, r)
  <2> DEFINE N == Len(infos)
  <2>1. /\ DOMAIN infos' = DOMAIN infos \cup {N + 1} /\ Loads(r)
        /\ \A i \in DOMAIN infos : infos'[i] = infos[i]
        /\ infos'[N + 1].rule = r /\ infos'[N + 1].file = f /\ infos'[N + 1].at = n
    BY <1>6 DEF LoadsMore
  <2> HIDE DEF N
  <2>2. PICK k : k = N + 1
    OBVIOUS
  <2>3. AsWritten(infos[k])'
    BY <1>1, <1>2, <2>1, <2>2 DEF AsWritten
  <2>4. \A i \in DOMAIN infos : AsWritten(infos[i])'
    BY <1>8, <2>1
  <2> QED
    BY <1>3, <2>1, <2>2, <2>3, <2>4 DEF Right
<1> QED
  BY <1>3, <1>5, <1>6 DEF Parses

LEMMA ParseRuleOnce ==
    ASSUME LoadingInv, NEW f, NEW n, NEW r, Parses(f, n, r)
    PROVE  Once'
<1>1. /\ UNCHANGED <<phase, next, todo>> /\ ~Parsed
      /\ doc'.file = f /\ doc'.rules = doc.rules /\ doc'.at = n + 1
      /\ f = doc.file /\ n = doc.at /\ n \in DOMAIN doc.rules /\ r = doc.rules[n] /\ f \in RuleFiles
      /\ n \in Nat
  BY DEF Parses
<1>2. Once /\ LoadingType
  BY DEF LoadingInv
<1>3. \A i \in DOMAIN infos : infos[i].at \in Nat
  BY <1>2, InfosAreTyped
<1>4. \A g : g # f => ((doc'.file # g) /\ (Parsed \/ doc.file # g))
  BY <1>1
<1>5. \A g : Ahead(g)' <=> Ahead(g)
  BY <1>1 DEF Ahead
<1>6. ElementsOf(todo)' = ElementsOf(todo)
  BY <1>1 DEF ElementsOf
<1>7. ASSUME phase = "load", ListedOnce(f)
      PROVE  /\ ~Ahead(f) /\ f \notin ElementsOf(todo) /\ Single(todo, f)
             /\ \A i \in DOMAIN infos : infos[i].file = f =>
                  infos[i].at < n /\ infos[i].at \in DOMAIN doc.rules
                  /\ infos[i].rule = doc.rules[infos[i].at]
  <2>1. InTurn(f)
    BY <1>1, <1>2, <1>7 DEF Once
  <2>2. ~Untouched(f)
    BY <1>1 DEF Untouched
  <2> QED
    BY <1>1, <2>1, <2>2 DEF InTurn, Single
<1>8. CASE infos' = infos
  <2>1. ASSUME NEW g \in RuleFiles, ListedOnce(g), phase = "load" PROVE InTurn(g)'
    <3>1. InTurn(g)
      BY <1>2, <2>1 DEF Once
    <3>2. CASE g # f
      <4>1. Untouched(g)' <=> Untouched(g)
        BY <1>4, <1>8, <3>2 DEF Untouched
      <4> QED
        BY <1>1, <1>4, <1>5, <1>6, <3>1, <3>2, <4>1 DEF InTurn
    <3>3. CASE g = f
      <4>1. \A i \in DOMAIN infos : infos[i].file = f => infos[i].at < n + 1
        BY <1>1, <1>3, <1>7, <2>1, <3>3
      <4> QED
        BY <1>1, <1>5, <1>6, <1>7, <1>8, <2>1, <3>3, <4>1 DEF InTurn, Single
    <3> QED
      BY <3>2, <3>3
  <2> QED
    BY <1>1, <1>2, <1>8, <2>1 DEF Once
<1>9. CASE LoadsMore(f, n, r)
  <2>1. PICK m : m = Len(infos) + 1
    OBVIOUS
  <2>2. /\ phase = "load" /\ DOMAIN infos' = DOMAIN infos \cup {m}
        /\ \A i \in DOMAIN infos : infos'[i] = infos[i]
        /\ infos'[m].rule = r /\ infos'[m].file = f /\ infos'[m].at = n
    BY <1>9, <2>1 DEF LoadsMore
  <2>3. ASSUME NEW g \in RuleFiles, ListedOnce(g) PROVE InTurn(g)'
    <3>1. InTurn(g)
      BY <1>2, <2>2, <2>3 DEF Once
    <3>2. CASE g # f
      <4>1. Untouched(g)' <=> Untouched(g)
        BY <1>4, <2>2, <3>2 DEF Untouched
      <4> QED
        BY <1>1, <1>4, <1>5, <1>6, <3>1, <3>2, <4>1 DEF InTurn
    <3>3. CASE g = f
      <4>1. \A i \in DOMAIN infos : infos[i].file = f => infos[i].at < n + 1
        BY <1>1, <1>3, <1>7, <2>2, <2>3, <3>3
      <4>2. \A i \in {j \in DOMAIN infos' : infos'[j].file = f} :
               /\ infos'[i].at < n + 1 /\ infos'[i].at \in DOMAIN doc.rules
               /\ infos'[i].rule = doc.rules[infos'[i].at]
        BY <1>1, <1>7, <2>2, <2>3, <3>3, <4>1
      <4> QED
        BY <1>1, <1>5, <1>6, <1>7, <2>2, <2>3, <3>3, <4>2 DEF InTurn, Single
    <3> QED
      BY <3>2, <3>3
  <2>4. ASSUME NEW i \in DOMAIN infos', NEW j \in DOMAIN infos', infos'[i].file = infos'[j].file,
               infos'[i].at = infos'[j].at, ListedOnce(infos'[i].file)
        PROVE  i = j
    <3>1. \A k \in DOMAIN infos : infos[k].file = f /\ ListedOnce(f) => infos[k].at < n
      BY <1>7, <2>2
    <3>2. \A k \in DOMAIN infos : ~(infos[k].file = f /\ ListedOnce(f) /\ infos[k].at = n)
      BY <1>1, <1>3, <3>1
    <3>3. CASE i \in DOMAIN infos /\ j \in DOMAIN infos
      BY <1>2, <2>2, <2>4, <3>3 DEF Once
    <3>4. CASE i = m \/ j = m
      BY <2>2, <2>4, <3>2, <3>4
    <3> QED
      BY <2>2, <3>3, <3>4
  <2> QED
    BY <1>1, <2>2, <2>3, <2>4 DEF Once
<1> QED
  BY <1>8, <1>9 DEF Parses

\* The rule loaded last with this name is another one of the document, which is reported as
\* a repetition, or comes from elsewhere, or its file is read a second time.
LEMMA ParseRuleClashes ==
    ASSUME LoadingInv, NEW f, NEW n, NEW r, Parses(f, n, r)
    PROVE  ClashesAreReported'
<1>1. /\ UNCHANGED phase /\ ~Parsed /\ diags \subseteq diags' /\ Loading
      /\ f = doc.file /\ n = doc.at /\ n \in DOMAIN doc.rules /\ r = doc.rules[n] /\ f \in RuleFiles
      /\ n \in Nat /\ Len(infos) \in Nat /\ DOMAIN infos = 1..Len(infos)
      /\ \A what \in RemarksOn(doc.rules, n) : Diagnostic(f, n, what) \in diags'
  BY DEF Parses
<1>2. ClashesAreReported /\ LoadingType
  BY DEF LoadingInv
<1>3. CASE infos' = infos
  BY <1>1, <1>2, <1>3 DEF ClashesAreReported, Namesakes, Reported
<1>4. CASE LoadsMore(f, n, r)
  <2>1. PICK m : m = Len(infos) + 1
    OBVIOUS
  <2>2. /\ phase = "load" /\ DOMAIN infos' = DOMAIN infos \cup {m}
        /\ \A i \in DOMAIN infos : infos'[i] = infos[i]
        /\ infos'[m].rule = r /\ infos'[m].file = f /\ infos'[m].at = n /\ Loads(r)
        /\ \A what \in Elsewhere(r, f) : Diagnostic(f, n, what) \in diags'
    BY <1>4, <2>1 DEF LoadsMore
  <2> DEFINE Same(i, j) == infos[i].file = infos[j].file /\ ~ListedOnce(infos[i].file)
             Spoken(name) == \E j \in DOMAIN infos', what \in Clash :
                 infos'[j].rule.name = name /\ Diagnostic(infos'[j].file, infos'[j].at, what) \in diags'
  <2>3. \A i \in DOMAIN infos' : Reported(i)' <=> Spoken(infos'[i].rule.name)
    BY DEF Reported, Namesakes
  <2>4. \A i \in DOMAIN infos : Reported(i) => Spoken(infos[i].rule.name)
    BY <1>1, <2>2 DEF Reported, Namesakes
  <2>5. ASSUME NEW j \in DOMAIN infos, infos[j].rule.name = r.name
        PROVE  Spoken(r.name) \/ (infos[j].file = f /\ ~ListedOnce(f))
    <3> DEFINE S == {k \in DOMAIN infos : infos[k].rule.name = r.name}
               last == CHOOSE k \in S : \A l \in S : l <= k
    <3>1. S \in SUBSET (1..Len(infos)) /\ S # {} /\ j \in S
      BY <1>1, <2>5
    <3>2. Elsewhere(r, f) = {what \in {"elsewhere"} : Loads(r) /\ S # {} /\ infos[last].file # f}
      BY DEF Elsewhere
    <3> HIDE DEF S
    <3>3. \E k \in S : \A l \in S : l <= k
      BY <1>1, <3>1, Greatest
    <3>4. last \in S
      BY <3>3
    <3> HIDE DEF last
    <3>5. last \in DOMAIN infos /\ infos[last].rule.name = r.name
      BY <3>4 DEF S
    <3>6. CASE infos[last].file # f
      <4>1. Diagnostic(f, n, "elsewhere") \in diags'
        BY <2>2, <3>1, <3>2, <3>6
      <4> QED
        BY <2>2, <4>1 DEF Clash
    <3>7. CASE infos[last].file = f /\ ListedOnce(f)
      <4>1. InTurn(f)
        BY <1>1, <2>2, <3>7 DEF LoadingInv, Once
      <4>2. /\ infos[last].at < n /\ infos[last].at \in DOMAIN doc.rules
            /\ infos[last].rule = doc.rules[infos[last].at]
        BY <1>1, <3>5, <3>7, <4>1 DEF InTurn
      <4>3. Loads(infos[last].rule)
        BY <3>5 DEF LoadingInv, Right, AsWritten
      <4>4. infos[last].at \in 1..(n - 1)
        <5>1. infos[last].at \in Nat \ {0}
          BY <1>2, <3>5, InfosAreTyped
        <5> QED
          BY <1>1, <4>2, <5>1
      <4>5. "repeated" \in RemarksOn(doc.rules, n)
        BY <1>1, <2>2, <3>5, <4>2, <4>3, <4>4 DEF RemarksOn
      <4>6. Diagnostic(f, n, "repeated") \in diags'
        BY <1>1, <4>5
      <4> QED
        BY <2>2, <4>6 DEF Clash
    <3>8. CASE infos[last].file = f /\ ~ListedOnce(f)
      <4>1. j = last \/ Reported(j) \/ Same(j, last)
        <5>1. last \in Namesakes(j)
          BY <2>5, <3>5 DEF Namesakes
        <5> QED
          BY <1>2, <5>1 DEF ClashesAreReported
      <4> QED
        BY <2>4, <2>5, <3>8, <4>1
    <3> QED
      BY <3>6, <3>7, <3>8
  <2>6. ASSUME NEW i \in DOMAIN infos', NEW j \in DOMAIN infos',
               infos'[j].rule.name = infos'[i].rule.name
        PROVE  \/ i = j \/ Spoken(infos'[i].rule.name)
               \/ infos'[i].file = infos'[j].file /\ ~ListedOnce(infos'[i].file)
    <3>1. CASE i \in DOMAIN infos /\ j \in DOMAIN infos
      <4>1. j \in Namesakes(i)
        BY <2>2, <2>6, <3>1 DEF Namesakes
      <4>2. i = j \/ Reported(i) \/ Same(i, j)
        BY <1>2, <3>1, <4>1 DEF ClashesAreReported
      <4> QED
        BY <2>2, <2>4, <3>1, <4>2
    <3>2. CASE i = m /\ j \in DOMAIN infos
      <4>1. infos[j].rule.name = r.name
        BY <2>2, <2>6, <3>2
      <4>2. Spoken(r.name) \/ (infos[j].file = f /\ ~ListedOnce(f))
        BY <2>5, <3>2, <4>1
      <4> HIDE DEF Spoken
      <4> QED
        BY <2>2, <3>2, <4>2
    <3>3. CASE j = m /\ i \in DOMAIN infos
      <4>1. infos[i].rule.name = r.name
        BY <2>2, <2>6, <3>3
      <4>2. Spoken(r.name) \/ (infos[i].file = f /\ ~ListedOnce(f))
        BY <2>5, <3>3, <4>1
      <4> HIDE DEF Spoken
      <4> QED
        BY <2>2, <3>3, <4>1, <4>2
    <3>4. CASE i = m /\ j = m
      BY <3>4
    <3> QED
      BY <2>2, <3>1, <3>2, <3>3, <3>4
  <2>7. \A i : \A j \in Namesakes(i)' : j \in DOMAIN infos' /\ infos'[j].rule.name = infos'[i].rule.name
    BY DEF Namesakes
  <2> HIDE DEF Spoken
  <2> QED
    BY <2>3, <2>6, <2>7 DEF ClashesAreReported
<1> QED
  BY <1>3, <1>4 DEF Parses

LEMMA ParseRuleCovered ==
    ASSUME LoadingInv, NEW f, NEW n, NEW r, Parses(f, n, r)
    PROVE  Covered'
<1>1. /\ UNCHANGED <<disk, shut, phase, next, todo, edited>> /\ ~Parsed /\ Loading /\ diags \subseteq diags'
      /\ doc'.file = f /\ doc'.rules = doc.rules /\ doc'.at = n + 1
      /\ f = doc.file /\ n = doc.at /\ n \in DOMAIN doc.rules /\ r = doc.rules[n]
      /\ n \in Nat /\ \A what \in RemarksOn(doc.rules, n) : Diagnostic(f, n, what) \in diags'
  BY DEF Parses
<1>2. DOMAIN infos \subseteq DOMAIN infos' /\ \A i \in DOMAIN infos : infos'[i] = infos[i]
  BY DEF Parses, LoadsMore
<1>3. \A g, k : RuleDealt(g, k) => RuleDealt(g, k)'
  BY <1>1, <1>2 DEF RuleDealt
<1>4. \A g : Dealt(g) => Dealt(g)'
  BY <1>1, <1>3 DEF Dealt
<1>5. (\A l : PlaceAhead(l)' <=> PlaceAhead(l)) /\ ElementsOf(todo)' = ElementsOf(todo)
  BY <1>1 DEF PlaceAhead, ElementsOf
<1>6. ASSUME phase = "load", f \notin edited PROVE RuleDealt(f, n)'
  <2>1. disk'[f].rules[n] = r
    BY <1>1, <1>6 DEF LoadingInv, DocumentIsCurrent
  <2>2. CASE LoadsMore(f, n, r)
    <3>1. PICK m : m = Len(infos) + 1
      OBVIOUS
    <3>2. m \in DOMAIN infos' /\ infos'[m].file = f /\ infos'[m].at = n /\ Loads(r)
      BY <2>2, <3>1 DEF LoadsMore
    <3> QED
      BY <2>1, <3>2 DEF RuleDealt
  <2>3. CASE ~Loads(r)
    <3>1. PICK what : what \in Refused(r)
      BY <2>3 DEF Loads
    <3>2. Diagnostic(f, n, what) \in diags'
      BY <1>1, <3>1 DEF RemarksOn
    <3> QED
      BY <2>1, <2>3, <3>1, <3>2 DEF RuleDealt
  <2> QED
    BY <1>6, <2>2, <2>3 DEF Parses
<1>7. ASSUME phase = "load", f \notin edited, BeingParsed(f) PROVE Dealt(f)' \/ BeingParsed(f)'
  <2>1. \A k \in DOMAIN doc.rules : k < n + 1 => RuleDealt(f, k)'
    <3>1. ASSUME NEW k \in DOMAIN doc.rules, k < n + 1 PROVE RuleDealt(f, k)'
      <4>1. k \in Nat
        BY DEF LoadingInv, LoadingType
      <4>2. k < n \/ k = n
        BY <1>1, <3>1, <4>1
      <4>3. CASE k < n
        BY <1>1, <1>3, <1>7, <4>3 DEF BeingParsed
      <4>4. CASE k = n
        BY <1>6, <1>7, <4>4
      <4> QED
        BY <4>2, <4>3, <4>4
    <3> QED
      BY <3>1
  <2>2. CASE ~Parsed'
    BY <1>1, <2>1, <2>2 DEF BeingParsed
  <2>3. CASE Parsed'
    <3>1. \A k \in DOMAIN doc.rules : k < n + 1
      BY <1>1, <2>3 DEF Parsed, LoadingInv, LoadingType
    <3>2. disk'[f] \in Documents /\ disk'[f].rules = doc.rules
      BY <1>1, <1>7 DEF LoadingInv, DocumentIsCurrent
    <3> QED
      BY <2>1, <3>1, <3>2 DEF Dealt
  <2> QED
    BY <2>2, <2>3
<1>8. \A g : BeingParsed(g) => g = f
  BY <1>1 DEF BeingParsed
<1>9. ASSUME NEW l \in Open, NEW g \in ElementsOf(FilesAt[l]) \ edited, phase = "load"
      PROVE  Dealt(g)' \/ PlaceAhead(l)' \/ g \in ElementsOf(todo)' \/ BeingParsed(g)'
  <2>1. Dealt(g) \/ PlaceAhead(l) \/ g \in ElementsOf(todo) \/ BeingParsed(g)
    BY <1>9 DEF LoadingInv, Covered
  <2> QED
    BY <1>4, <1>5, <1>7, <1>8, <1>9, <2>1
<1> QED
  BY <1>1, <1>9 DEF Covered, Loading, Open

LEMMA ParseRuleLoading == ASSUME LoadingInv, ParseRule PROVE LoadingInv'
<1>1. PICK f, n, r : Parses(f, n, r)
  BY ParseRuleStep
<1> QED
  BY <1>1, ParseRuleType, ParseRuleRight, ParseRuleOnce, ParseRuleClashes, ParseRuleCovered DEF LoadingInv

LEMMA NextLoading == LoadingInv /\ [Next]_vars => LoadingInv'
<1> SUFFICES ASSUME LoadingInv, [Next]_vars PROVE LoadingInv'
  OBVIOUS
<1>1. ASSUME NEW k, NEW d, Call(k, d) PROVE LoadingInv'
  BY <1>1, CallLoading
<1>2. CASE Expand
  BY <1>2, ExpandLoading
<1>3. CASE ReadFile
  BY <1>3, ReadFileLoading
<1>4. CASE ParseRule
  BY <1>4, ParseRuleLoading
<1>5. CASE Loaded
  BY <1>5, LoadedLoading
<1>6. ASSUME NEW f \in RuleFiles, NEW content \in Contents, Edit(f, content) PROVE LoadingInv'
  <2>1. LoadingType
    BY DEF LoadingInv
  <2> QED
    BY <1>6, <2>1, ChangesLoading DEF Edit, LoadingType
<1>9. ASSUME NEW l \in Guarded, ChangeAccess(l) PROVE LoadingInv'
  <2>1. LoadingType
    BY DEF LoadingInv
  <2> QED
    BY <1>9, <2>1, ChangesLoading DEF ChangeAccess, LoadingType
<1>7. CASE Compile \/ StartGroup \/ FeedLine \/ NextFile \/ EndGroup \/ Emit
  <2>1. UNCHANGED <<disk, shut, loading, edited>>
    BY <1>7 DEF Compile, StartGroup, FeedLine, NextFile, EndGroup, Emit
  <2>2. phase \notin {"idle", "describe", "load"} /\ phase' \notin {"idle", "describe", "load"}
    BY <1>7 DEF Compile, StartGroup, FeedLine, NextFile, EndGroup, Emit
  <2> QED
    BY <2>1, <2>2, EvaluationLoading
<1>8. CASE UNCHANGED vars
  <2>1. UNCHANGED <<disk, shut, phase, next, todo, doc, infos, diags, rows, edited>>
    BY <1>8 DEF vars, loading
  <2>2. (Parsed' <=> Parsed) /\ (Loading' <=> Loading)
    BY <2>1 DEF Parsed, Loading
  <2>3. LoadingType'
    BY <2>1, <2>2 DEF LoadingInv, LoadingType
  <2>4. (Right /\ DocumentIsCurrent /\ ClashesAreReported)'
    BY <2>1, <2>2
       DEF LoadingInv, Right, AsWritten, DocumentIsCurrent, ClashesAreReported, Namesakes, Reported
  <2>5. \A f : InTurn(f)' <=> InTurn(f)
    BY <2>1, <2>2 DEF InTurn, Ahead, Untouched, ElementsOf
  <2>6. Once'
    BY <2>1, <2>5 DEF LoadingInv, Once
  <2>7. \A f : (Dealt(f)' <=> Dealt(f)) /\ (BeingParsed(f)' <=> BeingParsed(f)) /\ (PlaceAhead(f)' <=> PlaceAhead(f))
    BY <2>1, <2>2 DEF Dealt, RuleDealt, BeingParsed, PlaceAhead
  <2>8. Covered'
    BY <2>1, <2>7 DEF LoadingInv, Covered, Reachable, Open, ElementsOf
  <2> QED
    BY <2>3, <2>4, <2>6, <2>8 DEF LoadingInv
<1> QED
  BY <1>1, <1>2, <1>3, <1>4, <1>5, <1>6, <1>7, <1>8, <1>9 DEF Next

\* What was dealt with is not lost, and what was loaded is as it was written.
LEMMA LoadedIsAccountedFor == LoadingInv => NothingIsSwallowed
<1> SUFFICES ASSUME LoadingInv, phase = "done", NEW f \in Reachable \ edited
             PROVE  \/ disk[f] = Absent
                    \/ \E what \in {"broken", "unreadable"} : Diagnostic(f, 0, what) \in diags
                    \/ /\ disk[f] \in Documents
                       /\ \A n \in DOMAIN disk[f].rules :
                            LET copies == {i \in DOMAIN infos : infos[i].file = f /\ infos[i].at = n}
                            IN  \/ /\ copies # {} /\ \A i \in copies : infos[i].rule = disk[f].rules[n]
                                   /\ ListedOnce(f) => Cardinality(copies) = 1
                                \/ /\ copies = {}
                                   /\ \E what \in {"nameless", "severity", "incomplete"} :
                                        Diagnostic(f, n, what) \in diags
  BY DEF NothingIsSwallowed
<1>1. Dealt(f)
  BY DEF LoadingInv, Covered
<1>2. ASSUME disk[f] \in Documents, NEW n \in DOMAIN disk[f].rules, RuleDealt(f, n)
      PROVE  LET copies == {i \in DOMAIN infos : infos[i].file = f /\ infos[i].at = n}
             IN  \/ /\ copies # {} /\ \A i \in copies : infos[i].rule = disk[f].rules[n]
                    /\ ListedOnce(f) => Cardinality(copies) = 1
                 \/ /\ copies = {}
                    /\ \E what \in {"nameless", "severity", "incomplete"} :
                         Diagnostic(f, n, what) \in diags
  <2> DEFINE copies == {i \in DOMAIN infos : infos[i].file = f /\ infos[i].at = n}
             r == disk[f].rules[n]
  <2>1. \A i \in copies : infos[i].rule = r /\ Loads(r)
    BY DEF LoadingInv, Right, AsWritten
  <2>2. CASE Loads(r)
    <3>1. copies # {}
      BY <1>2, <2>2 DEF RuleDealt
    <3>2. ASSUME ListedOnce(f) PROVE Cardinality(copies) = 1
      <4>1. PICK i : i \in copies
        BY <3>1
      <4>2. \A j \in copies : j = i
        BY <3>2, <4>1 DEF LoadingInv, Once
      <4> HIDE DEF copies
      <4>3. copies = {i}
        BY <4>1, <4>2
      <4> QED
        BY <4>3, FS_Singleton
    <3> QED
      BY <2>1, <3>1, <3>2
  <2>3. CASE ~Loads(r)
    <3>1. copies = {}
      BY <2>1, <2>3
    <3>2. PICK what \in Refused(r) : Diagnostic(f, n, what) \in diags
      BY <1>2, <2>3 DEF RuleDealt
    <3>3. what \in {"nameless", "severity", "incomplete"}
      BY <3>2 DEF Refused
    <3> QED
      BY <3>1, <3>2, <3>3
  <2> QED
    BY <2>2, <2>3
<1>3. CASE disk[f] \in Documents /\ \A n \in DOMAIN disk[f].rules : RuleDealt(f, n)
  BY <1>2, <1>3
<1> QED
  BY <1>1, <1>3 DEF Dealt

-----------------------------------------------------------------------------
(* The dry run.                                                              *)

LEMMA VerdictsAreRight ==
    ASSUME IInv, LoadingInv, Emit
    PROVE  DryRunTellsWhatFires'
<1>1. /\ UNCHANGED <<disk, infos, diags, folder, matchers, scan, kind, edited>>
      /\ phase = "groups" /\ phase' = "done" /\ Unscanned = {}
      /\ kind = "dryrun" => outcomes' = [i \in DOMAIN infos |-> Outcome(i)]
  BY DEF Emit, loading, scanning
<1>2. MatchersOK /\ RulesOK /\ folder \in Folders
  BY <1>1 DEF IInv
<1>3. \A i : FiredOn(i)' = FiredOn(i) /\ FilesOf(i)' = FilesOf(i)
  BY <1>1, FiredOnStays
<1>4. ASSUME NEW i \in DOMAIN infos
      PROVE  /\ matchers[i].satisfied <=> FiredOn(i) # {}
             /\ matchers[i].satisfied => matchers[i].evidence = First(FiredOn(i))
  <2>1. Told(matchers[i], FiredOn(i))
    BY <1>1, <1>2 DEF MatchersOK, Seen, Unscanned
  <2>2. FiredOn(i) \subseteq Nat \X Nat
    BY <1>2, PlacesAreNumbers
  <2> QED
    BY <2>1, <2>2, ToldIsFirst DEF Told
<1>5. infos \in Seq(Info) /\ Len(infos) \in Nat /\ DOMAIN infos = 1..Len(infos)
  BY DEF LoadingInv, LoadingType
<1>6. DOMAIN matchers = DOMAIN infos
  BY <1>2 DEF MatchersOK
\* The verdict on a rule is that on a namesake.
<1>7. ASSUME NEW i \in DOMAIN infos, \A j \in Namesakes(i) : FiredOn(j) = FiredOn(i)
      PROVE  LET o == Outcome(i)
             IN  /\ o.matched <=> FiredOn(i) # {}
                 /\ o.matched => o.evidence = First(FiredOn(i))
  <2> DEFINE named == {j \in Satisfied : infos[j].rule.name = infos[i].rule.name}
             last == CHOOSE j \in named : \A k \in named : k <= j
  <2>1. /\ Outcome(i).matched <=> named # {}
        /\ named # {} => Outcome(i).evidence = matchers[last].evidence
    BY DEF Outcome
  <2>2. named \in SUBSET (1..Len(infos)) /\ named = {j \in Namesakes(i) : FiredOn(j) # {}}
    BY <1>4, <1>5, <1>6 DEF Satisfied, Namesakes
  <2>3. named # {} <=> FiredOn(i) # {}
    BY <1>7, <2>2 DEF Namesakes
  <2> HIDE DEF named
  <2>4. ASSUME named # {} PROVE Outcome(i).evidence = First(FiredOn(i))
    <3>1. \E j \in named : \A k \in named : k <= j
      BY <1>5, <2>2, <2>4, Greatest
    <3>2. last \in named
      BY <3>1
    <3> HIDE DEF last
    <3>3. last \in DOMAIN infos /\ FiredOn(last) = FiredOn(i) /\ FiredOn(last) # {}
      BY <1>7, <2>2, <3>2 DEF Namesakes
    <3>4. matchers[last].evidence = First(FiredOn(last))
      BY <1>4, <3>3
    <3> QED
      BY <2>1, <2>4, <3>3, <3>4
  <2> QED
    BY <2>1, <2>3, <2>4
<1>8. ASSUME NEW i \in DOMAIN infos, kind = "dryrun", \A j \in Namesakes(i) : FiredOn(j) = FiredOn(i)
      PROVE  ToldRight(i)'
  <2>1. outcomes'[i] = Outcome(i)
    BY <1>1, <1>8
  <2>2. FiredOn(i)' = FiredOn(i) /\ First(FiredOn(i))' = First(FiredOn(i))
    BY <1>3 DEF First
  <2>3. /\ outcomes'[i].matched <=> FiredOn(i) # {}
        /\ outcomes'[i].matched => outcomes'[i].evidence = First(FiredOn(i))
    BY <1>7, <1>8, <2>1
  <2> QED
    BY <2>2, <2>3 DEF ToldRight
\* Rules of one file that have a name and are not reported stand for the same rule.
<1>9. ASSUME NEW i \in DOMAIN infos, ~Reported(i), infos[i].file \notin edited,
             NEW j \in Namesakes(i), infos[j].file = infos[i].file
      PROVE  FiredOn(j) = FiredOn(i)
  <2> DEFINE f == infos[i].file
             rules == disk[f].rules
             a == infos[i].at
             b == infos[j].at
  <2>1. j \in DOMAIN infos /\ infos[j].rule.name = infos[i].rule.name
    BY DEF Namesakes
  <2>2. \A k \in {i, j} :
          /\ k \in DOMAIN infos /\ infos[k].file = f /\ AsWritten(infos[k])
          /\ k \in Namesakes(i)
    BY <1>9, <2>1 DEF LoadingInv, Right, Namesakes
  <2>3. \A k \in {i, j} :
          /\ infos[k].at \in DOMAIN rules /\ infos[k].rule = rules[infos[k].at]
          /\ Loads(rules[infos[k].at])
          /\ "repeated" \notin RemarksOn(rules, infos[k].at)
    BY <1>9, <2>2 DEF AsWritten, Reported, Clash
  <2>4. a \in Nat \ {0} /\ b \in Nat \ {0}
    BY <2>2, InfosAreTyped DEF LoadingInv
  <2>5. \A x, y \in {a, b} : ~(x < y)
    <3> HIDE DEF f, rules
    <3>1. rules[a].name = rules[b].name /\ Loads(rules[a]) /\ Loads(rules[b])
          /\ "repeated" \notin RemarksOn(rules, a) /\ "repeated" \notin RemarksOn(rules, b)
      BY <2>1, <2>3
    <3> HIDE DEF a, b
    <3>2. ~(a < b) 
      <4>1. a < b => a \in 1..(b - 1)
        BY <2>4
      <4> QED
        BY <3>1, <4>1 DEF RemarksOn
    <3>3. ~(b < a)
      <4>1. b < a => b \in 1..(a - 1)
        BY <2>4
      <4> QED
        BY <3>1, <4>1 DEF RemarksOn
    <3> QED
      BY <2>4, <3>2, <3>3
  <2>6. a = b
    <3> HIDE DEF a, b
    <3> QED
      BY <2>4, <2>5
  <2>7. infos[j].rule = infos[i].rule
    BY <2>3, <2>6
  <2>8. FilesOf(j) = FilesOf(i)
    BY <2>7 DEF FilesOf
  <2> QED
    BY <2>7, <2>8 DEF FiredOn
<1>10. ASSUME NEW i \in DOMAIN infos, kind = "dryrun"
       PROVE  \/ Namesakes(i) = {i} /\ ToldRight(i)'
              \/ Reported(i)
              \/ ~ListedOnce(infos[i].file) /\ (infos[i].file \in edited \/ ToldRight(i)')
  <2>1. i \in Namesakes(i)
    BY DEF Namesakes
  <2>2. CASE Namesakes(i) = {i}
    <3>1. \A j \in Namesakes(i) : FiredOn(j) = FiredOn(i)
      BY <2>2
    <3>2. ToldRight(i)'
      BY <1>8, <1>10, <3>1
    <3> QED
      BY <2>2, <3>2
  <2>3. CASE Namesakes(i) # {i} /\ ~Reported(i)
    <3>1. \A j \in Namesakes(i) : i = j \/ (infos[i].file = infos[j].file /\ ~ListedOnce(infos[i].file))
      BY <2>3 DEF LoadingInv, ClashesAreReported
    <3>2. PICK j \in Namesakes(i) : j # i
      BY <2>1, <2>3
    <3>3. ~ListedOnce(infos[i].file)
      BY <3>1, <3>2
    <3>4. \A k \in Namesakes(i) : infos[k].file = infos[i].file
      BY <3>1
    <3>5. infos[i].file \notin edited => \A k \in Namesakes(i) : FiredOn(k) = FiredOn(i)
      BY <1>9, <2>3, <3>4
    <3>6. infos[i].file \notin edited => ToldRight(i)'
      BY <1>8, <1>10, <3>5
    <3> QED
      BY <3>3, <3>6
  <2> QED
    BY <2>2, <2>3
<1>11. \A i : Namesakes(i)' = Namesakes(i) /\ (Reported(i)' <=> Reported(i))
  BY <1>1 DEF Namesakes, Reported
<1>12. ASSUME NEW i \in DOMAIN infos', kind' = "dryrun"
       PROVE  \/ Namesakes(i)' = {i} /\ ToldRight(i)'
              \/ Reported(i)'
              \/ ~ListedOnce(infos'[i].file) /\ (infos'[i].file \in edited' \/ ToldRight(i)')
  BY <1>1, <1>10, <1>11, <1>12
<1> QED
  BY <1>12 DEF DryRunTellsWhatFires, Namesakes, Reported

\* The verdicts stay while nothing but rules files changes.
LEMMA VerdictsStay ==
    ASSUME DryRunTellsWhatFires, UNCHANGED <<phase, kind, infos, diags, folder, outcomes>>,
           edited \subseteq edited'
    PROVE  DryRunTellsWhatFires'
<1>1. \A i : FiredOn(i)' = FiredOn(i)
  BY FiredOnStays
<1>2. \A i : First(FiredOn(i))' = First(FiredOn(i))
  BY <1>1 DEF First
<1>3. \A i : ToldRight(i)' <=> ToldRight(i)
  BY <1>1, <1>2 DEF ToldRight
<1> QED
  BY <1>3 DEF DryRunTellsWhatFires

LEMMA NextDryRun == IInv /\ LoadingInv /\ DryRunTellsWhatFires /\ [Next]_vars => DryRunTellsWhatFires'
<1> SUFFICES ASSUME IInv, LoadingInv, DryRunTellsWhatFires, [Next]_vars PROVE DryRunTellsWhatFires'
  OBVIOUS
<1>1. CASE Emit
  BY <1>1, VerdictsAreRight
<1>2. CASE Loaded
  <2>1. phase' = "done" => kind' = "inventory" \/ DOMAIN infos' = {}
    BY <1>2 DEF Loaded, Loading
  <2> QED
    BY <2>1 DEF DryRunTellsWhatFires
<1>3. CASE \/ \E k \in {"analysis", "dryrun", "inventory"}, d \in Folders : Call(k, d)
           \/ Expand \/ ReadFile \/ ParseRule \/ Compile \/ StartGroup \/ FeedLine \/ NextFile \/ EndGroup
  <2>1. phase' # "done"
    BY <1>3 DEF Call, Expand, ReadFile, ParseRule, Loading, Compile, StartGroup, FeedLine, NextFile, EndGroup
  <2> QED
    BY <2>1 DEF DryRunTellsWhatFires
<1>4. CASE \E f \in RuleFiles, content \in Contents : Edit(f, content)
  BY <1>4, VerdictsStay DEF Edit, loading, results
<1>5. CASE \E l \in Guarded : ChangeAccess(l)
  BY <1>5, VerdictsStay DEF ChangeAccess, loading, results
<1>6. CASE UNCHANGED vars
  BY <1>6, VerdictsStay DEF vars, loading, results
<1> QED
  BY <1>1, <1>2, <1>3, <1>4, <1>5, <1>6 DEF Next

\* A dry run tells of each rule whether it fires and where, unless it says that names are
\* ambiguous, for any rules files, however they change, any places and any folder.
THEOREM DryRunsAreHonest == Spec => []DryRunTellsWhatFires
<1>1. Init => IInv /\ LoadingInv /\ DryRunTellsWhatFires
  BY InitIInv, InitLoading DEF Init, DryRunTellsWhatFires
<1>2. IInv /\ LoadingInv /\ DryRunTellsWhatFires /\ [Next]_vars
        => (IInv /\ LoadingInv /\ DryRunTellsWhatFires)'
  BY NextIInv, NextLoading, NextDryRun
<1> QED
  BY <1>1, <1>2, PTL DEF Spec

\* Of the files that a call finds and that stay as they are, each rule is loaded, as it was
\* written and once, or is refused with a diagnostic, for any places and any rules files.
THEOREM EveryRuleIsAccountedFor == Spec => []NothingIsSwallowed
<1>1. Init => LoadingInv
  BY InitLoading
<1>2. LoadingInv /\ [Next]_vars => LoadingInv'
  BY NextLoading
<1> QED
  BY <1>1, <1>2, LoadedIsAccountedFor, PTL DEF Spec

-----------------------------------------------------------------------------
(* The inventory.                                                            *)

LEMMA PerPlaceIs ==
    ASSUME NEW d, NEW s
    PROVE  /\ PerPlace(d, s) \in Seq(Nat) /\ Len(PerPlace(d, s)) = Len(Candidates)
           /\ \A c \in 1..Len(Candidates) :
                PerPlace(d, s)[c] = (IF Candidates[c] \in s THEN 0
                                     ELSE InFiles(d, FilesAt[Candidates[c]]))
                /\ FilesAt[Candidates[c]] \in Seq(RuleFiles)
<1> DEFINE N == Len(Candidates)
           t == PerPlace(d, s)
           Size(c) == IF Candidates[c] \in s THEN 0 ELSE InFiles(d, FilesAt[Candidates[c]])
<1>1. N \in Nat /\ DOMAIN Candidates = 1..N
      /\ \A c \in 1..N : FilesAt[Candidates[c]] \in Seq(RuleFiles)
  BY CandidatesAreThePlaces, RulesAssumption
<1>2. \A c \in 1..N : Size(c) \in Nat
  BY <1>1, InFilesAre
<1>3. t = [c \in 1..N |-> Size(c)]
  BY <1>1 DEF PerPlace
<1>4. \A c \in 1..N : t[c] = Size(c)
  BY <1>3
<1> HIDE DEF t, N, Size
<1>5. t \in [1..N -> Nat]
  BY <1>2, <1>3
<1>6. t \in Seq(Nat) /\ Len(t) = N
  BY <1>1, <1>5
<1> QED
  BY <1>1, <1>4, <1>6 DEF t, N, Size

LEMMA NoFiles == ASSUME NEW d PROVE InFiles(d, <<>>) = 0
<1>1. [n \in DOMAIN <<>> |-> InFile(d[<<>>[n]])] = <<>>
  OBVIOUS
<1> QED
  BY <1>1, TotalOfNone DEF InFiles

\* When no document is being parsed, its rules are all counted.
LEMMA ParsedIsCounted ==
    ASSUME LoadingType, Parsed
    PROVE  Total(Counts(doc.rules)) = Sum(Counts(doc.rules), doc.at - 1)
           /\ Total(Counts(doc.rules)) \in Nat
<1>1. doc.rules \in Seq(Rule) /\ doc.at = Len(doc.rules) + 1 /\ Len(doc.rules) \in Nat
  BY DEF LoadingType, Parsed
<1> DEFINE t == Counts(doc.rules)
<1>2. t \in Seq(Nat)
  BY <1>1, InFileIsCounted
<1>3. Len(t) = Len(doc.rules)
  BY <1>1, <1>2 DEF Counts
<1> HIDE DEF t
<1>4. Total(t) = Sum(t, Len(t)) /\ Sum(t, Len(t)) \in Nat
  BY <1>2, SumIs
<1> QED
  BY <1>1, <1>3, <1>4 DEF t

LEMMA CallCounting == ASSUME LoadingInv, NEW k, NEW d, Call(k, d) PROVE CountingInv'
<1>1. /\ phase' = IF k = "inventory" THEN "describe" ELSE "load"
      /\ kind' = k /\ disk' = disk /\ next' = 1 /\ todo' = <<>> /\ doc' = NoDocument /\ rows' = <<>>
  BY DEF Call
<1>2. Parsed' /\ LoadingType'
  BY <1>1, CallLoading DEF LoadingInv, Parsed, NoDocument
<1>3. Total(Counts(doc'.rules)) = Sum(Counts(doc'.rules), doc'.at - 1)
      /\ Total(Counts(doc'.rules)) \in Nat
  <2>1. doc'.rules = <<>> /\ doc'.at = 1 /\ Len(<<>>) = 0 /\ <<>> \in Seq(Rule)
    BY <1>1 DEF NoDocument
  <2>2. Counts(<<>>) \in Seq(Nat)
    BY <2>1, InFileIsCounted
  <2>3. Len(Counts(<<>>)) = 0
    BY <2>2 DEF Counts
  <2>4. Total(Counts(<<>>)) = Sum(Counts(<<>>), 0) /\ Sum(Counts(<<>>), 0) = 0
    BY <2>2, <2>3, SumIs
  <2> QED
    BY <2>1, <2>4
<1>4. Sum(PerPlace(disk', shut'), 0) = 0
  BY PerPlaceIs, SumIs
<1>5. InFiles(disk', todo') = 0 /\ Total(rows') = 0
  BY <1>1, NoFiles, TotalOfNone
<1>6. AddsUpTo(Total(rows))'
  BY <1>1, <1>3, <1>4, <1>5 DEF AddsUpTo
<1> QED
  BY <1>1, <1>6 DEF CountingInv, Counting, InventoryAddsUp

\* Numbers that are added up.
LEMMA NumbersOf ==
    ASSUME LoadingType
    PROVE  /\ Counts(doc.rules) \in Seq(Nat) /\ Len(Counts(doc.rules)) = Len(doc.rules)
           /\ Total(Counts(doc.rules)) \in Nat
           /\ Sum(Counts(doc.rules), doc.at - 1) \in Nat
           /\ InFiles(disk, todo) \in Nat
           /\ Sum(PerPlace(disk, shut), next - 1) \in Nat
           /\ Total(rows) \in Nat /\ Len(infos) \in Nat /\ Len(Candidates) \in Nat
<1>1. /\ doc.rules \in Seq(Rule) /\ doc.at - 1 \in 0..Len(doc.rules) /\ todo \in Seq(RuleFiles)
      /\ next - 1 \in 0..Len(Candidates) /\ rows \in Seq(Nat) /\ infos \in Seq(Info)
      /\ Len(Candidates) \in Nat
  <2>1. doc.at \in Nat \ {0} /\ doc.rules \in Seq(Rule) /\ doc.at <= Len(doc.rules) + 1
    BY DEF LoadingType
  <2>2. Len(Candidates) \in Nat /\ next \in 1..(Len(Candidates) + 1)
    BY CandidatesAreThePlaces DEF LoadingType
  <2>3. next - 1 \in 0..Len(Candidates)
    BY <2>2
  <2> QED
    BY <2>1, <2>2, <2>3 DEF LoadingType
<1>2. Counts(doc.rules) \in Seq(Nat)
  BY <1>1, InFileIsCounted
<1>3. Len(Counts(doc.rules)) = Len(doc.rules)
  BY <1>1, <1>2 DEF Counts
<1>4. Total(Counts(doc.rules)) \in Nat /\ Total(rows) \in Nat
  BY <1>1, <1>2, TotalOfMore
<1>5. Sum(Counts(doc.rules), doc.at - 1) \in Nat
  BY <1>1, <1>2, <1>3, SumIs
<1>6. InFiles(disk, todo) \in Nat
  BY <1>1, InFilesAre
<1>7. Sum(PerPlace(disk, shut), next - 1) \in Nat
  BY <1>1, PerPlaceIs, SumIs
<1> QED
  BY <1>1, <1>2, <1>3, <1>4, <1>5, <1>6, <1>7

LEMMA ExpandCounting == ASSUME LoadingInv, CountingInv, Expand PROVE CountingInv'
<1> DEFINE files == FilesAt[Candidates[next]]
<1>1. /\ UNCHANGED <<disk, shut, phase, kind, doc, infos, edited>> /\ phase \in {"describe", "load"}
      /\ todo = <<>> /\ next <= Len(Candidates) /\ next' = next + 1
      /\ todo' = IF Candidates[next] \in shut THEN <<>> ELSE PresentOf(files)
      /\ rows' = IF phase = "describe" THEN Append(rows, 0) ELSE rows
  BY DEF Expand, Loading, RulesFilesIn
<1>2. LoadingType
  BY DEF LoadingInv
<1>3. next \in 1..Len(Candidates) /\ files \in Seq(RuleFiles)
  <2>1. next \in 1..Len(Candidates)
    BY <1>1, <1>2, CandidatesAreThePlaces DEF LoadingType
  <2> QED
    BY <2>1, PerPlaceIs
<1>4. InFiles(disk, todo') = PerPlace(disk, shut)[next]
  <2>1. CASE Candidates[next] \in shut
    BY <1>1, <1>3, <2>1, NoFiles, PerPlaceIs
  <2>2. CASE Candidates[next] \notin shut
    <3> HIDE DEF files
    <3>1. InFiles(disk, todo') = InFiles(disk, files)
      BY <1>1, <1>3, <2>2, PresentOnes
    <3> QED
      BY <1>3, <2>2, <3>1, PerPlaceIs DEF files
  <2> QED
    BY <2>1, <2>2
<1>5. Sum(PerPlace(disk, shut), next) = Sum(PerPlace(disk, shut), next - 1) + PerPlace(disk, shut)[next]
  BY <1>3, PerPlaceIs, SumIs
<1>6. InFiles(disk, todo) = 0 /\ InFiles(disk, todo') \in Nat
  <2>1. PerPlace(disk, shut)[next] \in Nat
    BY <1>3, PerPlaceIs
  <2> QED
    BY <1>1, <1>4, <2>1, NoFiles
<1>7. next' - 1 = next
  BY <1>1, <1>3
<1>8. ASSUME NEW found \in Nat, AddsUpTo(found)
      PROVE  found + Total(Counts(doc'.rules)) + InFiles(disk', todo')
               = Sum(PerPlace(disk', shut'), next' - 1) + Sum(Counts(doc'.rules), doc'.at - 1)
  <2>1. found + Total(Counts(doc.rules)) + 0
          = Sum(PerPlace(disk, shut), next - 1) + Sum(Counts(doc.rules), doc.at - 1)
    BY <1>6, <1>8 DEF AddsUpTo
  <2>2. /\ Total(Counts(doc.rules)) \in Nat /\ Sum(PerPlace(disk, shut), next - 1) \in Nat
        /\ Sum(Counts(doc.rules), doc.at - 1) \in Nat
    BY <1>2, NumbersOf
  <2>3. found + Total(Counts(doc.rules)) + InFiles(disk, todo')
          = Sum(PerPlace(disk, shut), next) + Sum(Counts(doc.rules), doc.at - 1)
    BY <1>4, <1>5, <1>6, <2>1, <2>2
  <2> QED
    BY <1>1, <1>7, <2>3
<1>9. Total(rows') = Total(rows) /\ Total(rows) \in Nat /\ Len(infos) \in Nat
  <2>1. rows \in Seq(Nat) /\ 0 \in Nat
    BY <1>2 DEF LoadingType
  <2>2. Total(Append(rows, 0)) = Total(rows) + 0 /\ Total(rows) \in Nat
    BY <2>1, TotalOfMore
  <2> QED
    BY <1>1, <1>2, <2>2, NumbersOf
<1>10. Counting'
  BY <1>1, <1>8, <1>9 DEF CountingInv, Counting, AddsUpTo
<1> QED
  BY <1>1, <1>10 DEF CountingInv, InventoryAddsUp

LEMMA ReadFileCounting == ASSUME LoadingInv, CountingInv, ReadFile PROVE CountingInv'
<1>0. PICK h : h = Head(todo)
  OBVIOUS
<1> DEFINE text == disk[h]
<1>1. /\ UNCHANGED <<disk, shut, phase, kind, next, infos, rows, edited>> /\ phase \in {"describe", "load"}
      /\ Parsed /\ todo # <<>> /\ todo' = Tail(todo)
  BY DEF ReadFile, Loading
<1>2. \/ doc' = doc /\ (text \notin Documents \/ text.broken)
      \/ text \in Documents /\ ~text.broken /\ doc' = [file |-> h, rules |-> text.rules, at |-> 1]
  BY <1>0, RulesAssumption DEF ReadFile
<1>3. LoadingType
  BY DEF LoadingInv
<1>4. InFiles(disk, todo) = InFile(text) + InFiles(disk, todo')
  <2>1. todo \in Seq(RuleFiles)
    BY <1>3 DEF LoadingType
  <2> QED
    BY <1>0, <1>1, <2>1, InFilesBehind
<1>5. Total(Counts(doc.rules)) = Sum(Counts(doc.rules), doc.at - 1) /\ Total(Counts(doc.rules)) \in Nat
  BY <1>1, <1>3, ParsedIsCounted
<1>6. \/ /\ Total(Counts(doc'.rules)) = InFile(text) + Sum(Counts(doc'.rules), doc'.at - 1)
         /\ Sum(Counts(doc'.rules), doc'.at - 1) \in Nat /\ InFile(text) \in Nat
      \/ doc' = doc /\ InFile(text) = 0
  <2>1. CASE doc' = doc /\ (text \notin Documents \/ text.broken)
    BY <2>1 DEF InFile
  <2>2. CASE text \in Documents /\ ~text.broken /\ doc' = [file |-> h, rules |-> text.rules, at |-> 1]
    <3>1. text.rules \in Seq(Rule)
      BY <2>2, RulesAssumption DEF Document
    <3>2. InFile(text) = Total(Counts(text.rules)) /\ InFile(text) \in Nat
      BY <2>2, InFileIsCounted DEF InFile
    <3>3. Counts(text.rules) \in Seq(Nat)
      BY <3>1, InFileIsCounted
    <3>4. Sum(Counts(text.rules), 0) = 0
      BY <3>3, SumIs
    <3>5. doc'.rules = text.rules /\ doc'.at - 1 = 0
      BY <2>2
    <3> HIDE DEF text
    <3> QED
      BY <3>2, <3>4, <3>5
  <2> QED
    BY <1>2, <2>1, <2>2
<1>7. InFiles(disk, todo') \in Nat
  <2>1. todo' \in Seq(RuleFiles)
    BY <1>1, <1>3 DEF LoadingType
  <2> QED
    BY <2>1, InFilesAre
<1> HIDE DEF text
<1>8. ASSUME NEW found \in Nat, AddsUpTo(found)
      PROVE  found + Total(Counts(doc'.rules)) + InFiles(disk', todo')
               = Sum(PerPlace(disk', shut'), next' - 1) + Sum(Counts(doc'.rules), doc'.at - 1)
  <2> DEFINE A == Total(Counts(doc.rules))
             B == Sum(PerPlace(disk, shut), next - 1)
             C == InFile(text)
             D == InFiles(disk, todo')
             E == Sum(Counts(doc'.rules), doc'.at - 1)
             F == Total(Counts(doc'.rules))
  <2>1. found + A + InFiles(disk, todo) = B + A
    BY <1>5, <1>8 DEF AddsUpTo
  <2>2. InFiles(disk, todo) = C + D
    BY <1>4
  <2>3. B \in Nat
    BY <1>3, NumbersOf
  <2>4. A \in Nat /\ D \in Nat
    BY <1>5, <1>7
  <2>5. (F = C + E /\ E \in Nat /\ C \in Nat) \/ (F = A /\ E = A /\ C = 0)
    BY <1>5, <1>6
  <2>6. found + F + D = B + E
    <3> DEFINE G == InFiles(disk, todo)
    <3>1. found + A + G = B + A /\ G = C + D
      BY <2>1, <2>2
    <3> HIDE DEF A, B, C, D, E, F, G
    <3>2. C \in Nat
      BY <2>5
    <3>3. found + C + D = B
      BY <2>3, <2>4, <3>1, <3>2
    <3>4. F = C + E /\ E \in Nat
      BY <2>4, <2>5, <3>2
    <3> QED
      BY <2>3, <2>4, <3>2, <3>3, <3>4
  <2> QED
    BY <1>1, <2>6
<1>9. Total(rows) \in Nat /\ Len(infos) \in Nat
  BY <1>3, NumbersOf
<1>10. Counting'
  BY <1>1, <1>8, <1>9 DEF CountingInv, Counting, AddsUpTo
<1> QED
  BY <1>1, <1>10 DEF CountingInv, InventoryAddsUp

LEMMA ParseRuleCounting == ASSUME LoadingInv, CountingInv, ParseRule PROVE CountingInv'
<1>0. PICK f, n, r : Parses(f, n, r)
  BY ParseRuleStep
<1>1. /\ UNCHANGED <<disk, shut, phase, next, todo, edited>> /\ phase \in {"describe", "load"}
      /\ doc'.rules = doc.rules /\ doc'.at = n + 1 /\ n = doc.at /\ n \in DOMAIN doc.rules
      /\ r = doc.rules[n] /\ n \in Nat
  BY <1>0 DEF Parses, Loading
<1>2. LoadingType /\ kind' = kind
  BY DEF LoadingInv, ParseRule
<1> DEFINE c == Counted(r)
           t == Counts(doc.rules)
<1>3. c \in Nat
  BY DEF Counted
<1>4. Sum(t, n) = Sum(t, n - 1) + c
  <2>1. t \in Seq(Nat) /\ t[n] = c
    BY <1>1, <1>2, NumbersOf DEF Counts
  <2>2. n \in 1..Len(t)
    <3>1. doc.rules \in Seq(Rule) /\ Len(t) = Len(doc.rules)
      BY <1>2, NumbersOf DEF LoadingType
    <3> QED
      BY <1>1, <3>1
  <2> HIDE DEF t, c
  <2> QED
    BY <2>1, <2>2, SumIs
<1>5. phase = "describe" => Total(rows') = Total(rows) + c
  <2>1. ASSUME phase = "describe" PROVE Total(rows') = Total(rows) + c
    <3>1. rows' = [rows EXCEPT ![Len(rows)] = @ + c]
      BY <1>0, <2>1 DEF Parses, LoadsMore
    <3>2. next # 1 /\ Loading /\ Len(rows) = next - 1 /\ rows \in Seq(Nat)
      BY <1>0, <1>2, <2>1 DEF LoadingType, Parses, Loading
    <3>3. rows # <<>>
      BY <1>2, <3>2, CandidatesAreThePlaces DEF LoadingType
    <3> HIDE DEF c
    <3> QED
      BY <1>3, <3>1, <3>2, <3>3, TotalOfLast
  <2> QED
    BY <2>1
<1>6. phase = "load" => Len(infos') = Len(infos) + c /\ rows' = rows
  <2>1. CASE phase = "load" /\ ~Loads(r)
    <3>1. infos' = infos /\ rows' = rows /\ c = 0 /\ Len(infos) \in Nat
      BY <1>0, <1>2, <2>1, NumbersOf DEF Parses, LoadsMore, Counted
    <3> HIDE DEF c
    <3> QED
      BY <3>1
  <2>2. CASE phase = "load" /\ Loads(r)
    <3>1. rows' = rows /\ infos' = Append(infos, [rule |-> doc.rules[doc.at], file |-> doc.file, at |-> doc.at])
      BY <1>1, <2>2 DEF ParseRule
    <3>2. infos \in Seq(Info) /\ infos' \in Seq(Info) /\ c = 1
      <4>1. LoadingType'
        BY ParseRuleLoading DEF LoadingInv
      <4> QED
        BY <1>2, <2>2, <4>1 DEF LoadingType, Counted
    <3>3. LoadsMore(f, n, r)
      BY <1>0, <2>2 DEF Parses
    <3>4. DOMAIN infos' = DOMAIN infos \cup {Len(infos) + 1}
      BY <3>3 DEF LoadsMore
    <3>5. Len(infos') = Len(infos) + 1
      BY <3>2, <3>4
    <3> QED
      BY <3>1, <3>2, <3>5
  <2> QED
    BY <1>1, <2>1, <2>2
<1> HIDE DEF c
<1>8. ASSUME NEW found \in Nat, AddsUpTo(found)
      PROVE  (found + c) + Total(Counts(doc'.rules)) + InFiles(disk', todo')
               = Sum(PerPlace(disk', shut'), next' - 1) + Sum(Counts(doc'.rules), doc'.at - 1)
  <2> DEFINE A == Total(t)
             B == Sum(PerPlace(disk, shut), next - 1)
             D == InFiles(disk, todo)
             E == Sum(t, n - 1)
             F == Sum(t, n)
  <2>1. found + A + D = B + E
    BY <1>1, <1>8 DEF AddsUpTo
  <2>2. A \in Nat /\ B \in Nat /\ D \in Nat /\ E \in Nat
    BY <1>1, <1>2, NumbersOf
  <2>3. F = E + c
    BY <1>4
  <2>4. (found + c) + A + D = B + F
    <3> HIDE DEF A, B, D, E, F
    <3> QED
      BY <1>3, <2>1, <2>2, <2>3
  <2>5. doc'.at - 1 = n
    BY <1>1
  <2> QED
    BY <1>1, <2>4, <2>5
<1>9. Total(rows) \in Nat /\ Len(infos) \in Nat
  BY <1>2, NumbersOf
<1>10. Counting'
  BY <1>1, <1>2, <1>5, <1>6, <1>8, <1>9 DEF CountingInv, Counting, AddsUpTo
<1> QED
  BY <1>1, <1>2, <1>10 DEF CountingInv, InventoryAddsUp

LEMMA LoadedCounting == ASSUME LoadingInv, CountingInv, Loaded PROVE CountingInv'
<1>1. /\ UNCHANGED <<disk, shut, kind, todo, doc, infos, rows, edited>>
      /\ Parsed /\ todo = <<>> /\ next > Len(Candidates) /\ phase \in {"describe", "load"}
      /\ phase = "describe" => phase' = "load" /\ next' = 1
      /\ phase = "load" => phase' = IF kind = "inventory" \/ infos = <<>> THEN "done" ELSE "compile"
  BY DEF Loaded, Loading
<1>2. LoadingType
  BY DEF LoadingInv
<1>3. Total(Counts(doc.rules)) = Sum(Counts(doc.rules), doc.at - 1) /\ Total(Counts(doc.rules)) \in Nat
  BY <1>1, <1>2, ParsedIsCounted
<1>4. InFiles(disk, todo) = 0
  BY <1>1, NoFiles
<1>5. Sum(PerPlace(disk, shut), next - 1) = Total(PerPlace(disk, shut)) /\ Total(PerPlace(disk, shut)) \in Nat
      /\ Sum(PerPlace(disk, shut), 0) = 0
  <2>1. next - 1 = Len(Candidates)
    BY <1>1, <1>2, CandidatesAreThePlaces DEF LoadingType
  <2>2. Len(PerPlace(disk, shut)) = Len(Candidates) /\ PerPlace(disk, shut) \in Seq(Nat)
    BY PerPlaceIs
  <2>3. Total(PerPlace(disk, shut)) = Sum(PerPlace(disk, shut), Len(PerPlace(disk, shut))) /\ Sum(PerPlace(disk, shut), 0) = 0
    BY <2>2, SumIs
  <2>4. Total(PerPlace(disk, shut)) \in Nat
    BY <2>2, TotalOfMore
  <2> QED
    BY <2>1, <2>2, <2>3, <2>4
<1>6. ASSUME NEW found \in Nat, AddsUpTo(found) PROVE found = Total(PerPlace(disk, shut))
  <2>1. found + Total(Counts(doc.rules)) + 0 = Total(PerPlace(disk, shut)) + Total(Counts(doc.rules))
    BY <1>3, <1>4, <1>5, <1>6 DEF AddsUpTo
  <2> QED
    BY <1>3, <1>5, <2>1
<1>7. Total(rows) \in Nat /\ Len(infos) \in Nat
  BY <1>2, NumbersOf
<1>8. CASE phase = "describe"
  <2>1. Len(infos') = 0
    BY <1>1, <1>2, <1>8 DEF LoadingType
  <2>2. edited = {} => Total(rows) = Total(PerPlace(disk, shut))
    BY <1>6, <1>7, <1>8 DEF CountingInv, Counting
  <2>3. 0 + Total(Counts(doc.rules)) + InFiles(disk, todo)
          = Sum(PerPlace(disk, shut), 1 - 1) + Sum(Counts(doc.rules), doc.at - 1)
    BY <1>3, <1>4, <1>5
  <2>4. Counting'
    BY <1>1, <1>8, <2>1, <2>2, <2>3 DEF Counting, AddsUpTo
  <2> QED
    BY <1>1, <1>8, <2>4 DEF CountingInv, InventoryAddsUp
<1>9. CASE phase = "load"
  <2>1. edited = {} /\ kind = "inventory" => Len(infos) = Total(rows)
    BY <1>6, <1>7, <1>9 DEF CountingInv, Counting
  <2> QED
    BY <1>1, <1>9, <2>1 DEF CountingInv, Counting, InventoryAddsUp
<1> QED
  BY <1>1, <1>8, <1>9

LEMMA NextCounting == LoadingInv /\ CountingInv /\ [Next]_vars => CountingInv'
<1> SUFFICES ASSUME LoadingInv, CountingInv, [Next]_vars PROVE CountingInv'
  OBVIOUS
<1>1. ASSUME NEW k, NEW d, Call(k, d) PROVE CountingInv'
  BY <1>1, CallCounting
<1>2. CASE Expand
  BY <1>2, ExpandCounting
<1>3. CASE ReadFile
  BY <1>3, ReadFileCounting
<1>4. CASE ParseRule
  BY <1>4, ParseRuleCounting
<1>5. CASE Loaded
  BY <1>5, LoadedCounting
<1>6. ASSUME NEW f \in RuleFiles, NEW content \in Contents, Edit(f, content) PROVE CountingInv'
  <2>1. edited' # {} /\ UNCHANGED <<phase, kind>>
    BY <1>6 DEF Edit
  <2> QED
    BY <2>1 DEF CountingInv, Counting, InventoryAddsUp
<1>9. ASSUME NEW l \in Guarded, ChangeAccess(l) PROVE CountingInv'
  <2>1. edited' # {} /\ UNCHANGED <<phase, kind>>
    BY <1>9 DEF ChangeAccess
  <2> QED
    BY <2>1 DEF CountingInv, Counting, InventoryAddsUp
<1>7. CASE Compile \/ StartGroup \/ FeedLine \/ NextFile \/ EndGroup \/ Emit
  <2>1. phase \in {"compile", "groups", "scan"} /\ phase' \notin {"describe", "load"} /\ kind' = kind
    BY <1>7 DEF Compile, StartGroup, FeedLine, NextFile, EndGroup, Emit
  <2> QED
    BY <2>1 DEF CountingInv, Counting, InventoryAddsUp
<1>8. CASE UNCHANGED vars
  BY <1>8 DEF vars, loading, CountingInv, Counting, AddsUpTo, InventoryAddsUp
<1> QED
  BY <1>1, <1>2, <1>3, <1>4, <1>5, <1>6, <1>7, <1>8, <1>9 DEF Next

\* The rules counted place by place are those that are loaded, for any places, also such that
\* overlap, and any rules files, unless one of them, or the access to a
\* place, changes meanwhile.
THEOREM InventoriesAddUp == Spec => []InventoryAddsUp
<1>1. Init => LoadingInv /\ CountingInv
  BY InitLoading DEF Init, CountingInv, Counting, InventoryAddsUp
<1>2. LoadingInv /\ CountingInv /\ [Next]_vars => (LoadingInv /\ CountingInv)'
  BY NextLoading, NextCounting
<1>3. CountingInv => InventoryAddsUp
  BY DEF CountingInv
<1> QED
  BY <1>1, <1>2, <1>3, PTL DEF Spec

ListedApart == \A f \in RuleFiles : ListedOnce(f)

\* No rule is loaded twice if no file is listed twice: what the comment on
\* ruleCandidatePaths says holds unless the working directory is itself a rules directory.
THEOREM WhatIsListedOnceIsLoadedOnce == ListedApart /\ Spec => []FilesAreLoadedOnce
<1> DEFINE Inv == LoadingInv /\ ListedApart
<1>1. ListedApart /\ Init => Inv
  BY InitLoading
<1>2. Inv /\ [Next]_vars => Inv'
  BY NextLoading DEF ListedApart, ListedOnce, ElementsOf
<1>3. Inv => FilesAreLoadedOnce
  <2>1. SUFFICES ASSUME LoadingInv, ListedApart, NEW i \in DOMAIN infos, NEW j \in DOMAIN infos,
                        infos[i].file = infos[j].file, infos[i].at = infos[j].at
                 PROVE  i = j
    BY DEF FilesAreLoadedOnce
  <2>2. infos[i].file \in RuleFiles
    BY <2>1, InfosAreTyped DEF LoadingInv
  <2>3. ListedOnce(infos[i].file)
    BY <2>1, <2>2 DEF ListedApart
  <2> QED
    BY <2>1, <2>3 DEF LoadingInv, Once
<1> HIDE DEF Inv
<1>4. ListedApart /\ Spec => []Inv
  BY <1>1, <1>2, PTL DEF Spec
<1> QED
  BY <1>3, <1>4, PTL

=============================================================================

------------------------------- MODULE LineScan -------------------------------
(***************************************************************************)
(* performSinglePassScanOnFiles: the patterns are split into literals and  *)
(* regular expressions, an Aho-Corasick automaton is built from the        *)
(* literals and another from tokens of all patterns, and the log files are *)
(* read once, line by line, under one deadline.  Text is a sequence of     *)
(* characters.  Canonical indices stand for the folded literals, and are   *)
(* those literals here.  A regular expression is two texts with ".*"       *)
(* between them.  The timeline that the scan feeds is in Correlation.      *)
(***************************************************************************)
EXTENDS Naturals, Sequences, FiniteSets

CONSTANTS Bytes,        \* what texts are made of
          Upper,        \* lower case of the characters that are upper case
          Letters,      \* letters and digits, in lower case
          WordBytes,    \* the bytes that keep a word together, in lower case
          Blank,        \* the space
          Dot, Star,    \* "." and "*"
          Long,         \* length from which a token is selective; 4
          Short,        \* length up to which a literal needs word boundaries; 4
          MaxExamples,  \* lines kept per description and per article; 3
          GenericWords, \* prefilterGenericWords
          AlwaysKeep,   \* prefilterAlwaysKeep
          Exclusions,   \* exclusionPatterns
          Registries,   \* the sets of <<pattern, role>> that may be registered
          Folders       \* the log files that may be there, in the order given

\* A role is a description, an article, or one of the flags.
Flags == {"AccountExpired", "WatchdogFound", "CryptoBugFound", "KeytabFound",
          "KeytabNotFound", "NoKeytabPrincipal"}

\* A literal is its head; a regular expression is its head, ".*" and its tail.
Pattern == [head : Seq(Bytes), tail : Seq(Bytes), regex : BOOLEAN]

\* A file of a folder is the lines that can be read: a missing file, one that cannot be
\* opened and an empty one have none, and a line too long for the scanner ends its file.
ASSUME LineScanAssumption ==
    /\ Letters \subseteq WordBytes /\ Blank \notin WordBytes
    /\ \A c \in DOMAIN Upper : Upper[c] \in Bytes \ (DOMAIN Upper \cup {Blank})
    /\ Blank \notin DOMAIN Upper /\ {Dot, Star} \subseteq Bytes \ (DOMAIN Upper \cup Letters)
    /\ Long \in Nat \ {0} /\ Short \in Nat /\ MaxExamples \in Nat \ {0}
    /\ AlwaysKeep \subseteq Seq(Bytes)
    /\ \A known \in Registries : \A q \in known : q[1] \in Pattern
    /\ Folders \subseteq Seq(Seq(Seq(Bytes)))

VARIABLES registry, \* the patterns with their roles
          ac,       \* the automaton of the literals
          tokens,   \* the automaton of the pre-filter
          folder,   \* the lines of each file
          at,       \* file and line to be read next
          expired,  \* the deadline has passed
          found,    \* lines kept per description and article
          flags,
          handed,   \* history: the lines given to the callback
          pc

scanVars == <<registry, ac, tokens, folder, at, expired, found, flags, handed, pc>>

-----------------------------------------------------------------------------
(* Text.                                                                     *)

LowerASCII(c) == IF c \in DOMAIN Upper THEN Upper[c] ELSE c
ToLower(s) == [i \in DOMAIN s |-> LowerASCII(s[i])]

TrimSpace(s) ==
    LET inked == {i \in DOMAIN s : s[i] # Blank} IN
    IF inked = {} THEN <<>>
    ELSE SubSeq(s, CHOOSE i \in inked : \A j \in inked : i <= j,
                   CHOOSE i \in inked : \A j \in inked : j <= i)

\* The text p stands in s from its i-th character on.
StandsAt(p, s, i) == i + Len(p) <= Len(s) + 1 /\ SubSeq(s, i, i + Len(p) - 1) = p
Contains(s, p) == \E i \in 1..(Len(s) + 1) : StandsAt(p, s, i)

-----------------------------------------------------------------------------
(* The automaton: a state is the text read to reach it from the root.        *)

Root == <<>>
Prefixes(p) == {SubSeq(p, 1, i) : i \in 0..Len(p)}

\* Where c leads from a state: down the trie from the first of the failure links behind it
\* that c leads on from.  The links lead to shorter texts.
Goto(nodes, fail, node, c) ==
    LET walk[n \in {m \in nodes : Len(m) <= Len(node)}] ==
          IF Append(n, c) \in nodes THEN Append(n, c)
          ELSE IF n = Root THEN Root ELSE walk[fail[n]]
    IN walk[node]

Nodes(patterns) == {Root} \cup UNION {Prefixes(p) : p \in patterns}

\* The failure links, from those of the shorter texts.
Failures(nodes) ==
    LET fail[n \in nodes] ==
          IF Len(n) <= 1 THEN Root
          ELSE Goto(nodes, fail, fail[SubSeq(n, 1, Len(n) - 1)], n[Len(n)])
    IN fail

\* Mistake: the outputs of the failure target are not merged.
Unmerged(nodes, fail, patterns) == [n \in nodes |-> {n} \cap (patterns \ {Root})]

\* Each state puts out what its failure target puts out as well.  Empty literals are ignored.
Outputs(nodes, fail, patterns) ==
    LET out[n \in nodes] ==
          ({n} \cap (patterns \ {Root})) \cup (IF n = Root THEN {} ELSE out[fail[n]])
    IN out

\* newACMatcher, on literals folded to lower case: equal ones share a state.
NewACMatcher(patterns) ==
    LET nodes == Nodes(patterns)
        fail == Failures(nodes)
    IN [nodes |-> nodes, fail |-> fail, out |-> Outputs(nodes, fail, patterns)]

\* Match: the literals put out, each with the position of its last character.
Match(m, text) ==
    LET node[i \in 0..Len(text)] == IF i = 0 THEN Root
                                    ELSE Goto(m.nodes, m.fail, node[i - 1], LowerASCII(text[i]))
    IN UNION {{<<p, i>> : p \in m.out[node[i]]} : i \in 1..Len(text)}

NeedsWordBoundary(p) == LET t == TrimSpace(p) IN t # <<>> /\ Len(t) <= Short

\* No word goes on around the characters from start to end.
StandsAlone(text, start, end) ==
    /\ start > 1 => text[start - 1] \notin WordBytes
    /\ end < Len(text) => text[end + 1] \notin WordBytes

\* MatchBoundSelective: a short literal counts where it stands alone.
MatchBoundSelective(m, text) ==
    {hit[1] : hit \in {h \in Match(m, text) :
       NeedsWordBoundary(h[1]) => StandsAlone(text, h[2] - Len(h[1]) + 1, h[2])}}

-----------------------------------------------------------------------------
(* The pre-filter.                                                           *)

\* A pattern is [head, tail, regex]: the text of a literal is its head.
Text(p) == IF p.regex THEN p.head \o <<Dot, Star>> \o p.tail ELSE p.head

Words(s) == {w \in (1..Len(s)) \X (1..Len(s)) :
               /\ w[1] <= w[2] /\ \A i \in w[1]..w[2] : LowerASCII(s[i]) \in Letters
               /\ w[1] = 1 \/ LowerASCII(s[w[1] - 1]) \notin Letters
               /\ w[2] = Len(s) \/ LowerASCII(s[w[2] + 1]) \notin Letters}

\* As the expressions of the program's own patterns and articles.
ASSUME ExpressionsHaveWords ==
    \A known \in Registries : \A q \in known : q[1].regex => Words(Text(q[1])) # {}

\* The first of the longest of some words of s, in lower case.
Longest(s, words) ==
    LET w == CHOOSE w \in words : \A v \in words :
               \/ v[2] - v[1] < w[2] - w[1]
               \/ v[2] - v[1] = w[2] - w[1] /\ w[1] <= v[1]
    IN ToLower(SubSeq(s, w[1], w[2]))

Distinctive(s) == {w \in Words(s) : /\ w[2] - w[1] + 1 >= Long
                                    /\ ToLower(SubSeq(s, w[1], w[2])) \notin GenericWords}

\* Mistake: the whole text stands for a regular expression, too.
WholeToken(p) ==
    IF Distinctive(Text(p)) # {} THEN Longest(Text(p), Distinctive(Text(p)))
    ELSE ToLower(Text(p))

\* The token of a pattern: its longest distinctive word, else the whole of a literal and
\* the longest word of a regular expression.
Token(p) ==
    IF Distinctive(Text(p)) # {} THEN Longest(Text(p), Distinctive(Text(p)))
    ELSE IF p.regex /\ Words(Text(p)) # {} THEN Longest(Text(p), Words(Text(p)))
    ELSE ToLower(Text(p))

DerivePrefilterTokens(patterns) == AlwaysKeep \cup {Token(p) : p \in patterns}

Patterns == {r[1] : r \in registry}
Literals == {p \in Patterns : ~p.regex}

IsExcluded(text) == \E ex \in Exclusions : Contains(text, ex)

-----------------------------------------------------------------------------
(* The callback.                                                             *)

\* External: RE2, case-insensitive, on an expression of two texts around ".*".
MatchString(p, text) ==
    \E i \in 1..(Len(text) + 1) :
      /\ StandsAt(ToLower(p.head), text, i)
      /\ \E j \in (i + Len(p.head))..(Len(text) + 1) : StandsAt(ToLower(p.tail), text, j)

\* The roles that the engine finds for a line: every role of a literal that was put out,
\* and those of the regular expressions that match.
RolesOf(text) ==
    LET lowered == ToLower(text)
        hits == MatchBoundSelective(ac, lowered)
    IN {r[2] : r \in {q \in registry :
          IF q[1].regex THEN MatchString(q[1], lowered) ELSE ToLower(q[1].head) \in hits}}

\* Mistake: a line may be kept twice.
KeptTwice(lines, text) == IF Len(lines) < MaxExamples THEN Append(lines, text) ELSE lines

\* handlePattern keeps the first lines that differ.
Kept(lines, text) ==
    IF Len(lines) < MaxExamples /\ \A i \in DOMAIN lines : lines[i] # text
      THEN Append(lines, text) ELSE lines

PassesPrefilter(text) == Match(tokens, ToLower(text)) # {}

\* One line: blank ones, those without a token and those of other daemons are dropped.
LineFunc(line) ==
    LET text == TrimSpace(line)
        roles == RolesOf(text)
    IN IF text # <<>> /\ PassesPrefilter(text) /\ ~IsExcluded(ToLower(text))
         THEN /\ found' = [r \in DOMAIN found |->
                             IF r \in roles THEN Kept(found[r], text) ELSE found[r]]
              /\ flags' = flags \cup (roles \cap Flags)
         ELSE UNCHANGED <<found, flags>>

-----------------------------------------------------------------------------
(* The scan.                                                                 *)

ScanInit ==
    /\ registry \in Registries /\ folder \in Folders
    /\ ac = NewACMatcher({}) /\ tokens = NewACMatcher({})
    /\ at = [file |-> 1, line |-> 1] /\ expired = FALSE
    /\ found = [r \in {q[2] : q \in registry} \ Flags |-> <<>>] /\ flags = {}
    /\ handed = <<>> /\ pc = "build"

\* Without any pattern the result stays empty.
BuildMatchers ==
    /\ pc = "build"
    /\ IF registry = {}
         THEN pc' = "done" /\ UNCHANGED <<ac, tokens>>
         ELSE /\ ac' = NewACMatcher({ToLower(p.head) : p \in Literals})
              /\ tokens' = NewACMatcher(DerivePrefilterTokens(Patterns))
              /\ pc' = "files"
    /\ UNCHANGED <<registry, folder, at, expired, found, flags, handed>>

\* The deadline of the context passes.
Expire ==
    /\ pc \in {"files", "lines"} /\ ~expired
    /\ expired' = TRUE
    /\ UNCHANGED <<registry, ac, tokens, folder, at, found, flags, handed, pc>>

\* Mistake: each file has a deadline of its own.
OpenAfresh ==
    /\ pc = "files"
    /\ pc' = IF at.file <= Len(folder) THEN "lines" ELSE "done"
    /\ expired' = FALSE
    /\ UNCHANGED <<registry, ac, tokens, folder, at, found, flags, handed>>

\* scanFilesWithContext, before each file.
OpenFile ==
    /\ pc = "files"
    /\ pc' = IF ~expired /\ at.file <= Len(folder) THEN "lines" ELSE "done"
    /\ UNCHANGED <<registry, ac, tokens, folder, at, expired, found, flags, handed>>

\* scanFileWithContext, one turn: the deadline is looked at once a line has been read.
ScanLine ==
    /\ pc = "lines"
    /\ LET lines == folder[at.file] IN
       IF at.line <= Len(lines) /\ ~expired
         THEN /\ LineFunc(lines[at.line])
              /\ handed' = Append(handed, lines[at.line])
              /\ at' = [at EXCEPT !.line = @ + 1]
              /\ UNCHANGED pc
         ELSE /\ at' = [file |-> at.file + 1, line |-> 1] /\ pc' = "files"
              /\ UNCHANGED <<found, flags, handed>>
    /\ UNCHANGED <<registry, ac, tokens, folder, expired>>

Scan == BuildMatchers \/ OpenFile \/ ScanLine

Done == pc = "done" /\ UNCHANGED scanVars

ScanNext == Scan \/ Expire \/ Done

ScanSpec == ScanInit /\ [][ScanNext]_scanVars

-----------------------------------------------------------------------------
(* Properties.                                                               *)

\* The definition that the engine is measured by: the pattern stands in the text, and a
\* short literal with no word going on around it.
Occurs(p, text) ==
    IF p.regex THEN MatchString(p, text)
    ELSE \E i \in 1..Len(text) :
           /\ p.head # <<>> /\ StandsAt(ToLower(p.head), text, i)
           /\ NeedsWordBoundary(p.head) =>
                /\ i > 1 => text[i - 1] \notin WordBytes
                /\ i + Len(p.head) <= Len(text) => text[i + Len(p.head)] \notin WordBytes

Lowered(line) == ToLower(TrimSpace(line))
Latest == handed[Len(handed)]

\* However patterns contain, overlap or end one another, and whatever state the characters
\* before have left it in, one pass of the automaton over a line puts out the literals that
\* stand in it, and no other.
AutomatonIsExact ==
    handed # <<>> =>
      MatchBoundSelective(ac, Lowered(Latest)) =
        {ToLower(p.head) : p \in {q \in Literals : Occurs(q, Lowered(Latest))}}

\* "No pattern can be pre-filtered away": a line in which some pattern stands has one of the
\* tokens, although each pattern is there by one word only.  A regular expression without
\* any word has no such token and is left out.
PrefilterHidesNothing ==
    handed # <<>> =>
      ((\E p \in Patterns : /\ Occurs(p, Lowered(Latest))
                            /\ p.regex => Words(Text(p)) # {}) => PassesPrefilter(Lowered(Latest)))

\* The lines that speak of a role, the first of each equal ones.
Witnesses(r) ==
    LET Speaks(line) == /\ ~IsExcluded(Lowered(line))
                        /\ \E q \in registry : q[2] = r /\ Occurs(q[1], Lowered(line))
    IN {i \in DOMAIN handed :
          /\ Speaks(handed[i])
          /\ \A j \in 1..(i - 1) : TrimSpace(handed[j]) # TrimSpace(handed[i])}

\* What the scan keeps is what the lines read so far say: per description and article the
\* first three different lines that speak of it, in their order, and a flag exactly if some
\* line speaks of it, also where one literal has several roles.
FirstLinesAreKept ==
    /\ \A r \in DOMAIN found :
         LET w == Witnesses(r)
             Rank(i) == Cardinality({j \in w : j <= i})
         IN /\ DOMAIN found[r] = {Rank(i) : i \in w} \cap (1..MaxExamples)
            /\ \A i \in w : Rank(i) <= MaxExamples =>
                            found[r][Rank(i)] = TrimSpace(handed[i])
    /\ flags = {f \in Flags : Witnesses(f) # {}}

\* How many lines the files before the n-th have.
Before[n \in 1..(Len(folder) + 1)] ==
    IF n = 1 THEN 0 ELSE Before[n - 1] + Len(folder[n - 1])

\* A scan that ran out of time tells of the first lines of the first files, with no gap
\* before them; one that did not, of every line of every file that can be read.
TimedOutScanIsAPrefix ==
    /\ \A n \in DOMAIN folder : \A i \in DOMAIN folder[n] :
         Before[n] + i <= Len(handed) => handed[Before[n] + i] = folder[n][i]
    /\ Len(handed) <= Before[Len(folder) + 1]
    /\ pc = "done" /\ ~expired /\ registry # {} => Len(handed) = Before[Len(folder) + 1]
=============================================================================

----------------------------- MODULE RulesEngine -----------------------------
(***************************************************************************)
(* The data-driven rules: discovery of rules files, which other programs   *)
(* may change or shut off meanwhile, parsing, evaluation over a folder,    *)
(* and what an analysis, a dry run and the inventory make of it.  Patterns *)
(* are opaque: a line is the set of literals and regexes found in it.      *)
(***************************************************************************)
EXTENDS Naturals, Sequences, FiniteSets

CONSTANTS RuleFiles,    \* files that discovery may meet
          Locations,    \* places to look at, by absolute path
          Places,       \* those places in order, some perhaps twice
          FilesAt,      \* the files a place stands for, in the order of Glob
          Documents,    \* contents of rules files, see Document
          Absent,       \* there is no file
          Unreadable,   \* there is one that cannot be read
          RuleNames, NoName,
          Literals, NoLiteral, Fold,  \* patterns, the empty one, lower case
          Regexes, BadRegexes,        \* patterns, those that do not compile
          LogFiles, DefaultFiles,     \* files of a folder, defaultRuleFiles
          Folders,                    \* what may be analysed
          Guarded,                    \* bound: places whose permissions may change
          MaxEdits                    \* bound: files and places changed during a call

Rule == [name : RuleNames, severity : BOOLEAN, message : BOOLEAN, \* valid, present
         regex : BOOLEAN, all : BOOLEAN,
         patterns : Seq(Literals \cup Regexes), files : Seq(LogFiles)]
Document == [broken : BOOLEAN, rules : Seq(Rule)]
Line == SUBSET (Literals \cup Regexes)

ASSUME RulesAssumption ==
    /\ Places \in Seq(Locations) /\ FilesAt \in [Locations -> Seq(RuleFiles)]
    /\ Documents \subseteq Document /\ {Absent, Unreadable} \cap Documents = {}
    /\ NoName \in RuleNames /\ NoLiteral \in Literals /\ Fold \in [Literals -> Literals]
    /\ Literals \cap Regexes = {} /\ BadRegexes \subseteq Regexes
    /\ \A d \in Documents : \A i \in DOMAIN d.rules :
         LET r == d.rules[i]
         IN  r.patterns \in Seq(IF r.regex THEN Regexes ELSE Literals)
    /\ DefaultFiles \in Seq(LogFiles)
    /\ Folders \subseteq [LogFiles -> Seq(Line)]
    /\ \A d \in Folders, f \in LogFiles : \A n \in DOMAIN d[f] : NoLiteral \notin d[f][n]
    /\ Guarded \subseteq Locations /\ MaxEdits \in Nat

VARIABLES disk,     \* content of the rules files
          shut,     \* places that Stat fails on, or directories that cannot be read
          phase,    \* what the call does next, or idle, done, panicked
          kind,     \* analysis, dryrun or inventory
          folder,   \* what is analysed
          next,     \* candidate to expand next
          todo,     \* files of the last candidate still to be read
          doc,      \* the document being parsed, with the rule to be looked at next
          infos,    \* rules loaded, with their origin
          diags,    \* diagnostics
          rows,     \* rules found per candidate, for the inventory
          matchers, \* evaluation state of each rule
          scan,     \* where the scan is, see NoGroup
          findings, \* rules that fired
          outcomes, \* verdicts of a dry run
          edited    \* history: files and places changed since the call began

loading == <<next, todo, doc, infos, diags, rows>>
scanning == <<matchers, scan>>
results == <<findings, outcomes>>
vars == <<disk, shut, phase, kind, folder, loading, scanning, results, edited>>

NoDocument == [file |-> Absent, rules |-> <<>>, at |-> 1]

\* No group is being scanned.  key: the files of the group; file, line: how far it
\* was read; order: the literals of its automaton; lineNo runs on over all groups.
NoGroup == [key |-> <<>>, file |-> 0, line |-> 0, order |-> <<>>, lineNo |-> 0, scanned |-> {}]

ElementsOf(s) == {s[i] : i \in DOMAIN s}

-----------------------------------------------------------------------------
(* Parsing.                                                                  *)

Diagnostic(f, i, what) == [file |-> f, at |-> i, what |-> what]

Refused(r) ==
    IF r.name = NoName THEN {"nameless"}
    ELSE IF ~r.severity THEN {"severity"}
    ELSE IF r.patterns = <<>> \/ ~r.message THEN {"incomplete"} ELSE {}

Loads(r) == Refused(r) = {}

\* What parseRulesDocument has to say of the n-th rule; a repeated name loads.
RemarksOn(rules, n) ==
    Refused(rules[n])
    \cup {what \in {"repeated"} :
            Loads(rules[n]) /\ \E j \in 1..(n - 1) : Loads(rules[j]) /\ rules[j].name = rules[n].name}

\* Mistake: names are compared within a document only.
NeverElsewhere(r, f) == {}

\* The rule of this name loaded last comes from another file (loadAnalysisRuleInfos).
Elsewhere(r, f) ==
    LET namesakes == {j \in DOMAIN infos : infos[j].rule.name = r.name}
        last == CHOOSE j \in namesakes : \A k \in namesakes : k <= j
    IN  {what \in {"elsewhere"} : Loads(r) /\ namesakes # {} /\ infos[last].file # f}

\* Mistake: refused rules count.
CountedAll(r) == 1

Counted(r) == IF Loads(r) THEN 1 ELSE 0

-----------------------------------------------------------------------------
(* Discovery.                                                                *)

\* Mistake: a place met twice is looked at twice.
EveryPlace == Places

\* ruleCandidatePaths: duplicates are dropped by absolute path.
Candidates ==
    LET kept[n \in 0..Len(Places)] ==
          IF n = 0 THEN <<>>
          ELSE IF Places[n] \in ElementsOf(kept[n - 1]) THEN kept[n - 1]
          ELSE Append(kept[n - 1], Places[n])
    IN  kept[Len(Places)]

Present(f) == disk[f] # Absent

\* Those of a place's files that are there.
PresentOf(s) ==
    LET kept[n \in 0..Len(s)] ==
          IF n = 0 THEN <<>>
          ELSE IF Present(s[n]) THEN Append(kept[n - 1], s[n]) ELSE kept[n - 1]
    IN  kept[Len(s)]

\* A place that cannot be looked into holds no rules, and nothing is said of it.
RulesFilesIn(l) == IF l \in shut THEN <<>> ELSE PresentOf(FilesAt[l])

Call(k, d) ==
    /\ phase \in {"idle", "done"}
    /\ phase' = IF k = "inventory" THEN "describe" ELSE "load"
    /\ kind' = k /\ folder' = d
    /\ next' = 1 /\ todo' = <<>> /\ doc' = NoDocument
    /\ infos' = <<>> /\ diags' = {} /\ rows' = <<>>
    /\ findings' = {} /\ outcomes' = <<>>
    /\ matchers' = <<>> /\ scan' = NoGroup
    /\ edited' = {}
    /\ UNCHANGED <<disk, shut>>

Loading == phase \in {"describe", "load"}
Parsed == doc.at > Len(doc.rules)

\* The files of the next place are looked up.
Expand ==
    /\ Loading /\ Parsed /\ todo = <<>> /\ next <= Len(Candidates)
    /\ todo' = RulesFilesIn(Candidates[next])
    /\ next' = next + 1
    /\ rows' = IF phase = "describe" THEN Append(rows, 0) ELSE rows
    /\ UNCHANGED <<disk, shut, phase, kind, folder, doc, infos, diags, scanning, results, edited>>

\* A file is read; it may have gone since it was found.
ReadFile ==
    LET f == Head(todo)
        text == disk[f]
    IN  /\ Loading /\ Parsed /\ todo # <<>>
        /\ todo' = Tail(todo)
        /\ \/ /\ text \in {Absent, Unreadable}
              /\ diags' = diags \cup {Diagnostic(f, 0, "unreadable")}
              /\ UNCHANGED doc
           \/ /\ text \in Documents /\ text.broken
              /\ diags' = diags \cup {Diagnostic(f, 0, "broken")}
              /\ UNCHANGED doc
           \/ /\ text \in Documents /\ ~text.broken
              /\ doc' = [file |-> f, rules |-> text.rules, at |-> 1]
              /\ UNCHANGED diags
        /\ UNCHANGED <<disk, shut, phase, kind, folder, next, infos, rows, scanning, results, edited>>

\* The next rule of the document that was read.
ParseRule ==
    LET f == doc.file
        r == doc.rules[doc.at]
        remarks == RemarksOn(doc.rules, doc.at)
    IN  /\ Loading /\ ~Parsed
        /\ doc' = [doc EXCEPT !.at = @ + 1]
        /\ \/ /\ phase = "describe"
              /\ diags' = diags \cup {Diagnostic(f, doc.at, what) : what \in remarks}
              /\ rows' = [rows EXCEPT ![Len(rows)] = @ + Counted(r)]
              /\ UNCHANGED infos
           \/ /\ phase = "load"
              /\ diags' = diags \cup {Diagnostic(f, doc.at, what) : what \in remarks \cup Elsewhere(r, f)}
              /\ infos' = IF Loads(r) THEN Append(infos, [rule |-> r, file |-> f, at |-> doc.at])
                          ELSE infos
              /\ UNCHANGED rows
        /\ UNCHANGED <<disk, shut, phase, kind, folder, next, todo, scanning, results, edited>>

\* ListDefinitions describes every candidate, then loads them all again.
Loaded ==
    /\ Loading /\ Parsed /\ todo = <<>> /\ next > Len(Candidates)
    /\ IF phase = "describe"
       THEN phase' = "load" /\ next' = 1
       ELSE /\ phase' = IF kind = "inventory" \/ infos = <<>> THEN "done" ELSE "compile"
            /\ UNCHANGED next
    /\ UNCHANGED <<disk, shut, kind, folder, todo, doc, infos, diags, rows, scanning, results, edited>>

\* Another program, or a save, changes a rules file.
Edit(f, content) ==
    /\ disk[f] # content /\ f \notin edited /\ Cardinality(edited) < MaxEdits
    /\ disk' = [disk EXCEPT ![f] = content]
    /\ edited' = edited \cup {f}
    /\ UNCHANGED <<shut, phase, kind, folder, loading, scanning, results>>

\* A place is shut, or opened again.
ChangeAccess(l) ==
    /\ l \notin edited /\ Cardinality(edited) < MaxEdits
    /\ shut' = (IF l \in shut THEN shut \ {l} ELSE shut \cup {l})
    /\ edited' = edited \cup {l}
    /\ UNCHANGED <<disk, phase, kind, folder, loading, scanning, results>>

-----------------------------------------------------------------------------
(* Evaluation: applyAnalysisRules, one pass over the files of each group.    *)

FilesOf(i) == LET r == infos[i].rule IN IF r.files = <<>> THEN DefaultFiles ELSE r.files

Unscanned == {i \in DOMAIN infos : FilesOf(i) \notin scan.scanned}
Group == {i \in DOMAIN infos : FilesOf(i) = scan.key}

\* A regex rule is compiled before anything is scanned; globalRegexCache.Get panics.
Compile ==
    LET bad == \E i \in DOMAIN infos :
                 infos[i].rule.regex /\ ElementsOf(infos[i].rule.patterns) \cap BadRegexes # {}
    IN  /\ phase = "compile"
        /\ phase' = IF bad THEN "panicked" ELSE "groups"
        /\ matchers' = [i \in DOMAIN infos |->
                          [hits |-> {}, lineNo |-> 0, satisfied |-> FALSE, evidence |-> <<0, 0>>]]
        /\ scan' = NoGroup
        /\ UNCHANGED <<disk, shut, kind, folder, loading, results, edited>>

LiteralsOf(group) ==
    {Fold[l] : l \in UNION {ElementsOf(infos[i].rule.patterns) :
                              i \in {j \in group : ~infos[j].rule.regex}}} \ {NoLiteral}

\* What an automaton for these literals may have as canonical order: it is cached for
\* the set, and may have been compiled by another call.
Orders(literals) ==
    {order \in [1..Cardinality(literals) -> literals] : ElementsOf(order) = literals}

\* The group of the first rule that was not scanned yet.
StartGroup ==
    /\ phase = "groups"
    /\ \E first \in Unscanned :
         LET key == FilesOf(first)
             group == {i \in DOMAIN infos : FilesOf(i) = key}
         IN  /\ \A i \in Unscanned : first <= i
             /\ \E order \in Orders(LiteralsOf(group)) :
                  scan' = [scan EXCEPT !.key = key, !.file = 1, !.line = 0, !.order = order,
                                       !.scanned = @ \cup {key}]
    /\ phase' = "scan"
    /\ UNCHANGED <<disk, shut, kind, folder, loading, matchers, results, edited>>

\* The posting list: the rules and positions that registered the c-th literal.
Posting(c) ==
    {x \in UNION {{i} \X DOMAIN infos[i].rule.patterns : i \in Group} :
       LET r == infos[x[1]].rule IN ~r.regex /\ Fold[r.patterns[x[2]]] = scan.order[c]}

\* The positions of rule i that the automaton or its regexes find in the line.
HitsOf(i, line) ==
    LET r == infos[i].rule
    IN  IF r.regex THEN {p \in DOMAIN r.patterns : r.patterns[p] \in line}
        ELSE {p \in DOMAIN r.patterns :
                \E c \in DOMAIN scan.order : scan.order[c] \in line /\ <<i, p>> \in Posting(c)}

\* mark, for all hits of a line.  Mistake: the hits of the line before are kept.
MarkedOn(m, hits, n) ==
    IF m.satisfied \/ hits = {} THEN m ELSE [m EXCEPT !.lineNo = n, !.hits = @ \cup hits]

Marked(m, hits, n) ==
    IF m.satisfied \/ hits = {} THEN m
    ELSE [m EXCEPT !.lineNo = n, !.hits = (IF m.lineNo = n THEN @ ELSE {}) \cup hits]

\* The end of the line, for a rule that was marked on it.
Settled(m, r, hits, place) ==
    IF m.satisfied \/ hits = {} \/ (r.all /\ m.hits # DOMAIN r.patterns) THEN m
    ELSE [m EXCEPT !.satisfied = TRUE, !.evidence = place]

FeedLine ==
    LET lines == folder[scan.key[scan.file]]
        n == scan.lineNo + 1
        at == scan.line + 1
        After(i) == LET hits == HitsOf(i, lines[at])
                    IN  Settled(Marked(matchers[i], hits, n), infos[i].rule, hits, <<scan.file, at>>)
    IN  /\ phase = "scan" /\ scan.file <= Len(scan.key) /\ scan.line < Len(lines)
        /\ matchers' = [i \in DOMAIN matchers |-> IF i \in Group THEN After(i) ELSE matchers[i]]
        /\ scan' = [scan EXCEPT !.line = at, !.lineNo = n]
        /\ UNCHANGED <<disk, shut, phase, kind, folder, loading, results, edited>>

NextFile ==
    /\ phase = "scan" /\ scan.file <= Len(scan.key)
    /\ scan.line = Len(folder[scan.key[scan.file]])
    /\ scan' = [scan EXCEPT !.file = @ + 1, !.line = 0]
    /\ UNCHANGED <<disk, shut, phase, kind, folder, loading, matchers, results, edited>>

EndGroup ==
    /\ phase = "scan" /\ scan.file > Len(scan.key)
    /\ phase' = "groups"
    /\ UNCHANGED <<disk, shut, kind, folder, loading, scanning, results, edited>>

Satisfied == {i \in DOMAIN matchers : matchers[i].satisfied}

\* TestRulesAgainst finds the outcome of a rule by its name; the last finding wins.
Outcome(i) ==
    LET named == {j \in Satisfied : infos[j].rule.name = infos[i].rule.name}
        last == CHOOSE j \in named : \A k \in named : k <= j
    IN  [matched |-> named # {}, evidence |-> IF named = {} THEN <<0, 0>> ELSE matchers[last].evidence]

\* Findings are emitted in the order of the rules.
Emit ==
    /\ phase = "groups" /\ Unscanned = {}
    /\ phase' = "done"
    /\ findings' = {[at |-> i, evidence |-> matchers[i].evidence] : i \in Satisfied}
    /\ outcomes' = IF kind = "dryrun" THEN [i \in DOMAIN infos |-> Outcome(i)] ELSE outcomes
    /\ UNCHANGED <<disk, shut, kind, folder, loading, scanning, edited>>

Contents == Documents \cup {Absent, Unreadable}

Init ==
    /\ disk \in [RuleFiles -> Contents] /\ shut \in SUBSET Guarded
    /\ phase = "idle" /\ kind = "inventory" /\ folder \in Folders
    /\ next = 1 /\ todo = <<>> /\ doc = NoDocument /\ infos = <<>> /\ diags = {} /\ rows = <<>>
    /\ matchers = <<>> /\ scan = NoGroup
    /\ findings = {} /\ outcomes = <<>> /\ edited = {}

Next ==
    \/ \E k \in {"analysis", "dryrun", "inventory"}, d \in Folders : Call(k, d)
    \/ Expand \/ ReadFile \/ ParseRule \/ Loaded
    \/ \E f \in RuleFiles, content \in Contents : Edit(f, content)
    \/ \E l \in Guarded : ChangeAccess(l)
    \/ Compile \/ StartGroup \/ FeedLine \/ NextFile \/ EndGroup \/ Emit

Spec == Init /\ [][Next]_vars

-----------------------------------------------------------------------------
(* What is said of a call that ended.                                        *)

\* The patterns of a rule found in a line, and whether they satisfy it: all of them on
\* one line if it says so.
Found(r, line) ==
    {p \in DOMAIN r.patterns : (IF r.regex THEN r.patterns[p] ELSE Fold[r.patterns[p]]) \in line}

Satisfies(r, line) ==
    LET found == Found(r, line) IN found # {} /\ (r.all => found = DOMAIN r.patterns)

\* The lines that satisfy rule i, as <<file, line>>.
FiredOn(i) ==
    {x \in UNION {{f} \X DOMAIN folder[FilesOf(i)[f]] : f \in DOMAIN FilesOf(i)} :
       Satisfies(infos[i].rule, folder[FilesOf(i)[x[1]]][x[2]])}

Before(x, y) == x[1] < y[1] \/ (x[1] = y[1] /\ x[2] < y[2])
First(places) == CHOOSE x \in places : \A y \in places : ~Before(y, x)

\* The findings are those that a scan for each rule alone would make, each with the
\* first line that satisfies its rule: groups, the shared automaton and the hits kept
\* between lines make no difference ("Semantics are unchanged", applyAnalysisRules).
OnePassIsAPassPerRule ==
    phase = "done" /\ kind # "inventory" =>
        findings = {[at |-> i, evidence |-> First(FiredOn(i))] :
                      i \in {j \in DOMAIN infos : FiredOn(j) # {}}}

Clash == {"repeated", "elsewhere"}

\* No two places list the file, and none lists it twice.  They do when the working directory
\* is itself one of the rules directories: rules.yaml there is a place of its own.
ListedOnce(f) ==
    \A l, m \in ElementsOf(Places) : \A p \in DOMAIN FilesAt[l], q \in DOMAIN FilesAt[m] :
        FilesAt[l][p] = f /\ FilesAt[m][q] = f => l = m /\ p = q

\* The dry run tells of rule i whether it fires, and on which line first.
ToldRight(i) ==
    /\ outcomes[i].matched <=> FiredOn(i) # {}
    /\ outcomes[i].matched => outcomes[i].evidence = First(FiredOn(i))

\* A dry run tells of each rule whether it fires and on which line, unless another
\* loaded rule has its name; then a diagnostic says so of one of them ("the ambiguity
\* is surfaced, never silent", TestRulesAgainst).  The rules of a file that was loaded
\* twice have their own names only; they are told right unless it changed in between.
DryRunTellsWhatFires ==
    phase = "done" /\ kind = "dryrun" =>
        \A i \in DOMAIN infos :
            LET namesakes == {j \in DOMAIN infos : infos[j].rule.name = infos[i].rule.name}
                f == infos[i].file
            IN  \/ namesakes = {i} /\ ToldRight(i)
                \/ \E j \in namesakes, what \in Clash :
                       Diagnostic(infos[j].file, infos[j].at, what) \in diags
                \/ ~ListedOnce(f) /\ (f \in edited \/ ToldRight(i))

\* The places that could be looked into all the time, and the files they list.
Open == ElementsOf(Places) \ (shut \cup edited)
Reachable == UNION {ElementsOf(FilesAt[l]) : l \in Open}

\* Of a file that did not change during the call, and that a place lists which could be
\* looked into, each rule is loaded, once unless the file is listed twice, or is refused with
\* a diagnostic, and a file that cannot be used is reported.  Of the files of a place that
\* cannot be looked into nothing is said (rulesFilesIn returns nothing on any error of Stat
\* and for an unreadable directory): for them "never silently swallowed"
\* (rules_engine.go:20-21) does not hold.
NothingIsSwallowed ==
    phase = "done" => \A f \in Reachable \ edited :
        \/ disk[f] = Absent
        \/ \E what \in {"broken", "unreadable"} : Diagnostic(f, 0, what) \in diags
        \/ /\ disk[f] \in Documents
           /\ \A n \in DOMAIN disk[f].rules :
                LET copies == {i \in DOMAIN infos : infos[i].file = f /\ infos[i].at = n}
                IN  \/ /\ copies # {} /\ \A i \in copies : infos[i].rule = disk[f].rules[n]
                       /\ ListedOnce(f) => Cardinality(copies) = 1
                    \/ /\ copies = {}
                       /\ \E what \in {"nameless", "severity", "incomplete"} :
                            Diagnostic(f, n, what) \in diags

\* No rule of a file is loaded twice ("so one file is never loaded twice",
\* rules_engine.go:124-126).
FilesAreLoadedOnce ==
    \A i, j \in DOMAIN infos :
        infos[i].file = infos[j].file /\ infos[i].at = infos[j].at => i = j

Total(s) ==
    LET sum[n \in 0..Len(s)] == IF n = 0 THEN 0 ELSE sum[n - 1] + s[n]
    IN  sum[Len(s)]

\* Unless a file or the access to a place changed meanwhile, the rules counted per place add
\* up to those loaded (ListDefinitions: "exactly what the analysis will load"); a place that
\* cannot be looked into counts for none and adds none.
InventoryAddsUp ==
    phase = "done" /\ kind = "inventory" /\ edited = {} => Len(infos) = Total(rows)

=============================================================================

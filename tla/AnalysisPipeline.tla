--------------------------- MODULE AnalysisPipeline --------------------------
(***************************************************************************)
(* The analyses of one process, one after another: analyzeData on a        *)
(* supportconfig, analyzeLogsOnly on a directory of raw logs.  A phase is  *)
(* what runs between two looks at the context; what a phase finds is fixed *)
(* by the folder.  The analyses share the automatons of the knowledge base *)
(* and nothing else.  Left out: host inventory, progress reports, texts.   *)
(***************************************************************************)
EXTENDS KnowledgeBase, CorrelationGraph

CONSTANTS None,       \* an identity field without a value
          Labels,     \* names of one part, at least four characters long
          DomainOf,   \* the domain part of a host name, None if it is short
          Overlap,    \* domainsOverlap, as pairs of names in lower case
          Folders,    \* what may be analysed, see Folder
          MaxRuns     \* bound: analyses of the process

Levels == {"warning", "error", "critical"}
\* A finding has one entity at most; a line is one of sssd.conf.
Finding == {x \in [level : Levels, category : STRING, text : Text, root : BOOLEAN,
                    rule : STRING, entities : SUBSET Entity, path : STRING, line : Nat] :
              (\A d, e \in x.entities : d = e) /\ (x.line > 0 => x.path = "sssd.conf")}

\* What runCorrelation raises, and in which file: the AD section's validator raises
\* "correlate:krb5-realm-mismatch" too, in sssd.conf.
CrossCheckSources == {<<"correlate:krb5-no-realm", "krb5.conf">>,
                      <<"correlate:krb5-realm-mismatch", "krb5.conf">>,
                      <<"correlate:dns-search-mismatch", "resolv.conf">>,
                      <<"correlate:hostname-not-fqdn", "basic-environment.txt">>}
IsCrossCheck(x) == <<x.rule, x.path>> \in CrossCheckSources

\* The prefix of a root cause is that of correlateSequences alone.
Plain == {x \in Finding : ~x.root /\ ~IsCrossCheck(x)}
Chain == {x \in Finding : x.root /\ ~IsCrossCheck(x)}
Notes == [problems : Seq(Text), warnings : Seq(Text)]
Suggestion == [tid : Articles, of : SUBSET Values]

Phases == {"system", "network", "environment", "scan", "kerberos", "config", "match",
           "harvest", "logscan", "advanced", "rules", "sequences", "summary", "finalize"}

Folder ==
    [raw : BOOLEAN,                          \* a directory of raw logs
     host : Names \cup {None},               \* Hostname: line, or first host of the logs
     node : Names \cup {None},               \* host in the uname line
     search : Names \cup {None}, realm : Names \cup {None},
     adDomain : Names \cup {None},           \* as sssd.conf spells it
     others : SUBSET Names,                  \* further names harvested from raw logs
     mac : {"AppArmor", "SELinux", "Unknown"},
     ad : BOOLEAN, conf : BOOLEAN, debug9 : BOOLEAN, stopped : BOOLEAN,
     keytab : SUBSET {"found", "missing", "noprincipal"},
     notes : [Phases -> Notes],              \* problems and warnings of a phase's analyzers
     errors : SUBSET STRING, bursts : SUBSET STRING, \* descriptions
     quotes : SUBSET Names,                  \* names in the lines that are quoted
     evidence : SUBSET Articles, similar : SUBSET Suggestion,
     patterns : SUBSET Patterns,             \* config patterns that occur in sssd.conf
     checks : Seq(Plain), rules : Seq(Plain), chains : Seq(Chain)]

ASSUME AnalysisPipelineAssumption ==
    /\ None \notin Values /\ Labels \subseteq Names /\ Overlap \subseteq Names \X Names
    /\ DomainOf \in [Names -> Names \cup {None}]
    /\ Folders \subseteq Folder
    /\ \A f \in Folders : IsFiniteSet(f.errors)
    /\ MaxRuns \in Nat

VARIABLES phase,     \* the phase to run next, or idle
          folder,    \* what is analysed
          anonymize, \* the caller's choice
          cancelled, \* ctx.Err() # nil
          report,    \* the report under construction
          matchers,  \* globalACCache
          past       \* history: the analyses that ended, with the report returned

vars == <<phase, folder, anonymize, cancelled, report, matchers, past>>

-----------------------------------------------------------------------------
(* Reports.                                                                  *)

NoSummary == [critical |-> 0, error |-> 0, warning |-> 0, problem |-> 0,
              logError |-> 0, score |-> 0, headline |-> "", cause |-> ""]

EmptyReport ==
    [host |-> None, search |-> None, realm |-> None, adDomain |-> None, mac |-> "Unknown",
     ad |-> FALSE, conf |-> FALSE, problems |-> <<>>, warnings |-> <<>>, findings |-> <<>>,
     errors |-> {}, quotes |-> {}, bursts |-> {}, matched |-> {}, suggested |-> {},
     summary |-> NoSummary, graph |-> EmptyGraph]

InRange(s) == {s[i] : i \in DOMAIN s}

Say(words) == [say |-> words, of |-> {}]
When(condition, entry) == IF condition THEN <<entry>> ELSE <<>>

\* What the analyzers of phase p append by themselves.
Noted(r, p, f) == [r EXCEPT !.problems = @ \o f.notes[p].problems,
                            !.warnings = @ \o f.notes[p].warnings]
WithProblems(r, texts) == [r EXCEPT !.problems = @ \o texts]

SevereLevels == {"error", "critical"}
MildLevels == Levels \ SevereLevels

\* The texts of the findings of some levels.
TextsOf(fs, levels) ==
    LET told[n \in 0..Len(fs)] ==
          IF n = 0 THEN <<>>
          ELSE IF fs[n].level \in levels THEN Append(told[n - 1], fs[n].text) ELSE told[n - 1]
    IN  told[Len(fs)]

\* addConfigFindingEx, for each finding in turn.
WithFindings(r, fs) ==
    [r EXCEPT !.findings = @ \o fs,
              !.problems = @ \o TextsOf(fs, SevereLevels),
              !.warnings = @ \o TextsOf(fs, MildLevels)]

\* deduplicateProblems: the first of equal texts stays.
Deduplicated(s) ==
    LET kept[n \in 0..Len(s)] ==
          IF n = 0 THEN <<>>
          ELSE IF s[n] \in InRange(kept[n - 1]) THEN kept[n - 1] ELSE Append(kept[n - 1], s[n])
    IN  kept[Len(s)]

-----------------------------------------------------------------------------
(* runCorrelation.                                                           *)

\* In lower case.
CanonicalDomain(r) ==
    Folded(IF r.adDomain # None /\ r.adDomain \notin Addresses THEN r.adDomain
           ELSE IF r.search # None THEN r.search
           ELSE IF r.host # None THEN DomainOf[r.host]
           ELSE None)

CrossCheck(level, category, rule, path, names, entities) ==
    [level |-> level, category |-> category, text |-> [say |-> rule, of |-> names],
     root |-> FALSE, rule |-> rule, entities |-> entities, path |-> path, line |-> 0]

CrossChecks(r) ==
    LET domain == CanonicalDomain(r)
        Strange(n) == n # None /\ <<Folded(n), domain>> \notin Overlap
    IN  IF ~r.ad \/ domain = None THEN <<>>
        ELSE IF r.realm = None
        THEN <<CrossCheck("critical", "join", "correlate:krb5-no-realm", "krb5.conf",
                          {Upper[domain]}, {})>>
        ELSE When(Strange(r.realm),
                  CrossCheck("critical", "krb5_realm", "correlate:krb5-realm-mismatch", "krb5.conf",
                             {Upper[domain], r.realm}, {[kind |-> "realm", value |-> r.realm]}))
             \o When(Strange(r.search),
                     CrossCheck("error", "dns", "correlate:dns-search-mismatch", "resolv.conf",
                                {domain, r.search}, {}))
             \o When(r.host # None /\ Strange(DomainOf[r.host]),
                     CrossCheck("error", "hostname", "correlate:hostname-not-fqdn",
                                "basic-environment.txt", {domain, r.host}, {}))

-----------------------------------------------------------------------------
(* computeExecutiveSummary.                                                  *)

CountOf(fs, level) == Cardinality({i \in DOMAIN fs : fs[i].level = level})
HasRoot(r) == \E i \in DOMAIN r.findings : r.findings[i].root

\* The category of the first correlated root cause.
RootCause(r) ==
    LET first == CHOOSE i \in DOMAIN r.findings :
                   r.findings[i].root /\ \A j \in 1..(i - 1) : ~r.findings[j].root
    IN  IF HasRoot(r) THEN r.findings[first].category ELSE ""

\* Mistake: root causes are looked for last.
HeadlineBySeverity(r, critical, error) ==
    IF critical > 0 THEN "CRITICAL"
    ELSE IF error > 0 THEN "ERROR"
    ELSE IF r.problems # <<>> THEN "PROBLEMS"
    ELSE IF HasRoot(r) THEN "ROOT CAUSE"
    ELSE IF r.warnings # <<>> THEN "HEALTHY-WITH-HINTS" ELSE "HEALTHY"

Headline(r, critical, error) ==
    IF HasRoot(r) THEN "ROOT CAUSE"
    ELSE IF critical > 0 THEN "CRITICAL"
    ELSE IF error > 0 THEN "ERROR"
    ELSE IF r.problems # <<>> THEN "PROBLEMS"
    ELSE IF \E i \in DOMAIN r.findings : r.findings[i].level \in MildLevels THEN "HEALTHY-WITH-HINTS"
    ELSE IF r.warnings # <<>> THEN "HEALTHY-WITH-HINTS" ELSE "HEALTHY"

Score(critical, error, problem, warning, logError) ==
    LET penalty == 25 * critical + 12 * error + 4 * problem + 2 * warning + 3 * logError
    IN  IF penalty > 100 THEN 0 ELSE 100 - penalty

Summary(r) ==
    LET critical == CountOf(r.findings, "critical")
        error    == CountOf(r.findings, "error")
        warning  == CountOf(r.findings, "warning") + Len(r.warnings)
        problem  == Len(r.problems)
        logError == Cardinality(r.errors)
    IN  [critical |-> critical, error |-> error, warning |-> warning, problem |-> problem,
         logError |-> logError, score |-> Score(critical, error, problem, warning, logError),
         headline |-> Headline(r, critical, error), cause |-> RootCause(r)]

-----------------------------------------------------------------------------
(* finalizeReport.                                                           *)

IdentityEntities(r) ==
    {[kind |-> x[1], value |-> x[2]] :
       x \in {y \in {<<"domain", r.adDomain>>, <<"realm", r.realm>>,
                     <<"hostname", r.host>>, <<"dns", r.search>>} : y[2] # None}}

IdentityPairs(r) ==
    LET domain == [kind |-> "domain", value |-> r.adDomain]
        realm  == [kind |-> "realm", value |-> r.realm]
        host   == [kind |-> "hostname", value |-> r.host]
    IN  {<<domain, realm>>, <<host, domain>>, <<host, realm>>}

Signals(r) ==
    {[category |-> "temporal", text |-> Say(b)] : b \in r.bursts}
    \cup {[category |-> "log_error", text |-> Say(e)] : e \in r.errors}
    \cup {[category |-> "kb_suggestion", text |-> [say |-> s.tid, of |-> s.of]] : s \in r.suggested}

WithGraph(r) ==
    [r EXCEPT !.graph = BuildGraph(IdentityEntities(r), r.findings, Signals(r), IdentityPairs(r))]

Given(v) == {v} \ {None}
HostKnown(r, f) == IF r.host = None /\ ~f.raw THEN f.node ELSE r.host
Tokens(r, f) ==
    IF f.raw THEN f.others \cup Given(r.host) \cup Given(r.search) \cup Given(r.realm) ELSE {}

\* A name of one part is looked for whatever its case.
Spellings(n) == {v \in Names : Lower[v] = Lower[n]}
AsGiven(n) == IF n \in Labels THEN Spellings(n) ELSE {n}

\* A dotted name is looked for as it is stored, and in one other case: the domains in
\* capitals, the realm in lower case, and the tokens of raw logs in either.
LookedFor(host, domains, realm, tokens) ==
    (UNION {AsGiven(n) : n \in host})
    \cup (UNION {{n, Upper[n]} : n \in domains})
    \cup (UNION {{n, Lower[n]} : n \in realm})
    \cup (UNION {AsGiven(n) \cup {Lower[n], Upper[n]} : n \in tokens})
    \cup Addresses

\* Mistake: the AD domain is not among the values looked for.
KnownButAdDomain(r, f) ==
    LookedFor(Given(HostKnown(r, f)), Given(r.search), Given(r.realm), Tokens(r, f))

\* The host is the one of the uname line when no other is known.
KnownNames(r, f) ==
    LookedFor(Given(HostKnown(r, f)), Given(r.search) \cup Given(r.adDomain), Given(r.realm),
              Tokens(r, f))

MaskTexts(s, known) == [i \in DOMAIN s |-> MaskText(s[i], known)]
MaskField(v, known) == IF v = None THEN None ELSE MaskName(v, known)
MaskNames(names, known) == {MaskName(v, known) : v \in names}

MaskEntity(e, known) == [kind |-> e.kind, value |-> MaskName(e.value, known)]
MaskFinding(x, known) ==
    [x EXCEPT !.text = MaskText(@, known), !.entities = {MaskEntity(e, known) : e \in @}]

\* anonymizeReport.
Anonymized(r, f) ==
    LET known == KnownNames(r, f)
    IN  [r EXCEPT !.host = IF @ # None \/ (~f.raw /\ f.node # None) THEN RedactedHost ELSE None,
                  !.search = MaskField(@, known), !.realm = MaskField(@, known),
                  !.adDomain = IF @ = None THEN None ELSE ExampleDomain,
                  !.problems = MaskTexts(@, known), !.warnings = MaskTexts(@, known),
                  !.findings = [i \in DOMAIN @ |-> MaskFinding(@[i], known)],
                  !.quotes = MaskNames(@, known),
                  !.suggested = {[tid |-> s.tid, of |-> MaskNames(s.of, known)] : s \in @},
                  !.graph = MaskGraph(@, known)]

-----------------------------------------------------------------------------
(* The phases.                                                               *)

Init ==
    /\ phase = "idle"
    /\ folder \in Folders
    /\ anonymize = FALSE
    /\ cancelled = FALSE
    /\ report = EmptyReport
    /\ matchers = NoMatchers
    /\ past = <<>>

\* Mistake: the report of the analysis before is taken further.
BeginWithoutReset(f) ==
    /\ phase = "idle" /\ Len(past) < MaxRuns
    /\ phase' = IF f.raw THEN "harvest" ELSE "system"
    /\ folder' = f /\ anonymize' \in BOOLEAN
    /\ cancelled' = FALSE
    /\ UNCHANGED <<report, matchers, past>>

Begin(f) ==
    /\ phase = "idle" /\ Len(past) < MaxRuns
    /\ phase' = IF f.raw THEN "harvest" ELSE "system"
    /\ folder' = f /\ anonymize' \in BOOLEAN
    /\ cancelled' = FALSE
    /\ report' = EmptyReport
    /\ UNCHANGED <<matchers, past>>

\* The user stops the analysis, or its time is over.
Cancel ==
    /\ phase \in Phases /\ ~cancelled
    /\ cancelled' = TRUE
    /\ UNCHANGED <<phase, folder, anonymize, report, matchers, past>>

Return(r, complete) ==
    /\ phase' = "idle"
    /\ report' = r
    /\ past' = Append(past, [folder |-> folder, anonymize |-> anonymize,
                            complete |-> complete, report |-> r])
    /\ UNCHANGED <<folder, anonymize, cancelled>>

\* A look at the context finds it cancelled: what was found so far is returned.
ReturnPartial ==
    /\ phase \in Phases /\ cancelled
    /\ Return(report, FALSE)
    /\ UNCHANGED matchers

\* Phase p turns the report into r.
Run(p, r, next) ==
    /\ phase = p /\ ~cancelled
    /\ report' = r
    /\ phase' = next
    /\ UNCHANGED <<folder, anonymize, cancelled, past>>

SystemRead(r, f) == [Noted(r, "system", f) EXCEPT !.host = f.host]

SystemPhase ==
    /\ Run("system", SystemRead(report, folder), "network")
    /\ UNCHANGED matchers

NetworkRead(r, f) == [Noted(r, "network", f) EXCEPT !.search = f.search]

NetworkPhase ==
    /\ Run("network", NetworkRead(report, folder), "environment")
    /\ UNCHANGED matchers

EnvironmentRead(r, f) == [Noted(r, "environment", f) EXCEPT !.mac = f.mac]

EnvironmentPhase ==
    /\ Run("environment", EnvironmentRead(report, folder), "scan")
    /\ UNCHANGED matchers

\* The scan's results enter the report only if the analysis goes on.
ScanPhase ==
    /\ Run("scan", report, "kerberos")
    /\ UNCHANGED matchers

\* What performSinglePassScan found, with the problem it makes of the keytab.
Scanned(r, f) ==
    WithProblems([Noted(r, "scan", f) EXCEPT !.errors = f.errors, !.quotes = f.quotes],
                 IF "missing" \in f.keytab THEN <<Say("keytab missing")>>
                 ELSE When("noprincipal" \in f.keytab, Say("no suitable principal")))

RealmRead(r, f) ==
    WithProblems([Noted(Scanned(r, f), "kerberos", f) EXCEPT !.realm = f.realm],
                 When(f.keytab = {}, Say("no keytab principal")))

KerberosPhase ==
    /\ Run("kerberos", RealmRead(report, folder), "config")
    /\ UNCHANGED matchers

Configured(r, f) ==
    IF f.conf
    THEN WithFindings([r EXCEPT !.conf = TRUE, !.ad = f.ad, !.adDomain = Folded(f.adDomain)],
                      f.checks)
    ELSE WithProblems(r, <<Say("sssd.conf not found")>>)

\* What sssd.conf and the state of its service have to say.
ServiceChecked(r, f) ==
    WithProblems(Configured(r, f), When(f.stopped, Say("sssd.service is not running")))

\* Mistake: the sources are compared before sssd.conf is read.
CorrelateFirst(r, f) == ServiceChecked(WithFindings(r, CrossChecks(r)), f)

ConfiguredAndCorrelated(r, f) ==
    LET checked == ServiceChecked(r, f)
    IN  WithFindings(checked, CrossChecks(checked))

ConfigRead(r, f) == Noted(ConfiguredAndCorrelated(r, f), "config", f)

ConfigPhase ==
    /\ Run("config", ConfigRead(report, folder), "match")
    /\ UNCHANGED matchers

\* Phase p matches the articles; the order is that of this call's Go map.
MatchInto(p, r, configAvailable, next) ==
    \E order \in Orders(PatternsOf(r.mac)) :
        LET patterns == PatternsOf(r.mac)
            hit == PatternsHit(matchers'[patterns], order, folder.patterns \cap patterns)
        IN  /\ matchers' = Compiled(matchers, patterns, order)
            /\ Run(p, [r EXCEPT !.matched = Matched(r.mac, folder.evidence, hit, configAvailable)],
                   next)

MatchPhase == MatchInto("match", report, TRUE, "advanced")

Harvested(r, f) == [r EXCEPT !.host = f.host, !.search = f.search, !.realm = f.realm]

HarvestPhase ==
    /\ Run("harvest", Harvested(report, folder), "logscan")
    /\ UNCHANGED matchers

LogScanPhase == MatchInto("logscan", Scanned(report, folder), FALSE, "advanced")

Advanced(r, f) ==
    [r EXCEPT !.bursts = f.bursts, !.suggested = Suggested(f.similar, r.matched)]

AdvancedPhase ==
    /\ Run("advanced", Advanced(report, folder), "rules")
    /\ UNCHANGED matchers

RulesPhase ==
    /\ Run("rules", WithFindings(report, folder.rules), "sequences")
    /\ UNCHANGED matchers

SequencesPhase ==
    /\ Run("sequences", WithFindings(report, folder.chains), "summary")
    /\ UNCHANGED matchers

DebugHint == Say("SSSD debug level is low")

Summarized(r) ==
    LET final == [r EXCEPT !.problems = Deduplicated(@), !.warnings = Deduplicated(@)]
    IN  [final EXCEPT !.summary = Summary(final)]

\* The hint is for supportconfigs only, and is added after the summary.
Hinted(r, f) ==
    LET trouble == r.problems # <<>> \/ r.errors # {}
    IN  [r EXCEPT !.warnings =
           @ \o When(trouble /\ ~f.raw /\ r.conf /\ ~f.debug9, DebugHint)]

SummaryPhase ==
    /\ Run("summary", Hinted(Summarized(report), folder), "finalize")
    /\ UNCHANGED matchers

Finalized(r, f, masked) == IF masked THEN Anonymized(WithGraph(r), f) ELSE WithGraph(r)

FinalizePhase ==
    /\ phase = "finalize" /\ ~cancelled
    /\ Return(Finalized(report, folder, anonymize), TRUE)
    /\ UNCHANGED matchers

Next ==
    \/ \E f \in Folders : Begin(f)
    \/ Cancel \/ ReturnPartial
    \/ SystemPhase \/ NetworkPhase \/ EnvironmentPhase \/ ScanPhase \/ KerberosPhase
    \/ ConfigPhase \/ MatchPhase
    \/ HarvestPhase \/ LogScanPhase
    \/ AdvancedPhase \/ RulesPhase \/ SequencesPhase \/ SummaryPhase \/ FinalizePhase

Spec == Init /\ [][Next]_vars

-----------------------------------------------------------------------------
(* CompareConfigsAnonymized: the delta of two reports.                       *)

Keys(r) == {<<x.category, x.text>> : x \in InRange(r.findings)}
           \cup {<<"cluster", Say(b)>> : b \in r.bursts}

Delta(a, b) == [common  |-> Keys(a) \cap Keys(b),
                onlyInA |-> Keys(a) \ Keys(b),
                onlyInB |-> Keys(b) \ Keys(a),
                score   |-> b.summary.score - a.summary.score]

-----------------------------------------------------------------------------
(* What is said of the reports that were returned.                           *)

Completed == {i \in DOMAIN past : past[i].complete}

\* A correlated root cause is the headline, whatever else was found; without one a
\* critical finding is, and no mass of hints hides it from the score
\* (analysis_scoring.go:4-7, 127-165).
HeadlineTellsTheWorst ==
    \A i \in Completed :
        LET r == past[i].report
        IN  /\ HasRoot(r) => /\ r.summary.headline = "ROOT CAUSE"
                             /\ r.summary.cause \in {c.category : c \in InRange(past[i].folder.chains)}
            /\ CountOf(r.findings, "critical") > 0 =>
                   /\ r.summary.headline \in {"ROOT CAUSE", "CRITICAL"}
                   /\ r.summary.score <= 75

\* The articles that a folder calls for.
RightMatches(f) ==
    {a \in Articles :
       /\ a \in LogArticles \/ (~f.raw /\ ConfigPatterns[a] # {})
       /\ a \in LogArticles => a \in f.evidence
       /\ ~f.raw /\ ConfigPatterns[a] # {} => ConfigPatterns[a] \cap f.patterns # {}
       /\ ~f.raw /\ f.mac = "AppArmor" => a \notin SELinuxArticles}

\* The first analysis of a process, and every analysis of raw logs, matches the
\* articles that its folder calls for (matchKBArticlesWithEvidence); a later one may
\* be misled by an automaton compiled before it.
VerdictsAreRight ==
    \A i \in Completed :
        i = 1 \/ past[i].folder.raw =>
            past[i].report.matched = RightMatches(past[i].folder)

\* A suggestion never names an article that matched, in either mode
\* (analyzeKBSuggestions: "suggestions must ADD information").
SuggestionsAreNew ==
    \A i \in DOMAIN past : \A s \in past[i].report.suggested :
        s.tid \notin past[i].report.matched

\* Edges of a returned graph join nodes of it, and no two entities share the identifier of
\* their value, also when anonymizeReport renamed and merged them (analysis_graph.go:8-10).
GraphIsWellFormed == \A i \in DOMAIN past : WellFormed(past[i].report.graph)

\* The name of the host, the domains, the realm and the names of raw logs, in the spellings
\* that anonymizeReport undertakes to hide ("including their case variants", analyzer_core.go:
\* 507-510): as they are stored, the AD domain in lower case; the domains also in capitals,
\* the realm also in lower case, a token of raw logs in both, a name of one part in any.
HiddenSpellings(f) ==
    LET host == IF f.host = None /\ ~f.raw THEN f.node ELSE f.host
        domains == {f.search} \cup (IF f.conf /\ ~f.raw THEN {Folded(f.adDomain)} ELSE {})
        tokens == IF f.raw THEN {host, f.search, f.realm} \cup f.others ELSE {}
    IN  (({host, f.realm} \cup domains \cup tokens) \ {None})
        \cup {Upper[n] : n \in (domains \cup tokens) \ {None}}
        \cup {Lower[n] : n \in ({f.realm} \cup tokens) \ {None}}
        \cup {v \in Names : \E n \in ({host} \cup tokens) \cap Labels : Lower[v] = Lower[n]}

TextNames(s) == UNION {s[i].of : i \in DOMAIN s}

\* The names that a reader of the report sees.  An identifier of the graph has those of its
\* node, see GraphIsWellFormed; a source's is of sssd.conf.
NamesShown(r) ==
    {r.host, r.search, r.realm, r.adDomain} \cup r.quotes
    \cup TextNames(r.problems) \cup TextNames(r.warnings)
    \cup (UNION {x.text.of \cup {e.value : e \in x.entities} : x \in InRange(r.findings)})
    \cup (UNION {s.of : s \in r.suggested})
    \cup {n.value : n \in r.graph.entities}
    \cup (UNION {n.text.of : n \in r.graph.findings})

\* A completed analysis that was to be anonymized shows no name by which its folder
\* identifies the host, in no field, text or entity, in a spelling that anonymizeReport
\* undertakes to hide.  A dotted name in other letters, "Corp.Example", does survive.
MaskedReportHidesIdentity ==
    \A i \in Completed : past[i].anonymize =>
        NamesShown(past[i].report) \cap HiddenSpellings(past[i].folder) = {}

\* The contradictions that runCorrelation reports between sssd.conf, krb5.conf, resolv.conf
\* and the host name are those between the fields of the report itself: it saw their last
\* values (analyzer_correlate.go:69-71).
CrossChecksAreCurrent ==
    \A i \in Completed : ~past[i].anonymize /\ ~past[i].folder.raw =>
        LET r == past[i].report
        IN  InRange(CrossChecks(r)) = {x \in InRange(r.findings) : IsCrossCheck(x)}

\* Comparing a folder with itself shows no difference, in findings or in score
\* (CompareConfigsAnonymized; "phantom deltas" at analysis_scoring.go:112-117).
NoPhantomDelta ==
    \A i, j \in Completed :
        past[i].folder = past[j].folder /\ past[i].anonymize = past[j].anonymize =>
            LET d == Delta(past[i].report, past[j].report)
            IN  d.onlyInA = {} /\ d.onlyInB = {} /\ d.score = 0

\* Two analyses of a folder return the same report ("so the whole report is
\* reproducible", analysis_scoring.go:112-117).
ReportsAreReproducible ==
    \A i, j \in Completed :
        past[i].folder = past[j].folder /\ past[i].anonymize = past[j].anonymize =>
            past[i].report = past[j].report

=============================================================================

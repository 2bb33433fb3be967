# SSSD Inspector in TLA+

SSSD Inspector reads a supportconfig (an archive, an extracted folder, or a bare
directory of SSSD logs), looks for known problems, and shows a report: on a
terminal, in files, or in a Wails desktop shell whose front end is React.  This
directory holds TLA+ models of it, TLC configurations that check them on small
instances, and proofs that TLAPS checks for every value of the constants.

`PROJECT.json` lists for every modelled definition the source lines it stands
for, for every run the properties it checks and for every property a mistake
(an operator of the model) under which the property fails.

## 1. The system

| part | state it keeps | operations | talks to |
|---|---|---|---|
| file cache (`cache.go`) | file texts, insertion order, count; one per process | `GetLines`, `Clear` | every analyzer, from every analysis of the process |
| regex cache (`cache.go`) | compiled expressions | `Get` (panics on a bad one) | scanner, rules engine |
| definition store (`definitions_service.go`) | `rules.yaml`, `catalog.json`, their `.bak`, temporary files | `SaveRuleYAML`, `InstallCatalog`, `ReadRuleYAML` | rule editor, CLI, other processes |
| definition inventory, dry run (`definitions_service.go`, `catalog_resolve.go`) | a catalog cached by content hash | `ListDefinitions`, `GetCatalogInfo`, `TestRulesAgainst` | Definitions Studio hooks |
| rule editor (`useRuleEditor.ts`) | scope, text, last loaded text, flags of calls in flight | load, type, save, validate | definition store |
| analysis runs (`useAnalysis.ts`, `app.go`, `loaders.go`) | busy, run active, progress, report, error; a temporary directory per archive | run, progress event, answer, rejection | pipeline |
| pipeline (`analyzer_core.go`, `logdir.go`) | the report under construction | phases, `finalizeReport`, `Compare` | everything below |
| scanner (`analyzer_singlepass.go`, `ahocorasick.go`) | matches, a process-wide pattern matcher | one pass over the logs | timeline, knowledge base |
| timeline, clusters, sequences (`analysis_*.go`) | aggregated rows, dropped counter | add, sort, cluster, correlate | scanner, pipeline |
| knowledge base (`kb.go`, `analysis_fuzzy.go`) | embedded and external articles | load, match, suggest | scanner, pipeline |
| rules engine (`rules_engine.go`) | none; reads rules files next to the program, in the working directory and in the two definition roots | discover, parse, evaluate | definition store, pipeline |
| configuration checks (`config_*.go`, `analyzer_config_checks.go`) | findings of the report | parse, validate | catalog, pipeline |
| scoring, root cause, graph (`analysis_scoring.go`, `analysis_rootcause.go`, `analysis_graph.go`) | none | functions of the report | pipeline |
| anonymization (`analyzer_core.go`) | none | `anonymizeReport`, `redactTokens` | pipeline |
| entry points, reports, catalog generator, logger, configuration | none that outlives a call | flags, formatting, output | - |

What is hard in it:

* **Concurrency.**  Every bound method of the desktop shell runs on a goroutine
  of its own, so two analyses, or a save and a dry run, overlap; so do processes
  that share the definition files.  The front end is single threaded, but the
  answers to its calls, and the progress events, arrive in any order.
* **Failure.**  A save may be cut by an error, by the end of its process, or by
  the end of the machine.  An extraction may fail half way.
* **Order.**  Log lines come with or without timestamps and are aggregated before
  they are correlated; results are derived from a report that later phases
  still change.
* **Limits.**  Cache capacity, timeline rows, cluster size, window bounds.

The hazards of `PROJECT.json` put each of these at a line, with the property that
would catch it going wrong, or with the reason why none does yet.

## 2. Modules

| module | models | checked by | proved in |
|---|---|---|---|
| `FileCache` | `cache.go` `FileCache`, called by overlapping analyses | `MCFileCache` | `FileCacheProofs` |
| `DefinitionStore` | the steps of `SaveRuleYAML` / `InstallCatalog` / `writeFileAtomic` | `MCDefinitionStore` | `DefinitionStoreProofs` |
| `AtomicDocument` | what those two promise: a document replaced in one step | (refined by `DefinitionStore`) | `DefinitionStoreProofs` |
| `DefinitionScopes` | the scopes, which the next two share | (by both) | - |
| `RuleEditor` | the hook `useRuleEditor`, over the scopes' documents | `MCRuleEditor` | `StudioProofs` |
| `AnalysisRuns` | `useAnalysis`, `App.Analyze`, `extractArchiveToTemp` | `MCAnalysisRuns` | `AnalysisRunsProofs` |
| `Correlation` | timeline aggregation, sort, clusters, cascades | `MCCorrelation` | `LogScanProofs` |
| `RulesEngine` | `rules_engine.go`, and the rules part of `ListDefinitions` and `TestRulesAgainst` | `MCRulesEngine` | `RulesEngineProofs` |
| `KnowledgeBase` | the articles, which of them match, the process-wide automatons | (part of `AnalysisPipeline`) | `AnalysisPipelineProofs` |
| `CorrelationGraph` | the three-layer graph and its masking | (part of `AnalysisPipeline`) | `AnalysisPipelineProofs` |
| `LineScan` | `analyzer_singlepass.go`'s scan, `ahocorasick.go`, `ForEachLine` | `MCLineScan` | `LogScanProofs` |
| `ConfigChecks` | `sssd.conf` parsed and validated, the option catalog looked up | `MCConfigChecks` | `ConfigChecksProofs` |
| `DefinitionsStudio` | the hooks `useDefinitionsInventory` and `useRuleDryRun` with their calls | `MCDefinitionsStudio` | `StudioProofs` |
| `AnalysisPipeline` | `analyzeData`, `analyzeLogsOnly`, `finalizeReport`, `Compare` | `MCAnalysisPipeline` | `AnalysisPipelineProofs` |

**FileCache.**  `GetLines` is split where the code releases its mutex: `Hit` or
`Miss` under the read lock, `ReadLines` or `ReadNothing` with no lock, `StoreWon`
or `StoreLost` under the write lock.  `Begin` is the `Clear` at the start of an
analysis.  `Edit` is another program that changes a file.  `since` and `inflight`
are history variables: what a file has held since an analysis cleared the cache,
and what other calls had read and not stored at that moment.

**DefinitionStore.**  One action per system call; each that may fail has a failing
disjunct.  A file opened with `O_TRUNC` is `Torn` until it is written.  `device` is
the set of documents that a power loss may leave under the name of the target:
the rename is atomic but the directory is not flushed, so each document renamed
since the last power loss is possible, and so is a torn one if the temporary
file was not flushed before it was renamed.  `ProcessDies` ends the saves of one process
between any two steps; `PowerLoss` ends all of them.  The two operations differ only in who
validates the text, so one model serves for both.  The cleanup removes the temporary file
or fails to (`littered`): the code ignores the error of `os.Remove` (`definitions_service.go:904`).

**RuleEditor.**  A user action or the continuation of an `await` is one step.  A
call is a record in `calls`: sent, then answered, refused or rejected by the
backend, then received by the hook, in any order among calls.  A save replaces
its file in one step, which is what `DefinitionStore` shows.

**AnalysisRuns.**  The shell side is the hook; each run has a goroutine `analysis[r]`
that follows `App.Analyze`.  Progress events wait in `ticks[r]`: Wails delivers
them independently of the promise, so one may arrive after the answer.  The
percentages of `analyzeData` are the constant `Milestones`.

**Correlation.**  A log line is the kind of its description plus a timestamp or
`Undated`; the substrings that the chains look for are `signals` of a kind.  The
model keeps the code's positions: first and last rows with a signal, computed
after the sort, and each chain's own choice among them.  `IsStableSort`
describes the result of `sort.SliceStable` instead of an algorithm.  `Sweep` and
`Counted` are recursive functions over the rows, one step per turn of the code's loop.

**RulesEngine.**  One call at a time, an analysis, a dry run or an inventory, over rules
files that `Edit` may change at any moment.  Discovery keeps the code's system calls
apart: `Expand` lists the files of a place, `ReadFile` reads one, `ParseRule` judges one
rule of the text that was read.  `shut` are the places that cannot be looked into, on which
`Stat` fails or whose directory cannot be read: `RulesFilesIn` finds nothing there and says
nothing, as the code does; `ChangeAccess` shuts a place off or opens it at any moment.
Evaluation goes line by line: `Compile` builds the
regexes (and panics), `StartGroup` takes the next set of files and an automaton with
any canonical order, `FeedLine` marks and settles all rules of the group, `Emit`
reports.  A pattern is opaque; a line is the set of patterns found in it, and `Fold` is
the lower case under which literals are registered.  Whether a name or a message
is present and a severity valid are flags of a rule; `TestRulesAgainst` looks its
verdicts up by name, which is `Outcome`.  A place is the path of a candidate and `FilesAt`
the files behind it, so two places may share a file: the code compares paths of
candidates, not the files they expand to.  `DryRunTellsWhatFires` and `NothingIsSwallowed` say
what holds of such a file too.

**AnalysisPipeline.**  The analyses of one process, one after another.  A phase is
the code between two looks at `ctx.Err()`; `Cancel` may come between any two of
them, and `ReturnPartial` is the early return that follows.  A supportconfig goes
through system, network, environment, scan, kerberos, config and match, a
directory of raw logs through harvest and logscan; both then go through advanced,
rules, sequences, summary and finalize.  A `Folder` says what the phases find in
it, so the model keeps what the phases do with it: which field each sets, what
each appends to problems, warnings and findings, and what is computed
from the fields at that point (`CrossChecks`, `Summary`, `BuildGraph`,
`Anonymized`).  A finding keeps the rule that made it, as the code's `RuleID` does, for that
is what tells the cross checks and the sequences from the rest.  What a phase
makes of a report is an operator of report and folder (`SystemRead`,
`ConfigRead`, `Summarized` and so on), so the phases of a folder compose.  A text is what
it says and the names it quotes; masking replaces names.  A name is one spelling of it: `Lower`
and `Upper` take it to another, and `LookedFor` has exactly the spellings that `maskString`
and `applyRedactToken` look for.  That is the value as it is stored (the AD domain in lower
case), one other case of a domain or realm, either case of a token of raw logs, and, of a host name
or token without a dot, any case.  `CrossCheckSources` tells the
contradictions of `runCorrelation` from the finding of one identifier that the AD validator
raises as well (`config_parser.go:348`): theirs are about `krb5.conf`, `resolv.conf` and
`basic-environment.txt`, the validator's is about `sssd.conf`.
`past` is a history variable, the reports returned so far.

**LineScan.**  Text is a sequence of characters here, because what could be wrong is
about characters: which word of a pattern pre-filters it (`Token`), which states of the
automaton take over the outputs of their failure links (`Outputs`), where a
word ends (`MatchBoundSelective`).  `BuildMatchers` builds both automatons, `OpenFile`
starts a file, `ScanLine` trims, filters and settles one line, and `Expire` may come between
any two lines, as the deadline does.  A regular expression is two texts with `.*`
between them, the form in which the embedded articles use one.  As in those and in the
program's own patterns, an expression has a word in it (`ExpressionsHaveWords`): one without is
pre-filtered by its whole text, which a line need not hold, so an article of a user that has
one is outside the model.  `handed` is a history variable:
the lines that were read.

**ConfigChecks.**  `ParseLine` takes one line, and each validator that `analyzeData` calls is
one action, in its order.  The two that need the option catalog run `loadOptionCatalog` once each, and
its system calls are apart: `Stat`, `ReadOverride` (with the process-wide memo of
decoded documents, keyed by root and content), `FallBack`, while `Edit` changes
`catalog.json` of a root between any two of them.  The memo outlives an analysis.  A
value is the sequence of its items, so that numbers, addresses and lists are what the
validators look at.  `past.seen` is a history variable: what each root held
during this analysis.

**DefinitionsStudio.**  An event handler or the continuation of an `await` is one step, as in
`RuleEditor`.  A reload is a record in `reloads` of what its calls have read so far:
`listDefinitions` reads the rules and then the catalogs, `getCatalogInfo` reads the
catalogs at a moment of its own.  Dry runs and the installation are calls in flight too, and
`WriteOutside` is another program.  The studio takes three modules as given: a save or an
installation replaces its file in one step (`DefinitionStore`), the catalog in force
is the first usable one (`ConfigChecks`), and the rules that a dry run fires
are those of `RulesEngine`.

**KnowledgeBase.**  An article matches by evidence in the logs, by patterns in
`sssd.conf`, or by both.  `globalACCache` is `matchers`: for a set of patterns, the
order in which the first analysis compiled it.  The code keys it by the
sorted patterns and then reads the answer with the indices of its own list,
whose order is that of a Go map; `PatternsHit` keeps both orders.

**CorrelationGraph.**  Entities, findings, sources and edges as sets; an identifier
is a tuple of what the code formats or hashes.  `MaskGraph` renames entities,
merges those that became equal and redirects their edges.  An entity's identifier has
its value in lower case, so mentions in several spellings are one entity, with the spelling of the first
(`FirstOf`).

## 3. Runs

| run | instance | shows |
|---|---|---|
| `file_cache` | 2 analyses, 3 files, capacity 2, 2 texts, 1 edit | the three fields of the cache agree; staleness comes only from overlapping calls |
| `definition_store` | 2 saves, 3 documents (1 refused), any call failing | no stray temporary file, backup of what is replaced, refinement of `AtomicDocument` |
| `rule_editor` | 2 scopes, 3 texts (1 refused), 2 calls in flight | dirty flag and caption are true when quiet, saves in order, no button stuck |
| `analysis_runs` | 2 runs, an archive, a folder, a missing path, 3 milestones | panel, outcome, progress, temporary directories, and the button comes back |
| `correlation` | 3 kinds, 3 times or none, 5 matches, 3 rows | nothing lost in aggregation, and what the dropped counter counts; clusters equal those of the raw matches; cascades are ordered, lone cascades are found |
| `rules_engine` | 3 places (one twice, one inside another), 3 files, 4 documents, absent or unreadable, 2 folders, 1 change of a file or of the access to a place | one pass finds what a pass per rule would; the dry run tells the truth or a diagnostic says why not; no rule lost of a place that can be looked into, none loaded twice unless its file is listed twice; the inventory adds up |
| `pipeline` | 2 analyses of 5 folders, anonymized or not, cancelled anywhere; a domain in 3 spellings, another and a host name in 2 | the headline tells the worst finding; matches, cross checks, graph; nothing that names the host is left in a spelling that is looked for; no phantom delta |
| `reproducible` (violated) | the same | a second analysis of a folder matches other articles than the first |
| `config_checks` | 5 `sssd.conf` files, 2 roots with any of 5 contents, 1 edit | parsing keeps what is written; findings quote the line they are about; no value judged twice; verdicts come from a catalog that was in place, and an override that was skipped is said |
| `realm` (violated) | the same | a second AD section is compared with the first one's domain |
| `line_scan` | all pairs of literals of up to 3 characters of 2 letters against all lines of 3 to 5; registries with roles, expressions and generic words against folders | the automaton is exact, the pre-filter hides nothing, the lines kept are the first ones, a scan cut by the deadline is that of the lines read |
| `studio` | 2 states of the rules, 2 scopes, 2 catalogs (1 unusable), 2 targets, 2 reloads and 2 dry runs in flight, 2 writes | a quiet panel is current; a result is that of the last run; no flag stays set without a call |

The bounds are the smallest at which each case happens.  Two overlapping calls
show every race of a protocol whose critical sections mention one key; a third
file is what fills a cache of two and evicts.  Two saves overlap at every pair
of steps.  Two calls in flight are what it takes to reorder answers.  Five matches
against three rows reach the cap, fold repeats, leave a
row for a cause, an effect and something else, and let an event without a row be matched
twice; one kind stands for the cause and one for the effect of every chain, as the chains
read disjoint signals but for two of them.  The three times are one gap
apart, one window apart, and farther.  The four documents
hold a rule that wants all of three patterns, two of them equal but for case; rules of
other files, regex rules of one name twice, one without name, one with a wrong severity,
one without message, one that does not compile; and broken YAML.  The two folders put
the patterns of the first rule on two lines of one file, on two files, and on one
line.  The place of the user is the one whose access may change.  The second analysis of a process is the
first that can meet an automaton another one compiled.  The five folders are a
joined host with log errors; one whose sources contradict each other, with every
kind of finding, the validator's realm mismatch among them,
equal texts in two phases and AppArmor; one without host name,
realm or search domain; one without `sssd.conf`; and raw logs with names that only
the harvest knows.  The five configurations hold sections opened again, repeated keys,
options before the first header, id ranges that touch, overlap and are upside down, two AD
domains, and values that the curated rules, the catalog, or neither knows; five contents of
a root are two catalogs, a document that cannot be used, a file that cannot be read,
and none.  `LineScan` counts a word as selective from two characters
on instead of four, asks for word boundaries up to one instead of four, and keeps
two lines instead of three: over two letters these are the lengths at which words of up
to three characters fall on both sides.  Two reloads are what it takes to answer out of
order, and two writes fall on both sides of what one reload reads; rules, targets
and reloads are alike, so the run is symmetric in them.

Deadlock is checked in `file_cache`, `rule_editor`, `analysis_runs`, `config_checks`, `realm`,
`line_scan` and `studio`.  In `definition_store` every save ends, in `correlation` the scan
does, in `rules_engine` a panic ends the process, and in the two runs of `MCAnalysisPipeline`
the process stops after its last analysis.

**Fairness.**  Only `AnalysisRuns` has a liveness property, and `FairSpec` assumes
weak fairness of each run's backend steps (the goroutine is scheduled and its
reads end) and of the settlement of its promise (Wails answers every call).  The
user need not act, and an event may be late for ever.

## 4. Proofs

Each theorem holds for every value of the constants that satisfies the module's
named assumption; the assumptions say that markers such as `NoLines` are not
texts, that capacities are positive, and that milestones do not decrease.

* `FileCacheProofs`.  `OrderMatchesCache` needs the type invariant, and the fact that
  an evicted key is the head of an order without repetitions.  `StaleOnlyFromOverlap`
  is not inductive: the invariant adds that every cached text, and every text
  read and not yet stored, is among what each running analysis may still be
  told; this is where `Clear` matters.
* `DefinitionStoreProofs`.  The inductive invariant says, per stage, what the
  temporary file holds and whether it is flushed, and that an accepted text is what
  a save past validation carries.  `StoreIsAtomic` maps each step to a step
  of `AtomicDocument` or to a stutter.
* `StudioProofs`.  The editor's invariant says that flags and calls in flight agree,
  that at most one save is outstanding, and, unless loads and saves overlapped, what
  the outstanding call will do to the editor or to the file.  Around it, the
  invariant says that each flag of the panel has its call, that the dry run under way is the
  last one started, and that, unless something was mixed, there is one reload, whose
  reads so far are what the files still hold or will be followed by the reload of a save or an
  installation that is on its way.
* `AnalysisRunsProofs`.  Panel and flags are tied together directly; the outcome
  needs that only the last run is in flight unless runs overlapped; temporary
  directories follow the stage of their run.  Percentages: the events of a run that
  still wait rise, none exceeds the last milestone the run has passed, and none is
  below the bar while the bar shows that run, so taking the next event moves the bar
  up or hands it to another run.
* `LogScanProofs`, `LineScan`.  The automaton is built by a walk within a recursion
  over the texts of the trie; the proof gives each function in closed form.  The failure link of
  a node is the longest shorter node that it ends with (`FailuresAre`), a step leads to
  the longest node that ends the text read so far (`GotoIs`, the walk by induction over the length of the
  state), and a state puts out exactly the patterns that end it
  (`OutputsAre`).  So a pass over a line reports a pattern at each place where it stands
  and nowhere else (`MatchIs`), and `AutomatonExact` adds that folding to lower case moves no
  word boundary.  `NothingIsHidden`: a token is a word of its pattern, or the whole of a literal, so it
  stands where the pattern stands (`TokenStands`), and the second automaton is exact as
  well.  `FirstLinesKept` takes both, for they say that a line is handled for exactly the roles that it
  speaks of; its invariant `KeptLines` says that what is kept is the first different
  ones of these, by rank.  `ScanIsAPrefix` needs the place of the scan: what was handed on
  is all lines of the files before, then those of the present file before its next line
  (`Progress`), unless the deadline passed, which it never takes back.  Together these are `ScanInv`.
  The assumptions: what is lower case is not folded again, blanks, dots and stars are no letters and
  have no other case, letters keep a word together, a text is a sequence of bytes, and an expression has a word.
* `LogScanProofs`, `Correlation`.  Aggregation: rows have distinct events, each counts its matches, and
  the dropped counter is the number of matches without a row (`Tally`), hence that of the distinct
  events among them exactly if none was matched twice; the sort
  permutes the rows, so it keeps this.  Bursts: after each row, the bursts swept so far
  are maximal runs of the times seen, closed ones end for good and the open one
  of a kind is the last (`SweepInv`, by induction over the rows); with no row dropped, the times
  of the rows of a kind are those of its matches.  Cascades: a rule that names an
  order fires only on two rows that the predicate accepts, rule by rule through
  the choice of positions; and where cause and effect have one row each, there is no choice.
* `RulesEngineProofs`.  Each rule has seen the lines of its files up to the place of the
  scan, all of them once its group was scanned, and none before; its matcher is
  satisfied exactly if one of those satisfies the rule, and holds the first such
  line as evidence.  The hits it keeps between lines do no harm because they carry a
  line number that is less than that of the next line; the shared automaton does
  none because its literals are those of the group, in whatever order, and each
  posts to every rule that registered it.  Loading has invariants of its own.  What was
  loaded stands in a document at the number it carries; a file is still to come, is at
  hand, or was dealt with rule by rule, and of a file listed once only one of these;
  a name that was loaded before was reported (`LoadingInv`).  The files of which this is said are
  those listed by a place that could be looked into during the whole call (`Reachable`).  The rows of an inventory
  count what was parsed so far at each place and the numbers of rules loaded are the sum
  over the places passed (`CountingInv`).  `DryRunsAreHonest` joins these with what the scan
  finds.  `WhatIsListedOnceIsLoadedOnce` states the condition under which "one file is never
  loaded twice" is true (see section 5): no two places share a file.
* `AnalysisPipelineProofs`.  A report is followed through the phases: the invariant
  says, for each phase, that the identity fields are either empty or those of the
  folder (`host` from the first phase on, `search` after the next, and so on), what
  was matched once the matching phase is over, and that no automaton is compiled
  before the first match of the process.  `AnonymizedReportsHideIdentity` then needs that masking covers
  all these names, in each spelling that is looked for, on the only path that returns a complete report;
  `FirstVerdictsAreRight` that the first analysis reads
  the order it compiled itself; `GraphsAreWellFormed` that merging entities
  redirects every edge and leaves one entity of each identifier.
  A second invariant, `Determined`, says that the report under
  construction is, in every field but the matched articles, the suggestions and the graph, the
  one that `Expected` computes from phase and folder.  What is true of that function is
  then true of every report: the headline (`HeadlinesTellTheWorst`), the
  contradictions (`ContradictionsAreCurrent`, for no other phase raises a finding with the identifier
  and the file of one), and that two complete reports of one
  folder do not differ (`ComparisonHasNoPhantoms`), which also needs that deduplication
  keeps one finding of each text, whichever comes first.  The assumptions are that the
  placeholders are not names of a host, that there are finitely many patterns, and
  that a folder has finitely many errors.
* `ConfigChecksProofs`.  The memo answers with the content it was asked about, because it
  is keyed by that content; what a root held during an analysis only grows;
  and each candidate that `loadOptionCatalog` has passed was seen without a usable catalog.
  From these follow `CatalogsWereInPlace` and `UnusableOverridesAreSaid`, for any
  number of roots, contents and edits.  `ValuesAreJudgedOnce` needs that the curated
  rules and the catalog pass judge disjoint options, whatever the catalog says.  The other
  three properties rest on `Faithful`: after each line, the values the parser keeps of a
  section and an option are those written under the headers that name it, in the order of the
  lines (`ReadUpTo`); a finding that a validator made quotes one of them; and the
  domains that the sort arranged are those with a usable range, so that if none of them crosses its
  neighbour then none crosses any other.  The assumptions name what a configuration is: a sequence of
  lines whose option names are known in lower case, and numbers that are integers.

The type invariants of the modules with proofs, `NeverTruncated`, `EntriesAreStable` and
`SuggestionsAreNew` are proved and have no run of their own; each was model-checked before
it was proved.

**Induction.**  What recursive functions compute (`Sweep`, `Counted`, `Deduplicated`, `TextsOf`,
`Candidates`, `PresentOf`, `Total`, and in `LineScan` `walk`, `fail`, `out`, `node` and `Before`) is proved for every input too.  The provers here cannot
use an induction theorem that takes a predicate as parameter, so the proof modules derive a
form of it that quantifies over sets instead: a non-empty set of naturals has a least
element (`Least`, from the well-foundedness of `<`), hence a set that holds 0 and
each successor holds every natural up to a bound (`Induction`), and a function
defined by a step exists and satisfies its equation (`RecursionExists`).

**Left to TLC.**  The liveness property `ButtonComesBack`, which needs `ENABLED`.  Every other
property of a passing run is the subject of a theorem.

## 5. Where the code and its documents disagree

Two disagreements are shown by runs, `reproducible` and `realm` (see `findings`).  Others met
while modelling, by line:

* `analyzer_core.go:57` says that the cache is cleared "to ensure fresh data".  A read
  of an overlapping analysis that began before the `Clear` is stored after it;
  `StaleOnlyFromOverlap` states how stale a text may be.
* `docs/api.md:450` says "Single analysis at a time"; Ctrl+Enter (`App.tsx:59`) starts
  another while one is running, and neither `run` nor `App.Analyze` refuses it.
  `AnalysisRuns` lets runs overlap for that reason.
* The comment of `TestRulesAgainst` (`definitions_service.go:617-620`) says that a rule
  with `match: all` fires when its patterns are present in the scanned files; they
  must be on one line.
* A dry run shows the verdict of the last rule of a name for all rules of that name,
  and the diagnostic is on one of them; `DryRunTellsWhatFires` states this.
* `useRuleEditor.ts:62` puts the answer of a load into the editor whatever scope is selected
  by then, while lines 79-80 say that the editor shows the selected scope; two loads answered
  out of order mix scopes.  `QuietEditorIsHonest` excludes exactly the overlap.
* `analysis_sequences.go:430-431` says of the TLS cascade that "the TLS layer must come
  first".  `tlsPos` starts at 0 (`:402`) and is set only if negative (`:407`), so the
  first row stands for the TLS row, whatever it is: the cascade also fires when TLS fails
  after SASL, or never.  `CascadesAreOrdered` leaves this rule out.
* `rules_engine.go:507` compiles a pattern with `cache.go:46`, which panics on a bad one, although
  `rules_engine.go:20-21` says that invalid rules are skipped.
* `rules_engine.go:124-126` says that duplicate locations are collapsed "so one file is never
  loaded twice".  Lines 146-158 compare the paths of candidates; a directory is expanded later
  (`:371-373`).  If the working directory is itself a rules directory with a `rules.yaml`, that
  file is a candidate and a member of another one: its rules are loaded, and reported,
  twice, and as both copies have one path no diagnostic says so (`:421`).  The instance of
  `rules_engine` has such a file.
* `analysis_scoring.go:164` gives raw logs with errors the headline `[HEALTHY]`.
* `analysis_timeline.go:32` and the notice at `analyzer_singlepass.go:504-506` speak
  of *distinct* events dropped; the counter also counts each repeat of an
  event that has no row.  `EveryMatchIsCounted` says of what it is the number, and that it is
  the number of distinct events only if none of them was matched twice; the run has logs of both kinds.
* `rules_engine.go:20-21` says that what is skipped is "never silently swallowed".  `rulesFilesIn`
  (`:364-373`) takes every error of `Stat`, and a directory that cannot be read, for a place
  without rules, and so does the inventory (`definitions_service.go:333-336`): a rules directory that
  the user may not enter is passed over without a diagnostic.  `NothingIsSwallowed` speaks of
  the files of places that can be looked into.
* `analyzer_core.go:507-510` says that domain and host are masked "including their case variants".  Of a
  dotted name only the spellings of `LookedFor` are: `config_parser.go:324-326` stores the AD
  domain in lower case, so a `Corp.Example` in a snippet or a log line keeps its letters in an
  anonymized report, and its entity keeps them in lower case in its identifier; nor is the lower case of a
  mixed-case search domain looked for, though the text of a contradiction quotes it so.
  `MaskedReportHidesIdentity` is about the spellings of `HiddenSpellings`.
* The AD validator raises `correlate:krb5-realm-mismatch` (`config_parser.go:348`) by a comparison of its
  own, before `runCorrelation` raises the same identifier from the final fields: a report may hold the
  first without the second.  `CrossChecksAreCurrent` is about the second.
* `writeFileAtomic` says nothing of a temporary file that cannot be removed
  (`definitions_service.go:902-905`): it then stays beside the definitions.
* `analysis_sequences.go:13-14` says a chain needs at least two signals; the
  offline chain fires on one.
* `definitions_service.go:482-484` says that the previous content is preserved.  Two
  overlapping saves, or a current file that cannot be read, lose it;
  `ReplacedIsBackedUp` states the condition under which it holds.
* `analyzer_core.go:264-271` computes the summary after deduplication "so the counts
  are final", then `analyzer_core.go:291` may append a warning, which no count includes.
* `analysis_graph.go:7` and `:42` and `types.go:179` say that the graph is built after
  anonymization; `finalizeReport` builds it before, as its own comment says.
  Entities are then re-keyed, findings keep the identifier hashed from
  their raw message.
* Two embedded articles carry the identifier `TID-000019823`, and external articles
  without one are merged by the loader that reports them; the model takes
  identifiers to be distinct.
* `analyzer_config_checks.go:144` compares each id range with its neighbour only: of a range that
  holds several others, only the first pair is reported.  `OverlapsAreNoticed` states what
  this does guarantee.
* A bad `ad_gpo_access_control` is curated and so skipped by the catalog pass, but the
  curated rule looks at AD sections and at the first occurrence only: elsewhere no pass
  reports it.  `id_provider` is judged at its first occurrence only, too.
* The diagnostics of `catalog_resolve.go:128-134` say that the embedded catalog is used, also when the
  per-system override is; an error of `Stat` other than "not there" leaves no diagnostic.
* `analyzer_config_checks.go:62` says of `splitList` that items are lower-cased; they are not.
* `id_provider = ad, ldap` passes the structure check and is not LDAP for the semantic rules.
* `utils.go:16` calls the deadline the "maximum time to spend scanning a single file"; one
  deadline covers all files (`analyzer_singlepass.go:365`), and the report does not say that it passed.
* `analyzer_singlepass.go:92-105` and `:155-160` say that the pre-filter cannot hide a match.
  That holds for the forms of `LineScan`; it need not hold for an expression whose escape sticks
  to a word (`\sKDC` yields `sKDC`), or with an alternation or an optional word.  The embedded
  articles have none of these, external ones may.
* `DefinitionsStudio.tsx:27` and `useDefinitionsInventory.ts:95` say that the panel does not claim an
  old release and that a save shows without a manual reload.  When two reloads overlap the older
  answer may arrive last, and the first `finally` ends the loading state of both;
  `QuietPanelIsCurrent` states the condition.

## 6. Plan

1. `Extraction`: members of an archive under flattened names, failed copies
   (`loaders.go:84`), and the two temporary directories of `runCompare` (`main_cli.go:174`).
2. `kb.go`: loading and merging of articles, with override by identifier.

Done: the cache, the store and the editor, the analysis runs, the correlation, the
pipeline with knowledge base and graph, the rules engine, the configuration checks, the
line scan and the Definitions Studio, each with its proofs.

## 7. Not modelled

Formatting (reports, themes, styles), the catalog generator and the text extraction
of the analyzers are functions of their input, tested by the repository's own
tests.  The regex cache is a map filled on demand.  `config/`, `errors/`,
`logger/` and `scenario_expect.go` hold data or output.  The components of
`PROJECT.json` say this one by one.

Within the pipeline, names are compared as wholes: names that are substrings of
others, `parentDomain`, several domains in one `search` line, and the patterns that
recognise mail and MAC addresses are left to the tests.  Of a dotted host name in letters that
are not looked for, the code still masks the first label, which the model leaves whole.  The code masks
the paths of findings, not those of the graph's sources and entities (`analyzer_core.go:660-703`): a
source is a line of `sssd.conf`, always by that name, and an entity's path is that of its first
finding, a file that a validator or a rule reads (`rules_engine.go:537-539`); the model leaves it out.
Expressions of `LineScan` are two texts around `.*`; the pattern at `analyzer_logs.go:103`, with a
class and an optional character, is not of that form, nor is one with an optional word.  Similarity scores
of suggestions are part of the folder, and so are the findings of single
validators, which `ConfigChecks` models; `TopCategory` and the choice of words of a
headline are not modelled.  Of the studio, the button that validates the files, the rows of
articles in the inventory and the log lines of a dry run are left out, and of the
configuration checks the option name suggested for an unknown one.  A studio of the model stays mounted;
`App.tsx:144-156` unmounts it when the view changes, so what is said of its flags, and that no
two dry runs are under way, holds of each mounted one.

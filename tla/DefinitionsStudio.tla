--------------------------- MODULE DefinitionsStudio ---------------------------
(***************************************************************************)
(* The Definitions Studio around the rule editor: the hooks                *)
(* useDefinitionsInventory and useRuleDryRun with the backend functions    *)
(* they call.  The shell is single threaded: an event handler or the       *)
(* continuation of an await is one step.  Backend calls run on goroutines  *)
(* of their own and answer in any order.  Of the editor, which RuleEditor  *)
(* models, only the saves are seen here: one at a time, each followed by   *)
(* the callback onSaved.  The rules files are one value: whose rules they  *)
(* are and which ones overrule others is in RulesEngine.                   *)
(***************************************************************************)
EXTENDS Naturals, DefinitionScopes

CONSTANTS Rules,       \* states of the rules files
          Documents,   \* files to install as catalog.json
          Usable,      \* those that decode and have options
          Embedded,    \* the catalog in the binary
          Targets,     \* supportconfigs to run the rules against
          ReloadIds,   \* names for the reloads in flight, as many as there may be
          MaxRuns,     \* bound: dry runs in flight
          MaxWrites    \* bound: writes to the definitions

ASSUME StudioAssumption ==
    /\ Usable \subseteq Documents
    /\ Nothing \notin Rules \cup Documents \cup Targets \cup {Embedded}
    /\ Embedded \notin Documents
    /\ ReloadIds # {} /\ MaxRuns \in Nat \ {0} /\ MaxWrites \in Nat

VARIABLES rules,    \* the rules files
          catalogs, \* catalog.json of each scope
          panel,    \* the state of useDefinitionsInventory
          bench,    \* the state of useRuleDryRun
          reloads,  \* reloads in flight
          install,  \* the installation under way
          runs,     \* dry runs in flight, with their targets
          saved,    \* a save took effect, its answer is on the way
          history   \* history the properties refer to

studio == <<rules, catalogs, panel, bench, reloads, install, runs, saved, history>>
files == <<rules, catalogs>>

RunIds == 1..MaxRuns
Catalogs == [Scopes -> Documents \cup {Nothing}]

\* loadOptionCatalog, as ConfigChecks shows it step by step.
Effective(of) ==
    LET used == {s \in Scopes : of[s] \in Usable} IN
    IF used = {} THEN Embedded
    ELSE IF FirstScope \in used THEN of[FirstScope] ELSE of[CHOOSE s \in used : TRUE]

\* One Promise.all: what listDefinitions has read so far, and getCatalogInfo's answer.
NoReload == [list |-> "free", rules |-> Nothing, catalogs |-> Nothing, info |-> Nothing]
NoInstall == [stage |-> "none", scope |-> Nothing, file |-> Nothing]

InFlight == {r \in ReloadIds : reloads[r] # NoReload}
Running == {d \in RunIds : runs[d] # Nothing}

InitStudio ==
    /\ rules \in Rules /\ catalogs \in [Scopes -> Usable \cup {Nothing}]
    /\ panel = [rules |-> Nothing, catalogs |-> Nothing, release |-> Nothing,
                loading |-> TRUE, failed |-> FALSE, installing |-> FALSE]
    /\ bench = [target |-> Nothing, running |-> FALSE, result |-> Nothing]
    /\ \E first \in ReloadIds : reloads = [r \in ReloadIds |->
           IF r = first THEN [NoReload EXCEPT !.list = "sent"] ELSE NoReload]
    /\ install = NoInstall /\ runs = [d \in RunIds |-> Nothing] /\ saved = FALSE
    /\ history = [mixed |-> FALSE,      \* reloads overlapped, or another program wrote
               lastRun |-> Nothing,  \* target of the dry run started last
               writes |-> 0]

-----------------------------------------------------------------------------
(* The inventory.                                                            *)

\* reload(): whoever calls it, it starts, also beside another one.  The state of the
\* panel is given, as the caller may have changed it.
StartReload(state) ==
    \E r \in ReloadIds :
       /\ reloads[r] = NoReload
       /\ reloads' = [reloads EXCEPT ![r] = [NoReload EXCEPT !.list = "sent"]]
       /\ panel' = [state EXCEPT !.loading = TRUE, !.failed = FALSE]
       /\ history' = [history EXCEPT !.mixed = InFlight # {}]

\* The button, which is disabled while loading.
Reload ==
    /\ ~panel.loading /\ StartReload(panel)
    /\ UNCHANGED <<files, bench, install, runs, saved>>

\* The editor's save takes effect; its answer makes the shell call onSaved.
SaveRuleYAML(v) ==
    /\ ~saved /\ v # rules /\ history.writes < MaxWrites
    /\ rules' = v /\ saved' = TRUE
    /\ history' = [history EXCEPT !.writes = @ + 1]
    /\ UNCHANGED <<catalogs, panel, bench, reloads, install, runs>>

\* Mistake: no onSaved.
OnSavedSilent ==
    /\ saved /\ saved' = FALSE
    /\ UNCHANGED <<files, panel, bench, reloads, install, runs, history>>

OnSaved ==
    /\ saved /\ saved' = FALSE /\ StartReload(panel)
    /\ UNCHANGED <<files, bench, install, runs>>

ReadBy(r, call) ==
    /\ reloads' = [reloads EXCEPT ![r] = call]
    /\ UNCHANGED <<files, panel, bench, install, runs, saved, history>>

\* ListDefinitions: the rows of the rules, and later those of the catalogs.
ListRules(r) ==
    /\ reloads[r].list = "sent"
    /\ ReadBy(r, [reloads[r] EXCEPT !.list = "rules", !.rules = rules])

ListCatalogs(r) ==
    /\ reloads[r].list = "rules"
    /\ ReadBy(r, [reloads[r] EXCEPT !.list = "answered", !.catalogs = catalogs])

GetCatalogInfo(r) ==
    /\ reloads[r] # NoReload /\ reloads[r].info = Nothing
    /\ ReadBy(r, [reloads[r] EXCEPT !.info = Effective(catalogs)])

ReloadAnswered(r) ==
    /\ reloads[r].list = "answered" /\ reloads[r].info # Nothing
    /\ panel' = [panel EXCEPT !.rules = reloads[r].rules, !.catalogs = reloads[r].catalogs,
                              !.release = reloads[r].info, !.loading = FALSE]
    /\ reloads' = [reloads EXCEPT ![r] = NoReload]
    /\ UNCHANGED <<files, bench, install, runs, saved, history>>

\* Either call fails before both have answered.
ReloadRejected(r) ==
    /\ reloads[r] # NoReload
    /\ panel' = [panel EXCEPT !.failed = TRUE, !.loading = FALSE]
    /\ reloads' = [reloads EXCEPT ![r] = NoReload]
    /\ UNCHANGED <<files, bench, install, runs, saved, history>>

-----------------------------------------------------------------------------
(* A catalog to install.                                                     *)

\* A click on the button of a scope; the chooser opens.
InstallCatalog(s) ==
    /\ ~panel.installing
    /\ panel' = [panel EXCEPT !.installing = TRUE]
    /\ install' = [stage |-> "choosing", scope |-> s, file |-> Nothing]
    /\ UNCHANGED <<files, bench, reloads, runs, saved, history>>

Choose(f) ==
    /\ install.stage = "choosing"
    /\ install' = [install EXCEPT !.stage = "sent", !.file = f]
    /\ UNCHANGED <<files, panel, bench, reloads, runs, saved, history>>

\* Mistake: the early return leaves the flag.
CancelForgetful ==
    /\ install.stage = "choosing"
    /\ install' = NoInstall
    /\ UNCHANGED <<files, panel, bench, reloads, runs, saved, history>>

\* The chooser is closed, or cannot be opened.
Cancel ==
    /\ install.stage = "choosing"
    /\ install' = NoInstall /\ panel' = [panel EXCEPT !.installing = FALSE]
    /\ UNCHANGED <<files, bench, reloads, runs, saved, history>>

\* The backend: a document that is usable replaces the catalog (DefinitionStore has the
\* backup and the order of the writes).
WriteCatalog ==
    /\ install.stage = "sent" /\ install.file \in Usable /\ history.writes < MaxWrites
    /\ catalogs' = [catalogs EXCEPT ![install.scope] = install.file]
    /\ install' = [NoInstall EXCEPT !.stage = "answered"]
    /\ history' = [history EXCEPT !.writes = @ + 1]
    /\ UNCHANGED <<rules, panel, bench, reloads, runs, saved>>

InstallAnswered ==
    /\ install.stage = "answered"
    /\ StartReload([panel EXCEPT !.installing = FALSE])
    /\ install' = NoInstall
    /\ UNCHANGED <<files, bench, runs, saved>>

\* It refuses any other, and it may fail to read or to write; then nothing is reloaded.
InstallRejected ==
    /\ install.stage = "sent"
    /\ panel' = [panel EXCEPT !.installing = FALSE]
    /\ install' = NoInstall
    /\ UNCHANGED <<files, bench, reloads, runs, saved, history>>

-----------------------------------------------------------------------------
(* The dry run.                                                              *)

\* Typed, browsed for, or handed over by the analysis view.
SetTarget(t) ==
    /\ t # bench.target
    /\ bench' = [bench EXCEPT !.target = t]
    /\ UNCHANGED <<files, panel, reloads, install, runs, saved, history>>

Started ==
    /\ bench.target # Nothing
    /\ \E d \in RunIds :
          /\ runs[d] = Nothing /\ \A c \in 1..(d - 1) : runs[c] # Nothing
          /\ runs' = [runs EXCEPT ![d] = bench.target]
    /\ bench' = [bench EXCEPT !.running = TRUE]
    /\ history' = [history EXCEPT !.lastRun = bench.target]
    /\ UNCHANGED <<files, panel, reloads, install, saved>>

\* Mistake: the button stays enabled.
RunAlways == Started

Run == ~bench.running /\ Started

\* TestRulesAgainst has run the rules, as RulesEngine describes.
RunAnswered(d) ==
    /\ runs[d] # Nothing
    /\ bench' = [bench EXCEPT !.running = FALSE, !.result = runs[d]]
    /\ runs' = [runs EXCEPT ![d] = Nothing]
    /\ UNCHANGED <<files, panel, reloads, install, saved, history>>

\* The target cannot be opened or unpacked.
RunRejected(d) ==
    /\ runs[d] # Nothing
    /\ bench' = [bench EXCEPT !.running = FALSE, !.result = Nothing]
    /\ runs' = [runs EXCEPT ![d] = Nothing]
    /\ UNCHANGED <<files, panel, reloads, install, saved, history>>

Clear ==
    /\ bench.result # Nothing
    /\ bench' = [bench EXCEPT !.result = Nothing]
    /\ UNCHANGED <<files, panel, reloads, install, runs, saved, history>>

-----------------------------------------------------------------------------

\* Other programs write definitions, usable or not, or remove them.
WriteDefinitions ==
    /\ history.writes < MaxWrites
    /\ \/ rules' \in Rules /\ UNCHANGED catalogs
       \/ \E s \in Scopes, f \in Documents \cup {Nothing} :
            catalogs' = [catalogs EXCEPT ![s] = f] /\ UNCHANGED rules
    /\ history' = [history EXCEPT !.mixed = TRUE, !.writes = @ + 1]
    /\ UNCHANGED <<panel, bench, reloads, install, runs, saved>>

NextStudio ==
    \/ Reload \/ OnSaved \/ \E v \in Rules : SaveRuleYAML(v)
    \/ \E r \in ReloadIds : \/ ListRules(r) \/ ListCatalogs(r) \/ GetCatalogInfo(r)
                            \/ ReloadAnswered(r) \/ ReloadRejected(r)
    \/ \E s \in Scopes : InstallCatalog(s)
    \/ \E f \in Documents : Choose(f)
    \/ Cancel \/ WriteCatalog \/ InstallAnswered \/ InstallRejected
    \/ Run \/ Clear \/ \E t \in Targets : SetTarget(t)
    \/ \E d \in RunIds : RunAnswered(d) \/ RunRejected(d)
    \/ WriteDefinitions

StudioSpec == InitStudio /\ [][NextStudio]_studio

-----------------------------------------------------------------------------
(* Properties.                                                               *)

\* "The panel must not keep claiming the old release" and "a save must be visible in the
\* inventory without an extra manual reload": once everything has settled, the inventory and
\* the release are those of the files, or the panel shows an error, unless reloads overlapped
\* or another program wrote; a reload that nothing overlaps makes them true again.
QuietPanelIsCurrent ==
    InFlight = {} /\ ~saved /\ install = NoInstall /\ ~history.mixed /\ ~panel.failed =>
      /\ panel.rules = rules /\ panel.catalogs = catalogs
      /\ panel.release = Effective(catalogs)

\* No result outlives a later run: whatever is typed or cleared meanwhile, the result shown
\* once no dry run is under way is that of the run started last.
ResultIsOfTheLastRun ==
    Running = {} /\ bench.result # Nothing => bench.result = history.lastRun

\* No button stays disabled for ever: a panel that is loading, installing or running waits
\* for a call, and at most one installation and one dry run are ever under way.
EveryFlagHasACall ==
    /\ panel.loading => InFlight # {}
    /\ panel.installing <=> install # NoInstall
    /\ bench.running <=> Running # {}
    /\ \A c, d \in Running : c = d
=============================================================================

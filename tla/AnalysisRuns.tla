----------------------------- MODULE AnalysisRuns -----------------------------
(***************************************************************************)
(* An analysis as the desktop shell runs it: the hook useAnalysis on one   *)
(* side, a goroutine in App.Analyze per call on the other.  Progress       *)
(* events carry no run and reach the shell independently of the promise    *)
(* that ends the run.  What analyzeData finds is left out: here it is the  *)
(* percentages it reports.  The application context is never cancelled     *)
(* while the shell can still show a result, and os.RemoveAll succeeds.     *)
(***************************************************************************)
EXTENDS Naturals, Sequences

CONSTANTS Runs,        \* bound: presses of Analyze in one session
          Archives,    \* paths of supportconfig archives
          Folders,     \* paths of extracted supportconfigs
          Missing,     \* acceptable paths os.Stat fails on
          NoPath,      \* the path is empty or refused by its extension
          Milestones,  \* the percentages analyzeData reports, in order
          Nothing

Paths == Archives \cup Folders \cup Missing

\* Percentages App.Analyze, extractArchiveToTemp and finalizeReport report.
Start == 0
Decompressing == 5
Sanitizing == 95
Complete == 100
Percentages == {Start, Decompressing, Sanitizing, Complete}
                   \cup {Milestones[i] : i \in 1..Len(Milestones)}

\* What the progress panel shows; whose it is only the model knows.
Bars == [run : Runs, percentage : Percentages]

ASSUME AnalysisAssumption ==
    /\ NoPath \notin Paths
    /\ Nothing \notin Runs \cup Bars
    /\ Archives \cap Folders = {} /\ Missing \cap (Archives \cup Folders) = {}
    /\ Milestones \in Seq(Decompressing..Sanitizing)
    /\ \A i, j \in 1..Len(Milestones) : i <= j => Milestones[i] <= Milestones[j]

VARIABLES form,      \* the path and the Anonymize box
          ui,        \* the rest of the hook's state
          analysis,  \* the goroutine of every run
          ticks,     \* progress events on their way to the shell, per run
          tempDirs,  \* runs whose extracted archive is on disk
          latest,    \* history: the last run pressed
          overlap    \* history: it was pressed while another was in flight

vars == <<form, ui, analysis, ticks, tempDirs, latest, overlap>>

InFlight == {r \in Runs : analysis[r].pc \notin {"new", "settled"}}

Init ==
    /\ form = [path |-> NoPath, anonymize |-> FALSE]
    /\ ui = [busy |-> FALSE, runActive |-> FALSE, progress |-> Nothing,
             report |-> Nothing, error |-> Nothing]
    /\ analysis = [r \in Runs |-> [pc |-> "new", path |-> NoPath, anonymize |-> FALSE, at |-> 0]]
    /\ ticks = [r \in Runs |-> <<>>]
    /\ tempDirs = {}
    /\ latest = Nothing
    /\ overlap = FALSE

Emit(r, percentages) == ticks' = [ticks EXCEPT ![r] = @ \o percentages]
Goto(r, pc) == analysis' = [analysis EXCEPT ![r].pc = pc]

-----------------------------------------------------------------------------
(* The shell.                                                                *)

\* Typing is disabled while busy; the file dialog's shortcut and a drop are not.
SetPath(p) ==
    /\ p # form.path
    /\ form' = [form EXCEPT !.path = p]
    /\ UNCHANGED <<ui, analysis, ticks, tempDirs, latest, overlap>>

SetAnonymize ==
    /\ ~ui.busy
    /\ form' = [form EXCEPT !.anonymize = ~@]
    /\ UNCHANGED <<ui, analysis, ticks, tempDirs, latest, overlap>>

\* Mistake: a new run leaves the outcome of the one before on the screen.
RunKeepsOutcome(r) ==
    /\ analysis[r].pc = "new"
    /\ form.path # NoPath
    /\ analysis' = [analysis EXCEPT ![r] = [pc |-> "called", path |-> form.path,
                                            anonymize |-> form.anonymize, at |-> 0]]
    /\ ui' = [ui EXCEPT !.busy = TRUE, !.runActive = TRUE,
                        !.progress = [run |-> r, percentage |-> Start]]
    /\ latest' = r
    /\ overlap' = (InFlight # {})
    /\ UNCHANGED <<form, ticks, tempDirs>>

\* The button is disabled while busy, Ctrl+Enter is not: run() has no guard.
Run(r) ==
    /\ analysis[r].pc = "new"
    /\ form.path # NoPath
    /\ analysis' = [analysis EXCEPT ![r] = [pc |-> "called", path |-> form.path,
                                            anonymize |-> form.anonymize, at |-> 0]]
    /\ ui' = [busy |-> TRUE, runActive |-> TRUE,
              progress |-> [run |-> r, percentage |-> Start],
              report |-> Nothing, error |-> Nothing]
    /\ latest' = r
    /\ overlap' = (InFlight # {})
    /\ UNCHANGED <<form, ticks, tempDirs>>

\* Mistake: a progress event is shown whether or not a run is active.
ProgressUnchecked(r) ==
    /\ ticks[r] # <<>>
    /\ ticks' = [ticks EXCEPT ![r] = Tail(@)]
    /\ ui' = [ui EXCEPT !.progress = [run |-> r, percentage |-> Head(ticks[r])]]
    /\ UNCHANGED <<form, analysis, tempDirs, latest, overlap>>

\* A progress event arrives; the shell cannot tell whose it is.
Progress(r) ==
    /\ ticks[r] # <<>>
    /\ ticks' = [ticks EXCEPT ![r] = Tail(@)]
    /\ ui' = IF ui.runActive
             THEN [ui EXCEPT !.progress = [run |-> r, percentage |-> Head(ticks[r])]]
             ELSE ui
    /\ UNCHANGED <<form, analysis, tempDirs, latest, overlap>>

\* The finally block of run().
Idle(outcome) == [outcome EXCEPT !.busy = FALSE, !.runActive = FALSE, !.progress = Nothing]

Answered(r) ==
    /\ analysis[r].pc = "answered"
    /\ Goto(r, "settled")
    /\ ui' = Idle([ui EXCEPT !.report = r])
    /\ UNCHANGED <<form, ticks, tempDirs, latest, overlap>>

\* Mistake: the failure path returns before the finally block.
RejectedStuck(r) ==
    /\ analysis[r].pc = "rejected"
    /\ Goto(r, "settled")
    /\ ui' = [ui EXCEPT !.error = r]
    /\ UNCHANGED <<form, ticks, tempDirs, latest, overlap>>

Rejected(r) ==
    /\ analysis[r].pc = "rejected"
    /\ Goto(r, "settled")
    /\ ui' = Idle([ui EXCEPT !.error = r])
    /\ UNCHANGED <<form, ticks, tempDirs, latest, overlap>>

-----------------------------------------------------------------------------
(* App.Analyze.                                                              *)

\* os.Stat, and the directory an archive is extracted to.
StatFails(r) ==
    /\ analysis[r].pc = "called"
    /\ analysis[r].path \in Missing
    /\ Goto(r, "rejected")
    /\ Emit(r, <<Start>>)
    /\ UNCHANGED <<form, ui, tempDirs, latest, overlap>>

OpenFolder(r) ==
    /\ analysis[r].pc = "called"
    /\ analysis[r].path \in Folders
    /\ Goto(r, "analyzing")
    /\ Emit(r, <<Start>>)
    /\ UNCHANGED <<form, ui, tempDirs, latest, overlap>>

MkdirTempFails(r) ==
    /\ analysis[r].pc = "called"
    /\ analysis[r].path \in Archives
    /\ Goto(r, "rejected")
    /\ Emit(r, <<Start>>)
    /\ UNCHANGED <<form, ui, tempDirs, latest, overlap>>

MkdirTemp(r) ==
    /\ analysis[r].pc = "called"
    /\ analysis[r].path \in Archives
    /\ Goto(r, "extracting")
    /\ Emit(r, <<Start>>)
    /\ tempDirs' = tempDirs \cup {r}
    /\ UNCHANGED <<form, ui, latest, overlap>>

\* Mistake: the error return forgets the half-extracted files.
ExtractFailsLeaky(r) ==
    /\ analysis[r].pc = "extracting"
    /\ Goto(r, "rejected")
    /\ \E seen \in {<<>>, <<Decompressing>>} : Emit(r, seen)
    /\ UNCHANGED <<form, ui, tempDirs, latest, overlap>>

\* The archive cannot be opened, is not xz, or its tar is damaged.
ExtractFails(r) ==
    /\ analysis[r].pc = "extracting"
    /\ Goto(r, "rejected")
    /\ \E seen \in {<<>>, <<Decompressing>>} : Emit(r, seen)
    /\ tempDirs' = tempDirs \ {r}
    /\ UNCHANGED <<form, ui, latest, overlap>>

Extract(r) ==
    /\ analysis[r].pc = "extracting"
    /\ Goto(r, "analyzing")
    /\ Emit(r, <<Decompressing>>)
    /\ UNCHANGED <<form, ui, tempDirs, latest, overlap>>

\* analyzeData enters its next phase.
Phase(r) ==
    /\ analysis[r].pc = "analyzing"
    /\ analysis[r].at < Len(Milestones)
    /\ analysis' = [analysis EXCEPT ![r].at = @ + 1]
    /\ Emit(r, <<Milestones[analysis[r].at + 1]>>)
    /\ UNCHANGED <<form, ui, tempDirs, latest, overlap>>

\* Mistake: completion is announced before the report is sanitized.
CompleteEarly(r) ==
    /\ analysis[r].pc = "analyzing"
    /\ analysis[r].at = Len(Milestones)
    /\ Goto(r, "answered")
    /\ Emit(r, IF analysis[r].anonymize THEN <<Complete, Sanitizing>> ELSE <<Complete>>)
    /\ tempDirs' = tempDirs \ {r}
    /\ UNCHANGED <<form, ui, latest, overlap>>

\* finalizeReport, the last event, and the deferred os.RemoveAll.
Finish(r) ==
    /\ analysis[r].pc = "analyzing"
    /\ analysis[r].at = Len(Milestones)
    /\ Goto(r, "answered")
    /\ Emit(r, IF analysis[r].anonymize THEN <<Sanitizing, Complete>> ELSE <<Complete>>)
    /\ tempDirs' = tempDirs \ {r}
    /\ UNCHANGED <<form, ui, latest, overlap>>

-----------------------------------------------------------------------------
Backend(r) ==
    \/ StatFails(r) \/ OpenFolder(r) \/ MkdirTempFails(r) \/ MkdirTemp(r)
    \/ ExtractFails(r) \/ Extract(r) \/ Phase(r) \/ Finish(r)

Settle(r) == Answered(r) \/ Rejected(r)

Next ==
    \/ \E p \in Paths \cup {NoPath} : SetPath(p)
    \/ SetAnonymize
    \/ \E r \in Runs : Run(r) \/ Progress(r) \/ Settle(r) \/ Backend(r)

Spec == Init /\ [][Next]_vars

\* The goroutine is scheduled, its reads end, and its promise is settled.  The
\* user need not do anything, and an event may be late for ever.
Fairness == \A r \in Runs : WF_vars(Backend(r)) /\ WF_vars(Settle(r))

FairSpec == Spec /\ Fairness

-----------------------------------------------------------------------------

TypeOK ==
    /\ form \in [path : Paths \cup {NoPath}, anonymize : BOOLEAN]
    /\ ui \in [busy : BOOLEAN, runActive : BOOLEAN, progress : Bars \cup {Nothing},
               report : Runs \cup {Nothing}, error : Runs \cup {Nothing}]
    /\ analysis \in [Runs -> [pc : {"new", "called", "extracting", "analyzing",
                                    "answered", "rejected", "settled"},
                              path : Paths \cup {NoPath}, anonymize : BOOLEAN,
                              at : 0..Len(Milestones)]]
    /\ \A r \in Runs : analysis[r].pc # "new" => analysis[r].path \in Paths
    /\ ticks \in [Runs -> Seq(Percentages)]
    /\ tempDirs \subseteq Runs
    /\ latest \in Runs \cup {Nothing} /\ overlap \in BOOLEAN

\* useAnalysis.ts:57-65, "a late event must not resurrect the progress panel of
\* a finished run": once no run is active the panel is gone, the button is
\* enabled, and both stay so whatever events are still on their way.
NoResurrectedPanel ==
    /\ ui.busy = ui.runActive
    /\ ui.runActive <=> ui.progress # Nothing

\* useAnalysis.ts:117-135: without overlapping runs the screen tells the story of
\* the last run pressed: busy and empty while it is in flight, then its report
\* or its error and never both.
ScreenMatchesLastRun ==
    (~overlap /\ latest # Nothing) =>
        IF latest \in InFlight
        THEN ui.busy /\ ui.report = Nothing /\ ui.error = Nothing
        ELSE /\ ~ui.busy
             /\ \/ ui.report = latest /\ ui.error = Nothing
                \/ ui.error = latest /\ ui.report = Nothing

\* app.go:118-119 and the error returns of loaders.go:18-55: an extracted archive
\* is on disk only while its own run may still read it, however the run ends.
NoLeftoverDirs ==
    tempDirs = {r \in Runs : /\ analysis[r].pc \in {"extracting", "analyzing"}
                             /\ analysis[r].path \in Archives}

\* The percentages of one run never go back while its bar is on the screen, the
\* first event included: it is sent after the shell has drawn its own 0.
ProgressNeverGoesBack ==
    [][(/\ ui.progress # Nothing /\ ui'.progress # Nothing
        /\ ui.progress.run = ui'.progress.run)
         => ui.progress.percentage <= ui'.progress.percentage]_vars

\* useAnalysis.ts:131-135: whatever becomes of the backend's steps, of the archive
\* and of other runs, a busy shell becomes idle again.
ButtonComesBack == ui.busy ~> ~ui.busy

=============================================================================

-------------------------- MODULE AnalysisRunsProofs --------------------------
(***************************************************************************)
(* Proofs about analyses in the desktop shell, for any number of presses,  *)
(* any paths and any milestones.  The screen tells the truth because,      *)
(* without overlap, no run but the last one pressed is in flight.          *)
(* Percentages only rise because what a run has reported is never more     *)
(* than what it may still report.                                          *)
(***************************************************************************)
EXTENDS AnalysisRuns, Integers, SequenceTheorems, TLAPS

SoleRun == ~overlap => \A r \in InFlight : r = latest

IInv == TypeOK /\ NoResurrectedPanel /\ NoLeftoverDirs /\ SoleRun /\ ScreenMatchesLastRun

PCs == {"new", "called", "extracting", "analyzing", "answered", "rejected", "settled"}
Analyses == [pc : PCs, path : Paths \cup {NoPath}, anonymize : BOOLEAN, at : 0..Len(Milestones)]
Screens == [busy : BOOLEAN, runActive : BOOLEAN, progress : Bars \cup {Nothing},
            report : Runs \cup {Nothing}, error : Runs \cup {Nothing}]
Called(state) == \A r \in Runs : state[r].pc # "new" => state[r].path \in Paths

USE AnalysisAssumption

-----------------------------------------------------------------------------
(* What the helpers do to one run.                                           *)

LEMMA TypeParts ==
    TypeOK <=> /\ form \in [path : Paths \cup {NoPath}, anonymize : BOOLEAN]
               /\ ui \in Screens
               /\ analysis \in [Runs -> Analyses]
               /\ Called(analysis)
               /\ ticks \in [Runs -> Seq(Percentages)]
               /\ tempDirs \subseteq Runs
               /\ latest \in Runs \cup {Nothing} /\ overlap \in BOOLEAN
  BY DEF TypeOK, Screens, Analyses, PCs, Called

\* The run keeps everything but its place, every other run is left alone.
LEMMA GotoMoves ==
    ASSUME TypeOK, NEW r \in Runs, NEW pc \in PCs, Goto(r, pc), analysis[r].pc # "new"
    PROVE  /\ analysis' \in [Runs -> Analyses] /\ Called(analysis')
           /\ analysis'[r].pc = pc /\ analysis'[r].path = analysis[r].path
           /\ analysis'[r].at = analysis[r].at
           /\ \A s \in Runs \ {r} : analysis'[s] = analysis[s]
<1>1. analysis \in [Runs -> Analyses] /\ Called(analysis)
  BY TypeParts
<1>2. analysis' = [analysis EXCEPT ![r] = [analysis[r] EXCEPT !.pc = pc]]
  BY <1>1 DEF Goto
<1>3. /\ [analysis[r] EXCEPT !.pc = pc] \in Analyses
      /\ [analysis[r] EXCEPT !.pc = pc].pc = pc
      /\ [analysis[r] EXCEPT !.pc = pc].path = analysis[r].path
      /\ [analysis[r] EXCEPT !.pc = pc].at = analysis[r].at
  BY <1>1 DEF Analyses
<1> QED
  BY <1>1, <1>2, <1>3 DEF Called

LEMMA EmitType ==
    ASSUME TypeOK, NEW r \in Runs, NEW seen \in Seq(Percentages), Emit(r, seen)
    PROVE  ticks' \in [Runs -> Seq(Percentages)]
  BY DEF TypeOK, Emit

LEMMA Reported ==
    /\ <<>> \in Seq(Percentages) /\ <<Start>> \in Seq(Percentages)
    /\ <<Decompressing>> \in Seq(Percentages) /\ <<Complete>> \in Seq(Percentages)
    /\ <<Sanitizing, Complete>> \in Seq(Percentages)
    /\ \A i \in 1..Len(Milestones) : <<Milestones[i]>> \in Seq(Percentages)
  BY DEF Percentages

LEMMA IdleScreen ==
    ASSUME NEW screen \in Screens
    PROVE  /\ Idle(screen) \in Screens
           /\ ~Idle(screen).busy /\ ~Idle(screen).runActive /\ Idle(screen).progress = Nothing
           /\ Idle(screen).report = screen.report /\ Idle(screen).error = screen.error
  BY DEF Idle, Screens

\* A bar that is drawn is not the empty panel.
LEMMA DrawnBar ==
    ASSUME NEW r \in Runs, NEW p \in Percentages
    PROVE  LET bar == [run |-> r, percentage |-> p] IN bar \in Bars /\ bar # Nothing
  BY DEF Bars

-----------------------------------------------------------------------------
(* Steps of the backend: no run enters or leaves the set in flight.          *)

LEMMA Advanced ==
    ASSUME NEW call \in Analyses, NEW i \in 0..Len(Milestones)
    PROVE  LET next == [call EXCEPT !.at = i] IN
           next \in Analyses /\ next.pc = call.pc /\ next.path = call.path
<1> DEFINE next == [call EXCEPT !.at = i]
<1>1. next = [pc |-> call.pc, path |-> call.path, anonymize |-> call.anonymize, at |-> i]
  BY DEF Analyses
<1>2. call.pc \in PCs /\ call.path \in Paths \cup {NoPath} /\ call.anonymize \in BOOLEAN
  BY DEF Analyses
<1>3. next \in Analyses
  BY <1>1, <1>2 DEF Analyses
<1> QED
  BY <1>1, <1>3

Busy == {"called", "extracting", "analyzing", "answered", "rejected"}

Keeps == UNCHANGED <<form, ui, latest, overlap>>

\* The directory of a run is there when its place and its path ask for it.
DirKept(r, pc) ==
    /\ tempDirs' \subseteq Runs
    /\ r \in tempDirs' <=> pc \in {"extracting", "analyzing"} /\ analysis[r].path \in Archives
    /\ \A s \in Runs \ {r} : s \in tempDirs' <=> s \in tempDirs

LEMMA MovedRun ==
    ASSUME TypeOK, NoLeftoverDirs, NEW r \in Runs, analysis[r].pc \in Busy,
           NEW pc \in Busy, Goto(r, pc),
           NEW seen \in Seq(Percentages), Emit(r, seen),
           Keeps, DirKept(r, pc)
    PROVE  TypeOK' /\ NoLeftoverDirs' /\ InFlight' = InFlight /\ Keeps
<1>1. /\ analysis' \in [Runs -> Analyses] /\ Called(analysis')
      /\ analysis'[r].pc = pc /\ analysis'[r].path = analysis[r].path
      /\ \A s \in Runs \ {r} : analysis'[s] = analysis[s]
  BY GotoMoves DEF Busy, PCs
<1>2. ticks' \in [Runs -> Seq(Percentages)]
  BY EmitType
<1>3. TypeOK'
  BY <1>1, <1>2 DEF TypeOK, Keeps, DirKept, Analyses, PCs, Called
<1>4. NoLeftoverDirs'
  BY <1>1 DEF NoLeftoverDirs, DirKept, Busy
<1>5. InFlight' = InFlight
  BY <1>1 DEF InFlight, Busy
<1> QED
  BY <1>3, <1>4, <1>5

LEMMA BackendStep ==
    ASSUME TypeOK, NoLeftoverDirs, NEW r \in Runs, Backend(r)
    PROVE  TypeOK' /\ NoLeftoverDirs' /\ InFlight' = InFlight /\ Keeps
<1>a. r \in tempDirs <=> analysis[r].pc \in {"extracting", "analyzing"} /\ analysis[r].path \in Archives
  BY DEF NoLeftoverDirs
<1>b. tempDirs \subseteq Runs
  BY DEF TypeOK
<1>1. CASE StatFails(r)
  <2>1. DirKept(r, "rejected")
    BY <1>1, <1>a, <1>b DEF StatFails, DirKept
  <2> QED
    BY <1>1, <2>1, MovedRun, Reported DEF StatFails, Busy, Keeps
<1>2. CASE OpenFolder(r)
  <2>1. DirKept(r, "analyzing")
    BY <1>2, <1>a, <1>b DEF OpenFolder, DirKept
  <2> QED
    BY <1>2, <2>1, MovedRun, Reported DEF OpenFolder, Busy, Keeps
<1>3. CASE MkdirTempFails(r)
  <2>1. DirKept(r, "rejected")
    BY <1>3, <1>a, <1>b DEF MkdirTempFails, DirKept
  <2> QED
    BY <1>3, <2>1, MovedRun, Reported DEF MkdirTempFails, Busy, Keeps
<1>4. CASE MkdirTemp(r)
  <2>1. DirKept(r, "extracting")
    BY <1>4, <1>a, <1>b DEF MkdirTemp, DirKept
  <2> QED
    BY <1>4, <2>1, MovedRun, Reported DEF MkdirTemp, Busy, Keeps
<1>5. CASE ExtractFails(r)
  <2>1. DirKept(r, "rejected")
    BY <1>5, <1>a, <1>b DEF ExtractFails, DirKept
  <2> QED
    BY <1>5, <2>1, MovedRun, Reported DEF ExtractFails, Busy, Keeps
<1>6. CASE Extract(r)
  <2>1. DirKept(r, "analyzing")
    BY <1>6, <1>a, <1>b DEF Extract, DirKept
  <2> QED
    BY <1>6, <2>1, MovedRun, Reported DEF Extract, Busy, Keeps
<1>7. CASE Phase(r)
  <2> DEFINE next == [analysis[r] EXCEPT !.at = analysis[r].at + 1]
  <2>1. analysis \in [Runs -> Analyses] /\ Called(analysis) /\ Len(Milestones) \in Nat
    BY TypeParts
  <2>2. analysis[r].at \in 0..Len(Milestones) /\ analysis[r].at < Len(Milestones)
    BY <1>7, <2>1 DEF Phase, Analyses
  <2>3. analysis[r].at + 1 \in 1..Len(Milestones) /\ analysis[r].at + 1 \in 0..Len(Milestones)
    BY <2>1, <2>2
  <2>4. analysis' = [analysis EXCEPT ![r] = next]
    BY <1>7, <2>1 DEF Phase
  <2>5. next \in Analyses /\ next.pc = analysis[r].pc /\ next.path = analysis[r].path
    BY <2>1, <2>3, Advanced
  <2>6. /\ analysis' \in [Runs -> Analyses] /\ Called(analysis')
        /\ \A s \in Runs : analysis'[s].pc = analysis[s].pc /\ analysis'[s].path = analysis[s].path
    BY <2>1, <2>4, <2>5 DEF Called
  <2>7. ticks' \in [Runs -> Seq(Percentages)]
    BY <1>7, <2>3, EmitType, Reported DEF Phase
  <2>8. UNCHANGED <<form, ui, tempDirs, latest, overlap>>
    BY <1>7 DEF Phase
  <2>9. TypeOK'
    BY <2>6, <2>7, <2>8 DEF TypeOK, Analyses, PCs, Called
  <2>10. NoLeftoverDirs' /\ InFlight' = InFlight
    BY <2>6, <2>8 DEF NoLeftoverDirs, InFlight
  <2> QED
    BY <2>8, <2>9, <2>10 DEF Keeps
<1>8. CASE Finish(r)
  <2>1. DirKept(r, "answered")
    BY <1>8, <1>a, <1>b DEF Finish, DirKept
  <2> QED
    BY <1>8, <2>1, MovedRun, Reported DEF Finish, Busy, Keeps
<1> QED
  BY <1>1, <1>2, <1>3, <1>4, <1>5, <1>6, <1>7, <1>8 DEF Backend

-----------------------------------------------------------------------------
(* Steps of the shell.                                                       *)

LEMMA RunStep ==
    ASSUME IInv, NEW r \in Runs, Run(r)
    PROVE  IInv'
<1> DEFINE call == [pc |-> "called", path |-> form.path, anonymize |-> form.anonymize, at |-> 0]
           bar == [run |-> r, percentage |-> Start]
<1>1. /\ form.path \in Paths /\ form.anonymize \in BOOLEAN
      /\ analysis \in [Runs -> Analyses] /\ Called(analysis) /\ analysis[r].pc = "new"
  BY TypeParts DEF IInv, Run
<1>2. Len(Milestones) \in Nat /\ call \in Analyses
  BY <1>1 DEF Analyses, PCs
<1>3. /\ analysis' = [analysis EXCEPT ![r] = call]
      /\ ui' = [busy |-> TRUE, runActive |-> TRUE, progress |-> bar,
                report |-> Nothing, error |-> Nothing]
      /\ latest' = r /\ overlap' = (InFlight # {})
      /\ UNCHANGED <<form, ticks, tempDirs>>
  BY DEF Run
<1>4. /\ analysis' \in [Runs -> Analyses] /\ Called(analysis')
      /\ analysis'[r].pc = "called"
      /\ \A s \in Runs \ {r} : analysis'[s] = analysis[s]
  BY <1>1, <1>2, <1>3 DEF Called
<1>5. bar \in Bars /\ bar # Nothing
  BY DrawnBar DEF Percentages
<1>6. ui' \in Screens
  BY <1>3, <1>5 DEF Screens
<1>7. TypeOK'
  BY <1>3, <1>4, <1>6 DEF IInv, TypeOK, Screens, Analyses, PCs, Called
<1>8. NoResurrectedPanel'
  BY <1>3, <1>5 DEF NoResurrectedPanel
<1>9. NoLeftoverDirs'
  BY <1>1, <1>3, <1>4 DEF IInv, NoLeftoverDirs
<1>10. InFlight' = InFlight \cup {r}
  BY <1>1, <1>4 DEF InFlight
<1>11. SoleRun'
  BY <1>3, <1>10 DEF SoleRun
<1>12. ScreenMatchesLastRun'
  BY <1>3, <1>10 DEF ScreenMatchesLastRun
<1> QED
  BY <1>7, <1>8, <1>9, <1>11, <1>12 DEF IInv

LEMMA ProgressStep ==
    ASSUME IInv, NEW r \in Runs, Progress(r)
    PROVE  IInv'
<1> DEFINE bar == [run |-> r, percentage |-> Head(ticks[r])]
<1>1. /\ ticks \in [Runs -> Seq(Percentages)] /\ ticks[r] # <<>> /\ ui \in Screens
      /\ ticks' = [ticks EXCEPT ![r] = Tail(ticks[r])]
      /\ UNCHANGED <<form, analysis, tempDirs, latest, overlap>>
  BY TypeParts DEF IInv, Progress
<1>2. Head(ticks[r]) \in Percentages /\ Tail(ticks[r]) \in Seq(Percentages)
  BY <1>1
<1>3. ticks' \in [Runs -> Seq(Percentages)]
  BY <1>1, <1>2
<1>4. bar \in Bars /\ bar # Nothing
  BY <1>2, DrawnBar
<1>5. /\ ui' \in Screens /\ ui'.busy = ui.busy /\ ui'.runActive = ui.runActive
      /\ ui'.report = ui.report /\ ui'.error = ui.error
      /\ ui'.progress = (IF ui.runActive THEN bar ELSE ui.progress)
  BY <1>1, <1>4 DEF Progress, Screens
<1>6. TypeOK'
  BY <1>1, <1>3, <1>5 DEF IInv, TypeOK, Screens
<1>7. NoResurrectedPanel'
  BY <1>4, <1>5 DEF IInv, NoResurrectedPanel
<1>8. NoLeftoverDirs' /\ InFlight' = InFlight
  BY <1>1 DEF IInv, NoLeftoverDirs, InFlight
<1>9. SoleRun' /\ ScreenMatchesLastRun'
  BY <1>1, <1>5, <1>8 DEF IInv, SoleRun, ScreenMatchesLastRun
<1> QED
  BY <1>6, <1>7, <1>8, <1>9 DEF IInv

\* Both outcomes: the run leaves the set in flight and the screen goes idle.
LEMMA SettleStep ==
    ASSUME IInv, NEW r \in Runs, analysis[r].pc \in {"answered", "rejected"},
           Goto(r, "settled"),
           NEW screen \in Screens, ui' = Idle(screen),
           \/ screen.report = r /\ screen.error = ui.error
           \/ screen.error = r /\ screen.report = ui.report,
           UNCHANGED <<form, ticks, tempDirs, latest, overlap>>
    PROVE  IInv'
<1>1. /\ analysis' \in [Runs -> Analyses] /\ Called(analysis')
      /\ analysis'[r].pc = "settled" /\ analysis'[r].path = analysis[r].path
      /\ \A s \in Runs \ {r} : analysis'[s] = analysis[s]
  BY GotoMoves DEF PCs, IInv
<1>2. /\ ui' \in Screens /\ ~ui'.busy /\ ~ui'.runActive /\ ui'.progress = Nothing
      /\ ui'.report = screen.report /\ ui'.error = screen.error
  BY IdleScreen
<1>3. TypeOK'
  BY <1>1, <1>2 DEF IInv, TypeOK, Screens, Analyses, PCs, Called
<1>4. NoResurrectedPanel'
  BY <1>2 DEF NoResurrectedPanel, Screens
<1>5. NoLeftoverDirs'
  BY <1>1 DEF IInv, NoLeftoverDirs
<1>6. r \in InFlight /\ InFlight' = InFlight \ {r}
  BY <1>1 DEF InFlight
<1>7. SoleRun'
  BY <1>6 DEF IInv, SoleRun
<1>8. ScreenMatchesLastRun'
  <2>1. SUFFICES ASSUME ~overlap, latest # Nothing
                 PROVE  /\ latest \notin InFlight' /\ ~ui'.busy
                        /\ \/ ui'.report = latest /\ ui'.error = Nothing
                           \/ ui'.error = latest /\ ui'.report = Nothing
    BY DEF ScreenMatchesLastRun
  <2>2. r = latest
    BY <1>6, <2>1 DEF IInv, SoleRun
  <2>3. ui.report = Nothing /\ ui.error = Nothing
    BY <1>6, <2>1, <2>2 DEF IInv, ScreenMatchesLastRun
  <2> QED
    BY <1>2, <1>6, <2>2, <2>3
<1> QED
  BY <1>3, <1>4, <1>5, <1>7, <1>8 DEF IInv

-----------------------------------------------------------------------------
LEMMA InitInvariant == Init => IInv
<1> SUFFICES ASSUME Init PROVE IInv
  OBVIOUS
<1>1. Len(Milestones) \in Nat /\ <<>> \in Seq(Percentages)
  BY Reported
<1>2. [pc |-> "new", path |-> NoPath, anonymize |-> FALSE, at |-> 0] \in Analyses
  BY <1>1 DEF Analyses, PCs
<1>3. analysis \in [Runs -> Analyses] /\ Called(analysis)
  BY <1>2 DEF Init, Called
<1>4. ui \in Screens
  BY DEF Init, Screens
<1>5. TypeOK
  BY <1>1, <1>3, <1>4, TypeParts DEF Init
<1>6. InFlight = {}
  BY DEF Init, InFlight
<1> QED
  BY <1>5, <1>6 DEF IInv, Init, NoResurrectedPanel, NoLeftoverDirs, SoleRun, ScreenMatchesLastRun

LEMMA NextInvariant == IInv /\ [Next]_vars => IInv'
<1> SUFFICES ASSUME IInv, [Next]_vars PROVE IInv'
  OBVIOUS
<1>1. CASE \E p \in Paths \cup {NoPath} : SetPath(p)
  <2>1. /\ form' \in [path : Paths \cup {NoPath}, anonymize : BOOLEAN]
        /\ UNCHANGED <<ui, analysis, ticks, tempDirs, latest, overlap>>
    BY <1>1 DEF IInv, TypeOK, SetPath
  <2> QED
    BY <2>1 DEF IInv, TypeOK, NoResurrectedPanel, NoLeftoverDirs, SoleRun, ScreenMatchesLastRun, InFlight
<1>2. CASE SetAnonymize
  <2>1. /\ form' \in [path : Paths \cup {NoPath}, anonymize : BOOLEAN]
        /\ UNCHANGED <<ui, analysis, ticks, tempDirs, latest, overlap>>
    BY <1>2 DEF IInv, TypeOK, SetAnonymize
  <2> QED
    BY <2>1 DEF IInv, TypeOK, NoResurrectedPanel, NoLeftoverDirs, SoleRun, ScreenMatchesLastRun, InFlight
<1>3. ASSUME NEW r \in Runs, Run(r) PROVE IInv'
  BY <1>3, RunStep
<1>4. ASSUME NEW r \in Runs, Progress(r) PROVE IInv'
  BY <1>4, ProgressStep
<1>5. ASSUME NEW r \in Runs, Settle(r) PROVE IInv'
  <2>1. ui \in Screens
    BY TypeParts DEF IInv
  <2>2. CASE Answered(r)
    <3>1. [ui EXCEPT !.report = r] \in Screens
      BY <2>1 DEF Screens
    <3>2. [ui EXCEPT !.report = r].report = r /\ [ui EXCEPT !.report = r].error = ui.error
      BY <2>1 DEF Screens
    <3> QED
      BY <2>2, <3>1, <3>2, SettleStep DEF Answered
  <2>3. CASE Rejected(r)
    <3>1. [ui EXCEPT !.error = r] \in Screens
      BY <2>1 DEF Screens
    <3>2. [ui EXCEPT !.error = r].error = r /\ [ui EXCEPT !.error = r].report = ui.report
      BY <2>1 DEF Screens
    <3> QED
      BY <2>3, <3>1, <3>2, SettleStep DEF Rejected
  <2> QED
    BY <1>5, <2>2, <2>3 DEF Settle
<1>6. ASSUME NEW r \in Runs, Backend(r) PROVE IInv'
  <2>1. TypeOK' /\ NoLeftoverDirs' /\ InFlight' = InFlight /\ Keeps
    BY <1>6, BackendStep DEF IInv
  <2> QED
    BY <2>1 DEF IInv, Keeps, NoResurrectedPanel, SoleRun, ScreenMatchesLastRun
<1>7. CASE UNCHANGED vars
  BY <1>7 DEF vars, IInv, TypeOK, NoResurrectedPanel, NoLeftoverDirs, SoleRun, ScreenMatchesLastRun, InFlight
<1> QED
  BY <1>1, <1>2, <1>3, <1>4, <1>5, <1>6, <1>7 DEF Next

-----------------------------------------------------------------------------
(* Percentages: what a run has reported never exceeds what it may report next. *)

\* The most a run has reported in its place.
ReachedAt(pc, at) ==
    IF pc \in {"new", "called", "extracting"} THEN Start
    ELSE IF pc # "analyzing" THEN Complete
    ELSE IF at = 0 THEN Decompressing ELSE Milestones[at]

Reached(call) == ReachedAt(call.pc, call.at)

AtMost(events, p) == \A i \in 1..Len(events) : events[i] <= p
AtLeast(events, p) == \A i \in 1..Len(events) : p <= events[i]
Rising(events) == \A i, j \in 1..Len(events) : i <= j => events[i] <= events[j]

\* The events of a run rise up to where it is, and its bar is not beyond any of them.
InOrder(r) ==
    /\ analysis[r].pc = "new" => ticks[r] = <<>>
    /\ analysis[r].pc \in {"new", "called", "extracting"} => analysis[r].at = 0
    /\ Rising(ticks[r]) /\ AtMost(ticks[r], Reached(analysis[r]))
    /\ ui.progress # Nothing /\ ui.progress.run = r =>
         /\ analysis[r].pc # "new"
         /\ ui.progress.percentage <= Reached(analysis[r])
         /\ AtLeast(ticks[r], ui.progress.percentage)

Ordered == \A r \in Runs : InOrder(r)

LEMMA Numbers ==
    /\ Percentages \subseteq Nat
    /\ \A call \in Analyses : Reached(call) \in Nat /\ Reached(call) <= Complete
<1>1. Len(Milestones) \in Nat
  OBVIOUS
<1>2. \A i \in 1..Len(Milestones) : Milestones[i] \in Decompressing..Sanitizing
  BY ElementOfSeq DEF AnalysisAssumption
<1>3. Percentages \subseteq Nat
  <2>1. Decompressing..Sanitizing \subseteq Nat
    BY DEF Decompressing, Sanitizing
  <2>2. {Milestones[i] : i \in 1..Len(Milestones)} \subseteq Nat
    BY <1>2, <2>1
  <2> QED
    BY <2>2 DEF Percentages, Start, Decompressing, Sanitizing, Complete
<1>4. ASSUME NEW pc \in PCs, NEW at \in 0..Len(Milestones)
      PROVE  ReachedAt(pc, at) \in Nat /\ ReachedAt(pc, at) <= Complete
  <2>1. CASE at # 0
    <3>1. Milestones[at] \in Decompressing..Sanitizing
      BY <1>1, <1>2, <2>1
    <3>2. \A x \in Decompressing..Sanitizing : x \in Nat /\ x <= 100
      BY DEF Decompressing, Sanitizing
    <3>3. Milestones[at] \in Nat /\ Milestones[at] <= 100
      BY <3>1, <3>2
    <3> QED
      BY <2>1, <3>3 DEF ReachedAt, Start, Complete
  <2>2. CASE at = 0
    BY <2>2 DEF ReachedAt, Start, Decompressing, Complete
  <2> QED
    BY <2>1, <2>2
<1>5. ASSUME NEW call \in Analyses PROVE call.pc \in PCs /\ call.at \in 0..Len(Milestones)
  BY DEF Analyses
<1> QED
  BY <1>3, <1>4, <1>5 DEF Reached

LEMMA Appended ==
    ASSUME NEW old \in Seq(Nat), NEW more \in Seq(Nat), NEW p \in Nat, NEW q \in Nat, p <= q,
           Rising(old), AtMost(old, p), Rising(more), AtLeast(more, p), AtMost(more, q)
    PROVE  /\ Rising(old \o more) /\ AtMost(old \o more, q)
           /\ \A b \in Nat : b <= p /\ AtLeast(old, b) => AtLeast(old \o more, b)
<1> DEFINE all == old \o more
           m == Len(old)
           n == Len(more)
<1>1. all \in Seq(Nat) /\ Len(all) = m + n /\ m \in Nat /\ n \in Nat
  OBVIOUS
<1>2. \A i \in 1..m : all[i] = old[i] /\ old[i] \in Nat /\ old[i] <= p
  BY DEF AtMost
<1>3. \A k \in 1..n : all[m + k] = more[k] /\ more[k] \in Nat /\ p <= more[k] /\ more[k] <= q
  BY DEF AtLeast, AtMost
<1>4. \A i, j \in 1..m : i <= j => old[i] <= old[j]
  BY DEF Rising
<1>5. \A i, j \in 1..n : i <= j => more[i] <= more[j]
  BY DEF Rising
<1>6. AtMost(old \o more, q) <=> \A i \in 1..Len(all) : all[i] <= q
  BY DEF AtMost
<1>7. \A b \in Nat : /\ AtLeast(old, b) <=> \A i \in 1..m : b <= old[i]
                    /\ AtLeast(old \o more, b) <=> \A i \in 1..Len(all) : b <= all[i]
  BY DEF AtLeast
<1>8. Rising(old \o more) <=> \A i, j \in 1..Len(all) : i <= j => all[i] <= all[j]
  BY DEF Rising
<1> HIDE DEF all, m, n
<1>9. ASSUME NEW i \in 1..Len(all)
      PROVE  i \in 1..m \/ (i - m \in 1..n /\ all[i] = more[i - m])
  <2>1. i \in Int /\ 1 <= i /\ i <= m + n
    BY <1>1
  <2>2. CASE i <= m
    BY <1>1, <2>1, <2>2
  <2>3. CASE i > m
    <3>1. i - m \in 1..n /\ m + (i - m) = i
      BY <1>1, <2>1, <2>3
    <3> QED
      BY <1>3, <3>1
  <2> QED
    BY <1>1, <2>1, <2>2, <2>3
<1>10. AtMost(old \o more, q)
  BY <1>2, <1>3, <1>6, <1>9
<1>11. ASSUME NEW b \in Nat, b <= p, AtLeast(old, b) PROVE AtLeast(old \o more, b)
  <2>1. SUFFICES ASSUME NEW i \in 1..Len(all) PROVE b <= all[i]
    BY <1>7
  <2>2. CASE i \in 1..m
    <3>1. \A k \in 1..m : b <= old[k]
      BY <1>11 DEF AtLeast, m
    <3>2. all[i] = old[i]
      BY <1>2, <2>2
    <3> QED
      BY <2>2, <3>1, <3>2
  <2>3. CASE i - m \in 1..n /\ all[i] = more[i - m]
    BY <1>3, <1>11, <2>3
  <2> QED
    BY <1>9, <2>2, <2>3
<1>12. ASSUME NEW i \in 1..Len(all), NEW j \in 1..Len(all), i <= j
       PROVE  all[i] <= all[j]
  <2>1. i \in Int /\ j \in Int
    BY <1>1
  <2>2. CASE j \in 1..m
    <3>1. i \in 1..m
      BY <1>1, <1>12, <2>1, <2>2
    <3> QED
      BY <1>2, <1>4, <1>12, <2>2, <3>1
  <2>3. CASE j - m \in 1..n /\ all[j] = more[j - m]
    <3>1. CASE i \in 1..m
      <4>1. all[i] \in Nat /\ all[i] <= p
        BY <1>2, <3>1
      <4>2. all[j] \in Nat /\ p <= all[j]
        BY <1>3, <2>3
      <4> QED
        BY <4>1, <4>2
    <3>2. CASE i - m \in 1..n /\ all[i] = more[i - m]
      <4>1. i - m <= j - m
        BY <1>1, <1>12, <2>1
      <4> QED
        BY <1>5, <2>3, <3>2, <4>1
    <3> QED
      BY <1>9, <3>1, <3>2
  <2> QED
    BY <1>9, <2>2, <2>3
<1> QED
  BY <1>8, <1>10, <1>11, <1>12

LEMMA Popped ==
    ASSUME NEW events \in Seq(Nat), events # <<>>, NEW p \in Nat, Rising(events), AtMost(events, p)
    PROVE  /\ Head(events) \in Nat /\ Head(events) <= p /\ Tail(events) \in Seq(Nat)
           /\ Rising(Tail(events)) /\ AtMost(Tail(events), p)
           /\ AtLeast(Tail(events), Head(events))
           /\ \A b \in Nat : AtLeast(events, b) => b <= Head(events) /\ AtLeast(Tail(events), b)
<1> DEFINE rest == Tail(events)
           n == Len(events)
<1>1. n \in Nat /\ n > 0 /\ Head(events) = events[1] /\ rest \in Seq(Nat) /\ Len(rest) = n - 1
  OBVIOUS
<1>2. \A i \in 1..n : events[i] \in Nat /\ events[i] <= p
  BY DEF AtMost
<1>3. \A i, j \in 1..n : i <= j => events[i] <= events[j]
  BY DEF Rising
<1>4. \A i \in 1..Len(rest) : rest[i] = events[i + 1]
  OBVIOUS
<1>5. \A i \in 1..Len(rest) : i \in Int /\ i + 1 \in 1..n /\ 1 <= i + 1
  BY <1>1
<1>6. 1 \in 1..n
  BY <1>1
<1>7. Rising(Tail(events)) <=> \A i, j \in 1..Len(rest) : i <= j => rest[i] <= rest[j]
  BY DEF Rising
<1>8. AtMost(Tail(events), p) <=> \A i \in 1..Len(rest) : rest[i] <= p
  BY DEF AtMost
<1>9. \A b : /\ AtLeast(events, b) <=> \A i \in 1..n : b <= events[i]
             /\ AtLeast(Tail(events), b) <=> \A i \in 1..Len(rest) : b <= rest[i]
  BY DEF AtLeast
<1> HIDE DEF rest, n
<1>10. ASSUME NEW i \in 1..Len(rest), NEW j \in 1..Len(rest), i <= j PROVE rest[i] <= rest[j]
  <2>1. i + 1 \in 1..n /\ j + 1 \in 1..n /\ i + 1 <= j + 1
    BY <1>5, <1>10
  <2> QED
    BY <1>3, <1>4, <2>1
<1>11. AtMost(Tail(events), p)
  BY <1>2, <1>4, <1>5, <1>8
<1>12. AtLeast(Tail(events), events[1])
  BY <1>3, <1>4, <1>5, <1>6, <1>9
<1>13. \A b \in Nat : AtLeast(events, b) => b <= events[1] /\ AtLeast(Tail(events), b)
  BY <1>4, <1>5, <1>6, <1>9
<1>14. Tail(events) \in Seq(Nat)
  OBVIOUS
<1> QED
  BY <1>1, <1>2, <1>6, <1>7, <1>10, <1>11, <1>12, <1>13, <1>14

\* A run that goes on reports something between where it was and where it is then.
LEMMA Reports ==
    ASSUME TypeOK, Ordered, NEW r \in Runs, analysis[r].pc # "new",
           NEW more \in Seq(Percentages), Emit(r, more), ui' = ui,
           analysis' \in [Runs -> Analyses], analysis'[r].pc # "new",
           analysis'[r].pc \in {"called", "extracting"} => analysis'[r].at = 0,
           \A s \in Runs \ {r} : analysis'[s] = analysis[s],
           Reached(analysis[r]) <= Reached(analysis'[r]), Rising(more),
           AtLeast(more, Reached(analysis[r])), AtMost(more, Reached(analysis'[r]))
    PROVE  Ordered'
<1> DEFINE p == Reached(analysis[r])
           q == Reached(analysis'[r])
<1>1. ticks \in [Runs -> Seq(Percentages)] /\ analysis \in [Runs -> Analyses] /\ ui \in Screens
  BY TypeParts
<1>2. p \in Nat /\ q \in Nat /\ more \in Seq(Nat) /\ ticks[r] \in Seq(Nat)
  <2>1. analysis[r] \in Analyses /\ analysis'[r] \in Analyses /\ ticks[r] \in Seq(Percentages)
    BY <1>1
  <2>2. p \in Nat /\ q \in Nat
    BY <2>1, Numbers
  <2>3. more \in Seq(Nat) /\ ticks[r] \in Seq(Nat)
    BY <2>1, Numbers, SeqMonotonic
  <2> QED
    BY <2>2, <2>3
<1>3. InOrder(r)
  BY DEF Ordered
<1>4. ticks'[r] = ticks[r] \o more /\ \A s \in Runs \ {r} : ticks'[s] = ticks[s]
  BY <1>1 DEF Emit
<1>5. /\ Rising(ticks[r] \o more) /\ AtMost(ticks[r] \o more, q)
      /\ \A b \in Nat : b <= p /\ AtLeast(ticks[r], b) => AtLeast(ticks[r] \o more, b)
  BY <1>2, <1>3, Appended DEF InOrder
<1>6. InOrder(r)'
  <2>1. ui.progress # Nothing => ui.progress.percentage \in Nat
    BY <1>1, Numbers DEF Screens, Bars
  <2>2. Rising(ticks'[r]) /\ AtMost(ticks'[r], q)
    BY <1>4, <1>5
  <2>3. ASSUME ui.progress # Nothing, ui.progress.run = r
        PROVE  ui.progress.percentage <= q /\ AtLeast(ticks'[r], ui.progress.percentage)
    <3>1. ui.progress.percentage <= p /\ AtLeast(ticks[r], ui.progress.percentage)
      BY <1>3, <2>3 DEF InOrder
    <3> QED
      BY <1>2, <1>4, <1>5, <2>1, <2>3, <3>1
  <2> QED
    BY <2>2, <2>3 DEF InOrder
<1>7. ASSUME NEW s \in Runs \ {r} PROVE InOrder(s)'
  <2>1. InOrder(s) /\ analysis'[s] = analysis[s] /\ ticks'[s] = ticks[s]
    BY <1>4 DEF Ordered
  <2> QED
    BY <2>1 DEF InOrder
<1> QED
  BY <1>6, <1>7 DEF Ordered

LEMMA OneEvent ==
    ASSUME NEW a \in Nat, NEW p \in Nat, NEW b \in Nat, a <= p, p <= b
    PROVE  /\ Rising(<<p>>) /\ AtLeast(<<p>>, a) /\ AtMost(<<p>>, b)
           /\ Rising(<<>>) /\ AtLeast(<<>>, a) /\ AtMost(<<>>, b)
  BY DEF Rising, AtLeast, AtMost

\* The events of a run that goes on to pc lie between the two places.
Fits(r, more, pc) ==
    /\ more \in Seq(Percentages) /\ Rising(more)
    /\ AtLeast(more, Reached(analysis[r])) /\ AtMost(more, ReachedAt(pc, analysis[r].at))
    /\ Reached(analysis[r]) <= ReachedAt(pc, analysis[r].at)

LEMMA MovesOn ==
    ASSUME TypeOK, Ordered, NEW r \in Runs, analysis[r].pc # "new",
           NEW pc \in {"extracting", "analyzing", "answered", "rejected"}, Goto(r, pc),
           pc = "extracting" => analysis[r].at = 0,
           NEW more, Emit(r, more), Fits(r, more, pc), ui' = ui
    PROVE  Ordered'
<1>1. /\ analysis' \in [Runs -> Analyses]
      /\ analysis'[r].pc = pc /\ analysis'[r].at = analysis[r].at
      /\ \A s \in Runs \ {r} : analysis'[s] = analysis[s]
  BY GotoMoves DEF PCs
<1>2. Reached(analysis'[r]) = ReachedAt(pc, analysis[r].at)
  BY <1>1 DEF Reached
<1> QED
  BY <1>1, <1>2, Reports DEF Fits

LEMMA BackendOrder ==
    ASSUME TypeOK, Ordered, NEW r \in Runs, Backend(r)
    PROVE  Ordered'
<1> USE DEF Start, Decompressing, Sanitizing, Complete
<1> DEFINE at == analysis[r].at
           p == Reached(analysis[r])
<1>a. /\ analysis[r].pc \in {"new", "called", "extracting"} => at = 0
      /\ analysis[r] \in Analyses /\ ui' = ui
  BY TypeParts DEF Ordered, InOrder, Backend, StatFails, OpenFolder, MkdirTempFails, MkdirTemp,
     ExtractFails, Extract, Phase, Finish
<1>b. analysis[r].pc \in {"called", "extracting"} => p = 0
  BY DEF Reached, ReachedAt
<1>c. /\ ReachedAt("extracting", at) = 0 /\ ReachedAt("rejected", at) = 100
      /\ ReachedAt("answered", at) = 100
      /\ at = 0 => ReachedAt("analyzing", at) = 5
  BY DEF ReachedAt
<1>d. \A q \in Nat : \A b \in Nat : q <= b =>
        Rising(<<q>>) /\ AtMost(<<q>>, b) /\ \A a \in Nat : a <= q => AtLeast(<<q>>, a)
  BY DEF Rising, AtLeast, AtMost
<1>e. \A i \in 1..Len(Milestones) : Milestones[i] \in Nat /\ 5 <= Milestones[i] /\ Milestones[i] <= 95
  <2>1. \A i \in 1..Len(Milestones) : Milestones[i] \in 5..95
    BY ElementOfSeq DEF AnalysisAssumption
  <2>2. \A x \in 5..95 : x \in Nat /\ 5 <= x /\ x <= 95
    OBVIOUS
  <2> QED
    BY <2>1, <2>2
<1>f. analysis[r].pc = "called" =>
        /\ Fits(r, <<0>>, "rejected") /\ Fits(r, <<0>>, "extracting") /\ Fits(r, <<0>>, "analyzing")
  <2>1. SUFFICES ASSUME analysis[r].pc = "called"
                 PROVE  /\ Fits(r, <<0>>, "rejected") /\ Fits(r, <<0>>, "extracting")
                        /\ Fits(r, <<0>>, "analyzing")
    OBVIOUS
  <2>2. p = 0 /\ ReachedAt("analyzing", at) = 5 /\ <<0>> \in Seq(Percentages)
    BY <1>a, <1>b, <1>c, <2>1, Reported
  <2>3. /\ Rising(<<0>>) /\ AtLeast(<<0>>, 0)
        /\ AtMost(<<0>>, 0) /\ AtMost(<<0>>, 5) /\ AtMost(<<0>>, 100)
    BY <1>d
  <2> HIDE DEF p, at
  <2>4. p <= 0 /\ p <= 5 /\ p <= 100
    BY <2>2
  <2> QED
    BY <1>c, <2>2, <2>3, <2>4 DEF Fits, p, at
<1>1. CASE StatFails(r)
  BY <1>1, <1>a, <1>f, MovesOn DEF StatFails
<1>2. CASE OpenFolder(r)
  BY <1>2, <1>a, <1>f, MovesOn DEF OpenFolder
<1>3. CASE MkdirTempFails(r)
  BY <1>3, <1>a, <1>f, MovesOn DEF MkdirTempFails
<1>4. CASE MkdirTemp(r)
  BY <1>4, <1>a, <1>f, MovesOn DEF MkdirTemp
<1>5. CASE ExtractFails(r)
  <2>1. p = 0 /\ Fits(r, <<5>>, "rejected")
    BY <1>5, <1>b, <1>c, <1>d, Reported DEF Fits, ExtractFails
  <2>2. Fits(r, <<>>, "rejected")
    BY <1>c, <2>1, Reported DEF Fits, Rising, AtLeast, AtMost
  <2> QED
    BY <1>5, <1>a, <2>1, <2>2, MovesOn DEF ExtractFails
<1>6. CASE Extract(r)
  <2>1. p = 0 /\ ReachedAt("analyzing", at) = 5
    BY <1>6, <1>a, <1>b, <1>c DEF Extract
  <2>2. /\ Rising(<<5>>) /\ AtLeast(<<5>>, 0) /\ AtMost(<<5>>, 5) /\ <<5>> \in Seq(Percentages)
    BY <1>d, Reported
  <2> HIDE DEF p, at
  <2>3. p <= 5
    BY <2>1
  <2>4. Fits(r, <<5>>, "analyzing")
    BY <2>1, <2>2, <2>3 DEF Fits, p, at
  <2> QED
    BY <1>6, <1>a, <2>4, MovesOn DEF Extract, at
<1>7. CASE Phase(r)
  <2> DEFINE n == analysis[r].at + 1
             next == [analysis[r] EXCEPT !.at = n]
  <2>1. analysis \in [Runs -> Analyses] /\ Len(Milestones) \in Nat
    BY TypeParts
  <2>2. analysis[r].at \in 0..Len(Milestones) /\ analysis[r].at < Len(Milestones)
    BY <1>7, <2>1 DEF Phase, Analyses
  <2>3. n \in 1..Len(Milestones) /\ n \in 0..Len(Milestones) /\ n # 0
    BY <2>1, <2>2
  <2>4. analysis' = [analysis EXCEPT ![r] = next]
    BY <1>7, <2>1 DEF Phase
  <2>5. next \in Analyses /\ next.pc = "analyzing" /\ next.at = n
    BY <1>7, <2>1, <2>3, Advanced DEF Phase, Analyses
  <2>6. /\ analysis' \in [Runs -> Analyses] /\ analysis'[r] = next
        /\ \A s \in Runs \ {r} : analysis'[s] = analysis[s]
    BY <2>1, <2>4, <2>5
  <2>7. Reached(analysis'[r]) = Milestones[n]
    BY <2>3, <2>5, <2>6 DEF Reached, ReachedAt
  <2>8. Reached(analysis[r]) = (IF analysis[r].at = 0 THEN 5 ELSE Milestones[analysis[r].at])
    BY <1>7 DEF Phase, Reached, ReachedAt
  <2>9. Milestones[n] \in Nat /\ 5 <= Milestones[n]
    BY <1>e, <2>3
  <2>10. Reached(analysis[r]) \in Nat /\ Reached(analysis[r]) <= Milestones[n]
    <3>1. CASE analysis[r].at = 0
      BY <2>8, <2>9, <3>1
    <3>2. CASE analysis[r].at # 0
      <4>1. analysis[r].at \in 1..Len(Milestones) /\ analysis[r].at <= n
        BY <2>1, <2>2, <3>2
      <4>2. Milestones[analysis[r].at] <= Milestones[n]
        BY <2>3, <4>1 DEF AnalysisAssumption
      <4> QED
        BY <1>e, <2>8, <3>2, <4>1, <4>2
    <3> QED
      BY <3>1, <3>2
  <2>11. Emit(r, <<Milestones[n]>>) /\ <<Milestones[n]>> \in Seq(Percentages)
    BY <1>7, <2>3, Reported DEF Phase
  <2>12. /\ Rising(<<Milestones[n]>>) /\ AtLeast(<<Milestones[n]>>, Reached(analysis[r]))
         /\ AtMost(<<Milestones[n]>>, Milestones[n])
    BY <2>9, <2>10, OneEvent
  <2>13. analysis[r].pc # "new" /\ analysis'[r].pc = "analyzing"
    BY <1>7, <2>5, <2>6 DEF Phase
  <2> HIDE DEF n, next
  <2> QED
    BY <1>a, <2>6, <2>7, <2>10, <2>11, <2>12, <2>13, Reports
<1>8. CASE Finish(r)
  <2>1. p \in Nat /\ p <= 95
    <3>1. at \in 0..Len(Milestones) /\ Len(Milestones) \in Nat
      BY <1>a DEF Analyses
    <3>2. p = (IF at = 0 THEN 5 ELSE Milestones[at])
      BY <1>8 DEF Finish, Reached, ReachedAt
    <3>3. at # 0 => Milestones[at] \in Nat /\ Milestones[at] <= 95
      BY <1>e, <3>1
    <3> HIDE DEF p, at
    <3> QED
      BY <3>2, <3>3
  <2> HIDE DEF p
  <2>2. Rising(<<100>>) /\ AtLeast(<<100>>, p) /\ AtMost(<<100>>, 100)
    BY <2>1, <1>d
  <2>3. Rising(<<95, 100>>) /\ AtLeast(<<95, 100>>, p) /\ AtMost(<<95, 100>>, 100)
    BY <2>1 DEF Rising, AtLeast, AtMost
  <2>4. p <= 100
    BY <2>1
  <2> HIDE DEF at
  <2>5. Fits(r, <<100>>, "answered") /\ Fits(r, <<95, 100>>, "answered")
    <3>1. <<100>> \in Seq(Percentages) /\ <<95, 100>> \in Seq(Percentages)
      BY Reported
    <3> QED
      BY <1>c, <2>2, <2>3, <2>4, <3>1 DEF Fits, p, at
  <2> QED
    BY <1>8, <1>a, <2>5, MovesOn DEF Finish
<1> QED
  BY <1>1, <1>2, <1>3, <1>4, <1>5, <1>6, <1>7, <1>8 DEF Backend

LEMMA Invariance == Spec => []IInv
  BY InitInvariant, NextInvariant, PTL DEF Spec

LEMMA ShellOrder ==
    ASSUME TypeOK, Ordered, NEW r \in Runs, Run(r) \/ Progress(r) \/ Settle(r)
    PROVE  Ordered'
<1>1. /\ ticks \in [Runs -> Seq(Percentages)] /\ analysis \in [Runs -> Analyses] /\ ui \in Screens
      /\ InOrder(r) /\ Reached(analysis[r]) \in Nat /\ ticks[r] \in Seq(Nat)
  BY TypeParts, Numbers, SeqMonotonic DEF Ordered
<1>2. CASE Run(r)
  <2>1. /\ \A s \in Runs \ {r} : analysis'[s] = analysis[s]
        /\ analysis'[r].pc = "called" /\ analysis'[r].at = 0
        /\ ui'.progress = [run |-> r, percentage |-> 0] /\ ticks' = ticks /\ ticks[r] = <<>>
    BY <1>1, <1>2 DEF Run, InOrder, Start
  <2>2. Reached(analysis'[r]) = 0
    BY <2>1 DEF Reached, ReachedAt, Start
  <2>3. Rising(<<>>) /\ AtMost(<<>>, 0) /\ AtLeast(<<>>, 0)
    BY DEF Rising, AtMost, AtLeast
  <2>4. InOrder(r)'
    BY <2>1, <2>2, <2>3 DEF InOrder
  <2>5. ASSUME NEW s \in Runs \ {r} PROVE InOrder(s)'
    BY <2>1 DEF Ordered, InOrder
  <2> QED
    BY <2>4, <2>5 DEF Ordered
<1>3. CASE Progress(r)
  <2>1. /\ ticks[r] # <<>> /\ ticks'[r] = Tail(ticks[r]) /\ analysis' = analysis
        /\ \A s \in Runs \ {r} : ticks'[s] = ticks[s]
        /\ \/ ui'.progress = [run |-> r, percentage |-> Head(ticks[r])]
           \/ ui' = ui
    BY <1>1, <1>3 DEF Progress, Screens
  <2>2. /\ Head(ticks[r]) <= Reached(analysis[r])
        /\ Rising(Tail(ticks[r])) /\ AtMost(Tail(ticks[r]), Reached(analysis[r]))
        /\ AtLeast(Tail(ticks[r]), Head(ticks[r]))
        /\ \A b \in Nat : AtLeast(ticks[r], b) => AtLeast(Tail(ticks[r]), b)
    BY <1>1, <2>1, Popped DEF InOrder
  <2>3. ui.progress # Nothing => ui.progress.percentage \in Nat
    BY <1>1, Numbers DEF Screens, Bars
  <2>4. InOrder(r)'
    BY <1>1, <2>1, <2>2, <2>3 DEF InOrder
  <2>5. ASSUME NEW s \in Runs \ {r} PROVE InOrder(s)'
    BY <2>1 DEF Ordered, InOrder
  <2> QED
    BY <2>4, <2>5 DEF Ordered
<1>4. CASE Settle(r)
  <2>1. /\ ui'.progress = Nothing /\ ticks' = ticks /\ Goto(r, "settled") /\ analysis[r].pc # "new"
    <3>1. [ui EXCEPT !.report = r] \in Screens /\ [ui EXCEPT !.error = r] \in Screens
      BY <1>1 DEF Screens
    <3> QED
      BY <1>4, <3>1, IdleScreen DEF Settle, Answered, Rejected
  <2>2. /\ analysis'[r].pc = "settled" /\ \A s \in Runs \ {r} : analysis'[s] = analysis[s]
        /\ analysis[r] \in Analyses
    BY <1>1, <2>1, GotoMoves DEF PCs
  <2>3. Reached(analysis'[r]) = Complete /\ Reached(analysis[r]) <= Complete /\ Complete \in Nat
    BY <2>2, Numbers DEF Reached, ReachedAt, Complete
  <2>4. AtMost(ticks[r], Reached(analysis'[r]))
    <3>1. \A i \in 1..Len(ticks[r]) : ticks[r][i] \in Nat /\ ticks[r][i] <= Reached(analysis[r])
      BY <1>1, ElementOfSeq DEF InOrder, AtMost
    <3> QED
      BY <1>1, <2>3, <3>1 DEF AtMost
  <2>5. InOrder(r)'
    BY <1>1, <2>1, <2>2, <2>4 DEF InOrder
  <2>6. ASSUME NEW s \in Runs \ {r} PROVE InOrder(s)'
    BY <2>1, <2>2 DEF Ordered, InOrder
  <2> QED
    BY <2>5, <2>6 DEF Ordered
<1> QED
  BY <1>2, <1>3, <1>4

LEMMA OrderInvariance == Spec => []Ordered
<1>1. Init => Ordered
  <2>1. Rising(<<>>) /\ AtMost(<<>>, Start)
    BY DEF Rising, AtMost
  <2>2. SUFFICES ASSUME Init, NEW r \in Runs PROVE InOrder(r)
    BY DEF Ordered
  <2>3. /\ analysis[r].pc = "new" /\ analysis[r].at = 0 /\ ticks[r] = <<>>
        /\ ui.progress = Nothing
    BY <2>2 DEF Init
  <2> QED
    BY <2>1, <2>3 DEF InOrder, Reached, ReachedAt
<1>2. IInv /\ Ordered /\ [Next]_vars => Ordered'
  <2> SUFFICES ASSUME IInv, Ordered, [Next]_vars PROVE Ordered'
    OBVIOUS
  <2>1. ASSUME UNCHANGED <<ui, analysis, ticks>> PROVE Ordered'
    BY <2>1 DEF Ordered, InOrder
  <2>2. ASSUME NEW r \in Runs, Backend(r) PROVE Ordered'
    BY <2>2, BackendOrder DEF IInv
  <2>3. ASSUME NEW r \in Runs, Run(r) \/ Progress(r) \/ Settle(r) PROVE Ordered'
    BY <2>3, ShellOrder DEF IInv
  <2> QED
    BY <2>1, <2>2, <2>3 DEF Next, SetPath, SetAnonymize, vars
<1> QED
  BY <1>1, <1>2, Invariance, PTL DEF Spec

\* The state stays in its types, and every run in flight has a path that the
\* validation of useAnalysis.ts:111-115 let through.
THEOREM TypeCorrect == Spec => []TypeOK
<1>1. IInv => TypeOK
  BY DEF IInv
<1> QED
  BY <1>1, Invariance, PTL

\* A late progress event never brings back the panel of a run that ended.
THEOREM PanelStaysGone == Spec => []NoResurrectedPanel
<1>1. IInv => NoResurrectedPanel
  BY DEF IInv
<1> QED
  BY <1>1, Invariance, PTL

\* Without overlapping runs the screen shows the outcome of the last one pressed.
THEOREM ScreenIsTrue == Spec => []ScreenMatchesLastRun
<1>1. IInv => ScreenMatchesLastRun
  BY DEF IInv
<1> QED
  BY <1>1, Invariance, PTL

\* Every way out of App.Analyze removes the extracted archive of its own run.
THEOREM DirsAreRemoved == Spec => []NoLeftoverDirs
<1>1. IInv => NoLeftoverDirs
  BY DEF IInv
<1> QED
  BY <1>1, Invariance, PTL

\* The percentages of one run never go back on the screen, also when events of another
\* run come in between: each event that waits is at least what is shown of its run.
THEOREM ProgressOnlyRises == Spec => ProgressNeverGoesBack
<1> DEFINE Rises ==
      (/\ ui.progress # Nothing /\ ui'.progress # Nothing
       /\ ui.progress.run = ui'.progress.run)
        => ui.progress.percentage <= ui'.progress.percentage
<1>1. IInv /\ Ordered /\ [Next]_vars => [Rises]_vars
  <2> SUFFICES ASSUME IInv, Ordered, Next,
                      ui.progress # Nothing, ui'.progress # Nothing,
                      ui.progress.run = ui'.progress.run
               PROVE  ui.progress.percentage <= ui'.progress.percentage
    OBVIOUS
  <2>1. /\ ui \in Screens /\ ticks \in [Runs -> Seq(Percentages)]
        /\ ui.progress.run \in Runs /\ ui.progress.percentage \in Nat
    BY TypeParts, Numbers DEF IInv, Screens, Bars
  <2>2. CASE ui' = ui
    BY <2>1, <2>2
  <2>3. ASSUME NEW r \in Runs, Run(r) PROVE FALSE
    BY <2>1, <2>3 DEF Run, Ordered, InOrder
  <2>4. ASSUME NEW r \in Runs, Progress(r), ui' # ui
        PROVE  ui.progress.percentage <= ui'.progress.percentage
    <3>1. ticks[r] # <<>> /\ ui'.progress = [run |-> r, percentage |-> Head(ticks[r])]
      BY <2>1, <2>4 DEF Progress, Screens
    <3>2. AtLeast(ticks[r], ui.progress.percentage)
      BY <2>1, <3>1 DEF Ordered, InOrder
    <3>3. 1 \in 1..Len(ticks[r]) /\ Head(ticks[r]) = ticks[r][1]
      BY <2>1, <3>1
    <3> QED
      BY <3>1, <3>2, <3>3 DEF AtLeast
  <2>5. ASSUME NEW r \in Runs, Settle(r) PROVE FALSE
    BY <2>1, <2>5 DEF Settle, Answered, Rejected, Idle, Screens
  <2>6. ASSUME NEW r \in Runs, Backend(r) PROVE ui' = ui
    BY <2>6 DEF Backend, StatFails, OpenFolder, MkdirTempFails, MkdirTemp,
       ExtractFails, Extract, Phase, Finish
  <2> QED
    BY <2>2, <2>3, <2>4, <2>5, <2>6 DEF Next, SetPath, SetAnonymize
<1> QED
  BY <1>1, Invariance, OrderInvariance, PTL DEF Spec, ProgressNeverGoesBack
=============================================================================

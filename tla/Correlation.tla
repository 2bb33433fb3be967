----------------------------- MODULE Correlation -----------------------------
(***************************************************************************)
(* From the matches of the log scan to root causes: the timeline           *)
(* aggregator, the sort, the bursts of analyzeTemporalClusters and the     *)
(* eight chains of correlateSequences.  A log line is the kind of its      *)
(* description; the substrings the chains look for are signals of a kind.  *)
(* Left out: the raw samples of a row, texts and severities.               *)
(***************************************************************************)
EXTENDS Naturals, Sequences, FiniteSets

CONSTANTS Kinds,              \* descriptions of the pattern table
          Signals,            \* the signals in a line of each kind
          Times,              \* bound: seconds of the timestamps
          Undated,            \* a timestamp that cannot be parsed
          Window,             \* seqChainWindow
          Gap,                \* clusterGapSeconds
          MinCluster,         \* minClusterSize
          MinTimelineEvents,  \* minTimelineEvents
          MaxTimelineEvents,  \* maxTimelineEvents
          MaxMatches          \* bound: matches of one scan

SignalNames == {"srv", "resolve", "connect", "goingOffline", "backendOffline",
                "skew", "preauth", "overlarge", "hugeGroup", "watchdog", "terminated",
                "tls", "sasl", "mapping", "outOfRange", "noUser", "gpo", "pam"}

ASSUME CorrelationAssumption ==
    /\ Signals \in [Kinds -> SUBSET SignalNames]
    /\ Times \subseteq Nat /\ Undated \notin Nat
    /\ {Window, Gap, MinCluster, MinTimelineEvents, MaxTimelineEvents, MaxMatches} \subseteq Nat

VARIABLES phase,     \* scanning, sorted or correlated
          rows,      \* the timeline
          dropped,   \* timelineAggregator.dropped
          clusters,  \* report.TemporalClusters
          findings,  \* the rules correlateSequences reports
          matches    \* history: what the scan matched, in order

vars == <<phase, rows, dropped, clusters, findings, matches>>

LogMatch == [at : Times \cup {Undated}, kind : Kinds]
Row == [at : Times \cup {Undated}, kind : Kinds, occurrences : Nat \ {0}]
Rules == {"dns", "krb5", "overload", "offline", "tls", "idmap", "gpo", "enum-watchdog"}

Init ==
    /\ phase = "scanning"
    /\ rows = <<>> /\ dropped = 0
    /\ clusters = {} /\ findings = {}
    /\ matches = <<>>

-----------------------------------------------------------------------------
(* timelineAggregator.                                                       *)

SameEvent(i, m) == rows[i].at = m.at /\ rows[i].kind = m.kind
Known(m) == \E i \in DOMAIN rows : SameEvent(i, m)

HasRoom == Len(rows) < MaxTimelineEvents

\* Mistake: the counter of the last row is bumped, whichever row the event has.
CountedInLast(m) == [rows EXCEPT ![Len(rows)].occurrences = @ + 1]

Counted(m) == [i \in DOMAIN rows |-> IF SameEvent(i, m)
                                     THEN [rows[i] EXCEPT !.occurrences = @ + 1]
                                     ELSE rows[i]]

NewRow(m) == [at |-> m.at, kind |-> m.kind, occurrences |-> 1]

\* A repeat is counted, a new event takes a row while there is one to take.
Add(m) ==
    /\ rows' = IF Known(m) THEN Counted(m)
               ELSE IF HasRoom THEN Append(rows, NewRow(m))
               ELSE rows
    /\ dropped' = IF Known(m) \/ HasRoom THEN dropped ELSE dropped + 1

\* Mistake: rows without a timestamp compare as smaller, so they go first.
InOrderUndatedFirst(r, s) == s.at # Undated /\ (r.at # Undated => r.at < s.at)

\* The comparison of sortTimelineChronological.
InOrder(r, s) == r.at # Undated /\ (s.at # Undated => r.at < s.at)

\* sort.SliceStable: what decides between rows neither of which is earlier is
\* the order they were added in.
IsStableSort(order) ==
    \A p, q \in DOMAIN rows : p < q =>
       \/ InOrder(rows[order[p]], rows[order[q]])
       \/ ~InOrder(rows[order[q]], rows[order[p]]) /\ order[p] < order[q]

Orders == {order \in [DOMAIN rows -> DOMAIN rows] :
              \A p, q \in DOMAIN rows : order[p] = order[q] => p = q}

-----------------------------------------------------------------------------
(* analyzeTemporalClusters over the sorted rows.                             *)

\* Mistake: an aggregated row counts as one occurrence.
WeightOne(row) == 1

Weight(row) == row.occurrences

\* The sweep after the first n rows: the burst still open for each kind, and
\* the bursts that closed.
NoBurst == [kind |-> Undated]
Begun(row) == [kind |-> row.kind, first |-> row.at, last |-> row.at, count |-> Weight(row)]
Longer(burst, row) == [kind |-> row.kind, first |-> burst.first, last |-> row.at,
                       count |-> burst.count + Weight(row)]
Swept(seen, row) ==
    LET burst == seen.open[row.kind]
    IN  IF row.at = Undated THEN seen
        ELSE IF burst = NoBurst
        THEN [seen EXCEPT !.open[row.kind] = Begun(row)]
        ELSE IF row.at - burst.last <= Gap
        THEN [seen EXCEPT !.open[row.kind] = Longer(burst, row)]
        ELSE [open |-> [seen.open EXCEPT ![row.kind] = Begun(row)],
              closed |-> seen.closed \cup {burst}]
Sweep(timeline) ==
    LET step[n \in 0..Len(timeline)] ==
          IF n = 0 THEN [open |-> [k \in Kinds |-> NoBurst], closed |-> {}]
          ELSE Swept(step[n - 1], timeline[n])
    IN  step[Len(timeline)]

Clusters(timeline) ==
    LET swept == Sweep(timeline)
        bursts == swept.closed \cup ({swept.open[k] : k \in Kinds} \ {NoBurst})
    IN  {b \in bursts : b.count >= MinCluster}

-----------------------------------------------------------------------------
(* correlateSequences over the sorted rows.                                  *)

Shows(i, s) == s \in Signals[rows[i].kind]
Showing(s) == {i \in DOMAIN rows : Shows(i, s)}
Earliest(positions) == {i \in positions : \A j \in positions : i <= j}
Firsts(s) == Earliest(Showing(s))
Lasts(s) == {i \in Showing(s) : \A j \in Showing(s) : j <= i}
Else(positions, fallback) == IF positions # {} THEN positions ELSE fallback

\* Mistakes: an effect may precede its cause; the window is not closed at its end.
OrderedEitherWay(i, j) ==
    /\ i # j
    /\ \/ Undated \in {rows[i].at, rows[j].at}
       \/ rows[j].at <= rows[i].at + Window /\ rows[i].at <= rows[j].at + Window
OrderedWithinOpenWindow(i, j) ==
    /\ i < j
    /\ \/ Undated \in {rows[i].at, rows[j].at}
       \/ rows[i].at <= rows[j].at /\ rows[j].at < rows[i].at + Window

OrderedWithinWindow(i, j) ==
    /\ i < j
    /\ \/ Undated \in {rows[i].at, rows[j].at}
       \/ rows[i].at <= rows[j].at /\ rows[j].at <= rows[i].at + Window

\* A cause at one of some positions, then an effect at one of others.
Cascade(causes, effects) == \E i \in causes, j \in effects : OrderedWithinWindow(i, j)

DNSChain ==
    LET links == UNION {Firsts(s) : s \in {"srv", "resolve", "connect", "goingOffline"}}
        score == Cardinality({s \in {"srv", "resolve", "connect", "goingOffline"} : Showing(s) # {}})
        causes == Else(Firsts("srv"), Firsts("resolve"))
        downstream == Else(Firsts("connect"), Else(Firsts("goingOffline"), Firsts("resolve")))
    IN  /\ score >= 2 /\ causes # {}
        /\ \E i, j \in links : (\A p \in links : i <= p /\ p <= j) /\ OrderedWithinWindow(i, j)
        /\ \A i \in causes, j \in downstream : i <= j

Krb5Chain(realmMismatch) ==
    Showing("skew") # {} /\ (Showing("preauth") # {} \/ realmMismatch)

OverloadChain == Cascade(Firsts("overlarge"), Firsts("watchdog"))

OfflineChain == Showing("goingOffline") \cup Showing("backendOffline") # {}

\* tlsPos and saslPos start at 0, the first row, and tlsPos < 0 never holds.
TLSChain == Cascade({1}, Else(Lasts("sasl"), {1}))

IDMapChain == Cascade(Else(Lasts("mapping"), Lasts("outOfRange")), Lasts("noUser"))

GPOChain == Cascade(Firsts("gpo"), Firsts("pam"))

\* R8 looks for R2's signals as well; a line with both a cause and an effect is
\* enough for it.
EnumWatchdogChain ==
    LET causes == Earliest(Showing("overlarge") \cup Showing("hugeGroup"))
        effects == Earliest(Showing("watchdog") \cup Showing("terminated"))
    IN  causes \cap effects # {} \/ Cascade(causes, effects)

Fires(rule, realmMismatch) ==
    CASE rule = "dns" -> DNSChain
      [] rule = "krb5" -> Krb5Chain(realmMismatch)
      [] rule = "overload" -> OverloadChain
      [] rule = "offline" -> OfflineChain
      [] rule = "tls" -> TLSChain
      [] rule = "idmap" -> IDMapChain
      [] rule = "gpo" -> GPOChain
      [] rule = "enum-watchdog" -> EnumWatchdogChain /\ ~OverloadChain

-----------------------------------------------------------------------------
\* handlePattern, for a line of one of the log files.
ScanMatch(m) ==
    /\ phase = "scanning"
    /\ Len(matches) < MaxMatches
    /\ Add(m)
    /\ matches' = Append(matches, m)
    /\ UNCHANGED <<phase, clusters, findings>>

\* The end of performSinglePassScanOnFiles.
SortTimeline ==
    /\ phase = "scanning"
    /\ phase' = "sorted"
    /\ \E order \in Orders : IsStableSort(order) /\ rows' = [p \in DOMAIN rows |-> rows[order[p]]]
    /\ UNCHANGED <<dropped, clusters, findings, matches>>

\* Phases 6b and 6d; realmMismatch: a finding of category krb5_realm or join.
Correlate ==
    /\ phase = "sorted"
    /\ phase' = "correlated"
    /\ clusters' = Clusters(rows)
    /\ \E realmMismatch \in BOOLEAN :
          findings' = IF Len(rows) < MinTimelineEvents THEN {}
                      ELSE {rule \in Rules : Fires(rule, realmMismatch)}
    /\ UNCHANGED <<rows, dropped, matches>>

Next == (\E m \in LogMatch : ScanMatch(m)) \/ SortTimeline \/ Correlate

Spec == Init /\ [][Next]_vars

-----------------------------------------------------------------------------

\* analysis_timeline.go:53-83: aggregation loses no match.  A row counts the matches of its
\* event, no two rows share an event, and each match that has no row is in the counter.  The
\* counter is therefore not the number of distinct events dropped, which it is called in
\* analysis_timeline.go:32 and in the report's warning (analyzer_singlepass.go:504-506): it
\* is that number if, and only if, none of them was matched twice.
EveryMatchIsCounted ==
    LET lost == {n \in DOMAIN matches : ~Known(matches[n])}
        events == {matches[n] : n \in lost}
    IN  /\ \A i \in DOMAIN rows :
              rows[i].occurrences = Cardinality({n \in DOMAIN matches : SameEvent(i, matches[n])})
        /\ \A i, j \in DOMAIN rows : i # j => ~SameEvent(i, rows[j])
        /\ dropped = Cardinality(lost)
        /\ dropped = Cardinality(events) <=>
              \A m, n \in lost : matches[m] = matches[n] => m = n

\* A maximal run of matches of one kind, each within Gap of the one before.
IsBurst(c) ==
    LET seen == {matches[n].at : n \in {n \in DOMAIN matches : matches[n].kind = c.kind}} \ {Undated}
    IN  /\ {c.first, c.last} \subseteq seen /\ c.first <= c.last
        /\ \A t \in seen : ~(t < c.first /\ c.first <= t + Gap) /\ ~(c.last < t /\ t <= c.last + Gap)
        /\ \A t \in seen : c.first <= t /\ t < c.last =>
              \E u \in seen : t < u /\ u <= t + Gap /\ u <= c.last
        /\ c.count = Cardinality({n \in DOMAIN matches :
                                    /\ matches[n].kind = c.kind /\ matches[n].at # Undated
                                    /\ c.first <= matches[n].at /\ matches[n].at <= c.last})
        /\ c.count >= MinCluster

\* analysis_timeline.go:8-12 and analysis_temporal.go:73-76, "a burst collapsed
\* into one row must still count as N occurrences": unless the cap dropped
\* something, the bursts found in the rows are those of the unaggregated matches.
BurstsSurviveAggregation ==
    phase = "correlated" /\ dropped = 0 =>
        clusters = {c \in [kind : Kinds, first : Times, last : Times, count : 1..Len(matches)] :
                      IsBurst(c)}

\* The signals a cascade takes for the cause and for the effect.
Cascades == {"dns", "idmap", "gpo", "overload", "enum-watchdog"}
Causes(rule) == CASE rule = "dns" -> {"srv", "resolve"}
                  [] rule = "idmap" -> {"mapping", "outOfRange"}
                  [] rule = "gpo" -> {"gpo"}
                  [] rule = "overload" -> {"overlarge"}
                  [] rule = "enum-watchdog" -> {"overlarge", "hugeGroup"}
Effects(rule) == CASE rule = "dns" -> {"srv", "resolve", "connect", "goingOffline"}
                   [] rule = "idmap" -> {"noUser"}
                   [] rule = "gpo" -> {"pam"}
                   [] rule = "overload" -> {"watchdog"}
                   [] rule = "enum-watchdog" -> {"watchdog", "terminated"}

\* Cascades one line may show whole.
OneLine == {"dns", "enum-watchdog"}

\* Row i may have caused row j: it is not later, and not an hour apart.
MayCause(i, j) ==
    rows[j].at # Undated => /\ rows[i].at # Undated
                            /\ rows[i].at <= rows[j].at
                            /\ rows[j].at <= rows[i].at + Window

\* analysis_sequences.go:35-42 and the "negative evidence" comments of its chains:
\* a reported cascade has a cause that the log shows before an effect, within the
\* window where both are dated.
CascadesAreOrdered ==
    \A rule \in findings \cap Cascades :
       \E i, j \in DOMAIN rows : \E s \in Causes(rule) : \E t \in Effects(rule) \ {s} :
          /\ Shows(i, s) /\ Shows(j, t) /\ MayCause(i, j)
          /\ i < j \/ (i = j /\ rule \in OneLine)

\* The converse, where positions leave no choice: a cause and an effect that each
\* occur once, in order and within the window, are reported.
LoneCascadesAreFound ==
    phase = "correlated" /\ Len(rows) >= MinTimelineEvents =>
        \A rule \in {"idmap", "gpo", "overload"} : \A i, j \in DOMAIN rows :
           (/\ {p \in DOMAIN rows : Signals[rows[p].kind] \cap Causes(rule) # {}} = {i}
            /\ {p \in DOMAIN rows : Signals[rows[p].kind] \cap Effects(rule) # {}} = {j}
            /\ i < j /\ MayCause(i, j))
           => rule \in findings

=============================================================================

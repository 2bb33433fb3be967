------------------------------ MODULE FileCache ------------------------------
(***************************************************************************)
(* The process-wide cache of file contents (cache.go, FileCache) and the   *)
(* analyses that share it.  Every analysis runs in a goroutine of its own: *)
(* the desktop shell calls each bound method on a fresh goroutine, so two  *)
(* analyses of the same directory may overlap.  GetLines holds the mutex   *)
(* twice, once to look up and once to insert, and reads the file in        *)
(* between without it.                                                     *)
(***************************************************************************)
EXTENDS Naturals, Sequences

CONSTANTS Analyses,   \* goroutines that run an analysis
          Files,      \* the cache keys, filepath.Join(dirPath, fileName)
          NoFile,     \* the key of an analysis that is not inside GetLines
          Contents,   \* what a readable, non-empty file may hold
          NoLines,    \* the nil slice: missing, unreadable or empty file
          MaxFiles,   \* capacity handed to NewFileCache
          MaxEdits    \* bound on the edits of the files, for TLC

ASSUME CacheAssumption ==
    /\ NoLines \notin Contents
    /\ NoFile \notin Files
    /\ MaxFiles \in Nat \ {0}
    /\ MaxEdits \in Nat

VARIABLES disk,      \* what the files hold
          edits,     \* how many times they were edited (bounded by MaxEdits)
          buffers,   \* the cache; NoLines stands for "no such key"
          order,     \* cached keys, oldest insertion first
          curFiles,  \* the cache's own count of its entries
          pc,        \* where each analysis is
          key,       \* the file its current GetLines call is about
          lines,     \* what readFileLines returned to that call
          returned,  \* history: the <<file, lines>> its last GetLines returned
          since,     \* history: what each file has held since its Clear
          inflight   \* history: what other calls had read, and not yet
                     \* stored, at its Clear

cache == <<buffers, order, curFiles>>
locals == <<pc, key, lines>>
history == <<returned, since, inflight>>
vars == <<disk, edits, cache, locals, history>>

MaybeLines == Contents \cup {NoLines}
Cached == {f \in Files : buffers[f] # NoLines}

TypeOK ==
    /\ disk \in [Files -> MaybeLines]
    /\ edits \in 0..MaxEdits
    /\ buffers \in [Files -> MaybeLines]
    /\ order \in Seq(Files)
    /\ curFiles \in 0..MaxFiles
    /\ pc \in [Analyses -> {"idle", "ready", "reading", "storing"}]
    /\ key \in [Analyses -> Files \cup {NoFile}]
    /\ lines \in [Analyses -> MaybeLines]
    /\ returned \in [Analyses -> SUBSET (Files \X MaybeLines)]
    /\ since \in [Analyses -> [Files -> SUBSET MaybeLines]]
    /\ inflight \in [Analyses -> [Files -> SUBSET MaybeLines]]

Init ==
    /\ disk \in [Files -> MaybeLines]
    /\ edits = 0
    /\ buffers = [f \in Files |-> NoLines]
    /\ order = <<>>
    /\ curFiles = 0
    /\ pc = [a \in Analyses |-> "idle"]
    /\ key = [a \in Analyses |-> NoFile]
    /\ lines = [a \in Analyses |-> NoLines]
    /\ returned = [a \in Analyses |-> {}]
    /\ since = [a \in Analyses |-> [f \in Files |-> {}]]
    /\ inflight = [a \in Analyses |-> [f \in Files |-> {}]]

-----------------------------------------------------------------------------
(* The cache's methods, as what they leave in the cache.                     *)

\* FileCache.Clear: drop every entry under the write lock.
Clear ==
    /\ buffers' = [f \in Files |-> NoLines]
    /\ order' = <<>>
    /\ curFiles' = 0

\* The key GetLines evicts before an insertion: the oldest one, when full.
Evicted == IF curFiles >= MaxFiles /\ Len(order) > 0 THEN {Head(order)} ELSE {}

\* GetLines' second critical section when the key is still absent.
Insert(f, text) ==
    /\ buffers' = [g \in Files |-> IF g = f THEN text
                                   ELSE IF g \in Evicted THEN NoLines
                                   ELSE buffers[g]]
    /\ order' = Append(IF Evicted = {} THEN order ELSE Tail(order), f)
    /\ curFiles' = IF Evicted = {} THEN curFiles + 1 ELSE curFiles

-----------------------------------------------------------------------------
(* An analysis.                                                              *)

\* The GetLines call of a returns text: its local variables go away.
Return(a, f, text) ==
    /\ returned' = [returned EXCEPT ![a] = {<<f, text>>}]
    /\ pc' = [pc EXCEPT ![a] = "ready"]
    /\ key' = [key EXCEPT ![a] = NoFile]
    /\ lines' = [lines EXCEPT ![a] = NoLines]
    /\ UNCHANGED <<since, inflight>>

\* Mutant: the cache is not cleared between analyses.
BeginUncleared(a) ==
    /\ pc[a] = "idle"
    /\ pc' = [pc EXCEPT ![a] = "ready"]
    /\ since' = [since EXCEPT ![a] = [f \in Files |-> {disk[f]}]]
    /\ UNCHANGED <<disk, edits, cache, key, lines, returned, inflight>>

\* analyzeData and analyzeLogsOnly start by clearing the shared cache.
Begin(a) ==
    /\ pc[a] = "idle"
    /\ Clear
    /\ pc' = [pc EXCEPT ![a] = "ready"]
    /\ returned' = [returned EXCEPT ![a] = {}]
    /\ since' = [since EXCEPT ![a] = [f \in Files |-> {disk[f]}]]
    /\ inflight' = [inflight EXCEPT ![a] = [f \in Files |->
           {lines[b] : b \in {c \in Analyses : pc[c] = "storing" /\ key[c] = f}}]]
    /\ UNCHANGED <<disk, edits, key, lines>>

\* GetLines, read-locked lookup: a hit returns the cached lines.
Hit(a, f) ==
    /\ pc[a] = "ready"
    /\ f \in Cached
    /\ Return(a, f, buffers[f])
    /\ UNCHANGED <<disk, edits, cache>>

\* GetLines, read-locked lookup: a miss goes on to read the file.
Miss(a, f) ==
    /\ pc[a] = "ready"
    /\ f \notin Cached
    /\ pc' = [pc EXCEPT ![a] = "reading"]
    /\ key' = [key EXCEPT ![a] = f]
    /\ UNCHANGED <<disk, edits, cache, lines, history>>

\* readFileLines, outside any lock; a nil result returns and is not cached.
ReadNothing(a) ==
    /\ pc[a] = "reading"
    /\ disk[key[a]] = NoLines
    /\ Return(a, key[a], NoLines)
    /\ UNCHANGED <<disk, edits, cache>>

ReadLines(a) ==
    /\ pc[a] = "reading"
    /\ disk[key[a]] # NoLines
    /\ pc' = [pc EXCEPT ![a] = "storing"]
    /\ lines' = [lines EXCEPT ![a] = disk[key[a]]]
    /\ UNCHANGED <<disk, edits, cache, key, history>>

\* GetLines' write-locked section: an entry stored meanwhile wins.
StoreLost(a) ==
    /\ pc[a] = "storing"
    /\ key[a] \in Cached
    /\ Return(a, key[a], buffers[key[a]])
    /\ UNCHANGED <<disk, edits, cache>>

\* Mutant: no second lookup under the write lock.
StoreUnchecked(a) ==
    /\ pc[a] = "storing"
    /\ Insert(key[a], lines[a])
    /\ Return(a, key[a], lines[a])
    /\ UNCHANGED <<disk, edits>>

StoreWon(a) ==
    /\ pc[a] = "storing"
    /\ key[a] \notin Cached
    /\ Insert(key[a], lines[a])
    /\ Return(a, key[a], lines[a])
    /\ UNCHANGED <<disk, edits>>

\* The analysis returns its report; its history no longer matters.
Finish(a) ==
    /\ pc[a] = "ready"
    /\ pc' = [pc EXCEPT ![a] = "idle"]
    /\ returned' = [returned EXCEPT ![a] = {}]
    /\ since' = [since EXCEPT ![a] = [f \in Files |-> {}]]
    /\ inflight' = [inflight EXCEPT ![a] = [f \in Files |-> {}]]
    /\ UNCHANGED <<disk, edits, cache, key, lines>>

\* Another program replaces, creates or removes one of the files.
Edit(f, text) ==
    /\ edits < MaxEdits
    /\ text # disk[f]
    /\ disk' = [disk EXCEPT ![f] = text]
    /\ edits' = edits + 1
    /\ since' = [a \in Analyses |->
           IF pc[a] = "idle" THEN since[a]
                             ELSE [since[a] EXCEPT ![f] = @ \cup {text}]]
    /\ UNCHANGED <<cache, locals, returned, inflight>>

Next ==
    \/ \E a \in Analyses :
          \/ Begin(a)
          \/ \E f \in Files : Hit(a, f) \/ Miss(a, f)
          \/ ReadNothing(a)
          \/ ReadLines(a)
          \/ StoreLost(a)
          \/ StoreWon(a)
          \/ Finish(a)
    \/ \E f \in Files, text \in MaybeLines : Edit(f, text)

Spec == Init /\ [][Next]_vars

-----------------------------------------------------------------------------
(* Properties.                                                               *)

\* The three fields the cache keeps in step by hand agree in every state, also
\* when two calls missed the same key: `order` lists each cached key exactly
\* once and curFiles is its length, so an eviction removes a real entry.
OrderMatchesCache ==
    /\ \A i, j \in 1..Len(order) : order[i] = order[j] => i = j
    /\ Cached = {order[i] : i \in 1..Len(order)}
    /\ curFiles = Len(order)

\* What an analysis can be told is bounded by its own Clear: lines a file has
\* held since then, or lines that a call of ANOTHER analysis had read and not
\* yet stored when it cleared.  Nothing older survives in the cache.
StaleOnlyFromOverlap ==
    \A a \in Analyses : \A r \in returned[a] :
        r[2] \in since[a][r[1]] \cup inflight[a][r[1]]

\* A step never replaces a cached text: it stays until it is evicted or the
\* cache is cleared, so callers that hit between two clears agree.
EntriesAreStable ==
    [][\A f \in Cached : buffers'[f] \in {buffers[f], NoLines}]_vars

==============================================================================

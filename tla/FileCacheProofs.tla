--------------------------- MODULE FileCacheProofs ---------------------------
(***************************************************************************)
(* Proofs about the file cache, for every number of analyses, files and    *)
(* texts and every capacity.  Neither TypeOK nor the two properties are    *)
(* inductive: IInv adds what the calls in flight hold.                     *)
(***************************************************************************)
EXTENDS FileCache, SequenceTheorems, TLAPS

\* A call that reads knows its file, and one that stores holds real lines.
CallsOK ==
    \A a \in Analyses :
        /\ pc[a] \in {"reading", "storing"} => key[a] \in Files
        /\ pc[a] = "storing" => lines[a] \in Contents

\* What analysis a may be told about file f.
Allowed(a, f) == since[a][f] \cup inflight[a][f]

\* Everything an active analysis could still be told is allowed to it: what is
\* on disk, what is cached, and what other calls are about to store.
SourcesOK ==
    \A a \in Analyses : pc[a] # "idle" => \A f \in Files :
        /\ disk[f] \in since[a][f]
        /\ f \in Cached => buffers[f] \in Allowed(a, f)
        /\ \A b \in Analyses : pc[b] = "storing" /\ key[b] = f => lines[b] \in Allowed(a, f)

IInv == TypeOK /\ OrderMatchesCache /\ CallsOK /\ SourcesOK /\ StaleOnlyFromOverlap

-----------------------------------------------------------------------------

\* GetLines' insertion of an absent key keeps the three fields of the cache in
\* step and within the capacity, whether or not it evicts.
LEMMA InsertKeepsOrder ==
    ASSUME TypeOK, OrderMatchesCache,
           NEW f \in Files, f \notin Cached, NEW text \in Contents, Insert(f, text)
    PROVE  /\ buffers' \in [Files -> MaybeLines]
           /\ order' \in Seq(Files)
           /\ curFiles' \in 0..MaxFiles
           /\ OrderMatchesCache'
<1> DEFINE n == Len(order)
<1>1. /\ MaxFiles \in Nat \ {0}
      /\ order \in Seq(Files)
      /\ n \in Nat
      /\ curFiles = n
      /\ n <= MaxFiles
  BY CacheAssumption, LenProperties DEF TypeOK, OrderMatchesCache
<1>2. /\ \A i, j \in 1..n : order[i] = order[j] => i = j
      /\ \A g \in Files : g \in Cached <=> \E i \in 1..n : order[i] = g
  BY DEF OrderMatchesCache, Cached
<1>3. \A i \in 1..n : order[i] \in Files /\ order[i] # f
  BY <1>1, <1>2, ElementOfSeq
<1>4. buffers' \in [Files -> MaybeLines]
  BY DEF Insert, TypeOK, MaybeLines
<1>5. text # NoLines
  BY CacheAssumption
<1> DEFINE m == Len(order')
           Placed == /\ order' \in Seq(Files)
                     /\ m \in Nat
                     /\ curFiles' = m
                     /\ m <= MaxFiles
                     /\ \A i, j \in 1..m : order'[i] = order'[j] => i = j
                     /\ \A g \in Files : buffers'[g] # NoLines
                                           <=> \E i \in 1..m : order'[i] = g
<1>6. ASSUME curFiles >= MaxFiles /\ n > 0
      PROVE  Placed
  <2>1. Evicted = {order[1]} /\ Evicted # {}
    BY <1>6 DEF Evicted
  <2> DEFINE rest == Tail(order)
  <2>2. /\ rest \in Seq(Files)
        /\ Len(rest) = n - 1
        /\ \A i \in 1..(n - 1) : rest[i] = order[i + 1]
    BY <1>1, <1>6, HeadTailProperties
  <2>3. order' = Append(rest, f) /\ curFiles' = curFiles
    BY <2>1 DEF Insert
  <2>4. /\ order' \in Seq(Files)
        /\ m = n
        /\ \A i \in 1..(n - 1) : order'[i] = rest[i]
        /\ order'[n] = f
    BY <1>1, <2>2, <2>3, AppendProperties
  <2>5. \A i \in 1..(n - 1) : order'[i] = order[i + 1]
    BY <2>2, <2>4
  <2>6. \A i, j \in 1..n : order'[i] = order'[j] => i = j
    <3> HIDE DEF n
    <3>1. \A i \in 1..n : i # n => i \in 1..(n - 1) /\ i + 1 \in 1..n
      BY <1>1
    <3>2. \A i, j \in 1..(n - 1) : order'[i] = order'[j] => i = j
      BY <1>1, <1>2, <2>5
    <3>3. \A i \in 1..(n - 1) : order'[i] # f
      BY <1>1, <1>3, <2>5
    <3>4. QED
      BY <3>1, <3>2, <3>3, <2>4
  <2>7. \A g \in Files : buffers'[g] # NoLines <=> g = f \/ (g \in Cached /\ g # order[1])
    BY <1>5, <2>1 DEF Insert, Cached
  <2>8. ASSUME NEW g \in Files
        PROVE  (g \in Cached /\ g # order[1]) <=> \E i \in 1..(n - 1) : order'[i] = g
    <3> HIDE DEF n
    <3>1. ASSUME g \in Cached, g # order[1]
          PROVE  \E i \in 1..(n - 1) : order'[i] = g
      <4>1. PICK j \in 1..n : order[j] = g
        BY <3>1, <1>2
      <4>2. j - 1 \in 1..(n - 1) /\ (j - 1) + 1 = j
        BY <3>1, <4>1, <1>1
      <4>3. QED
        BY <4>1, <4>2, <2>5
    <3>2. ASSUME NEW i \in 1..(n - 1), order'[i] = g
          PROVE  g \in Cached /\ g # order[1]
      <4>1. i + 1 \in 1..n /\ 1 \in 1..n /\ i + 1 # 1 /\ order[i + 1] = g
        BY <3>2, <1>1, <2>5
      <4>2. QED
        BY <4>1, <1>2
    <3>3. QED
      BY <3>1, <3>2
  <2>9. ASSUME NEW g \in Files
        PROVE  (\E i \in 1..n : order'[i] = g)
                 <=> g = f \/ \E i \in 1..(n - 1) : order'[i] = g
    <3> HIDE DEF n
    <3>1. 1..n = 1..(n - 1) \cup {n} /\ n \in 1..n
      BY <1>1, <1>6
    <3>2. QED
      BY <3>1, <2>4
  <2>10. QED
    BY <1>1, <2>3, <2>4, <2>6, <2>7, <2>8, <2>9
<1>7. ASSUME ~(curFiles >= MaxFiles /\ n > 0)
      PROVE  Placed
  <2>1. Evicted = {} /\ order' = Append(order, f) /\ curFiles' = curFiles + 1
    BY <1>7 DEF Evicted, Insert
  <2>2. curFiles' <= MaxFiles
    BY <1>1, <1>7, <2>1
  <2>3. /\ order' \in Seq(Files)
        /\ m = n + 1
        /\ \A i \in 1..n : order'[i] = order[i]
        /\ order'[n + 1] = f
    BY <1>1, <2>1, AppendProperties
  <2>4. 1..(n + 1) = 1..n \cup {n + 1} /\ n + 1 \in 1..(n + 1)
    BY <1>1
  <2>5. \A i, j \in 1..m : order'[i] = order'[j] => i = j
    <3> HIDE DEF n, m
    <3>1. QED
      BY <1>2, <1>3, <2>3, <2>4
  <2>6. \A g \in Files : buffers'[g] # NoLines <=> g = f \/ g \in Cached
    BY <1>5, <2>1 DEF Insert, Cached
  <2>7. ASSUME NEW g \in Files
        PROVE  (\E i \in 1..m : order'[i] = g) <=> g = f \/ \E i \in 1..n : order[i] = g
    <3> HIDE DEF n, m
    <3>1. QED
      BY <2>3, <2>4
  <2>8. QED
    BY <1>1, <1>2, <2>1, <2>2, <2>3, <2>5, <2>6, <2>7
<1>8. Placed
  BY <1>6, <1>7
<1>9. \A i \in 1..m : order'[i] \in Files
  BY <1>8, ElementOfSeq
<1>10. Cached' = {order'[i] : i \in 1..m}
  BY <1>8, <1>9 DEF Cached
<1>11. curFiles' \in 0..MaxFiles
  BY <1>1, <1>8
<1>12. QED
  BY <1>4, <1>8, <1>10, <1>11 DEF OrderMatchesCache

-----------------------------------------------------------------------------

\* A call that returns adds one answer, which a may be told, and keeps the
\* types of the locals.
LEMMA ReturnKeepsTypes ==
    ASSUME TypeOK, NEW a \in Analyses, NEW f \in Files, NEW text \in MaybeLines,
           Return(a, f, text)
    PROVE  /\ pc' \in [Analyses -> {"idle", "ready", "reading", "storing"}]
           /\ key' \in [Analyses -> Files \cup {NoFile}]
           /\ lines' \in [Analyses -> MaybeLines]
           /\ returned' \in [Analyses -> SUBSET (Files \X MaybeLines)]
           /\ since' = since /\ inflight' = inflight
  BY DEF Return, TypeOK, MaybeLines

\* The four answers GetLines can give, with what each does to the cache.
Answer(a, f, text) ==
    /\ Return(a, f, text)
    /\ UNCHANGED <<disk, edits>>
    /\ \/ UNCHANGED cache /\ f \in Cached /\ text = buffers[f]
       \/ UNCHANGED cache /\ text = disk[f]
       \/ /\ pc[a] = "storing" /\ key[a] = f /\ lines[a] = text
          /\ f \notin Cached /\ Insert(f, text)

\* Each action that ends a GetLines call gives one of those answers.
LEMMA CallsAnswer ==
    ASSUME TypeOK, CallsOK, NEW a \in Analyses,
           \/ \E f \in Files : Hit(a, f)
           \/ ReadNothing(a)
           \/ StoreLost(a)
           \/ StoreWon(a)
    PROVE  pc[a] # "idle" /\ \E f \in Files, text \in MaybeLines : Answer(a, f, text)
<1>1. ASSUME NEW f \in Files, Hit(a, f)
      PROVE  pc[a] # "idle" /\ Answer(a, f, buffers[f]) /\ buffers[f] \in MaybeLines
  BY <1>1 DEF Hit, Answer, TypeOK
<1>2. ASSUME ReadNothing(a)
      PROVE  pc[a] # "idle" /\ key[a] \in Files /\ Answer(a, key[a], NoLines) /\ NoLines \in MaybeLines
  BY <1>2 DEF ReadNothing, Answer, CallsOK, MaybeLines
<1>3. ASSUME StoreLost(a)
      PROVE  pc[a] # "idle" /\ key[a] \in Files
             /\ Answer(a, key[a], buffers[key[a]]) /\ buffers[key[a]] \in MaybeLines
  BY <1>3 DEF StoreLost, Answer, CallsOK, TypeOK
<1>4. ASSUME StoreWon(a)
      PROVE  pc[a] # "idle" /\ key[a] \in Files
             /\ Answer(a, key[a], lines[a]) /\ lines[a] \in MaybeLines
  BY <1>4 DEF StoreWon, Answer, CallsOK, MaybeLines
<1>5. QED
  BY <1>1, <1>2, <1>3, <1>4

\* Such an answer keeps the whole invariant.
LEMMA AnswerKeepsIInv ==
    ASSUME IInv, NEW a \in Analyses, pc[a] # "idle",
           NEW f \in Files, NEW text \in MaybeLines, Answer(a, f, text)
    PROVE  IInv'
<1>1. /\ TypeOK /\ OrderMatchesCache /\ CallsOK /\ SourcesOK /\ StaleOnlyFromOverlap
      /\ Return(a, f, text)
  BY DEF IInv, Answer
<1>2. /\ buffers' \in [Files -> MaybeLines]
      /\ order' \in Seq(Files)
      /\ curFiles' \in 0..MaxFiles
      /\ OrderMatchesCache'
  <2>1. CASE UNCHANGED cache
    <3>1. buffers' = buffers /\ order' = order /\ curFiles' = curFiles
      BY <2>1 DEF cache
    <3>2. OrderMatchesCache'
      BY <1>1, <3>1 DEF OrderMatchesCache, Cached
    <3>3. QED
      BY <1>1, <3>1, <3>2 DEF TypeOK
  <2>2. CASE /\ pc[a] = "storing" /\ key[a] = f /\ lines[a] = text
             /\ f \notin Cached /\ Insert(f, text)
    BY <1>1, <2>2, InsertKeepsOrder DEF CallsOK
  <2>3. QED
    BY <2>1, <2>2 DEF Answer
<1>3. TypeOK'
  BY <1>1, <1>2, ReturnKeepsTypes DEF TypeOK, Answer
<1>4. CallsOK'
  BY <1>1 DEF CallsOK, Return, TypeOK
<1>5. /\ since' = since /\ inflight' = inflight /\ disk' = disk
      /\ pc' = [pc EXCEPT ![a] = "ready"]
      /\ \A b \in Analyses : b # a => pc'[b] = pc[b] /\ key'[b] = key[b] /\ lines'[b] = lines[b]
      /\ pc'[a] = "ready"
      /\ \A b \in Analyses : pc'[b] # "idle" => pc[b] # "idle"
  BY <1>1 DEF Return, Answer, TypeOK
<1>6. \A c \in Analyses : pc[c] # "idle" => text \in Allowed(c, f) \/ UNCHANGED cache
  BY <1>1 DEF Answer, SourcesOK
<1>7. \A c \in Analyses, g \in Files :
          pc[c] # "idle" /\ buffers'[g] # NoLines => buffers'[g] \in Allowed(c, g)
  <2>1. CASE UNCHANGED cache
    BY <1>1, <2>1 DEF cache, SourcesOK, Cached
  <2>2. CASE Insert(f, text) /\ ~UNCHANGED cache
    BY <1>1, <1>6, <2>2 DEF Insert, SourcesOK, Cached
  <2>3. QED
    BY <2>1, <2>2 DEF Answer
<1>8. SourcesOK'
  <2> SUFFICES ASSUME NEW c \in Analyses, pc'[c] # "idle", NEW g \in Files
               PROVE  /\ disk'[g] \in since'[c][g]
                      /\ g \in Cached' => buffers'[g] \in Allowed(c, g)'
                      /\ \A b \in Analyses : pc'[b] = "storing" /\ key'[b] = g
                                               => lines'[b] \in Allowed(c, g)'
    BY DEF SourcesOK
  <2>1. Allowed(c, g)' = Allowed(c, g)
    BY <1>5 DEF Allowed
  <2>2. QED
    BY <1>1, <1>5, <1>7, <2>1 DEF SourcesOK, Cached
<1>9. text \in Allowed(a, f)
  BY <1>1 DEF Answer, SourcesOK, Allowed
<1>10. StaleOnlyFromOverlap'
  <2>1. returned' = [returned EXCEPT ![a] = {<<f, text>>}]
    BY <1>1 DEF Return
  <2>2. QED
    BY <1>1, <1>5, <1>9, <2>1 DEF StaleOnlyFromOverlap, Allowed, TypeOK
<1>11. QED
  BY <1>2, <1>3, <1>4, <1>8, <1>10 DEF IInv

-----------------------------------------------------------------------------

LEMMA InitIInv == Init => IInv
<1> SUFFICES ASSUME Init PROVE IInv
  OBVIOUS
<1>1. TypeOK
  BY CacheAssumption, EmptySeq DEF Init, TypeOK, MaybeLines
<1>2. OrderMatchesCache
  BY DEF Init, OrderMatchesCache, Cached
<1>3. CallsOK /\ SourcesOK /\ StaleOnlyFromOverlap
  BY DEF Init, CallsOK, SourcesOK, StaleOnlyFromOverlap
<1>4. QED
  BY <1>1, <1>2, <1>3 DEF IInv

\* A step that leaves the cache's three fields alone keeps their agreement.
LEMMA SameCacheSameOrder ==
    ASSUME OrderMatchesCache, UNCHANGED cache
    PROVE  OrderMatchesCache'
<1>1. buffers' = buffers /\ order' = order /\ curFiles' = curFiles
  BY DEF cache
<1>2. QED
  BY <1>1 DEF OrderMatchesCache, Cached

LEMMA NextIInv == IInv /\ [Next]_vars => IInv'
<1> SUFFICES ASSUME IInv, [Next]_vars PROVE IInv'
  OBVIOUS
<1>1. TypeOK /\ OrderMatchesCache /\ CallsOK /\ SourcesOK /\ StaleOnlyFromOverlap
  BY DEF IInv
<1>2. ASSUME NEW a \in Analyses, Begin(a)
      PROVE  IInv'
  <2>1. /\ buffers' = [f \in Files |-> NoLines] /\ order' = <<>> /\ curFiles' = 0
        /\ disk' = disk /\ edits' = edits /\ key' = key /\ lines' = lines
        /\ pc' = [pc EXCEPT ![a] = "ready"]
        /\ returned' = [returned EXCEPT ![a] = {}]
        /\ since' = [since EXCEPT ![a] = [f \in Files |-> {disk[f]}]]
        /\ inflight' = [inflight EXCEPT ![a] = [f \in Files |->
              {lines[b] : b \in {c \in Analyses : pc[c] = "storing" /\ key[c] = f}}]]
    BY <1>2 DEF Begin, Clear
  <2>2. TypeOK'
    BY <1>1, <2>1, CacheAssumption, EmptySeq DEF TypeOK, MaybeLines
  <2>3. OrderMatchesCache'
    BY <2>1 DEF OrderMatchesCache, Cached
  <2>4. CallsOK'
    BY <1>1, <1>2, <2>1 DEF CallsOK, TypeOK, Begin
  <2>5. SourcesOK'
    <3> SUFFICES ASSUME NEW c \in Analyses, pc'[c] # "idle", NEW g \in Files
                 PROVE  /\ disk'[g] \in since'[c][g]
                        /\ g \in Cached' => buffers'[g] \in Allowed(c, g)'
                        /\ \A b \in Analyses : pc'[b] = "storing" /\ key'[b] = g
                                                 => lines'[b] \in Allowed(c, g)'
      BY DEF SourcesOK
    <3>1. g \notin Cached'
      BY <2>1 DEF Cached
    <3>2. \A b \in Analyses : pc'[b] = "storing" => pc[b] = "storing"
      BY <1>1, <2>1 DEF TypeOK
    <3>3. CASE c = a
      <4>1. since'[c][g] = {disk[g]}
        BY <1>1, <2>1, <3>3 DEF TypeOK
      <4>2. inflight'[c][g] = {lines[b] : b \in {d \in Analyses : pc[d] = "storing" /\ key[d] = g}}
        BY <1>1, <2>1, <3>3 DEF TypeOK
      <4>3. QED
        BY <2>1, <3>1, <3>2, <4>1, <4>2 DEF Allowed
    <3>4. CASE c # a
      BY <1>1, <2>1, <3>1, <3>2, <3>4 DEF SourcesOK, Allowed, TypeOK
    <3>5. QED
      BY <3>3, <3>4
  <2>6. StaleOnlyFromOverlap'
    BY <1>1, <2>1 DEF StaleOnlyFromOverlap, TypeOK
  <2>7. QED
    BY <2>2, <2>3, <2>4, <2>5, <2>6 DEF IInv
<1>3. ASSUME NEW a \in Analyses,
             (\E f \in Files : Hit(a, f)) \/ ReadNothing(a) \/ StoreLost(a) \/ StoreWon(a)
      PROVE  IInv'
  BY <1>1, <1>3, CallsAnswer, AnswerKeepsIInv
<1>4. ASSUME NEW a \in Analyses, NEW f \in Files, Miss(a, f)
      PROVE  IInv'
  <2>1. TypeOK' /\ CallsOK' /\ StaleOnlyFromOverlap'
    BY <1>1, <1>4 DEF Miss, cache, history, TypeOK, CallsOK, StaleOnlyFromOverlap
  <2>2. OrderMatchesCache'
    BY <1>1, <1>4, SameCacheSameOrder DEF Miss
  <2>3. SourcesOK'
    BY <1>1, <1>4 DEF Miss, cache, history, TypeOK, SourcesOK, Cached, Allowed
  <2>4. QED
    BY <2>1, <2>2, <2>3 DEF IInv
<1>5. ASSUME NEW a \in Analyses, ReadLines(a)
      PROVE  IInv'
  <2>1. key[a] \in Files /\ disk[key[a]] \in Contents
    BY <1>1, <1>5 DEF ReadLines, CallsOK, TypeOK, MaybeLines
  <2>2. TypeOK' /\ CallsOK' /\ StaleOnlyFromOverlap'
    BY <1>1, <1>5, <2>1
    DEF ReadLines, cache, history, TypeOK, CallsOK, StaleOnlyFromOverlap, MaybeLines
  <2>3. OrderMatchesCache'
    BY <1>1, <1>5, SameCacheSameOrder DEF ReadLines
  <2>4. SourcesOK'
    BY <1>1, <1>5, <2>1 DEF ReadLines, cache, history, TypeOK, SourcesOK, Cached, Allowed
  <2>5. QED
    BY <2>2, <2>3, <2>4 DEF IInv
<1>6. ASSUME NEW a \in Analyses, Finish(a)
      PROVE  IInv'
  <2>1. TypeOK' /\ CallsOK' /\ StaleOnlyFromOverlap'
    BY <1>1, <1>6 DEF Finish, cache, TypeOK, CallsOK, StaleOnlyFromOverlap
  <2>2. OrderMatchesCache'
    BY <1>1, <1>6, SameCacheSameOrder DEF Finish
  <2>3. SourcesOK'
    BY <1>1, <1>6 DEF Finish, cache, TypeOK, SourcesOK, Cached, Allowed
  <2>4. QED
    BY <2>1, <2>2, <2>3 DEF IInv
<1>7. ASSUME NEW f \in Files, NEW text \in MaybeLines, Edit(f, text)
      PROVE  IInv'
  <2>1. /\ disk' = [disk EXCEPT ![f] = text]
        /\ edits' \in 0..MaxEdits
        /\ UNCHANGED <<cache, locals, returned, inflight>>
        /\ since' = [a \in Analyses |->
              IF pc[a] = "idle" THEN since[a]
                                ELSE [since[a] EXCEPT ![f] = @ \cup {text}]]
    BY <1>1, <1>7, CacheAssumption DEF Edit, TypeOK
  <2>2. \A a \in Analyses, g \in Files : since[a][g] \subseteq since'[a][g]
    BY <1>1, <2>1 DEF TypeOK
  <2>3. TypeOK'
    <3>1. since' \in [Analyses -> [Files -> SUBSET MaybeLines]]
      BY <1>1, <2>1 DEF TypeOK
    <3>2. QED
      BY <1>1, <2>1, <3>1 DEF TypeOK, cache, locals
  <2>4. CallsOK' /\ StaleOnlyFromOverlap'
    BY <1>1, <2>1, <2>2 DEF CallsOK, StaleOnlyFromOverlap, cache, locals, TypeOK
  <2>5. OrderMatchesCache'
    BY <1>1, <2>1, SameCacheSameOrder
  <2>6. SourcesOK'
    <3>1. \A a \in Analyses, g \in Files : pc[a] # "idle" => disk'[g] \in since'[a][g]
      BY <1>1, <2>1 DEF SourcesOK, TypeOK
    <3>2. QED
      BY <1>1, <2>1, <2>2, <3>1 DEF SourcesOK, Allowed, Cached, cache, locals
  <2>7. QED
    BY <2>3, <2>4, <2>5, <2>6 DEF IInv
<1>8. CASE UNCHANGED vars
  <2>1. TypeOK' /\ CallsOK' /\ StaleOnlyFromOverlap' /\ SourcesOK'
    BY <1>1, <1>8 DEF vars, cache, locals, history, TypeOK, CallsOK, StaleOnlyFromOverlap,
                      SourcesOK, Cached, Allowed
  <2>2. OrderMatchesCache'
    BY <1>1, <1>8, SameCacheSameOrder DEF vars
  <2>3. QED
    BY <2>1, <2>2 DEF IInv
<1>9. QED
  BY <1>2, <1>3, <1>4, <1>5, <1>6, <1>7, <1>8 DEF Next

LEMMA Inductive == Spec => []IInv
  BY InitIInv, NextIInv, PTL DEF Spec

\* Every variable keeps its type; in particular the cache never counts more
\* entries than NewFileCache's capacity, whatever the analyses do.
THEOREM TypeCorrect == Spec => []TypeOK
<1>1. IInv => TypeOK
  BY DEF IInv
<1>2. QED
  BY <1>1, Inductive, PTL

\* GetLines and Clear keep `buffers`, `order` and `curFiles` in agreement.
THEOREM OrderAgrees == Spec => []OrderMatchesCache
<1>1. IInv => OrderMatchesCache
  BY DEF IInv
<1>2. QED
  BY <1>1, Inductive, PTL

\* What Clear does achieve: a call of GetLines returns nothing older than the
\* Clear of its analysis, except lines another call held across that Clear.
THEOREM StalenessBounded == Spec => []StaleOnlyFromOverlap
<1>1. IInv => StaleOnlyFromOverlap
  BY DEF IInv
<1>2. QED
  BY <1>1, Inductive, PTL

\* No step of GetLines or Clear replaces a cached text by another one.
THEOREM EntriesStay == Spec => EntriesAreStable
<1> DEFINE Stays == \A f \in Cached : buffers'[f] \in {buffers[f], NoLines}
<1>1. ASSUME IInv, [Next]_vars
      PROVE  Stays
  <2>1. TypeOK /\ CallsOK
    BY <1>1 DEF IInv
  <2>2. ASSUME NEW a \in Analyses, NEW f \in Files, NEW text \in MaybeLines, Answer(a, f, text)
        PROVE  Stays
    BY <2>1, <2>2 DEF Answer, Insert, cache, Cached, TypeOK
  <2>3. ASSUME NEW a \in Analyses,
               (\E f \in Files : Hit(a, f)) \/ ReadNothing(a) \/ StoreLost(a) \/ StoreWon(a)
        PROVE  Stays
    BY <2>1, <2>2, <2>3, CallsAnswer
  <2>4. ASSUME NEW a \in Analyses, Begin(a)
        PROVE  Stays
    BY <2>1, <2>4 DEF Begin, Clear, Cached
  <2>5. CASE UNCHANGED cache
    BY <2>5 DEF cache, Cached
  <2>6. QED
    BY <1>1, <2>3, <2>4, <2>5
    DEF Next, vars, Miss, ReadLines, Finish, Edit
<1>2. IInv /\ [Next]_vars => [Stays]_vars
  BY <1>1
<1>3. QED
  BY <1>2, Inductive, PTL DEF Spec, EntriesAreStable
==============================================================================

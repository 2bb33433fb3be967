---------------------------- MODULE LogScanProofs ----------------------------
(***************************************************************************)
(* Proofs about what the scan of the logs makes of any log: LineScan first, *)
(* Correlation after it.                                                    *)
(*                                                                         *)
(* LineScan: a state of the automaton is a text, and the state after some  *)
(* characters is the longest node of the trie that these characters end    *)
(* with; what a state puts out are the patterns that end it.  So a pass    *)
(* over a line puts out what stands in the line.  A token is a word of its *)
(* pattern or the whole of it and so stands where the pattern does.  From  *)
(* both, a line is handled exactly for the roles it speaks of, and what is *)
(* kept follows from the order in which the lines are handed over.         *)
(*                                                                         *)
(* Correlation: aggregation loses no match, the bursts found in the        *)
(* aggregated rows are those of the matches, every cascade reported is     *)
(* ordered, and one that positions leave no doubt about is reported.  The  *)
(* cascades rest on the rows being in chronological order, undated ones    *)
(* last, when the chains look at them; the bursts on that, on the counts   *)
(* of the rows, and on what the sweep has found after each row.            *)
(***************************************************************************)
EXTENDS Correlation, LineScan, FiniteSetTheorems, FunctionTheorems, SequenceTheorems,
        WellFoundedInduction, TLAPS

-----------------------------------------------------------------------------
(* Induction, from the least element of a set of natural numbers.             *)
LEMMA Least ==
    ASSUME NEW T, T \subseteq Nat, T # {}
    PROVE  \E m \in T : \A n \in T : m <= n
<1> DEFINE R == {ss \in Nat \X Nat : ss[1] < ss[2]}
<1>1. IsWellFoundedOn(R, Nat)
  BY NatLessThanWellFounded DEF OpToRel
<1>2. \A x, y \in Nat : <<x, y>> \in R <=> x < y
  OBVIOUS
<1> HIDE DEF R
<1>3. PICK m \in T : \A n \in T : ~(<<n, m>> \in R)
  BY <1>1, WFMin
<1>4. \A n \in T : ~(n < m)
  BY <1>2, <1>3
<1>5. \A a, b \in Nat : ~(b < a) => a <= b
  OBVIOUS
<1> QED
  BY <1>4, <1>5

LEMMA Greatest ==
    ASSUME NEW T, T \subseteq Nat, T # {}, NEW bound \in Nat, \A n \in T : n <= bound
    PROVE  \E m \in T : \A n \in T : n <= m
<1> DEFINE U == {bound - n : n \in T}
<1>1. U \subseteq Nat /\ U # {}
  <2>1. \A n \in T : bound - n \in Nat
    OBVIOUS
  <2>2. PICK n \in T : TRUE
    OBVIOUS
  <2> QED
    BY <2>1, <2>2
<1>2. PICK u \in U : \A v \in U : u <= v
  <2> HIDE DEF U
  <2> QED
    BY <1>1, Least
<1>3. PICK m \in T : u = bound - m
  BY <1>2
<1>4. \A n \in T : bound - m <= bound - n
  BY <1>2, <1>3
<1>5. \A n \in T : n <= m
  BY <1>4
<1> QED
  BY <1>5

LEMMA Induction ==
    ASSUME NEW N \in Nat, NEW T, 0 \in T, \A n \in 1..N : n - 1 \in T => n \in T
    PROVE  \A n \in 0..N : n \in T
<1> DEFINE Out == {n \in 0..N : n \notin T}
<1>1. SUFFICES ASSUME Out # {} PROVE FALSE
  OBVIOUS
<1>2. PICK n \in Out : \A m \in Out : n <= m
  <2>1. Out \subseteq Nat
    OBVIOUS
  <2> HIDE DEF Out
  <2> QED
    BY <1>1, <2>1, Least
<1>3. n \in 1..N /\ n \notin T
  BY <1>2
<1>4. n - 1 \in 0..N /\ ~(n <= n - 1)
  BY <1>3
<1>5. n - 1 \in T
  BY <1>2, <1>4
<1> QED
  BY <1>3, <1>5

\* f follows a recursion up to k.
Follows(f, k, V, base, step) ==
    /\ f \in [0..k -> V]
    /\ f[0] = base /\ \A n \in 1..k : f[n] = step[n][f[n - 1]]

\* A function defined by recursion on 0..N exists.
LEMMA RecursionExists ==
    ASSUME NEW N \in Nat, NEW V, NEW base \in V, NEW step \in [1..N -> [V -> V]]
    PROVE  \E f : Follows(f, N, V, base, step)
<1> DEFINE T == {k \in 0..N : \E f : Follows(f, k, V, base, step)}
<1>1. 0 \in T
  <2>1. Follows([n \in 0..0 |-> base], 0, V, base, step)
    BY DEF Follows
  <2> QED
    BY <2>1
<1>2. ASSUME NEW k \in 1..N, k - 1 \in T PROVE k \in T
  <2>2. PICK f : Follows(f, k - 1, V, base, step)
    BY <1>2
  <2> DEFINE g == [n \in 0..k |-> IF n = k THEN step[k][f[k - 1]] ELSE f[n]]
  <2>3. /\ f \in [0..(k - 1) -> V] /\ f[0] = base
        /\ \A n \in 1..(k - 1) : f[n] = step[n][f[n - 1]]
    BY <2>2 DEF Follows
  <2>4. f[k - 1] \in V /\ step[k] \in [V -> V]
    BY <2>3
  <2>5. step[k][f[k - 1]] \in V
    BY <2>4
  <2>6. g \in [0..k -> V] /\ g[0] = base
    BY <2>3, <2>5
  <2>7. ASSUME NEW n \in 1..k PROVE g[n] = step[n][g[n - 1]]
    <3>1. CASE n = k
      BY <3>1
    <3>2. CASE n # k
      BY <3>2, <2>3
    <3> QED
      BY <3>1, <3>2
  <2> HIDE DEF g
  <2>8. Follows(g, k, V, base, step)
    BY <2>6, <2>7 DEF Follows
  <2> QED
    BY <2>8
<1> HIDE DEF T
<1>3. \A k \in 0..N : k \in T
  BY <1>1, <1>2, Induction
<1>4. N \in 0..N
  OBVIOUS
<1> QED
  BY <1>3, <1>4 DEF T

-----------------------------------------------------------------------------
(* Suffixes.                                                                 *)

\* u ends s.
Ends(u, s) == Len(u) <= Len(s) /\ \A i \in 1..Len(u) : u[i] = s[Len(s) - Len(u) + i]

Front(s) == SubSeq(s, 1, Len(s) - 1)

LEMMA AppendIs ==
    ASSUME NEW s \in Seq(Bytes), NEW c \in Bytes
    PROVE  /\ Append(s, c) \in Seq(Bytes) /\ Len(s) \in Nat /\ Len(Append(s, c)) = Len(s) + 1
           /\ Append(s, c)[Len(s) + 1] = c /\ \A i \in 1..Len(s) : Append(s, c)[i] = s[i]
  OBVIOUS

\* A part of a text.
LEMMA PartIs ==
    ASSUME NEW s \in Seq(Bytes), NEW m \in 1..(Len(s) + 1), NEW n \in (m - 1)..Len(s)
    PROVE  /\ SubSeq(s, m, n) \in Seq(Bytes) /\ Len(SubSeq(s, m, n)) = n - m + 1
           /\ \A i \in 1..(n - m + 1) : SubSeq(s, m, n)[i] = s[m + i - 1]
<1> DEFINE f == SubSeq(s, m, n)
           k == n - m + 1
<1>1. m \in Int /\ n \in Int /\ k \in Nat /\ (m <= n <=> 1 <= k)
  OBVIOUS
<1>2. \A i \in m..n : s[i] \in Bytes
  <2>1. \A i \in m..n : i \in 1..Len(s)
    OBVIOUS
  <2> QED
    BY <2>1, ElementOfSeq
<1>3. /\ f \in Seq(Bytes) /\ Len(f) = IF m <= n THEN k ELSE 0
      /\ \A i \in 1..k : f[i] = s[m + i - 1]
  BY <1>1, <1>2, SubSeqProperties
<1> HIDE DEF f, k
<1>4. Len(f) = k
  BY <1>1, <1>3
<1> QED
  BY <1>3, <1>4 DEF f, k

LEMMA FrontIs ==
    ASSUME NEW s \in Seq(Bytes), s # Root
    PROVE  /\ Front(s) \in Seq(Bytes) /\ Len(s) \in Nat \ {0} /\ Len(Front(s)) = Len(s) - 1
           /\ s[Len(s)] \in Bytes /\ \A i \in 1..(Len(s) - 1) : Front(s)[i] = s[i]
           /\ s = Append(Front(s), s[Len(s)])
<1>1. Len(s) \in Nat \ {0} /\ Len(s) - 1 \in Nat /\ Len(s) \in 1..Len(s)
  BY EmptySeq DEF Root
<1>2. \A i \in 1..Len(s) : s[i] \in Bytes
  BY ElementOfSeq
<1>3. /\ Front(s) \in Seq(Bytes) /\ Len(Front(s)) = Len(s) - 1
      /\ \A i \in 1..(Len(s) - 1) : Front(s)[i] = s[i]
  <2> DEFINE n == Len(s) - 1
             f == SubSeq(s, 1, n)
  <2>1. 1 \in 1..(Len(s) + 1) /\ n \in (1 - 1)..Len(s) /\ n \in Nat
    BY <1>1
  <2>2. f = Front(s)
    BY DEF Front
  <2> HIDE DEF n
  <2>3. /\ f \in Seq(Bytes) /\ Len(f) = n - 1 + 1
        /\ \A i \in 1..(n - 1 + 1) : f[i] = s[1 + i - 1]
    BY <2>1, PartIs
  <2> HIDE DEF f
  <2>4. n - 1 + 1 = n /\ \A i \in 1..n : 1 + i - 1 = i
    BY <2>1
  <2>5. f \in Seq(Bytes) /\ Len(f) = n /\ \A i \in 1..n : f[i] = s[i]
    BY <2>3, <2>4
  <2> QED
    BY <2>2, <2>5 DEF n
<1>4. s = Append(Front(s), s[Len(s)])
  <2>1. s[Len(s)] \in Bytes
    BY <1>1, <1>2
  <2> DEFINE t == Append(Front(s), s[Len(s)])
  <2>2. /\ t \in Seq(Bytes) /\ Len(t) = Len(s) /\ t[Len(s)] = s[Len(s)]
        /\ \A i \in 1..(Len(s) - 1) : t[i] = s[i]
    BY <1>1, <1>3, <2>1, AppendIs
  <2> HIDE DEF t
  <2>3. \A i \in 1..Len(s) : s[i] = t[i]
    BY <1>1, <2>2
  <2>4. s = t
    BY <2>2, <2>3, SeqEqual
  <2> QED
    BY <2>4 DEF t
<1> QED
  BY <1>1, <1>2, <1>3, <1>4

LEMMA RootEnds == ASSUME NEW s \in Seq(Bytes) PROVE Ends(Root, s) /\ Root \in Seq(Bytes) /\ Len(Root) = 0
  BY DEF Ends, Root

LEMMA EndsItself == ASSUME NEW s \in Seq(Bytes) PROVE Ends(s, s)
  BY DEF Ends

LEMMA EndsTransitive ==
    ASSUME NEW u \in Seq(Bytes), NEW v \in Seq(Bytes), NEW s \in Seq(Bytes), Ends(u, v), Ends(v, s)
    PROVE  Ends(u, s)
<1>1. Len(u) \in Nat /\ Len(v) \in Nat /\ Len(s) \in Nat /\ Len(u) <= Len(v) /\ Len(v) <= Len(s)
  BY DEF Ends
<1>2. ASSUME NEW i \in 1..Len(u) PROVE u[i] = s[Len(s) - Len(u) + i]
  <2>1. Len(v) - Len(u) + i \in 1..Len(v)
    BY <1>1
  <2>2. u[i] = v[Len(v) - Len(u) + i]
    BY DEF Ends
  <2>3. v[Len(v) - Len(u) + i] = s[Len(s) - Len(v) + (Len(v) - Len(u) + i)]
    BY <2>1 DEF Ends
  <2>4. Len(s) - Len(v) + (Len(v) - Len(u) + i) = Len(s) - Len(u) + i
    BY <1>1
  <2> QED
    BY <2>2, <2>3, <2>4
<1> QED
  BY <1>1, <1>2 DEF Ends

LEMMA EndsNested ==
    ASSUME NEW u \in Seq(Bytes), NEW v \in Seq(Bytes), NEW s \in Seq(Bytes), Ends(u, s), Ends(v, s),
           Len(u) <= Len(v)
    PROVE  Ends(u, v)
<1>1. Len(u) \in Nat /\ Len(v) \in Nat /\ Len(s) \in Nat
  OBVIOUS
<1>2. ASSUME NEW i \in 1..Len(u) PROVE u[i] = v[Len(v) - Len(u) + i]
  <2>1. Len(v) - Len(u) + i \in 1..Len(v)
    BY <1>1
  <2>2. u[i] = s[Len(s) - Len(u) + i]
    BY DEF Ends
  <2>3. v[Len(v) - Len(u) + i] = s[Len(s) - Len(v) + (Len(v) - Len(u) + i)]
    BY <2>1 DEF Ends
  <2>4. Len(s) - Len(v) + (Len(v) - Len(u) + i) = Len(s) - Len(u) + i
    BY <1>1
  <2> QED
    BY <2>2, <2>3, <2>4
<1> QED
  BY <1>1, <1>2 DEF Ends

LEMMA EndsOfTheSameLength ==
    ASSUME NEW u \in Seq(Bytes), NEW v \in Seq(Bytes), NEW s \in Seq(Bytes), Ends(u, s), Ends(v, s),
           Len(u) = Len(v)
    PROVE  u = v
<1>1. Ends(u, v)
  BY EndsNested
<1>2. Len(u) \in Nat /\ Len(v) \in Nat
  OBVIOUS
<1>3. \A i \in 1..Len(u) : u[i] = v[i]
  BY <1>1, <1>2 DEF Ends
<1> QED
  BY <1>3, SeqEqual

\* What ends a text that goes on with c.
LEMMA EndsOfMore ==
    ASSUME NEW s \in Seq(Bytes), NEW c \in Bytes, NEW v \in Seq(Bytes), v # Root, Ends(v, Append(s, c))
    PROVE  v = Append(Front(v), c) /\ Ends(Front(v), s) /\ Front(v) \in Seq(Bytes)
<1> DEFINE t == Append(s, c)
<1>1. /\ Front(v) \in Seq(Bytes) /\ Len(v) \in Nat \ {0} /\ Len(Front(v)) = Len(v) - 1
      /\ v = Append(Front(v), v[Len(v)]) /\ \A i \in 1..(Len(v) - 1) : Front(v)[i] = v[i]
  BY FrontIs
<1>2. /\ Len(s) \in Nat /\ Len(t) = Len(s) + 1
      /\ t[Len(s) + 1] = c /\ \A i \in 1..Len(s) : t[i] = s[i]
  BY AppendIs
<1>8. Ends(v, t)
  OBVIOUS
<1> HIDE DEF t
<1>3. Len(v) <= Len(s) + 1 /\ \A i \in 1..Len(v) : v[i] = t[Len(s) + 1 - Len(v) + i]
  BY <1>2, <1>8 DEF Ends
<1>4. v[Len(v)] = c
  <2>1. Len(v) \in 1..Len(v) /\ Len(s) + 1 - Len(v) + Len(v) = Len(s) + 1
    BY <1>1, <1>2
  <2> QED
    BY <1>2, <1>3, <2>1
<1>5. ASSUME NEW i \in 1..(Len(v) - 1) PROVE Front(v)[i] = s[Len(s) - (Len(v) - 1) + i]
  <2>1. /\ i \in 1..Len(v) /\ Len(s) - (Len(v) - 1) + i \in 1..Len(s)
        /\ Len(s) + 1 - Len(v) + i = Len(s) - (Len(v) - 1) + i
    BY <1>1, <1>2, <1>3
  <2> QED
    BY <1>1, <1>2, <1>3, <2>1
<1>6. Len(v) - 1 <= Len(s)
  BY <1>1, <1>2, <1>3
<1>7. Ends(Front(v), s)
  BY <1>1, <1>5, <1>6 DEF Ends
<1> QED
  BY <1>1, <1>4, <1>7

LEMMA MoreEnds ==
    ASSUME NEW s \in Seq(Bytes), NEW c \in Bytes, NEW w \in Seq(Bytes), Ends(w, s)
    PROVE  Ends(Append(w, c), Append(s, c))
<1> DEFINE t == Append(s, c)
           x == Append(w, c)
<1>1. /\ Len(s) \in Nat /\ Len(t) = Len(s) + 1
      /\ t[Len(s) + 1] = c /\ \A i \in 1..Len(s) : t[i] = s[i]
  BY AppendIs
<1>2. /\ Len(w) \in Nat /\ Len(x) = Len(w) + 1
      /\ x[Len(w) + 1] = c /\ \A i \in 1..Len(w) : x[i] = w[i]
  BY AppendIs
<1> HIDE DEF t, x
<1>3. Len(w) <= Len(s) /\ \A i \in 1..Len(w) : w[i] = s[Len(s) - Len(w) + i]
  BY DEF Ends
<1>4. ASSUME NEW i \in 1..(Len(w) + 1)
      PROVE  x[i] = t[Len(s) + 1 - (Len(w) + 1) + i]
  <2>1. CASE i = Len(w) + 1
    <3>1. Len(s) + 1 - (Len(w) + 1) + i = Len(s) + 1
      BY <1>1, <1>2, <2>1
    <3> QED
      BY <1>1, <1>2, <2>1, <3>1
  <2>2. CASE i # Len(w) + 1
    <3>1. /\ i \in 1..Len(w) /\ Len(s) - Len(w) + i \in 1..Len(s)
          /\ Len(s) + 1 - (Len(w) + 1) + i = Len(s) - Len(w) + i
      BY <1>1, <1>2, <1>3, <2>2
    <3> QED
      BY <1>1, <1>2, <1>3, <3>1
  <2> QED
    BY <2>1, <2>2
<1>5. Len(w) + 1 <= Len(s) + 1
  BY <1>1, <1>2, <1>3
<1>6. Ends(x, t)
  BY <1>1, <1>2, <1>4, <1>5 DEF Ends
<1> QED
  BY <1>6 DEF t, x

\* What ends a text and is shorter ends the text without its first character.
LEMMA TailIs ==
    ASSUME NEW s \in Seq(Bytes), s # Root
    PROVE  /\ Tail(s) \in Seq(Bytes) /\ Len(Tail(s)) = Len(s) - 1 /\ Ends(Tail(s), s)
           /\ \A u \in Seq(Bytes) : Ends(u, s) /\ u # s => Ends(u, Tail(s))
<1>1. /\ Tail(s) \in Seq(Bytes) /\ Len(Tail(s)) = Len(s) - 1
      /\ \A i \in 1..(Len(s) - 1) : Tail(s)[i] = s[i + 1]
  BY HeadTailProperties DEF Root
<1>2. Len(s) \in Nat \ {0}
  BY FrontIs
<1>3. Ends(Tail(s), s)
  <2>1. Len(s) - 1 <= Len(s) /\ \A i \in 1..(Len(s) - 1) : Len(s) - (Len(s) - 1) + i = i + 1
    BY <1>2
  <2> QED
    BY <1>1, <2>1 DEF Ends
<1>4. ASSUME NEW u \in Seq(Bytes), Ends(u, s), u # s PROVE Ends(u, Tail(s))
  <2>1. Len(u) # Len(s)
    BY <1>4, EndsItself, EndsOfTheSameLength
  <2>2. Len(u) \in Nat /\ Len(u) <= Len(s)
    BY <1>4 DEF Ends
  <2>3. Len(u) <= Len(Tail(s))
    BY <1>1, <1>2, <2>1, <2>2
  <2> QED
    BY <1>1, <1>3, <1>4, <2>3, EndsNested
<1> QED
  BY <1>1, <1>3, <1>4

-----------------------------------------------------------------------------
(* The automaton: after a text it is in the longest suffix that has a state. *)

Trie(nodes) ==
    /\ nodes \subseteq Seq(Bytes) /\ Root \in nodes
    /\ \A n \in nodes : n # Root => Front(n) \in nodes

\* The longest suffix of s that has a state is u.
Deep(nodes, s, u) == u \in nodes /\ Ends(u, s) /\ \A v \in nodes : Ends(v, s) => Len(v) <= Len(u)
Deepest(nodes, s) == CHOOSE u \in nodes : Deep(nodes, s, u)

LEMMA DeepIsUnique ==
    ASSUME NEW nodes, Trie(nodes), NEW s \in Seq(Bytes), NEW u, NEW v, Deep(nodes, s, u), Deep(nodes, s, v)
    PROVE  u = v
<1>1. u \in Seq(Bytes) /\ v \in Seq(Bytes) /\ Ends(u, s) /\ Ends(v, s)
  BY DEF Deep, Trie
<1>2. Len(u) \in Nat /\ Len(v) \in Nat /\ Len(u) <= Len(v) /\ Len(v) <= Len(u)
  BY <1>1 DEF Deep
<1>3. Len(u) = Len(v)
  BY <1>2
<1> QED
  BY <1>1, <1>3, EndsOfTheSameLength

LEMMA DeepExists ==
    ASSUME NEW nodes, Trie(nodes), NEW s \in Seq(Bytes)
    PROVE  Deep(nodes, s, Deepest(nodes, s)) /\ Deepest(nodes, s) \in nodes
<1> DEFINE T == {Len(u) : u \in {v \in nodes : Ends(v, s)}}
<1>1. T \subseteq Nat /\ \A n \in T : n <= Len(s)
  BY DEF Trie, Ends
<1>2. T # {}
  BY RootEnds DEF Trie
<1>3. Len(s) \in Nat
  OBVIOUS
<1>4. PICK m \in T : \A n \in T : n <= m
  <2> HIDE DEF T
  <2> QED
    BY <1>1, <1>2, <1>3, Greatest
<1>5. PICK u \in {v \in nodes : Ends(v, s)} : m = Len(u)
  BY <1>4
<1>6. \A v \in nodes : Ends(v, s) => Len(v) \in T
  OBVIOUS
<1>7. Deep(nodes, s, u)
  BY <1>4, <1>5, <1>6 DEF Deep
<1> QED
  BY <1>5, <1>7 DEF Deepest

LEMMA DeepestIs ==
    ASSUME NEW nodes, Trie(nodes), NEW s \in Seq(Bytes), NEW u, Deep(nodes, s, u)
    PROVE  u = Deepest(nodes, s)
  BY DeepExists, DeepIsUnique

\* The longest suffix with a state tells as much of the text as what follows needs.
LEMMA DeepStep ==
    ASSUME NEW nodes, Trie(nodes), NEW s \in Seq(Bytes), NEW c \in Bytes, NEW u, Deep(nodes, s, u), NEW x
    PROVE  Deep(nodes, Append(s, c), x) <=> Deep(nodes, Append(u, c), x)
<1>1. u \in Seq(Bytes) /\ Ends(u, s) /\ u \in nodes
  BY DEF Deep, Trie
<1>2. Append(s, c) \in Seq(Bytes) /\ Append(u, c) \in Seq(Bytes)
  BY <1>1, AppendIs
<1>3. ASSUME NEW v \in nodes PROVE Ends(v, Append(s, c)) <=> Ends(v, Append(u, c))
  <2>1. v \in Seq(Bytes)
    BY DEF Trie
  <2>2. CASE v = Root
    BY <1>2, <2>2, RootEnds
  <2>3. CASE v # Root
    <3>1. Front(v) \in nodes /\ Front(v) \in Seq(Bytes)
      BY <2>3 DEF Trie
    <3>2. ASSUME Ends(v, Append(s, c)) PROVE Ends(v, Append(u, c))
      <4>1. v = Append(Front(v), c) /\ Ends(Front(v), s)
        BY <2>1, <2>3, <3>2, EndsOfMore
      <4>2. Ends(Front(v), u)
        BY <1>1, <3>1, <4>1, EndsNested DEF Deep
      <4> QED
        BY <1>1, <3>1, <4>1, <4>2, MoreEnds
    <3>3. ASSUME Ends(v, Append(u, c)) PROVE Ends(v, Append(s, c))
      <4>1. v = Append(Front(v), c) /\ Ends(Front(v), u)
        BY <1>1, <2>1, <2>3, <3>3, EndsOfMore
      <4>2. Ends(Front(v), s)
        BY <1>1, <3>1, <4>1, EndsTransitive
      <4> QED
        BY <3>1, <4>1, <4>2, MoreEnds
    <3> QED
      BY <3>2, <3>3
  <2> QED
    BY <2>2, <2>3
<1> QED
  BY <1>3 DEF Deep

\* The links of the states of up to k characters are right.
RightLinks(nodes, fail, k) ==
    \A n \in nodes : n # Root /\ Len(n) <= k => Deep(nodes, Tail(n), fail[n])

\* The text without its first character goes on as the text does.
LEMMA TailOfMore ==
    ASSUME NEW n \in Seq(Bytes), n # Root, NEW c \in Bytes
    PROVE  Append(n, c) \in Seq(Bytes) /\ Append(n, c) # Root /\ Append(Tail(n), c) = Tail(Append(n, c))
<1>1. Tail(n) \in Seq(Bytes) /\ Len(Tail(n)) = Len(n) - 1 /\ Len(n) \in Nat
  BY TailIs
<1> DEFINE z == Append(n, c)
           a == Append(Tail(n), c)
<1>2. z \in Seq(Bytes) /\ Len(z) = Len(n) + 1
  BY AppendIs
<1>3. a \in Seq(Bytes) /\ Len(a) = Len(Tail(n)) + 1
  BY <1>1, AppendIs
<1>4. Ends(a, z)
  BY <1>1, TailIs, MoreEnds
<1> HIDE DEF z, a
<1>5. z # Root
  BY <1>1, <1>2, RootEnds
<1>6. Tail(z) \in Seq(Bytes) /\ Len(Tail(z)) = Len(z) - 1 /\ Ends(Tail(z), z)
  BY <1>2, <1>5, TailIs
<1> DEFINE b == Tail(z)
<1>7. b \in Seq(Bytes) /\ Len(b) = Len(z) - 1 /\ Ends(b, z)
  BY <1>6
<1>8. b = Tail(z)
  OBVIOUS
<1> HIDE DEF b
<1>9. Len(a) = Len(b)
  BY <1>1, <1>2, <1>3, <1>7
<1>10. a = b
  BY <1>2, <1>3, <1>4, <1>7, <1>9, EndsOfTheSameLength
<1> QED
  BY <1>2, <1>5, <1>8, <1>10 DEF z, a

\* Where the walk goes on from a link is where the text leads.
LEMMA LinkLeadsOn ==
    ASSUME NEW nodes, Trie(nodes), NEW n \in nodes, n # Root, NEW c \in Bytes,
           NEW f, Deep(nodes, Tail(n), f), Append(n, c) \notin nodes
    PROVE  /\ f \in nodes /\ Len(f) < Len(n) /\ Len(f) \in Nat /\ Len(n) \in Nat
           /\ \A x : Deep(nodes, Append(f, c), x) <=> Deep(nodes, Append(n, c), x)
<1>1. n \in Seq(Bytes) /\ f \in nodes /\ f \in Seq(Bytes) /\ Ends(f, Tail(n))
  BY DEF Trie, Deep
<1>2. Tail(n) \in Seq(Bytes) /\ Len(Tail(n)) = Len(n) - 1 /\ Len(n) \in Nat
  BY <1>1, TailIs
<1>3. Len(f) \in Nat /\ Len(f) <= Len(n) - 1
  BY <1>1, <1>2 DEF Ends
<1>4. ASSUME NEW x PROVE Deep(nodes, Append(Tail(n), c), x) <=> Deep(nodes, Append(f, c), x)
  BY <1>2, DeepStep
<1>5. Append(n, c) \in Seq(Bytes) /\ Append(n, c) # Root /\ Append(Tail(n), c) = Tail(Append(n, c))
  BY <1>1, TailOfMore
<1>6. ASSUME NEW v \in nodes PROVE Ends(v, Append(n, c)) <=> Ends(v, Tail(Append(n, c)))
  <2>1. v \in Seq(Bytes) /\ v # Append(n, c)
    BY DEF Trie
  <2>2. /\ Tail(Append(n, c)) \in Seq(Bytes) /\ Ends(Tail(Append(n, c)), Append(n, c))
        /\ Ends(v, Append(n, c)) => Ends(v, Tail(Append(n, c)))
    BY <1>5, <2>1, TailIs
  <2>3. Ends(v, Tail(Append(n, c))) => Ends(v, Append(n, c))
    BY <1>5, <2>1, <2>2, EndsTransitive
  <2> QED
    BY <2>2, <2>3
<1>7. ASSUME NEW x PROVE Deep(nodes, Append(n, c), x) <=> Deep(nodes, Tail(Append(n, c)), x)
  BY <1>6 DEF Deep
<1>8. \A x : Deep(nodes, Append(f, c), x) <=> Deep(nodes, Append(n, c), x)
  BY <1>4, <1>5, <1>7
<1>9. Len(f) < Len(n)
  BY <1>2, <1>3
<1> QED
  BY <1>1, <1>2, <1>3, <1>8, <1>9

LEMMA GotoIs ==
    ASSUME NEW nodes, Trie(nodes), NEW fail, NEW node \in nodes, NEW c \in Bytes,
           RightLinks(nodes, fail, Len(node))
    PROVE  Deep(nodes, Append(node, c), Goto(nodes, fail, node, c))
<1> DEFINE D == {m \in nodes : Len(m) <= Len(node)}
           Body(g) == [n \in D |-> IF Append(n, c) \in nodes THEN Append(n, c)
                                   ELSE IF n = Root THEN Root ELSE g[fail[n]]]
           walk == CHOOSE g : g = Body(g)
           w == [n \in D |-> Deepest(nodes, Append(n, c))]
<1>1. Goto(nodes, fail, node, c) = walk[node]
  BY DEF Goto
<1>2. \A n \in D : n \in nodes /\ n \in Seq(Bytes) /\ Len(n) \in Nat /\ Len(n) <= Len(node)
  BY DEF Trie
<1>3. Root \in D /\ node \in D /\ Len(node) \in Nat /\ node \in Seq(Bytes)
  BY RootEnds DEF Trie
<1>4. \A n, m : n \in D /\ m \in nodes /\ Len(m) \in Nat /\ Len(m) < Len(n) => m \in D
  BY <1>2, <1>3
<1> HIDE DEF D
\* The three cases of a step.
<1>5. ASSUME NEW n \in D, Append(n, c) \in nodes
      PROVE  Deep(nodes, Append(n, c), Append(n, c))
  <2>1. n \in Seq(Bytes) /\ Append(n, c) \in Seq(Bytes)
    BY <1>2, AppendIs
  <2>2. \A v \in nodes : Ends(v, Append(n, c)) => Len(v) <= Len(Append(n, c))
    BY DEF Ends
  <2> QED
    BY <1>5, <2>1, <2>2, EndsItself DEF Deep
<1>6. ASSUME NEW n \in D, Append(n, c) \notin nodes, n = Root
      PROVE  Deep(nodes, Append(n, c), Root)
  <2>1. Root \in Seq(Bytes) /\ Append(Root, c) \in Seq(Bytes) /\ Len(Root) = 0
    BY <1>3, RootEnds, AppendIs
  <2>2. ASSUME NEW v \in nodes, Ends(v, Append(Root, c)) PROVE v = Root
    <3>1. SUFFICES ASSUME v # Root PROVE FALSE
      OBVIOUS
    <3>2. v \in Seq(Bytes)
      BY DEF Trie
    <3>3. v = Append(Front(v), c) /\ Ends(Front(v), Root) /\ Front(v) \in Seq(Bytes)
      BY <2>1, <2>2, <3>1, <3>2, EndsOfMore
    <3>4. Len(Front(v)) = 0
      <4>1. Len(Front(v)) <= 0 /\ Len(Front(v)) \in Nat
        BY <2>1, <3>3 DEF Ends
      <4> QED
        BY <4>1
    <3>5. Front(v) = Root
      BY <3>3, <3>4, EmptySeq DEF Root
    <3> QED
      BY <1>6, <3>3, <3>5
  <2>3. Root \in nodes /\ Ends(Root, Append(Root, c))
    BY <2>1, RootEnds DEF Trie
  <2> QED
    BY <1>6, <2>1, <2>2, <2>3 DEF Deep
<1>7. ASSUME NEW n \in D, Append(n, c) \notin nodes, n # Root
      PROVE  /\ fail[n] \in D /\ Len(fail[n]) < Len(n)
             /\ \A x : Deep(nodes, Append(fail[n], c), x) <=> Deep(nodes, Append(n, c), x)
  <2>1. Deep(nodes, Tail(n), fail[n])
    BY <1>2, <1>7 DEF RightLinks
  <2>2. /\ fail[n] \in nodes /\ Len(fail[n]) < Len(n) /\ Len(fail[n]) \in Nat /\ Len(n) \in Nat
        /\ \A x : Deep(nodes, Append(fail[n], c), x) <=> Deep(nodes, Append(n, c), x)
    BY <1>2, <1>7, <2>1, LinkLeadsOn
  <2> QED
    BY <1>4, <2>2
<1>8. w = Body(w)
  <2>1. ASSUME NEW n \in D PROVE w[n] = Body(w)[n]
    <3>0. n \in Seq(Bytes) /\ Append(n, c) \in Seq(Bytes) /\ w[n] = Deepest(nodes, Append(n, c))
      BY <1>2, AppendIs
    <3>1. CASE Append(n, c) \in nodes
      <4>1. Append(n, c) = Deepest(nodes, Append(n, c))
        BY <1>5, <3>0, <3>1, DeepestIs
      <4> QED
        BY <3>0, <3>1, <4>1
    <3>2. CASE Append(n, c) \notin nodes /\ n = Root
      <4>1. Root = Deepest(nodes, Append(n, c))
        BY <1>6, <3>0, <3>2, DeepestIs
      <4> QED
        BY <3>0, <3>2, <4>1
    <3>3. CASE Append(n, c) \notin nodes /\ n # Root
      <4>1. /\ fail[n] \in D
            /\ \A x : Deep(nodes, Append(fail[n], c), x) <=> Deep(nodes, Append(n, c), x)
        BY <1>7, <3>3
      <4>2. w[fail[n]] = Deepest(nodes, Append(fail[n], c)) /\ fail[n] \in Seq(Bytes)
        BY <1>2, <4>1
      <4>3. Append(fail[n], c) \in Seq(Bytes)
        BY <4>2, AppendIs
      <4>4. Deep(nodes, Append(fail[n], c), w[fail[n]])
        BY <4>2, <4>3, DeepExists
      <4>5. w[fail[n]] = Deepest(nodes, Append(n, c))
        BY <3>0, <4>1, <4>4, DeepestIs
      <4>6. Body(w)[n] = w[fail[n]]
        BY <3>3
      <4> QED
        BY <3>0, <4>5, <4>6
    <3> QED
      BY <3>1, <3>2, <3>3
  <2>2. DOMAIN w = D /\ DOMAIN Body(w) = D /\ w = [n \in D |-> w[n]] /\ Body(w) = [n \in D |-> Body(w)[n]]
    OBVIOUS
  <2> HIDE DEF w, Body
  <2> QED
    BY <2>1, <2>2
<1>9. walk = Body(walk)
  BY <1>8
<1> HIDE DEF walk, w
<1>10. \A n \in D : walk[n] = IF Append(n, c) \in nodes THEN Append(n, c)
                              ELSE IF n = Root THEN Root ELSE walk[fail[n]]
  BY <1>9
<1> HIDE DEF Body
<1> DEFINE T == {k \in 0..Len(node) : \A n \in D : Len(n) <= k => Deep(nodes, Append(n, c), walk[n])}
<1>11. 0 \in T
  <2>1. ASSUME NEW n \in D, Len(n) <= 0 PROVE Deep(nodes, Append(n, c), walk[n])
    <3>1. n = Root
      BY <1>2, <2>1, EmptySeq DEF Root
    <3> QED
      BY <1>5, <1>6, <1>10, <3>1
  <2> QED
    BY <1>3, <2>1
<1>12. ASSUME NEW k \in 1..Len(node), k - 1 \in T PROVE k \in T
  <2>1. ASSUME NEW n \in D, Len(n) <= k PROVE Deep(nodes, Append(n, c), walk[n])
    <3>1. CASE Append(n, c) \in nodes
      BY <1>5, <1>10, <3>1
    <3>2. CASE Append(n, c) \notin nodes /\ n = Root
      BY <1>6, <1>10, <3>2
    <3>3. CASE Append(n, c) \notin nodes /\ n # Root
      <4>1. /\ fail[n] \in D /\ Len(fail[n]) < Len(n)
            /\ \A x : Deep(nodes, Append(fail[n], c), x) <=> Deep(nodes, Append(n, c), x)
        BY <1>7, <3>3
      <4>2. Len(fail[n]) \in Nat /\ Len(n) \in Nat
        BY <1>2, <4>1
      <4>3. Len(fail[n]) <= k - 1
        BY <1>3, <2>1, <4>1, <4>2
      <4>4. Deep(nodes, Append(fail[n], c), walk[fail[n]])
        BY <1>12, <4>1, <4>3
      <4> QED
        BY <1>10, <3>3, <4>1, <4>4
    <3> QED
      BY <3>1, <3>2, <3>3
  <2>2. k \in 0..Len(node)
    BY <1>3
  <2> QED
    BY <2>1, <2>2
<1> HIDE DEF T
<1>13. Len(node) \in T
  <2>1. \A n \in 1..Len(node) : n - 1 \in T => n \in T
    BY <1>12
  <2>2. \A n \in 0..Len(node) : n \in T
    BY <1>3, <1>11, <2>1, Induction
  <2>3. Len(node) \in 0..Len(node)
    BY <1>3
  <2> QED
    BY <2>2, <2>3
<1>14. Deep(nodes, Append(node, c), walk[node])
  BY <1>3, <1>13 DEF T
<1> QED
  BY <1>1, <1>14

\* The failure link of a state is its longest proper suffix that has one.
LEMMA FailuresAre ==
    ASSUME NEW nodes, Trie(nodes), NEW k \in Nat
    PROVE  RightLinks(nodes, Failures(nodes), k)
<1> DEFINE From(g, n) == Goto(nodes, g, g[Front(n)], n[Len(n)])
           Body(g) == [n \in nodes |-> IF Len(n) <= 1 THEN Root
                                       ELSE Goto(nodes, g, g[SubSeq(n, 1, Len(n) - 1)], n[Len(n)])]
           fail == CHOOSE g : g = Body(g)
           w == [n \in nodes |-> IF n = Root THEN Root ELSE Deepest(nodes, Tail(n))]
<1>1. Failures(nodes) = fail
  BY DEF Failures
<1>2. \A g : Body(g) = [n \in nodes |-> IF Len(n) <= 1 THEN Root ELSE From(g, n)]
  BY DEF Front
<1> HIDE DEF Body
<1>3. \A n \in nodes : n \in Seq(Bytes) /\ Len(n) \in Nat /\ (Len(n) <= 0 <=> n = Root)
  <2>1. ASSUME NEW n \in nodes PROVE Len(n) <= 0 <=> n = Root
    <3>1. n \in Seq(Bytes) /\ Len(n) \in Nat /\ Root \in Seq(Bytes) /\ Len(Root) = 0
      BY RootEnds DEF Trie
    <3>2. n # Root => Len(n) \in Nat \ {0}
      BY <3>1, FrontIs
    <3>3. \A j \in Nat \ {0} : ~(j <= 0)
      OBVIOUS
    <3> QED
      BY <3>1, <3>2, <3>3
  <2> QED
    BY <2>1 DEF Trie
<1>4. ASSUME NEW n \in nodes, n # Root PROVE Tail(n) \in Seq(Bytes) /\ Len(Tail(n)) = Len(n) - 1
  BY <1>3, <1>4, TailIs
\* The link of one character, and that of more from the links of fewer.
<1>5. ASSUME NEW n \in nodes, n # Root, Len(n) <= 1 PROVE Deep(nodes, Tail(n), Root)
  <2>1. Tail(n) \in Seq(Bytes) /\ Len(Tail(n)) = Len(n) - 1 /\ Len(n) \in Nat
    BY <1>3, <1>4, <1>5
  <2>2. ~(Len(Tail(n)) \in Nat \ {0})
    BY <1>5, <2>1
  <2>3. Tail(n) = Root
    BY <2>1, <2>2, FrontIs
  <2>4. Root \in nodes /\ Root \in Seq(Bytes) /\ Len(Root) = 0
    BY RootEnds, <1>3 DEF Trie
  <2>5. \A v \in nodes : Ends(v, Root) => Len(v) <= Len(Root)
    BY DEF Ends
  <2> QED
    BY <2>3, <2>4, <2>5, EndsItself DEF Deep
<1>6. ASSUME NEW g, NEW n \in nodes, ~(Len(n) <= 1), RightLinks(nodes, g, Len(n) - 1)
      PROVE  Deep(nodes, Tail(n), From(g, n))
  <2>1. n # Root /\ n \in Seq(Bytes) /\ Len(n) \in Nat
    <3>1. n \in Seq(Bytes) /\ Len(n) \in Nat /\ (Len(n) <= 0 <=> n = Root)
      BY <1>3
    <3>2. ~(Len(n) <= 0)
      BY <1>6, <3>1
    <3> QED
      BY <3>1, <3>2
  <2> DEFINE f == Front(n)
             c == n[Len(n)]
  <2>2. /\ f \in nodes /\ f \in Seq(Bytes) /\ Len(f) = Len(n) - 1 /\ c \in Bytes /\ n = Append(f, c)
    BY <2>1, FrontIs DEF Trie
  <2> HIDE DEF f, c
  <2>3. f # Root /\ Len(f) \in Nat
    <3>1. ~(Len(f) <= 0) /\ Len(f) \in Nat
      BY <1>6, <2>1, <2>2
    <3> QED
      BY <1>3, <2>2, <3>1
  <2>4. Deep(nodes, Tail(f), g[f])
    <3>1. Len(f) <= Len(n) - 1
      BY <2>1, <2>2
    <3> QED
      BY <1>6, <2>2, <2>3, <3>1 DEF RightLinks
  <2>5. g[f] \in nodes /\ g[f] \in Seq(Bytes) /\ Tail(f) \in Seq(Bytes) /\ Len(g[f]) <= Len(Tail(f)) /\ Len(Tail(f)) = Len(f) - 1
    BY <1>3, <1>4, <2>2, <2>3, <2>4 DEF Deep, Ends
  <2>6. RightLinks(nodes, g, Len(g[f]))
    <3>1. Len(g[f]) \in Nat /\ Len(g[f]) <= Len(n) - 1
      BY <1>3, <2>1, <2>2, <2>3, <2>5
    <3>2. \A v \in nodes : Len(v) <= Len(g[f]) => Len(v) <= Len(n) - 1
      BY <1>3, <2>1, <3>1
    <3> QED
      BY <1>6, <3>2 DEF RightLinks
  <2>7. Deep(nodes, Append(g[f], c), Goto(nodes, g, g[f], c))
    BY <2>2, <2>5, <2>6, GotoIs
  <2>8. Deep(nodes, Append(Tail(f), c), Goto(nodes, g, g[f], c))
    BY <2>2, <2>4, <2>5, <2>7, DeepStep
  <2>9. Append(Tail(f), c) = Tail(n)
    BY <2>1, <2>2, <2>3, TailOfMore
  <2> QED
    BY <2>8, <2>9 DEF f, c
<1>7. w = Body(w)
  <2>1. \A n \in nodes : n # Root => Deep(nodes, Tail(n), w[n])
    BY <1>4, DeepExists
  <2>2. ASSUME NEW n \in nodes PROVE w[n] = IF Len(n) <= 1 THEN Root ELSE From(w, n)
    <3> HIDE DEF w, From
    <3>1. CASE n = Root
      <4>1. Len(n) <= 1
        BY <3>1, RootEnds, <1>3
      <4>2. w[n] = Root
        BY <3>1 DEF w
      <4> QED
        BY <4>1, <4>2
    <3>2. CASE n # Root /\ Len(n) <= 1
      <4>1. w[n] = Root
        BY <1>4, <1>5, <2>1, <3>2, DeepIsUnique
      <4> QED
        BY <3>2, <4>1
    <3>3. CASE n # Root /\ ~(Len(n) <= 1)
      <4>1. RightLinks(nodes, w, Len(n) - 1)
        BY <2>1 DEF RightLinks
      <4>2. Deep(nodes, Tail(n), From(w, n))
        BY <1>6, <3>3, <4>1
      <4>3. w[n] = From(w, n)
        BY <1>4, <2>1, <3>3, <4>2, DeepIsUnique
      <4> QED
        BY <3>3, <4>3
    <3> QED
      BY <3>1, <3>2, <3>3
  <2>3. w = [n \in nodes |-> w[n]]
    OBVIOUS
  <2> HIDE DEF w, From
  <2> QED
    BY <1>2, <2>2, <2>3
<1>8. fail = Body(fail)
  BY <1>7
<1> HIDE DEF fail, w, From
<1>9. \A n \in nodes : fail[n] = IF Len(n) <= 1 THEN Root ELSE From(fail, n)
  BY <1>2, <1>8
<1> DEFINE T == {j \in 0..k : RightLinks(nodes, fail, j)}
<1>10. 0 \in T
  <2>1. \A n \in nodes : n # Root => ~(Len(n) <= 0)
    BY <1>3
  <2> QED
    BY <2>1 DEF RightLinks
<1>11. ASSUME NEW j \in 1..k, j - 1 \in T PROVE j \in T
  <2>1. ASSUME NEW n \in nodes, n # Root, Len(n) <= j PROVE Deep(nodes, Tail(n), fail[n])
    <3>1. CASE Len(n) <= 1
      <4>1. fail[n] = Root
        BY <1>9, <3>1
      <4> QED
        BY <1>5, <2>1, <3>1, <4>1
    <3>2. CASE ~(Len(n) <= 1)
      <4>1. Len(n) \in Nat /\ j \in Nat /\ Len(n) - 1 <= j - 1
        BY <1>3, <2>1
      <4>2. \A v \in nodes : Len(v) <= Len(n) - 1 => Len(v) <= j - 1
        BY <1>3, <4>1
      <4>3. RightLinks(nodes, fail, Len(n) - 1)
        BY <1>11, <4>2 DEF RightLinks
      <4> QED
        BY <1>6, <1>9, <3>2, <4>3
    <3> QED
      BY <3>1, <3>2
  <2> QED
    BY <2>1 DEF RightLinks
<1> HIDE DEF T
<1>12. k \in T
  <2>1. \A j \in 0..k : j \in T
    BY <1>10, <1>11, Induction
  <2> QED
    BY <2>1
<1> QED
  BY <1>1, <1>12 DEF T

\* What a state puts out.
LEMMA OutputsAre ==
    ASSUME NEW nodes, Trie(nodes), NEW fail, \A k \in Nat : RightLinks(nodes, fail, k),
           NEW patterns, patterns \subseteq nodes, NEW node \in nodes
    PROVE  Outputs(nodes, fail, patterns)[node] = {p \in patterns \ {Root} : Ends(p, node)}
<1> DEFINE Body(g) == [n \in nodes |-> ({n} \cap (patterns \ {Root}))
                                       \cup (IF n = Root THEN {} ELSE g[fail[n]])]
           out == CHOOSE g : g = Body(g)
           Put(n) == {p \in patterns \ {Root} : Ends(p, n)}
           w == [n \in nodes |-> Put(n)]
<1>1. Outputs(nodes, fail, patterns) = out
  BY DEF Outputs
<1>2. \A n \in nodes : n \in Seq(Bytes) /\ Len(n) \in Nat
  BY DEF Trie
<1>3. ASSUME NEW n \in nodes, n # Root
      PROVE  /\ fail[n] \in nodes /\ Len(fail[n]) <= Len(n) - 1
             /\ Put(n) = ({n} \cap (patterns \ {Root})) \cup Put(fail[n])
  <2>1. Deep(nodes, Tail(n), fail[n])
    <3>1. Len(n) <= Len(n) /\ Len(n) \in Nat
      BY <1>2
    <3> QED
      BY <1>3, <3>1 DEF RightLinks
  <2>2. /\ Tail(n) \in Seq(Bytes) /\ Len(Tail(n)) = Len(n) - 1 /\ Ends(Tail(n), n)
        /\ \A u \in Seq(Bytes) : Ends(u, n) /\ u # n => Ends(u, Tail(n))
    BY <1>2, <1>3, TailIs
  <2>3. fail[n] \in nodes /\ fail[n] \in Seq(Bytes) /\ Ends(fail[n], Tail(n))
    BY <1>2, <2>1 DEF Deep
  <2>4. Len(fail[n]) <= Len(n) - 1
    BY <2>2, <2>3 DEF Ends
  <2>5. ASSUME NEW p \in patterns PROVE Ends(p, n) <=> p = n \/ Ends(p, fail[n])
    <3>1. p \in nodes /\ p \in Seq(Bytes) /\ n \in Seq(Bytes)
      BY <1>2
    <3>2. ASSUME Ends(p, n), p # n PROVE Ends(p, fail[n])
      <4>1. Ends(p, Tail(n))
        BY <2>2, <3>1, <3>2
      <4>2. Len(p) <= Len(fail[n])
        BY <2>1, <3>1, <4>1 DEF Deep
      <4> QED
        BY <2>2, <2>3, <3>1, <4>1, <4>2, EndsNested
    <3>3. ASSUME Ends(p, fail[n]) PROVE Ends(p, n)
      <4>1. Ends(p, Tail(n))
        BY <2>2, <2>3, <3>1, <3>3, EndsTransitive
      <4> QED
        BY <2>2, <3>1, <4>1, EndsTransitive
    <3>4. p = n => Ends(p, n)
      BY <3>1, EndsItself
    <3> QED
      BY <3>2, <3>3, <3>4
  <2>6. Put(n) = ({n} \cap (patterns \ {Root})) \cup Put(fail[n])
    <3>1. \A p : p \in Put(n) <=> p \in ({n} \cap (patterns \ {Root})) \cup Put(fail[n])
      BY <2>5
    <3> HIDE DEF Put
    <3> QED
      BY <3>1
  <2> QED
    BY <2>3, <2>4, <2>6
<1>4. Put(Root) = {} /\ {Root} \cap (patterns \ {Root}) = {}
  <2>1. ASSUME NEW p \in patterns \ {Root}, Ends(p, Root) PROVE FALSE
    <3>1. p \in Seq(Bytes) /\ p # Root
      BY <1>2
    <3>2. Len(p) \in Nat \ {0}
      BY <3>1, FrontIs
    <3>3. Len(p) <= Len(Root) /\ Len(Root) = 0
      BY <2>1, <3>1, RootEnds DEF Ends
    <3> QED
      BY <3>2, <3>3
  <2> QED
    BY <2>1
<1>5. w = Body(w)
  <2>1. ASSUME NEW n \in nodes
        PROVE  w[n] = ({n} \cap (patterns \ {Root})) \cup (IF n = Root THEN {} ELSE w[fail[n]])
    <3>1. w[n] = Put(n) /\ \A m \in nodes : w[m] = Put(m)
      OBVIOUS
    <3> HIDE DEF w, Put
    <3>2. CASE n = Root
      BY <1>4, <3>1, <3>2
    <3>3. CASE n # Root
      BY <1>3, <3>1, <3>3
    <3> QED
      BY <3>2, <3>3
  <2>2. w = [n \in nodes |-> w[n]]
    OBVIOUS
  <2> HIDE DEF w
  <2> QED
    BY <2>1, <2>2
<1>6. out = Body(out)
  BY <1>5
<1> HIDE DEF out, w
<1>7. \A n \in nodes : out[n] = ({n} \cap (patterns \ {Root})) \cup (IF n = Root THEN {} ELSE out[fail[n]])
  BY <1>6
<1> HIDE DEF Put, Body
<1> DEFINE T == {k \in 0..Len(node) : \A n \in nodes : Len(n) <= k => out[n] = Put(n)}
<1>8. \A n \in nodes : n = Root => out[n] = Put(n)
  BY <1>4, <1>7
<1>9. 0 \in T
  <2>1. ASSUME NEW n \in nodes, Len(n) <= 0 PROVE n = Root
    <3>1. ~(Len(n) \in Nat \ {0}) /\ n \in Seq(Bytes)
      BY <1>2, <2>1
    <3> QED
      BY <3>1, FrontIs
  <2> QED
    BY <1>2, <1>8, <2>1
<1>10. ASSUME NEW k \in 1..Len(node), k - 1 \in T PROVE k \in T
  <2>1. ASSUME NEW n \in nodes, Len(n) <= k, n # Root PROVE out[n] = Put(n)
    <3>1. /\ fail[n] \in nodes /\ Len(fail[n]) <= Len(n) - 1
          /\ Put(n) = ({n} \cap (patterns \ {Root})) \cup Put(fail[n])
      BY <1>3, <2>1
    <3>2. Len(fail[n]) <= k - 1
      BY <1>2, <2>1, <3>1
    <3>3. out[fail[n]] = Put(fail[n])
      BY <1>10, <3>1, <3>2
    <3> QED
      BY <1>7, <2>1, <3>1, <3>3
  <2>2. k \in 0..Len(node)
    BY <1>2
  <2> QED
    BY <1>8, <2>1, <2>2
<1> HIDE DEF T
<1>11. Len(node) \in T
  <2>1. \A k \in 0..Len(node) : k \in T
    BY <1>2, <1>9, <1>10, Induction
  <2>2. Len(node) \in 0..Len(node)
    BY <1>2
  <2> QED
    BY <2>1, <2>2
<1>12. out[node] = Put(node)
  <2>1. Len(node) <= Len(node)
    BY <1>2
  <2> QED
    BY <1>11, <2>1 DEF T
<1> QED
  BY <1>1, <1>12 DEF Put

LEMMA NodesAreATrie ==
    ASSUME NEW patterns, patterns \subseteq Seq(Bytes)
    PROVE  Trie(Nodes(patterns)) /\ patterns \subseteq Nodes(patterns)
<1>1. ASSUME NEW p \in patterns, NEW i \in 0..Len(p)
      PROVE  /\ SubSeq(p, 1, i) \in Seq(Bytes) /\ Len(SubSeq(p, 1, i)) = i
             /\ \A j \in 1..i : SubSeq(p, 1, i)[j] = p[j]
  <2> DEFINE f == SubSeq(p, 1, i)
  <2>1. p \in Seq(Bytes) /\ 1 \in 1..(Len(p) + 1) /\ i \in (1 - 1)..Len(p)
    OBVIOUS
  <2>2. f \in Seq(Bytes) /\ Len(f) = i - 1 + 1 /\ \A j \in 1..(i - 1 + 1) : f[j] = p[1 + j - 1]
    BY <2>1, PartIs
  <2> HIDE DEF f
  <2>3. i - 1 + 1 = i /\ \A j \in 1..i : 1 + j - 1 = j
    OBVIOUS
  <2>4. f \in Seq(Bytes) /\ Len(f) = i /\ \A j \in 1..i : f[j] = p[j]
    BY <2>2, <2>3
  <2> QED
    BY <2>4 DEF f
<1>2. ASSUME NEW p \in patterns, NEW i \in 0..Len(p), SubSeq(p, 1, i) # Root
      PROVE  Front(SubSeq(p, 1, i)) \in Prefixes(p)
  <2> DEFINE f == SubSeq(p, 1, i)
             e == SubSeq(p, 1, i - 1)
  <2>1. f \in Seq(Bytes) /\ f # Root /\ Len(f) = i /\ \A j \in 1..i : f[j] = p[j]
    BY <1>1, <1>2
  <2> HIDE DEF f
  <2>2. i \in Nat \ {0} /\ Front(f) \in Seq(Bytes) /\ Len(Front(f)) = i - 1 /\ \A j \in 1..(i - 1) : Front(f)[j] = f[j]
    BY <2>1, FrontIs
  <2>3. i - 1 \in 0..Len(p) /\ p \in Seq(Bytes)
    BY <2>2
  <2>4. e \in Seq(Bytes) /\ Len(e) = i - 1 /\ \A j \in 1..(i - 1) : e[j] = p[j]
    BY <1>1, <2>3
  <2>5. e \in Prefixes(p)
    BY <2>3 DEF Prefixes
  <2> HIDE DEF e
  <2> DEFINE d == Front(f)
  <2>6. d \in Seq(Bytes) /\ Len(d) = i - 1 /\ \A j \in 1..(i - 1) : d[j] = e[j]
    <3>1. \A j \in 1..(i - 1) : j \in 1..i
      BY <2>2
    <3> QED
      BY <2>1, <2>2, <2>4, <3>1
  <2> HIDE DEF d
  <2>7. d = e
    <3>1. Len(d) = Len(e) /\ \A j \in 1..Len(d) : d[j] = e[j]
      BY <2>4, <2>6
    <3> QED
      BY <2>4, <2>6, <3>1, SeqEqual
  <2> QED
    BY <2>5, <2>7 DEF d, f
<1>3. ASSUME NEW p \in patterns PROVE p \in Prefixes(p)
  <2>1. Len(p) \in 0..Len(p) /\ SubSeq(p, 1, Len(p)) = p
    BY SubSeqFull
  <2> QED
    BY <2>1 DEF Prefixes
<1>4. \A n \in Nodes(patterns) : n = Root \/ \E p \in patterns : \E i \in 0..Len(p) : n = SubSeq(p, 1, i)
  BY DEF Nodes, Prefixes
<1>5. \A p \in patterns : Prefixes(p) \subseteq Nodes(patterns)
  BY DEF Nodes
<1>6. Nodes(patterns) \subseteq Seq(Bytes)
  <2>1. Root \in Seq(Bytes)
    BY EmptySeq DEF Root
  <2> QED
    BY <1>1, <1>4, <2>1
<1>7. Root \in Nodes(patterns)
  BY DEF Nodes
<1>8. ASSUME NEW n \in Nodes(patterns), n # Root PROVE Front(n) \in Nodes(patterns)
  <2>1. PICK p \in patterns : \E i \in 0..Len(p) : n = SubSeq(p, 1, i)
    BY <1>4, <1>8
  <2>2. PICK i \in 0..Len(p) : n = SubSeq(p, 1, i)
    BY <2>1
  <2> QED
    BY <1>2, <1>5, <1>8, <2>2
<1> QED
  BY <1>3, <1>5, <1>6, <1>7, <1>8 DEF Trie

-----------------------------------------------------------------------------
(* What one pass puts out.                                                   *)

LEMMA LowerIs ==
    /\ \A c \in Bytes : LowerASCII(c) \in Bytes /\ LowerASCII(LowerASCII(c)) = LowerASCII(c)
    /\ \A c : LowerASCII(c) = Blank <=> c = Blank
  BY LineScanAssumption DEF LowerASCII

LEMMA ToLowerIs ==
    ASSUME NEW s \in Seq(Bytes)
    PROVE  /\ ToLower(s) \in Seq(Bytes) /\ Len(ToLower(s)) = Len(s) /\ ToLower(ToLower(s)) = ToLower(s)
           /\ \A i \in 1..Len(s) : ToLower(s)[i] = LowerASCII(s[i])
<1>1. Len(s) \in Nat /\ DOMAIN s = 1..Len(s) /\ \A i \in 1..Len(s) : s[i] \in Bytes
  BY LenProperties
<1> DEFINE t == [i \in 1..Len(s) |-> LowerASCII(s[i])]
<1>2. t \in [1..Len(s) -> Bytes]
  BY <1>1, LowerIs
<1>3. t \in Seq(Bytes) /\ Len(t) = Len(s)
  <2>1. t \in Seq(Bytes)
    BY <1>1, <1>2, SeqDef
  <2>2. 1..Len(t) = 1..Len(s) /\ Len(t) \in Nat
    BY <2>1, LenProperties
  <2>3. \A j, k \in Nat : 1..j = 1..k => j = k
    <3>1. ASSUME NEW j \in Nat, NEW k \in Nat, 1..j = 1..k, j < k PROVE FALSE
      <4>1. k \in 1..k /\ k \notin 1..j
        BY <3>1
      <4> QED
        BY <3>1, <4>1
    <3> QED
      BY <3>1
  <2> HIDE DEF t
  <2>4. Len(t) = Len(s)
    BY <1>1, <2>2, <2>3
  <2> QED
    BY <2>1, <2>4
<1>4. ToLower(s) = t
  BY <1>1 DEF ToLower
<1>5. \A i \in 1..Len(s) : t[i] = LowerASCII(s[i])
  OBVIOUS
<1> HIDE DEF t
<1>6. ToLower(t) = t
  <2>1. ToLower(t) = [i \in 1..Len(s) |-> LowerASCII(t[i])]
    BY <1>2 DEF ToLower
  <2>2. \A i \in 1..Len(s) : LowerASCII(t[i]) = t[i]
    BY <1>1, <1>5, LowerIs
  <2>3. t = [i \in 1..Len(s) |-> t[i]]
    BY <1>2
  <2> QED
    BY <2>1, <2>2, <2>3
<1> QED
  BY <1>3, <1>4, <1>5, <1>6

\* The first i characters.
LEMMA PartGrows ==
    ASSUME NEW t \in Seq(Bytes), NEW i \in 1..Len(t)
    PROVE  /\ SubSeq(t, 1, i - 1) \in Seq(Bytes) /\ t[i] \in Bytes /\ i - 1 \in 0..Len(t)
           /\ SubSeq(t, 1, i) = Append(SubSeq(t, 1, i - 1), t[i])
<1> DEFINE a == SubSeq(t, 1, i)
           b == SubSeq(t, 1, i - 1)
           c == Append(b, t[i])
<1>1. i - 1 \in 0..Len(t) /\ i \in Nat /\ t[i] \in Bytes
  BY ElementOfSeq
<1>2. a \in Seq(Bytes) /\ Len(a) = i /\ \A j \in 1..i : a[j] = t[j]
  <2>1. a \in Seq(Bytes) /\ Len(a) = i - 1 + 1 /\ \A j \in 1..(i - 1 + 1) : a[j] = t[1 + j - 1]
    <3>1. 1 \in 1..(Len(t) + 1) /\ i \in (1 - 1)..Len(t)
      OBVIOUS
    <3> QED
      BY <3>1, PartIs
  <2> HIDE DEF a
  <2>2. i - 1 + 1 = i /\ \A j \in 1..i : 1 + j - 1 = j
    OBVIOUS
  <2> QED
    BY <2>1, <2>2
<1>3. b \in Seq(Bytes) /\ Len(b) = i - 1 /\ \A j \in 1..(i - 1) : b[j] = t[j]
  <2> DEFINE k == i - 1
  <2>1. b \in Seq(Bytes) /\ Len(b) = k - 1 + 1 /\ \A j \in 1..(k - 1 + 1) : b[j] = t[1 + j - 1]
    <3>1. 1 \in 1..(Len(t) + 1) /\ k \in (1 - 1)..Len(t)
      OBVIOUS
    <3> QED
      BY <3>1, PartIs
  <2>2. k - 1 + 1 = k /\ \A j \in 1..k : 1 + j - 1 = j
    OBVIOUS
  <2> HIDE DEF b, k
  <2>3. b \in Seq(Bytes) /\ Len(b) = k /\ \A j \in 1..k : b[j] = t[j]
    BY <2>1, <2>2
  <2> QED
    BY <2>3 DEF k
<1> HIDE DEF a, b
<1>4. c \in Seq(Bytes) /\ Len(c) = Len(b) + 1 /\ c[Len(b) + 1] = t[i] /\ \A j \in 1..Len(b) : c[j] = b[j]
  BY <1>1, <1>3, AppendIs
<1> HIDE DEF c
<1>5. Len(c) = i /\ \A j \in 1..i : c[j] = a[j]
  <2>1. Len(b) + 1 = i
    BY <1>1, <1>3
  <2>2. ASSUME NEW j \in 1..i PROVE c[j] = a[j]
    <3>1. CASE j = i
      BY <1>2, <1>4, <2>1, <3>1
    <3>2. CASE j # i
      <4>1. j \in 1..(i - 1)
        BY <3>2
      <4> QED
        BY <1>2, <1>3, <1>4, <4>1
    <3> QED
      BY <3>1, <3>2
  <2> QED
    BY <1>4, <2>1, <2>2
<1>6. a = c
  BY <1>2, <1>4, <1>5, SeqEqual
<1> QED
  BY <1>1, <1>3, <1>6 DEF a, b, c

LEMMA MatchIs ==
    ASSUME NEW patterns, patterns \subseteq Seq(Bytes), NEW text \in Seq(Bytes)
    PROVE  Match(NewACMatcher(patterns), text) =
             {h \in (patterns \ {Root}) \X (1..Len(text)) : Ends(h[1], SubSeq(ToLower(text), 1, h[2]))}
<1> DEFINE nodes == Nodes(patterns)
           fail == Failures(nodes)
           m == NewACMatcher(patterns)
           N == Len(text)
           t == ToLower(text)
           Read(i) == SubSeq(t, 1, i)
           Body(g) == [i \in 0..N |-> IF i = 0 THEN Root
                                      ELSE Goto(m.nodes, m.fail, g[i - 1], LowerASCII(text[i]))]
           node == CHOOSE g : g = Body(g)
           w == [i \in 0..N |-> Deepest(nodes, Read(i))]
<1>1. Trie(nodes) /\ patterns \subseteq nodes
  BY NodesAreATrie
<1>2. m.nodes = nodes /\ m.fail = fail /\ m.out = Outputs(nodes, fail, patterns)
  BY DEF NewACMatcher
<1>3. Match(m, text) = UNION {{<<p, i>> : p \in m.out[node[i]]} : i \in 1..Len(text)}
  BY DEF Match
<1>4. \A k \in Nat : RightLinks(nodes, fail, k)
  BY <1>1, FailuresAre
<1> HIDE DEF m, nodes, fail
<1>5. t \in Seq(Bytes) /\ Len(t) = N /\ N \in Nat /\ \A i \in 1..N : t[i] = LowerASCII(text[i])
  BY ToLowerIs
<1> HIDE DEF t, N
<1>6. Read(0) = Root /\ Root \in Seq(Bytes)
  <2>1. SubSeq(t, 1, 0) = <<>>
    BY SubSeqEmpty
  <2> QED
    BY <2>1, EmptySeq DEF Root
<1>7. \A i \in 1..N : /\ i - 1 \in 0..N /\ Read(i - 1) \in Seq(Bytes) /\ LowerASCII(text[i]) \in Bytes
                      /\ Read(i) = Append(Read(i - 1), LowerASCII(text[i])) /\ i # 0 /\ i \in 0..N
  BY <1>5, PartGrows
<1> HIDE DEF Read
<1>8. \A i \in 0..N : Read(i) \in Seq(Bytes)
  <2>1. ASSUME NEW i \in 1..N PROVE Read(i) \in Seq(Bytes)
    BY <1>7, AppendIs
  <2>2. \A i \in 0..N : i = 0 \/ i \in 1..N
    BY <1>5
  <2> QED
    BY <1>6, <2>1, <2>2
<1>9. ASSUME NEW i \in 1..N, NEW n, Deep(nodes, Read(i - 1), n)
      PROVE  Deep(nodes, Read(i), Goto(nodes, fail, n, LowerASCII(text[i])))
  <2> DEFINE c == LowerASCII(text[i])
  <2>1. n \in nodes /\ Len(n) \in Nat /\ n \in Seq(Bytes)
    BY <1>1, <1>9 DEF Deep, Trie
  <2>2. c \in Bytes /\ Read(i - 1) \in Seq(Bytes) /\ Read(i) = Append(Read(i - 1), c)
    BY <1>7
  <2> HIDE DEF c
  <2>3. Deep(nodes, Append(n, c), Goto(nodes, fail, n, c))
    BY <1>1, <1>4, <2>1, <2>2, GotoIs
  <2>4. Deep(nodes, Append(Read(i - 1), c), Goto(nodes, fail, n, c))
    BY <1>1, <1>9, <2>2, <2>3, DeepStep
  <2> QED
    BY <2>2, <2>4 DEF c
<1>10. Deep(nodes, Read(0), Root)
  <2>1. \A v \in nodes : Ends(v, Root) => Len(v) <= Len(Root)
    BY DEF Ends
  <2> QED
    BY <1>1, <1>6, <2>1, EndsItself DEF Deep, Trie
<1>11. w = Body(w)
  <2>1. \A i \in 0..N : w[i] = Deepest(nodes, Read(i))
    OBVIOUS
  <2>2. w = [i \in 0..N |-> w[i]]
    OBVIOUS
  <2> HIDE DEF w
  <2>3. ASSUME NEW i \in 0..N
        PROVE  w[i] = IF i = 0 THEN Root ELSE Goto(m.nodes, m.fail, w[i - 1], LowerASCII(text[i]))
    <3>1. CASE i = 0
      BY <1>1, <1>6, <1>10, <2>1, <3>1, DeepestIs
    <3>2. CASE i # 0
      <4>1. i \in 1..N /\ i - 1 \in 0..N
        BY <1>5, <3>2
      <4>2. Deep(nodes, Read(i - 1), w[i - 1])
        BY <1>1, <1>8, <2>1, <4>1, DeepExists
      <4>3. Deep(nodes, Read(i), Goto(nodes, fail, w[i - 1], LowerASCII(text[i])))
        BY <1>9, <4>1, <4>2
      <4>4. w[i] = Goto(nodes, fail, w[i - 1], LowerASCII(text[i]))
        BY <1>1, <1>8, <2>1, <4>3, DeepestIs
      <4> QED
        BY <1>2, <3>2, <4>4
    <3> QED
      BY <3>1, <3>2
  <2> QED
    BY <2>2, <2>3
<1>12. node = Body(node)
  BY <1>11
<1> HIDE DEF node, w
<1>13. \A i \in 0..N : node[i] = IF i = 0 THEN Root ELSE Goto(nodes, fail, node[i - 1], LowerASCII(text[i]))
  BY <1>2, <1>12
<1> HIDE DEF Body
<1> DEFINE T == {i \in 0..N : Deep(nodes, Read(i), node[i])}
<1>14. 0 \in T
  BY <1>5, <1>10, <1>13
<1>15. \A i \in 1..N : i - 1 \in T => i \in T
  BY <1>7, <1>9, <1>13
<1> HIDE DEF T
<1>16. \A i \in 0..N : i \in T
  BY <1>5, <1>14, <1>15, Induction
<1>17. ASSUME NEW i \in 1..N PROVE m.out[node[i]] = {p \in patterns \ {Root} : Ends(p, Read(i))}
  <2>1. Deep(nodes, Read(i), node[i]) /\ Read(i) \in Seq(Bytes)
    BY <1>7, <1>8, <1>16 DEF T
  <2>2. node[i] \in nodes /\ node[i] \in Seq(Bytes) /\ Ends(node[i], Read(i))
    BY <1>1, <2>1 DEF Deep, Trie
  <2>3. m.out[node[i]] = {p \in patterns \ {Root} : Ends(p, node[i])}
    BY <1>1, <1>2, <1>4, <2>2, OutputsAre
  <2>4. ASSUME NEW p \in patterns PROVE Ends(p, node[i]) <=> Ends(p, Read(i))
    <3>1. p \in nodes /\ p \in Seq(Bytes)
      BY <1>1
    <3>2. Ends(p, Read(i)) => Len(p) <= Len(node[i])
      BY <2>1, <3>1 DEF Deep
    <3> QED
      BY <2>1, <2>2, <3>1, <3>2, EndsNested, EndsTransitive
  <2> QED
    BY <2>3, <2>4
<1>18. Match(m, text) = {h \in (patterns \ {Root}) \X (1..N) : Ends(h[1], Read(h[2]))}
  <2>1. Match(m, text) = UNION {{<<p, i>> : p \in m.out[node[i]]} : i \in 1..N}
    BY <1>3 DEF N
  <2>2. ASSUME NEW h \in Match(m, text)
        PROVE  h \in {g \in (patterns \ {Root}) \X (1..N) : Ends(g[1], Read(g[2]))}
    <3>1. PICK i \in 1..N : h \in {<<p, i>> : p \in m.out[node[i]]}
      BY <2>1
    <3>2. PICK p \in m.out[node[i]] : h = <<p, i>>
      BY <3>1
    <3>3. p \in patterns \ {Root} /\ Ends(p, Read(i))
      BY <1>17, <3>2
    <3> QED
      BY <3>2, <3>3
  <2>3. ASSUME NEW h \in (patterns \ {Root}) \X (1..N), Ends(h[1], Read(h[2]))
        PROVE  h \in Match(m, text)
    <3>1. h[2] \in 1..N /\ h[1] \in patterns \ {Root} /\ h = <<h[1], h[2]>>
      OBVIOUS
    <3>2. h[1] \in m.out[node[h[2]]]
      BY <1>17, <2>3, <3>1
    <3> QED
      BY <2>1, <3>1, <3>2
  <2> QED
    BY <2>2, <2>3
<1> QED
  BY <1>18 DEF m, N, Read, t

LEMMA StandsIs ==
    ASSUME NEW p \in Seq(Bytes), NEW t \in Seq(Bytes), NEW i \in 1..(Len(t) + 1)
    PROVE  StandsAt(p, t, i) <=> i + Len(p) <= Len(t) + 1 /\ \A j \in 1..Len(p) : p[j] = t[i + j - 1]
<1> DEFINE k == Len(p)
           part == SubSeq(t, i, i + k - 1)
<1>1. k \in Nat /\ Len(t) \in Nat
  OBVIOUS
<1>2. StandsAt(p, t, i) <=> i + k <= Len(t) + 1 /\ part = p
  BY DEF StandsAt
<1>3. k = Len(p)
  OBVIOUS
<1> HIDE DEF k
<1>4. ASSUME i + k <= Len(t) + 1
      PROVE  part \in Seq(Bytes) /\ Len(part) = k /\ \A j \in 1..k : part[j] = t[i + j - 1]
  <2> DEFINE n == i + k - 1
  <2>1. n \in (i - 1)..Len(t) /\ n - i + 1 = k
    BY <1>1, <1>4
  <2> HIDE DEF n
  <2>2. SubSeq(t, i, n) \in Seq(Bytes) /\ Len(SubSeq(t, i, n)) = n - i + 1 /\ \A j \in 1..(n - i + 1) : SubSeq(t, i, n)[j] = t[i + j - 1]
    BY <2>1, PartIs
  <2> DEFINE f == SubSeq(t, i, n)
  <2>3. f \in Seq(Bytes) /\ Len(f) = n - i + 1 /\ \A j \in 1..(n - i + 1) : f[j] = t[i + j - 1]
    BY <2>2
  <2>4. f = part
    BY DEF n
  <2> HIDE DEF f, part
  <2>5. f \in Seq(Bytes) /\ Len(f) = k /\ \A j \in 1..k : f[j] = t[i + j - 1]
    BY <2>1, <2>3
  <2> QED
    BY <2>4, <2>5
<1> HIDE DEF part
<1>5. ASSUME i + k <= Len(t) + 1, \A j \in 1..k : p[j] = t[i + j - 1] PROVE part = p
  <2>1. Len(part) = Len(p) /\ \A j \in 1..Len(p) : p[j] = part[j]
    BY <1>3, <1>4, <1>5
  <2> QED
    BY <1>4, <1>5, <2>1, SeqEqual
<1>6. ASSUME i + k <= Len(t) + 1, part = p PROVE \A j \in 1..k : p[j] = t[i + j - 1]
  BY <1>4, <1>6
<1> QED
  BY <1>2, <1>3, <1>5, <1>6

\* A literal that ends what has been read stands there.
LEMMA EndsStands ==
    ASSUME NEW p \in Seq(Bytes), NEW t \in Seq(Bytes), NEW e \in 1..Len(t), NEW i \in 1..(Len(t) + 1), i + Len(p) = e + 1
    PROVE  Ends(p, SubSeq(t, 1, e)) <=> StandsAt(p, t, i)
<1> DEFINE k == Len(p)
           read == SubSeq(t, 1, e)
<1>1. k \in Nat /\ Len(t) \in Nat /\ e \in Nat /\ i + k = e + 1 /\ i \in Nat
  OBVIOUS
<1>2. read \in Seq(Bytes) /\ Len(read) = e - 1 + 1 /\ \A j \in 1..(e - 1 + 1) : read[j] = t[1 + j - 1]
  <2>1. 1 \in 1..(Len(t) + 1) /\ e \in (1 - 1)..Len(t)
    OBVIOUS
  <2> QED
    BY <2>1, PartIs
<1> HIDE DEF read
<1>3. e - 1 + 1 = e /\ \A j \in 1..e : 1 + j - 1 = j
  OBVIOUS
<1>4. read \in Seq(Bytes) /\ Len(read) = e /\ \A j \in 1..e : read[j] = t[j]
  BY <1>2, <1>3
<1>5. k = Len(p)
  OBVIOUS
<1> HIDE DEF k
<1>6. Ends(p, read) <=> \A j \in 1..k : p[j] = read[e - k + j]
  <2>1. k <= e
    BY <1>1
  <2> QED
    BY <1>4, <1>5, <2>1 DEF Ends
<1>7. \A j \in 1..k : e - k + j \in 1..e /\ e - k + j = i + j - 1
  BY <1>1
<1>8. Ends(p, read) <=> \A j \in 1..k : p[j] = t[i + j - 1]
  BY <1>4, <1>6, <1>7
<1>9. StandsAt(p, t, i) <=> \A j \in 1..k : p[j] = t[i + j - 1]
  <2>1. i + k <= Len(t) + 1
    BY <1>1
  <2> QED
    BY <1>5, <2>1, StandsIs
<1> QED
  BY <1>8, <1>9 DEF read

Inked(s) == {i \in DOMAIN s : s[i] # Blank}
First(T) == CHOOSE i \in T : \A j \in T : i <= j
Last(T) == CHOOSE i \in T : \A j \in T : j <= i

LEMMA FirstAndLast ==
    ASSUME NEW N \in Nat, NEW T, T \subseteq 1..N, T # {}
    PROVE  /\ First(T) \in T /\ \A j \in T : First(T) <= j
           /\ Last(T) \in T /\ \A j \in T : j <= Last(T)
           /\ First(T) \in 1..N /\ Last(T) \in 1..N /\ First(T) <= Last(T)
<1>1. T \subseteq Nat /\ \A i \in T : i <= N
  OBVIOUS
<1>2. \E i \in T : \A j \in T : i <= j
  BY <1>1, Least
<1>3. \E i \in T : \A j \in T : j <= i
  BY <1>1, Greatest
<1>4. First(T) \in T /\ \A j \in T : First(T) <= j
  BY <1>2 DEF First
<1>5. Last(T) \in T /\ \A j \in T : j <= Last(T)
  BY <1>3 DEF Last
<1> QED
  BY <1>4, <1>5

LEMMA TrimIs ==
    ASSUME NEW s \in Seq(Bytes)
    PROVE  /\ TrimSpace(s) \in Seq(Bytes)
           /\ Inked(s) = {} => TrimSpace(s) = Root
           /\ Inked(s) # {} => Len(TrimSpace(s)) = Last(Inked(s)) - First(Inked(s)) + 1 /\ TrimSpace(s) # Root
<1>1. TrimSpace(s) = IF Inked(s) = {} THEN <<>> ELSE SubSeq(s, First(Inked(s)), Last(Inked(s)))
  BY DEF TrimSpace, Inked, First, Last
<1>2. CASE Inked(s) = {}
  BY <1>1, <1>2, EmptySeq DEF Root
<1>3. CASE Inked(s) # {}
  <2> DEFINE m == First(Inked(s))
             n == Last(Inked(s))
             f == SubSeq(s, m, n)
  <2>1. Len(s) \in Nat /\ Inked(s) \subseteq 1..Len(s)
    BY LenProperties DEF Inked
  <2>2. m \in 1..Len(s) /\ n \in 1..Len(s) /\ m <= n
    BY <1>3, <2>1, FirstAndLast
  <2>3. TrimSpace(s) = f
    BY <1>1, <1>3
  <2> HIDE DEF m, n
  <2>4. m \in 1..(Len(s) + 1) /\ n \in (m - 1)..Len(s)
    BY <2>1, <2>2
  <2>5. f \in Seq(Bytes) /\ Len(f) = n - m + 1
    BY <2>4, PartIs
  <2> HIDE DEF f
  <2>6. f # Root
    <3>1. Len(f) >= 1
      BY <2>1, <2>2, <2>5
    <3>2. f = Root => Len(f) = 0
      BY <2>5, RootEnds
    <3> QED
      BY <3>1, <3>2
  <2> QED
    BY <1>3, <2>3, <2>5, <2>6 DEF m, n
<1> QED
  BY <1>2, <1>3

\* The case of a literal does not decide whether it needs word boundaries.
LEMMA BoundaryOfLower ==
    ASSUME NEW s \in Seq(Bytes)
    PROVE  NeedsWordBoundary(ToLower(s)) <=> NeedsWordBoundary(s)
<1>1. Inked(ToLower(s)) = Inked(s)
  <2>1. DOMAIN s = 1..Len(s) /\ \A i \in 1..Len(s) : s[i] \in Bytes
    BY LenProperties
  <2>2. DOMAIN ToLower(s) = DOMAIN s /\ \A i \in DOMAIN s : ToLower(s)[i] = LowerASCII(s[i])
    BY DEF ToLower
  <2>3. \A i \in DOMAIN s : ToLower(s)[i] # Blank <=> s[i] # Blank
    BY <2>2, LowerIs
  <2> QED
    BY <2>2, <2>3 DEF Inked
<1>2. ToLower(s) \in Seq(Bytes)
  BY ToLowerIs
<1>3. (TrimSpace(ToLower(s)) = Root <=> TrimSpace(s) = Root) /\ (TrimSpace(s) # Root => Len(TrimSpace(ToLower(s))) = Len(TrimSpace(s)))
  BY <1>1, <1>2, TrimIs
<1> QED
  BY <1>3 DEF NeedsWordBoundary, Root

Bounded(t, i, k) ==
    /\ i > 1 => t[i - 1] \notin WordBytes
    /\ i + k <= Len(t) => t[i + k] \notin WordBytes

\* What the matcher asks of an output of k characters that ends at e.
Asked(t, p, e, k) == NeedsWordBoundary(p) => StandsAlone(t, e - k + 1, e)

LEMMA BoundMatches ==
    ASSUME NEW m, NEW t
    PROVE  MatchBoundSelective(m, t) = {hit[1] : hit \in {h \in Match(m, t) : Asked(t, h[1], h[2], Len(h[1]))}}
  BY DEF MatchBoundSelective, Asked

LEMMA AskedIsBounded ==
    ASSUME NEW t \in Seq(Bytes), NEW p, NEW i \in Nat, NEW k \in Nat, NEW e \in Nat, i + k = e + 1
    PROVE  Asked(t, p, e, k) <=> (NeedsWordBoundary(p) => Bounded(t, i, k))
<1>1. e - k + 1 = i /\ e + 1 = i + k /\ Len(t) \in Nat
  OBVIOUS
<1>2. e < Len(t) <=> i + k <= Len(t)
  BY <1>1
<1> QED
  BY <1>1, <1>2 DEF Asked, StandsAlone, Bounded

LEMMA OccursOfLiteral ==
    ASSUME NEW q \in Pattern, ~q.regex, NEW t
    PROVE  Occurs(q, t) <=> \E i \in 1..Len(t) : /\ q.head # <<>> /\ StandsAt(ToLower(q.head), t, i)
                                                /\ (NeedsWordBoundary(q.head) => Bounded(t, i, Len(q.head)))
  BY Zenon DEF Occurs, Bounded

\* A pass over a line in lower case puts out the literals that stand in it.
LEMMA BoundMatchesAre ==
    ASSUME NEW L, \A q \in L : q \in Pattern /\ ~q.regex, NEW t \in Seq(Bytes), ToLower(t) = t
    PROVE  MatchBoundSelective(NewACMatcher({ToLower(p.head) : p \in L}), t) =
             {ToLower(p.head) : p \in {q \in L : Occurs(q, t)}}
<1> DEFINE P == {ToLower(p.head) : p \in L}
           m == NewACMatcher(P)
           Counts(h) == Asked(t, h[1], h[2], Len(h[1]))
<1>1. ASSUME NEW q \in L
      PROVE  /\ q.head \in Seq(Bytes) /\ ToLower(q.head) \in Seq(Bytes)
             /\ Len(ToLower(q.head)) = Len(q.head) /\ Len(q.head) \in Nat
             /\ q.head # <<>> <=> ToLower(q.head) # Root
             /\ NeedsWordBoundary(ToLower(q.head)) <=> NeedsWordBoundary(q.head)
  <2>1. q.head \in Seq(Bytes)
    BY DEF Pattern
  <2>2. /\ ToLower(q.head) \in Seq(Bytes) /\ Len(ToLower(q.head)) = Len(q.head)
        /\ NeedsWordBoundary(ToLower(q.head)) <=> NeedsWordBoundary(q.head)
    BY <2>1, ToLowerIs, BoundaryOfLower
  <2>3. Len(q.head) \in Nat
    BY <2>1
  <2>4. \A s \in Seq(Bytes) : s # Root <=> Len(s) > 0
    BY EmptySeq, RootEnds DEF Root
  <2> QED
    BY <2>1, <2>2, <2>3, <2>4 DEF Root
<1>2. P \subseteq Seq(Bytes)
  BY <1>1
<1>3. Match(m, t) = {h \in (P \ {Root}) \X (1..Len(t)) : Ends(h[1], SubSeq(t, 1, h[2]))}
  BY <1>2, MatchIs
<1>4. MatchBoundSelective(m, t) = {hit[1] : hit \in {h \in Match(m, t) : Counts(h)}}
  BY BoundMatches
<1>5. Len(t) \in Nat
  OBVIOUS
<1>6. ASSUME NEW q \in L
      PROVE  Occurs(q, t) <=> \E i \in 1..Len(t) : /\ q.head # <<>> /\ StandsAt(ToLower(q.head), t, i)
                                                  /\ (NeedsWordBoundary(q.head) => Bounded(t, i, Len(q.head)))
  BY OccursOfLiteral
<1> HIDE DEF m
\* From an output to an occurrence.
<1>7. ASSUME NEW h \in Match(m, t), Counts(h) PROVE \E q \in L : Occurs(q, t) /\ ToLower(q.head) = h[1]
  <2>1. h[1] \in P \ {Root} /\ h[2] \in 1..Len(t) /\ Ends(h[1], SubSeq(t, 1, h[2]))
    BY <1>3
  <2>2. PICK q \in L : h[1] = ToLower(q.head)
    BY <2>1
  <2> DEFINE k == Len(q.head)
             e == h[2]
             i == e - k + 1
  <2>3. k \in Nat /\ Len(h[1]) = k /\ h[1] \in Seq(Bytes) /\ e \in 1..Len(t) /\ q.head # <<>>
    BY <1>1, <2>1, <2>2
  <2>4. k \in Nat \ {0}
    BY <1>1, <2>3, FrontIs DEF Root
  <2>5. k <= e
    <3>1. SubSeq(t, 1, e) \in Seq(Bytes) /\ Len(SubSeq(t, 1, e)) = e - 1 + 1
      BY <2>3, PartIs
    <3>2. Len(h[1]) <= Len(SubSeq(t, 1, e))
      BY <2>1 DEF Ends
    <3> QED
      BY <2>3, <3>1, <3>2
  <2>7. i \in 1..Len(t) /\ i \in 1..(Len(t) + 1) /\ i + k = e + 1
    BY <1>5, <2>3, <2>4, <2>5
  <2>8. StandsAt(h[1], t, i)
    BY <2>1, <2>3, <2>7, EndsStands
  <2>9. NeedsWordBoundary(h[1]) => Bounded(t, i, k)
    <3>1. Asked(t, h[1], e, k)
      BY <1>7, <2>3
    <3>2. i \in Nat /\ e \in Nat
      BY <1>5, <2>3, <2>7
    <3> HIDE DEF i, k, e
    <3> QED
      BY <2>3, <2>7, <3>1, <3>2, AskedIsBounded
  <2>10. Occurs(q, t)
    <3>1. NeedsWordBoundary(q.head) => Bounded(t, i, k)
      BY <1>1, <2>2, <2>9
    <3>2. StandsAt(ToLower(q.head), t, i)
      BY <2>2, <2>8
    <3> HIDE DEF i
    <3> QED
      BY <1>6, <2>3, <2>7, <3>1, <3>2
  <2> QED
    BY <2>2, <2>10
\* From an occurrence to an output.
<1>8. ASSUME NEW q \in L, Occurs(q, t) PROVE \E h \in Match(m, t) : Counts(h) /\ h[1] = ToLower(q.head)
  <2>1. PICK i \in 1..Len(t) : /\ q.head # <<>> /\ StandsAt(ToLower(q.head), t, i)
                               /\ (NeedsWordBoundary(q.head) => Bounded(t, i, Len(q.head)))
    BY <1>6, <1>8
  <2> DEFINE k == Len(q.head)
             u == ToLower(q.head)
             e == i + k - 1
             h == <<u, e>>
  <2>2. k \in Nat /\ Len(u) = k /\ u \in Seq(Bytes) /\ u # Root /\ u \in P \ {Root}
    BY <1>1, <2>1
  <2>3. k \in Nat \ {0}
    BY <1>1, <2>1, FrontIs DEF Root
  <2>4. i + k <= Len(t) + 1
    BY <2>1, <2>2 DEF StandsAt
  <2>5. e \in 1..Len(t) /\ i \in 1..(Len(t) + 1) /\ i + Len(u) = e + 1 /\ e - Len(u) + 1 = i /\ e + 1 = i + k
    <3> HIDE DEF u, k
    <3> QED
      BY <1>5, <2>2, <2>3, <2>4
  <2>6. Ends(u, SubSeq(t, 1, e))
    <3> HIDE DEF e
    <3> QED
      BY <2>1, <2>2, <2>5, EndsStands
  <2>7. h \in Match(m, t)
    <3>1. h[1] = u /\ h[2] = e /\ h \in (P \ {Root}) \X (1..Len(t))
      BY <2>2, <2>5
    <3> HIDE DEF h, u, e
    <3> QED
      BY <1>3, <2>6, <3>1
  <2>8. NeedsWordBoundary(u) => Bounded(t, i, k)
    BY <1>1, <2>1
  <2>9. Counts(h)
    <3>1. i \in Nat /\ e \in Nat /\ i + k = e + 1
      BY <1>5, <2>2, <2>5
    <3>2. h[1] = u /\ h[2] = e
      OBVIOUS
    <3> HIDE DEF h, u, e, k
    <3>3. Asked(t, u, e, k)
      BY <2>2, <2>8, <3>1, AskedIsBounded
    <3> QED
      BY <2>2, <3>2, <3>3
  <2>10. h[1] = ToLower(q.head)
    OBVIOUS
  <2> HIDE DEF h
  <2> QED
    BY <2>7, <2>9, <2>10
<1> HIDE DEF Counts
<1>9. \A x : x \in MatchBoundSelective(m, t) <=> \E h \in Match(m, t) : Counts(h) /\ x = h[1]
  BY <1>4
<1>10. \A x : x \in {ToLower(p.head) : p \in {q \in L : Occurs(q, t)}} <=> \E q \in L : Occurs(q, t) /\ x = ToLower(q.head)
  OBVIOUS
<1>11. MatchBoundSelective(m, t) = {ToLower(p.head) : p \in {q \in L : Occurs(q, t)}}
  BY <1>7, <1>8, <1>9, <1>10
<1> QED
  BY <1>11 DEF m

-----------------------------------------------------------------------------
(* The pre-filter.                                                           *)

\* Of all words of some, w is among the longest and starts first of them.
IsFirst(words, w) ==
    \A v \in words : \/ v[2] - v[1] < w[2] - w[1]
                     \/ v[2] - v[1] = w[2] - w[1] /\ w[1] <= v[1]

LEMMA LongestIsAWord ==
    ASSUME NEW s \in Seq(Bytes), NEW words, words \subseteq Words(s), words # {}
    PROVE  \E w \in words : Longest(s, words) = ToLower(SubSeq(s, w[1], w[2]))
<1> DEFINE Lengths == {v[2] - v[1] : v \in words}
<1>1. \A v \in words : v[1] \in 1..Len(s) /\ v[2] \in 1..Len(s) /\ v[1] <= v[2] /\ Len(s) \in Nat
  BY DEF Words
<1>2. PICK k \in Lengths : \A n \in Lengths : n <= k
  <2>1. Lengths \subseteq Nat /\ \A n \in Lengths : n <= Len(s)
    BY <1>1
  <2>2. Lengths # {} /\ Len(s) \in Nat
    OBVIOUS
  <2> HIDE DEF Lengths
  <2> QED
    BY <2>1, <2>2, Greatest
<1> DEFINE Starts == {v[1] : v \in {u \in words : u[2] - u[1] = k}}
<1>3. PICK m \in Starts : \A n \in Starts : m <= n
  <2>1. Starts \subseteq Nat
    BY <1>1
  <2>2. Starts # {}
    BY <1>2
  <2> HIDE DEF Starts
  <2> QED
    BY <2>1, <2>2, Least
<1>4. PICK w \in words : w[2] - w[1] = k /\ w[1] = m
  BY <1>3
<1>5. IsFirst(words, w)
  <2>1. ASSUME NEW v \in words
        PROVE  v[2] - v[1] < w[2] - w[1] \/ (v[2] - v[1] = w[2] - w[1] /\ w[1] <= v[1])
    <3>1. v[2] - v[1] \in Lengths /\ v[2] - v[1] <= k
      BY <1>2
    <3>2. v[2] - v[1] = k => v[1] \in Starts
      OBVIOUS
    <3>3. v[2] - v[1] = k => m <= v[1]
      BY <1>3, <3>2
    <3>4. v[2] - v[1] \in Int /\ k \in Int
      BY <1>1, <1>4
    <3> QED
      BY <1>4, <3>1, <3>3, <3>4
  <2> QED
    BY <2>1 DEF IsFirst
<1>6. Longest(s, words) = LET u == CHOOSE u \in words : IsFirst(words, u) IN ToLower(SubSeq(s, u[1], u[2]))
  BY DEF Longest, IsFirst
<1>7. (CHOOSE u \in words : IsFirst(words, u)) \in words
  BY <1>5
<1> QED
  BY <1>6, <1>7

\* Where a text stands, whatever its case, its parts stand.
LEMMA PartStands ==
    ASSUME NEW u \in Seq(Bytes), NEW t \in Seq(Bytes), NEW i \in 1..(Len(t) + 1), StandsAt(ToLower(u), t, i),
           NEW v \in Seq(Bytes), NEW d \in Nat, d + Len(v) <= Len(u), \A j \in 1..Len(v) : v[j] = u[d + j]
    PROVE  i + d \in 1..(Len(t) + 1) /\ StandsAt(ToLower(v), t, i + d)
<1> DEFINE lu == ToLower(u)
           lv == ToLower(v)
<1>1. /\ lu \in Seq(Bytes) /\ Len(lu) = Len(u) /\ Len(u) \in Nat /\ \A j \in 1..Len(u) : lu[j] = LowerASCII(u[j])
      /\ lv \in Seq(Bytes) /\ Len(lv) = Len(v) /\ Len(v) \in Nat /\ \A j \in 1..Len(v) : lv[j] = LowerASCII(v[j])
      /\ StandsAt(lu, t, i) /\ Len(t) \in Nat
  BY ToLowerIs
<1> HIDE DEF lu, lv
<1>2. i + Len(u) <= Len(t) + 1 /\ \A j \in 1..Len(u) : lu[j] = t[i + j - 1]
  BY <1>1, StandsIs
<1>3. i + d \in 1..(Len(t) + 1) /\ i + d + Len(v) <= Len(t) + 1
  BY <1>1, <1>2
<1>4. ASSUME NEW j \in 1..Len(v) PROVE lv[j] = t[i + d + j - 1]
  <2>1. d + j \in 1..Len(u) /\ i + (d + j) - 1 = i + d + j - 1
    BY <1>1
  <2>2. lv[j] = LowerASCII(u[d + j])
    BY <1>1
  <2>3. lu[d + j] = LowerASCII(u[d + j]) /\ lu[d + j] = t[i + (d + j) - 1]
    BY <1>1, <1>2, <2>1
  <2> QED
    BY <2>1, <2>2, <2>3
<1> DEFINE k == i + d
<1>5. k \in 1..(Len(t) + 1) /\ k + Len(lv) <= Len(t) + 1 /\ \A j \in 1..Len(lv) : lv[j] = t[k + j - 1]
  BY <1>1, <1>3, <1>4
<1> HIDE DEF k
<1>6. StandsAt(lv, t, k)
  BY <1>1, <1>5, StandsIs
<1> QED
  BY <1>5, <1>6 DEF k, lv

LEMMA JoinIs ==
    ASSUME NEW u \in Seq(Bytes), NEW v \in Seq(Bytes)
    PROVE  /\ u \o v \in Seq(Bytes) /\ Len(u \o v) = Len(u) + Len(v)
           /\ \A i \in 1..(Len(u) + Len(v)) : (u \o v)[i] = IF i <= Len(u) THEN u[i] ELSE v[i - Len(u)]
  BY ConcatProperties

LEMMA TextIs ==
    ASSUME NEW p \in Pattern, p.regex
    PROVE  /\ Text(p) \in Seq(Bytes) /\ Len(Text(p)) = Len(p.head) + 2 + Len(p.tail)
           /\ Len(p.head) \in Nat /\ Len(p.tail) \in Nat
           /\ \A j \in 1..Len(p.head) : Text(p)[j] = p.head[j]
           /\ Text(p)[Len(p.head) + 1] = Dot /\ Text(p)[Len(p.head) + 2] = Star
           /\ \A j \in 1..Len(p.tail) : Text(p)[Len(p.head) + 2 + j] = p.tail[j]
<1>1. p.head \in Seq(Bytes) /\ p.tail \in Seq(Bytes)
  BY DEF Pattern
<1>2. <<Dot, Star>> \in Seq(Bytes) /\ Len(<<Dot, Star>>) = 2 /\ <<Dot, Star>>[1] = Dot /\ <<Dot, Star>>[2] = Star
  <2>1. Dot \in Bytes /\ Star \in Bytes
    BY LineScanAssumption
  <2> QED
    BY <2>1
<1> DEFINE h == p.head
           d == <<Dot, Star>>
           e == p.tail
           a == h \o d
           x == a \o e
<1>3. h \in Seq(Bytes) /\ d \in Seq(Bytes) /\ e \in Seq(Bytes) /\ Len(d) = 2 /\ d[1] = Dot /\ d[2] = Star
  BY <1>1, <1>2
<1>4. Text(p) = x
  BY DEF Text
<1>5. h = p.head /\ e = p.tail
  OBVIOUS
<1> HIDE DEF h, d, e
<1>6. Len(h) \in Nat /\ Len(e) \in Nat
  BY <1>3
<1>7. /\ a \in Seq(Bytes) /\ Len(a) = Len(h) + Len(d)
      /\ \A i \in 1..(Len(h) + Len(d)) : a[i] = IF i <= Len(h) THEN h[i] ELSE d[i - Len(h)]
  BY <1>3, JoinIs
<1> HIDE DEF a
<1>8. /\ x \in Seq(Bytes) /\ Len(x) = Len(a) + Len(e)
      /\ \A i \in 1..(Len(a) + Len(e)) : x[i] = IF i <= Len(a) THEN a[i] ELSE e[i - Len(a)]
  BY <1>3, <1>7, JoinIs
<1> HIDE DEF x
<1>9. Len(a) = Len(h) + 2 /\ Len(x) = Len(h) + 2 + Len(e)
  BY <1>3, <1>6, <1>7, <1>8
<1>10. ASSUME NEW j \in 1..Len(h) PROVE x[j] = h[j]
  <2>1. j \in 1..(Len(h) + Len(d)) /\ j <= Len(h) /\ j \in 1..(Len(a) + Len(e)) /\ j <= Len(a)
    BY <1>3, <1>6, <1>9
  <2> QED
    BY <1>7, <1>8, <2>1
<1>11. x[Len(h) + 1] = Dot /\ x[Len(h) + 2] = Star
  <2>1. ASSUME NEW j \in 1..2 PROVE x[Len(h) + j] = d[j]
    <3>1. Len(h) + j \in 1..(Len(h) + Len(d)) /\ ~(Len(h) + j <= Len(h)) /\ Len(h) + j - Len(h) = j
          /\ Len(h) + j \in 1..(Len(a) + Len(e)) /\ Len(h) + j <= Len(a)
      BY <1>3, <1>6, <1>9
    <3>2. a[Len(h) + j] = d[j]
      BY <1>7, <3>1
    <3> QED
      BY <1>8, <3>1, <3>2
  <2>2. 1 \in 1..2 /\ 2 \in 1..2
    OBVIOUS
  <2> QED
    BY <1>3, <2>1, <2>2
<1>12. ASSUME NEW j \in 1..Len(e) PROVE x[Len(h) + 2 + j] = e[j]
  <2> DEFINE i == Len(h) + 2 + j
  <2>1. i \in 1..(Len(a) + Len(e)) /\ ~(i <= Len(a)) /\ i - Len(a) = j
    BY <1>6, <1>9
  <2> HIDE DEF i
  <2>2. x[i] = e[j]
    BY <1>8, <2>1
  <2> QED
    BY <2>2 DEF i
<1> QED
  BY <1>4, <1>5, <1>6, <1>8, <1>9, <1>10, <1>11, <1>12

LEMMA WordIs ==
    ASSUME NEW s \in Seq(Bytes), NEW w \in Words(s)
    PROVE  /\ w[1] \in 1..Len(s) /\ w[2] \in w[1]..Len(s) /\ Len(s) \in Nat
           /\ \A i \in w[1]..w[2] : LowerASCII(s[i]) \in Letters
           /\ SubSeq(s, w[1], w[2]) \in Seq(Bytes) /\ Len(SubSeq(s, w[1], w[2])) = w[2] - w[1] + 1
           /\ \A j \in 1..(w[2] - w[1] + 1) : SubSeq(s, w[1], w[2])[j] = s[w[1] + j - 1]
           /\ ToLower(SubSeq(s, w[1], w[2])) \in Seq(Bytes) /\ ToLower(SubSeq(s, w[1], w[2])) # Root
<1>1. /\ w[1] \in 1..Len(s) /\ w[2] \in w[1]..Len(s) /\ Len(s) \in Nat
      /\ \A i \in w[1]..w[2] : LowerASCII(s[i]) \in Letters
  BY DEF Words
<1> DEFINE a == w[1]
           b == w[2]
           f == SubSeq(s, a, b)
<1>2. a \in 1..(Len(s) + 1) /\ b \in (a - 1)..Len(s) /\ b - a + 1 \in Nat \ {0}
  BY <1>1
<1> HIDE DEF a, b
<1>3. f \in Seq(Bytes) /\ Len(f) = b - a + 1 /\ \A j \in 1..(b - a + 1) : f[j] = s[a + j - 1]
  BY <1>2, PartIs
<1> HIDE DEF f
<1>4. ToLower(f) \in Seq(Bytes) /\ Len(ToLower(f)) = Len(f)
  BY <1>3, ToLowerIs
<1>5. ToLower(f) # Root
  BY <1>2, <1>3, <1>4, RootEnds
<1> QED
  BY <1>1, <1>3, <1>4, <1>5 DEF a, b, f

LEMMA TextIsText == ASSUME NEW p \in Pattern PROVE Text(p) \in Seq(Bytes) /\ (~p.regex => Text(p) = p.head)
<1>1. CASE p.regex
  BY <1>1, TextIs
<1>2. CASE ~p.regex
  BY <1>2 DEF Text, Pattern
<1> QED
  BY <1>1, <1>2

\* A token is a word of its pattern, or the whole of a literal.
LEMMA TokenIs ==
    ASSUME NEW p \in Pattern
    PROVE  /\ Token(p) \in Seq(Bytes)
           /\ \/ \E w \in Words(Text(p)) : Token(p) = ToLower(SubSeq(Text(p), w[1], w[2]))
              \/ Token(p) = ToLower(Text(p)) /\ (p.regex => Words(Text(p)) = {})
<1>1. Text(p) \in Seq(Bytes)
  BY TextIsText
<1>2. Distinctive(Text(p)) \subseteq Words(Text(p))
  BY DEF Distinctive
<1>3. ASSUME NEW ws, ws \subseteq Words(Text(p)), ws # {}, Token(p) = Longest(Text(p), ws)
      PROVE  Token(p) \in Seq(Bytes) /\ \E w \in Words(Text(p)) : Token(p) = ToLower(SubSeq(Text(p), w[1], w[2]))
  <2>1. PICK w \in ws : Longest(Text(p), ws) = ToLower(SubSeq(Text(p), w[1], w[2]))
    BY <1>1, <1>3, LongestIsAWord
  <2>2. w \in Words(Text(p))
    BY <1>3
  <2>3. ToLower(SubSeq(Text(p), w[1], w[2])) \in Seq(Bytes)
    BY <1>1, <2>2, WordIs
  <2> QED
    BY <1>3, <2>1, <2>2, <2>3
<1>4. CASE Distinctive(Text(p)) # {}
  <2>1. Token(p) = Longest(Text(p), Distinctive(Text(p)))
    BY <1>4 DEF Token
  <2> QED
    BY <1>2, <1>3, <1>4, <2>1
<1>5. CASE Distinctive(Text(p)) = {} /\ p.regex /\ Words(Text(p)) # {}
  <2>1. Token(p) = Longest(Text(p), Words(Text(p)))
    BY <1>5 DEF Token
  <2> QED
    BY <1>3, <1>5, <2>1
<1>6. CASE Distinctive(Text(p)) = {} /\ ~(p.regex /\ Words(Text(p)) # {})
  <2>1. Token(p) = ToLower(Text(p))
    BY <1>6 DEF Token
  <2>2. ToLower(Text(p)) \in Seq(Bytes)
    BY <1>1, ToLowerIs
  <2> QED
    BY <1>6, <2>1, <2>2
<1> QED
  BY <1>4, <1>5, <1>6

\* A word of an expression is a word of its head or of its tail.
LEMMA WordOfExpression ==
    ASSUME NEW p \in Pattern, p.regex, NEW w \in Words(Text(p))
    PROVE  w[2] <= Len(p.head) \/ w[1] >= Len(p.head) + 3
<1> DEFINE k == Len(p.head)
           x == Text(p)
           a == w[1]
           b == w[2]
<1>1. x \in Seq(Bytes) /\ k \in Nat /\ x[k + 1] = Dot /\ x[k + 2] = Star
  BY TextIs
<1>2. a \in 1..Len(x) /\ b \in a..Len(x) /\ Len(x) \in Nat /\ \A i \in a..b : LowerASCII(x[i]) \in Letters
  BY <1>1, WordIs
<1>3. LowerASCII(Dot) \notin Letters /\ LowerASCII(Star) \notin Letters
  BY LineScanAssumption DEF LowerASCII
<1> HIDE DEF k, x, a, b
<1>4. k + 1 \notin a..b /\ k + 2 \notin a..b
  BY <1>1, <1>2, <1>3
<1>5. b <= k \/ a >= k + 3
  BY <1>1, <1>2, <1>4
<1> QED
  BY <1>5 DEF k, a, b

\* The word w of x lies in u, which x has after its first d characters.
LiesIn(x, w, u, d) == w[1] > d /\ w[2] <= d + Len(u) /\ \A j \in 1..Len(u) : x[d + j] = u[j]

\* The word stands where the text it is a word of stands.
LEMMA WordStands ==
    ASSUME NEW x \in Seq(Bytes), NEW w \in Words(x), NEW u \in Seq(Bytes), NEW d \in Nat,
           LiesIn(x, w, u, d),
           NEW t \in Seq(Bytes), NEW i \in 1..(Len(t) + 1), StandsAt(ToLower(u), t, i)
    PROVE  \E j \in 1..(Len(t) + 1) : StandsAt(ToLower(SubSeq(x, w[1], w[2])), t, j)
<1> DEFINE a == w[1]
           b == w[2]
           v == SubSeq(x, a, b)
<1>1. /\ a \in 1..Len(x) /\ b \in a..Len(x) /\ Len(x) \in Nat /\ v \in Seq(Bytes) /\ Len(v) = b - a + 1
      /\ \A j \in 1..(b - a + 1) : v[j] = x[a + j - 1]
  BY WordIs
<1>2. a > d /\ b <= d + Len(u) /\ \A j \in 1..Len(u) : x[d + j] = u[j]
  BY DEF LiesIn
<1> HIDE DEF a, b, v
<1> DEFINE k == a - 1 - d
<1>3. k \in Nat /\ k + Len(v) <= Len(u) /\ Len(u) \in Nat /\ d + k = a - 1
  BY <1>1, <1>2
<1>4. ASSUME NEW j \in 1..Len(v) PROVE v[j] = u[k + j]
  <2>1. k + j \in 1..Len(u) /\ d + (k + j) = a + j - 1
    BY <1>1, <1>3
  <2>2. v[j] = x[a + j - 1]
    BY <1>1
  <2> QED
    BY <1>2, <2>1, <2>2
<1> HIDE DEF k
<1>5. i + k \in 1..(Len(t) + 1) /\ StandsAt(ToLower(v), t, i + k)
  BY <1>1, <1>3, <1>4, PartStands
<1> QED
  BY <1>5 DEF v, a, b

\* Where a pattern occurs, its token stands.
LEMMA TokenStands ==
    ASSUME NEW p \in Pattern, NEW t \in Seq(Bytes), Occurs(p, t), p.regex => Words(Text(p)) # {}
    PROVE  Token(p) # Root /\ \E i \in 1..(Len(t) + 1) : StandsAt(Token(p), t, i)
<1>1. p.head \in Seq(Bytes) /\ p.tail \in Seq(Bytes) /\ p.regex \in BOOLEAN /\ Len(p.head) \in Nat
  BY DEF Pattern
<1>2. CASE ~p.regex
  <2>1. PICK i \in 1..Len(t) : p.head # <<>> /\ StandsAt(ToLower(p.head), t, i)
    BY <1>2, OccursOfLiteral
  <2>2. i \in 1..(Len(t) + 1) /\ Text(p) = p.head
    BY <1>2, TextIsText
  <2>3. CASE Token(p) = ToLower(Text(p))
    <3>1. Token(p) = ToLower(p.head) /\ ToLower(p.head) \in Seq(Bytes) /\ Len(ToLower(p.head)) = Len(p.head)
      BY <1>1, <2>2, <2>3, ToLowerIs
    <3>2. Len(p.head) \in Nat \ {0}
      BY <1>1, <2>1, FrontIs DEF Root
    <3>3. Token(p) # Root
      BY <3>1, <3>2, RootEnds
    <3> QED
      BY <2>1, <2>2, <3>1, <3>3
  <2>4. CASE Token(p) # ToLower(Text(p))
    <3>1. PICK w \in Words(p.head) : Token(p) = ToLower(SubSeq(p.head, w[1], w[2]))
      BY <2>2, <2>4, TokenIs
    <3>2. w[1] > 0 /\ w[2] <= 0 + Len(p.head)
      BY <1>1, WordIs
    <3>3. \A j \in 1..Len(p.head) : p.head[0 + j] = p.head[j]
      OBVIOUS
    <3>4. Token(p) # Root
      BY <1>1, <3>1, WordIs
    <3>5. \E j \in 1..(Len(t) + 1) : StandsAt(ToLower(SubSeq(p.head, w[1], w[2])), t, j)
      <4>1. 0 \in Nat
        OBVIOUS
      <4> QED
        <5>1. LiesIn(p.head, w, p.head, 0)
          BY <3>2, <3>3 DEF LiesIn
        <5> QED
          BY <1>1, <2>1, <2>2, <4>1, <5>1, WordStands
    <3> QED
      BY <3>1, <3>4, <3>5
  <2> QED
    BY <2>3, <2>4
<1>3. CASE p.regex
  <2> DEFINE x == Text(p)
             h == p.head
             e == p.tail
             d == Len(h) + 2
  <2>1. /\ x \in Seq(Bytes) /\ Len(x) = d + Len(e) /\ Len(h) \in Nat /\ Len(e) \in Nat
        /\ \A n \in 1..Len(h) : x[n] = h[n]
        /\ \A n \in 1..Len(e) : x[d + n] = e[n]
    BY <1>3, TextIs
  <2>2. h \in Seq(Bytes) /\ e \in Seq(Bytes) /\ d \in Nat
    BY <1>1
  <2>3. PICK w \in Words(x) : Token(p) = ToLower(SubSeq(x, w[1], w[2]))
    BY <1>3, TokenIs
  <2>4. MatchString(p, t)
    BY <1>3 DEF Occurs
  <2>5. PICK i \in 1..(Len(t) + 1) :
          /\ StandsAt(ToLower(h), t, i)
          /\ \E j \in (i + Len(h))..(Len(t) + 1) : StandsAt(ToLower(e), t, j)
    BY <2>4 DEF MatchString
  <2>6. PICK j \in (i + Len(h))..(Len(t) + 1) : StandsAt(ToLower(e), t, j)
    BY <2>5
  <2>7. j \in 1..(Len(t) + 1)
    BY <2>1
  <2>8. w[2] <= Len(h) \/ w[1] >= Len(h) + 3
    BY <1>3, WordOfExpression
  <2> HIDE DEF x, h, e
  <2>9. w[1] \in 1..Len(x) /\ w[2] \in w[1]..Len(x) /\ Len(x) \in Nat
    BY <2>1, <2>3, WordIs
  <2>10. ToLower(SubSeq(x, w[1], w[2])) # Root
    BY <2>1, <2>3, WordIs
  <2>11. CASE w[2] <= Len(h)
    <3>1. w[1] > 0 /\ w[2] <= 0 + Len(h) /\ 0 \in Nat
      BY <2>1, <2>9, <2>11
    <3>2. \A n \in 1..Len(h) : 0 + n = n
      OBVIOUS
    <3>3. \A n \in 1..Len(h) : x[0 + n] = h[n]
      BY <2>1, <3>2
    <3>4. LiesIn(x, w, h, 0)
      BY <3>1, <3>3 DEF LiesIn
    <3> QED
      BY <2>1, <2>2, <2>3, <2>5, <2>10, <3>1, <3>4, WordStands
  <2>12. CASE w[1] >= Len(h) + 3
    <3>1. w[1] > d /\ w[2] <= d + Len(e)
      BY <2>1, <2>9, <2>12
    <3>2. LiesIn(x, w, e, d)
      BY <2>1, <3>1 DEF LiesIn
    <3> HIDE DEF d
    <3> QED
      BY <2>1, <2>2, <2>3, <2>6, <2>7, <2>10, <3>2, WordStands
  <2> QED
    BY <2>8, <2>11, <2>12
<1> QED
  BY <1>1, <1>2, <1>3

\* No pattern that occurs in a line is filtered away.
LEMMA PrefilterPasses ==
    ASSUME NEW P, P \subseteq Pattern, NEW t \in Seq(Bytes), ToLower(t) = t,
           NEW p \in P, Occurs(p, t), p.regex => Words(Text(p)) # {}
    PROVE  Match(NewACMatcher(DerivePrefilterTokens(P)), t) # {}
<1> DEFINE T == DerivePrefilterTokens(P)
           u == Token(p)
<1>1. T \subseteq Seq(Bytes)
  BY TokenIs, LineScanAssumption DEF DerivePrefilterTokens
<1>2. u \in T /\ u \in Seq(Bytes) /\ u # Root
  BY TokenIs, TokenStands DEF DerivePrefilterTokens
<1>3. PICK i \in 1..(Len(t) + 1) : StandsAt(u, t, i)
  BY TokenStands
<1> HIDE DEF T, u
<1>4. Len(u) \in Nat \ {0} /\ Len(t) \in Nat
  BY <1>2, FrontIs
<1>5. i + Len(u) <= Len(t) + 1
  BY <1>3 DEF StandsAt
<1> DEFINE e == i + Len(u) - 1
<1>6. e \in 1..Len(t) /\ i + Len(u) = e + 1
  BY <1>4, <1>5
<1> HIDE DEF e
<1>7. Ends(u, SubSeq(t, 1, e))
  BY <1>2, <1>3, <1>6, EndsStands
<1>8. Match(NewACMatcher(T), t) = {h \in (T \ {Root}) \X (1..Len(t)) : Ends(h[1], SubSeq(t, 1, h[2]))}
  BY <1>1, MatchIs
<1>9. <<u, e>> \in Match(NewACMatcher(T), t)
  BY <1>2, <1>6, <1>7, <1>8
<1> QED
  BY <1>9 DEF T

-----------------------------------------------------------------------------
(* What holds throughout a scan.                                             *)

\* The line speaks of r.
Speaks(reg, r, line) == /\ ~IsExcluded(Lowered(line))
                        /\ \E q \in reg : q[2] = r /\ Occurs(q[1], Lowered(line))

IsNews(lines, line) == \A j \in 1..Len(lines) : TrimSpace(lines[j]) # TrimSpace(line)

Said(reg, lines, r) == {i \in DOMAIN lines : /\ Speaks(reg, r, lines[i])
                                             /\ \A j \in 1..(i - 1) : TrimSpace(lines[j]) # TrimSpace(lines[i])}

RankIn(w, i) == Cardinality({j \in w : j <= i})
Ranks(w) == {RankIn(w, i) : i \in w}

\* Of the lines with the positions w, the first ones are kept, in their order.
KeptAs(kept, lines, w) ==
    /\ IsFiniteSet(w)
    /\ Len(kept) = IF Cardinality(w) <= MaxExamples THEN Cardinality(w) ELSE MaxExamples
    /\ Ranks(w) = 1..Cardinality(w)
    /\ \A i \in w : RankIn(w, i) <= MaxExamples => kept[RankIn(w, i)] = TrimSpace(lines[i])

RolesKept(reg) == {q[2] : q \in reg} \ Flags

ScanType ==
    /\ registry \in Registries /\ folder \in Folders /\ expired \in BOOLEAN
    /\ pc \in {"build", "files", "lines", "done"}
    /\ at \in [file : Nat \ {0}, line : Nat \ {0}]
    /\ handed \in Seq(Seq(Bytes))
    /\ found \in [RolesKept(registry) -> Seq(Seq(Bytes))] /\ flags \subseteq Flags

\* A line is handed over only to the automata of the patterns that are registered.
MatchersAreBuilt ==
    pc \in {"files", "lines"} \/ handed # <<>> =>
      /\ ac = NewACMatcher({ToLower(p.head) : p \in Literals})
      /\ tokens = NewACMatcher(DerivePrefilterTokens(Patterns))

\* How many lines the files before each one have.
Sum(files, n, sums) == IF n = 1 THEN 0 ELSE sums[n - 1] + Len(files[n - 1])
Sums(files) == CHOOSE sums : sums = [n \in 1..(Len(files) + 1) |-> Sum(files, n, sums)]

\* What was handed over are the first lines of the files.
AreFirstLines(files, lines) ==
    \A n \in DOMAIN files : \A i \in DOMAIN files[n] :
      Sums(files)[n] + i <= Len(lines) => lines[Sums(files)[n] + i] = files[n][i]

\* Where the scan stands, and that it has handed over what is before.
Progress ==
    /\ at.file <= Len(folder) + 1
    /\ pc = "lines" => at.file <= Len(folder) /\ at.line <= Len(folder[at.file]) + 1
    /\ pc = "build" => at.file = 1
    /\ pc # "lines" => at.line = 1
    /\ pc = "done" /\ ~expired /\ registry # {} => at.file = Len(folder) + 1
    /\ Len(handed) <= Sums(folder)[at.file] + at.line - 1
    /\ ~expired => Len(handed) = Sums(folder)[at.file] + at.line - 1
    /\ AreFirstLines(folder, handed)

KeptLines ==
    /\ \A r \in DOMAIN found : KeptAs(found[r], handed, Said(registry, handed, r))
    /\ flags = {f \in Flags : Said(registry, handed, f) # {}}

ScanInv == ScanType /\ MatchersAreBuilt /\ Progress /\ KeptLines

-----------------------------------------------------------------------------
(* The lines before a file.                                                  *)

LEMMA BeforeIsSums == Before = Sums(folder)
  BY DEF Before, Sums, Sum

LEMMA SumsAre ==
    ASSUME NEW lines \in Seq(Seq(Seq(Bytes)))
    PROVE  /\ Sums(lines) \in [1..(Len(lines) + 1) -> Nat] /\ Sums(lines)[1] = 0
           /\ \A n \in 1..Len(lines) : Sums(lines)[n + 1] = Sums(lines)[n] + Len(lines[n])
<1> DEFINE N == Len(lines)
           step == [n \in 1..N |-> [x \in Nat |-> x + Len(lines[n])]]
<1>1. N \in Nat /\ \A n \in 1..N : Len(lines[n]) \in Nat
  <2>1. \A n \in 1..N : lines[n] \in Seq(Seq(Bytes))
    OBVIOUS
  <2> QED
    BY <2>1
<1>2. step \in [1..N -> [Nat -> Nat]] /\ \A n \in 1..N : \A x \in Nat : step[n][x] = x + Len(lines[n])
  BY <1>1
<1> HIDE DEF step, N
<1>3. PICK f : Follows(f, N, Nat, 0, step)
  <2>1. 0 \in Nat
    OBVIOUS
  <2> QED
    BY <1>1, <1>2, <2>1, RecursionExists
<1>4. f \in [0..N -> Nat] /\ f[0] = 0 /\ \A n \in 1..N : f[n] = step[n][f[n - 1]]
  BY <1>3 DEF Follows
<1>5. \A n \in 1..N : f[n] = f[n - 1] + Len(lines[n])
  <2>1. ASSUME NEW n \in 1..N PROVE f[n - 1] \in Nat
    <3>1. n - 1 \in 0..N
      BY <1>1
    <3> QED
      BY <1>4, <3>1
  <2> QED
    BY <1>2, <1>4, <2>1
<1> DEFINE g == [n \in 1..(N + 1) |-> f[n - 1]]
<1>6. g = [n \in 1..(N + 1) |-> Sum(lines, n, g)]
  <2>1. ASSUME NEW n \in 1..(N + 1) PROVE f[n - 1] = Sum(lines, n, g)
    <3>1. CASE n = 1
      BY <1>4, <3>1 DEF Sum
    <3>2. CASE n # 1
      <4>1. n - 1 \in 1..N /\ n - 1 \in 1..(N + 1)
        BY <1>1, <3>2
      <4>2. g[n - 1] = f[n - 1 - 1]
        BY <4>1
      <4> QED
        BY <1>5, <3>2, <4>1, <4>2 DEF Sum
    <3> QED
      BY <3>1, <3>2
  <2> QED
    BY <2>1
<1> DEFINE IsSums(s) == s = [n \in 1..(N + 1) |-> Sum(lines, n, s)]
           s == Sums(lines)
<1>7. s = CHOOSE u : IsSums(u)
  BY DEF Sums, N
<1>8. IsSums(s)
  <2>1. IsSums(g)
    BY <1>6
  <2> HIDE DEF IsSums, g, s
  <2> QED
    BY <1>7, <2>1
<1>9. \A n \in 1..(N + 1) : s[n] = Sum(lines, n, s)
  BY <1>8
<1>10. DOMAIN s = 1..(N + 1)
  BY <1>8
<1> HIDE DEF s, g, IsSums
<1>11. s[1] = 0
  <2>1. 1 \in 1..(N + 1)
    BY <1>1
  <2> QED
    BY <1>9, <2>1 DEF Sum
<1>12. ASSUME NEW n \in 1..N PROVE s[n + 1] = s[n] + Len(lines[n])
  <2>1. n + 1 \in 1..(N + 1) /\ n + 1 # 1 /\ (n + 1) - 1 = n
    BY <1>1
  <2> QED
    BY <1>9, <2>1 DEF Sum
<1> DEFINE T == {k \in 0..N : s[k + 1] \in Nat}
<1>13. \A k \in 0..N : k \in T
  <2>1. 0 \in T
    BY <1>1, <1>11
  <2>2. ASSUME NEW k \in 1..N, k - 1 \in T PROVE k \in T
    <3>1. s[(k - 1) + 1] \in Nat /\ (k - 1) + 1 = k
      BY <2>2
    <3>2. s[k + 1] = s[k] + Len(lines[k])
      BY <1>12
    <3> QED
      BY <1>1, <3>1, <3>2
  <2> HIDE DEF T
  <2> QED
    BY <1>1, <2>1, <2>2, Induction
<1>14. ASSUME NEW n \in 1..(N + 1) PROVE s[n] \in Nat
  <2>1. n - 1 \in 0..N /\ (n - 1) + 1 = n
    BY <1>1
  <2>2. n - 1 \in T
    BY <1>13, <2>1
  <2> QED
    BY <2>1, <2>2
<1>15. s \in [1..(N + 1) -> Nat]
  <2>1. s = [n \in 1..(N + 1) |-> s[n]]
    BY <1>8, <1>10 DEF IsSums
  <2> QED
    BY <1>14, <2>1
<1> QED
  BY <1>11, <1>12, <1>15 DEF s, N

\* A later file begins where the earlier one has ended, or behind that.
LEMMA SumsGrow ==
    ASSUME NEW lines \in Seq(Seq(Seq(Bytes))), NEW m \in 1..Len(lines)
    PROVE  \A n \in (m + 1)..(Len(lines) + 1) : Sums(lines)[m] + Len(lines[m]) <= Sums(lines)[n]
<1> DEFINE N == Len(lines)
           s == Sums(lines)
           T == {k \in 0..(N - m) : s[m] + Len(lines[m]) <= s[m + 1 + k]}
<1>1. N \in Nat /\ m \in 1..N /\ N - m \in Nat /\ \A n \in 1..N : Len(lines[n]) \in Nat
  <2>1. \A n \in 1..N : lines[n] \in Seq(Seq(Bytes))
    OBVIOUS
  <2> QED
    BY <2>1
<1>2. s \in [1..(N + 1) -> Nat] /\ \A n \in 1..N : s[n + 1] = s[n] + Len(lines[n])
  BY SumsAre
<1> HIDE DEF N, s
<1>3. 0 \in T
  <2>1. m + 1 + 0 = m + 1 /\ m + 1 \in 1..(N + 1) /\ s[m + 1] = s[m] + Len(lines[m]) /\ s[m + 1] \in Nat
    BY <1>1, <1>2
  <2> QED
    BY <1>1, <2>1
<1>4. ASSUME NEW k \in 1..(N - m), k - 1 \in T PROVE k \in T
  <2>1. m + k \in 1..N /\ m + 1 + (k - 1) = m + k /\ m + 1 + k = (m + k) + 1 /\ m + k \in 1..(N + 1) /\ m \in 1..(N + 1)
    BY <1>1
  <2>2. s[m] + Len(lines[m]) <= s[m + k]
    BY <1>4, <2>1
  <2>3. s[(m + k) + 1] = s[m + k] + Len(lines[m + k])
    BY <1>2, <2>1
  <2>4. s[m] \in Nat /\ s[m + k] \in Nat /\ Len(lines[m]) \in Nat /\ Len(lines[m + k]) \in Nat
    BY <1>1, <1>2, <2>1
  <2>5. s[m] + Len(lines[m]) <= s[(m + k) + 1]
    BY <2>2, <2>3, <2>4
  <2>6. k \in 0..(N - m)
    BY <1>1
  <2> QED
    BY <2>1, <2>5, <2>6
<1>5. \A k \in 0..(N - m) : k \in T
  <2> HIDE DEF T
  <2> QED
    BY <1>1, <1>3, <1>4, Induction
<1>6. ASSUME NEW n \in (m + 1)..(N + 1) PROVE s[m] + Len(lines[m]) <= s[n]
  <2>1. n - (m + 1) \in 0..(N - m) /\ m + 1 + (n - (m + 1)) = n
    BY <1>1
  <2>2. n - (m + 1) \in T
    BY <1>5, <2>1
  <2> QED
    BY <2>1, <2>2
<1> QED
  BY <1>6 DEF N, s

-----------------------------------------------------------------------------
(* What a line speaks of.                                                    *)

LEMMA LoweredIs ==
    ASSUME NEW line \in Seq(Bytes)
    PROVE  /\ TrimSpace(line) \in Seq(Bytes) /\ Lowered(line) \in Seq(Bytes)
           /\ Lowered(line) = ToLower(TrimSpace(line)) /\ ToLower(Lowered(line)) = Lowered(line)
           /\ Len(Lowered(line)) = Len(TrimSpace(line))
<1>1. TrimSpace(line) \in Seq(Bytes)
  BY TrimIs
<1>2. Lowered(line) = ToLower(TrimSpace(line))
  BY DEF Lowered
<1> QED
  BY <1>1, <1>2, ToLowerIs

LEMMA PatternsAre ==
    ASSUME registry \in Registries
    PROVE  /\ Patterns \subseteq Pattern
           /\ \A p : p \in Patterns <=> \E q \in registry : p = q[1]
           /\ \A p : p \in Literals <=> p \in Patterns /\ ~p.regex
           /\ \A p \in Patterns : p.regex => Words(Text(p)) # {}
<1>1. \A q \in registry : q[1] \in Pattern
  BY LineScanAssumption
<1>2. \A q \in registry : q[1].regex => Words(Text(q[1])) # {}
  BY ExpressionsHaveWords
<1> QED
  BY <1>1, <1>2 DEF Patterns, Literals

\* Equal spellings occur alike.
LEMMA SameOccurrences ==
    ASSUME NEW p \in Pattern, NEW q \in Pattern, ~p.regex, ~q.regex, ToLower(p.head) = ToLower(q.head),
           NEW t \in Seq(Bytes), Occurs(p, t)
    PROVE  Occurs(q, t)
<1>1. p.head \in Seq(Bytes) /\ q.head \in Seq(Bytes)
  BY DEF Pattern
<1>2. Len(p.head) = Len(q.head) /\ (NeedsWordBoundary(p.head) <=> NeedsWordBoundary(q.head))
  BY <1>1, ToLowerIs, BoundaryOfLower
<1>3. p.head # <<>> => q.head # <<>>
  <2>1. \A s \in Seq(Bytes) : s # Root => Len(s) \in Nat \ {0}
    BY FrontIs
  <2>2. Len(Root) = 0 /\ Root \in Seq(Bytes)
    BY <1>1, RootEnds
  <2> QED
    BY <1>1, <1>2, <2>1, <2>2 DEF Root
<1>4. PICK i \in 1..Len(t) : /\ p.head # <<>> /\ StandsAt(ToLower(p.head), t, i)
                             /\ (NeedsWordBoundary(p.head) => Bounded(t, i, Len(p.head)))
  BY OccursOfLiteral
<1>5. /\ q.head # <<>> /\ StandsAt(ToLower(q.head), t, i)
      /\ (NeedsWordBoundary(q.head) => Bounded(t, i, Len(q.head)))
  BY <1>2, <1>3, <1>4
<1> QED
  BY <1>5, OccursOfLiteral

LEMMA HitsAre ==
    ASSUME registry \in Registries, ac = NewACMatcher({ToLower(p.head) : p \in Literals}), NEW line \in Seq(Bytes)
    PROVE  MatchBoundSelective(ac, Lowered(line)) = {ToLower(p.head) : p \in {q \in Literals : Occurs(q, Lowered(line))}}
<1>1. \A q \in Literals : q \in Pattern /\ ~q.regex
  BY PatternsAre
<1>2. Lowered(line) \in Seq(Bytes) /\ ToLower(Lowered(line)) = Lowered(line)
  BY LoweredIs
<1> QED
  BY <1>1, <1>2, BoundMatchesAre

LEMMA RolesAre ==
    ASSUME registry \in Registries, ac = NewACMatcher({ToLower(p.head) : p \in Literals}), NEW line \in Seq(Bytes), NEW r
    PROVE  r \in RolesOf(TrimSpace(line)) <=> \E q \in registry : q[2] = r /\ Occurs(q[1], Lowered(line))
<1> DEFINE t == Lowered(line)
           hits == MatchBoundSelective(ac, t)
<1>1. t = ToLower(TrimSpace(line)) /\ t \in Seq(Bytes)
  BY LoweredIs
<1>2. RolesOf(TrimSpace(line)) =
        {u[2] : u \in {q \in registry : IF q[1].regex THEN MatchString(q[1], t) ELSE ToLower(q[1].head) \in hits}}
  BY <1>1 DEF RolesOf
<1>3. \A h : h \in hits <=> \E p \in Literals : Occurs(p, t) /\ h = ToLower(p.head)
  BY HitsAre
<1> HIDE DEF hits, t
<1>4. ASSUME NEW q \in registry
      PROVE  (IF q[1].regex THEN MatchString(q[1], t) ELSE ToLower(q[1].head) \in hits) <=> Occurs(q[1], t)
  <2>1. q[1] \in Pattern /\ q[1] \in Patterns
    BY PatternsAre
  <2>2. CASE q[1].regex
    BY <2>2 DEF Occurs
  <2>3. CASE ~q[1].regex
    <3>1. q[1] \in Literals
      BY <2>1, <2>3, PatternsAre
    <3>2. ASSUME ToLower(q[1].head) \in hits PROVE Occurs(q[1], t)
      <4>1. PICK p \in Literals : Occurs(p, t) /\ ToLower(q[1].head) = ToLower(p.head)
        BY <1>3, <3>2
      <4>2. p \in Pattern /\ ~p.regex
        BY PatternsAre
      <4> QED
        BY <1>1, <2>1, <2>3, <4>1, <4>2, SameOccurrences
    <3>3. Occurs(q[1], t) => ToLower(q[1].head) \in hits
      BY <1>3, <3>1
    <3> QED
      BY <2>3, <3>2, <3>3
  <2> QED
    BY <2>2, <2>3
<1>5. r \in RolesOf(TrimSpace(line)) <=> \E q \in registry : q[2] = r /\ Occurs(q[1], t)
  BY <1>2, <1>4
<1> QED
  BY <1>5 DEF t

LEMMA SpeakingPasses ==
    ASSUME registry \in Registries, tokens = NewACMatcher(DerivePrefilterTokens(Patterns)),
           NEW line \in Seq(Bytes), NEW p \in Patterns, Occurs(p, Lowered(line)),
           p.regex => Words(Text(p)) # {}
    PROVE  /\ TrimSpace(line) # <<>>
           /\ PassesPrefilter(TrimSpace(line)) /\ PassesPrefilter(Lowered(line))
<1> DEFINE t == Lowered(line)
<1>1. t = ToLower(TrimSpace(line)) /\ t \in Seq(Bytes) /\ ToLower(t) = t /\ Len(t) = Len(TrimSpace(line))
      /\ TrimSpace(line) \in Seq(Bytes)
  BY LoweredIs
<1>2. Patterns \subseteq Pattern
  BY PatternsAre
<1>3. Occurs(p, t)
  OBVIOUS
<1> HIDE DEF t
<1>4. Match(tokens, t) # {}
  BY <1>1, <1>2, <1>3, PrefilterPasses
<1>5. TrimSpace(line) # Root
  <2>1. PICK i \in 1..(Len(t) + 1) : StandsAt(Token(p), t, i)
    BY <1>1, <1>2, <1>3, TokenStands
  <2>2. Token(p) \in Seq(Bytes) /\ Token(p) # Root
    BY <1>1, <1>2, <1>3, TokenIs, TokenStands
  <2>3. Len(Token(p)) \in Nat \ {0} /\ i + Len(Token(p)) <= Len(t) + 1 /\ Len(t) \in Nat
    BY <1>1, <2>1, <2>2, FrontIs DEF StandsAt
  <2>4. Len(t) \in Nat \ {0}
    BY <2>3
  <2> QED
    BY <1>1, <2>4, RootEnds
<1> QED
  BY <1>1, <1>4, <1>5 DEF PassesPrefilter, Root, t

\* What LineFunc makes of a line is what it speaks of.
Heard(line) == LET text == TrimSpace(line) IN
    IF text # <<>> /\ PassesPrefilter(text) /\ ~IsExcluded(ToLower(text)) THEN RolesOf(text) ELSE {}

LEMMA HeardIsSpoken ==
    ASSUME ScanType, MatchersAreBuilt, pc = "lines", NEW line \in Seq(Bytes), NEW r
    PROVE  r \in Heard(line) <=> Speaks(registry, r, line)
<1>1. registry \in Registries
  BY DEF ScanType
<1>2. /\ ac = NewACMatcher({ToLower(p.head) : p \in Literals})
      /\ tokens = NewACMatcher(DerivePrefilterTokens(Patterns))
  BY DEF MatchersAreBuilt
<1>3. r \in RolesOf(TrimSpace(line)) <=> \E q \in registry : q[2] = r /\ Occurs(q[1], Lowered(line))
  BY <1>1, <1>2, RolesAre
<1>4. ASSUME NEW q \in registry, Occurs(q[1], Lowered(line))
      PROVE  TrimSpace(line) # <<>> /\ PassesPrefilter(TrimSpace(line))
  <2>1. q[1] \in Patterns /\ (q[1].regex => Words(Text(q[1])) # {})
    BY <1>1, PatternsAre
  <2> QED
    BY <1>1, <1>2, <1>4, <2>1, SpeakingPasses
<1>5. ToLower(TrimSpace(line)) = Lowered(line)
  BY DEF Lowered
<1> QED
  BY <1>3, <1>4, <1>5 DEF Heard, Speaks

-----------------------------------------------------------------------------
(* What is kept of the lines.                                                *)

LEMMA LineAppended ==
    ASSUME NEW lines \in Seq(Seq(Bytes)), NEW line \in Seq(Bytes)
    PROVE  /\ Append(lines, line) \in Seq(Seq(Bytes)) /\ Len(lines) \in Nat
           /\ Len(Append(lines, line)) = Len(lines) + 1
           /\ DOMAIN lines = 1..Len(lines) /\ DOMAIN Append(lines, line) = 1..(Len(lines) + 1)
           /\ Append(lines, line)[Len(lines) + 1] = line
           /\ \A i \in 1..Len(lines) : Append(lines, line)[i] = lines[i]
  OBVIOUS

LEMMA SaidIsThere ==
    ASSUME NEW reg, NEW lines \in Seq(Seq(Bytes)), NEW r
    PROVE  Said(reg, lines, r) \subseteq 1..Len(lines) /\ Len(lines) \in Nat
  BY DEF Said

LEMMA SaidOfMore ==
    ASSUME NEW reg, NEW lines \in Seq(Seq(Bytes)), NEW line \in Seq(Bytes), NEW r
    PROVE  Said(reg, Append(lines, line), r) =
             Said(reg, lines, r) \cup
               (IF Speaks(reg, r, line) /\ IsNews(lines, line) THEN {Len(lines) + 1} ELSE {})
<1> DEFINE more == Append(lines, line)
           n == Len(lines) + 1
<1>1. /\ Len(lines) \in Nat /\ DOMAIN lines = 1..Len(lines) /\ DOMAIN more = 1..n
      /\ more[n] = line /\ \A i \in 1..Len(lines) : more[i] = lines[i]
  BY LineAppended
<1> HIDE DEF more
<1>2. \A i : i \in Said(reg, more, r) <=> /\ i \in 1..n /\ Speaks(reg, r, more[i])
                                         /\ \A j \in 1..(i - 1) : TrimSpace(more[j]) # TrimSpace(more[i])
  BY <1>1 DEF Said
<1>3. \A i : i \in Said(reg, lines, r) <=> /\ i \in 1..Len(lines) /\ Speaks(reg, r, lines[i])
                                          /\ \A j \in 1..(i - 1) : TrimSpace(lines[j]) # TrimSpace(lines[i])
  BY <1>1 DEF Said
<1>4. ASSUME NEW i \in 1..Len(lines) PROVE i \in Said(reg, more, r) <=> i \in Said(reg, lines, r)
  <2>1. i \in 1..n /\ more[i] = lines[i]
    BY <1>1
  <2>2. \A j \in 1..(i - 1) : more[j] = lines[j]
    BY <1>1
  <2> QED
    BY <1>2, <1>3, <2>1, <2>2
<1>5. n \in Said(reg, more, r) <=> Speaks(reg, r, line) /\ IsNews(lines, line)
  <2>1. n \in 1..n /\ n - 1 = Len(lines)
    BY <1>1
  <2>2. n \in Said(reg, more, r) <=> /\ Speaks(reg, r, line)
                                    /\ \A j \in 1..Len(lines) : TrimSpace(more[j]) # TrimSpace(line)
    BY <1>1, <1>2, <2>1
  <2> QED
    BY <1>1, <2>2 DEF IsNews
<1>6. \A i \in 1..n : i \in 1..Len(lines) \/ i = n
  BY <1>1
<1>7. n \notin 1..Len(lines)
  BY <1>1
<1> HIDE DEF n
<1>8. Said(reg, more, r) = Said(reg, lines, r) \cup (IF Speaks(reg, r, line) /\ IsNews(lines, line) THEN {n} ELSE {})
  BY <1>2, <1>3, <1>4, <1>5, <1>6, <1>7
<1> QED
  BY <1>8 DEF more, n

\* What a line says again has been said by the first line that is equal to it.
LEMMA OldNews ==
    ASSUME NEW reg, NEW lines \in Seq(Seq(Bytes)), NEW line \in Seq(Bytes), NEW r,
           Speaks(reg, r, line), ~IsNews(lines, line)
    PROVE  \E i \in Said(reg, lines, r) : TrimSpace(lines[i]) = TrimSpace(line)
<1> DEFINE T == {i \in 1..Len(lines) : TrimSpace(lines[i]) = TrimSpace(line)}
<1>1. T \subseteq Nat /\ T # {}
  BY DEF IsNews
<1>2. PICK i \in T : \A j \in T : i <= j
  <2> HIDE DEF T
  <2> QED
    BY <1>1, Least
<1>3. i \in DOMAIN lines /\ TrimSpace(lines[i]) = TrimSpace(line) /\ Len(lines) \in Nat /\ i \in 1..Len(lines)
  BY <1>2
<1>4. Speaks(reg, r, lines[i])
  BY <1>3 DEF Speaks, Lowered
<1>5. ASSUME NEW j \in 1..(i - 1) PROVE TrimSpace(lines[j]) # TrimSpace(lines[i])
  <2>1. j \in 1..Len(lines) /\ ~(i <= j)
    BY <1>3
  <2> QED
    BY <1>2, <1>3, <2>1
<1> QED
  BY <1>3, <1>4, <1>5 DEF Said

LEMMA RanksOfMore ==
    ASSUME NEW w \in SUBSET Nat, IsFiniteSet(w), NEW n \in Nat, \A i \in w : i < n
    PROVE  /\ IsFiniteSet(w \cup {n}) /\ Cardinality(w) \in Nat /\ Cardinality(w \cup {n}) = Cardinality(w) + 1
           /\ \A i \in w : RankIn(w \cup {n}, i) = RankIn(w, i)
           /\ RankIn(w \cup {n}, n) = Cardinality(w) + 1
           /\ Ranks(w \cup {n}) = Ranks(w) \cup {Cardinality(w) + 1}
<1> DEFINE more == w \cup {n}
<1>1. n \notin w /\ \A i \in w : i \in Nat /\ i < n
  OBVIOUS
<1>2. IsFiniteSet(more) /\ Cardinality(w) \in Nat /\ Cardinality(more) = Cardinality(w) + 1
  BY <1>1, FS_AddElement, FS_CardinalityType
<1>3. ASSUME NEW i \in w PROVE RankIn(more, i) = RankIn(w, i)
  <2>1. {j \in more : j <= i} = {j \in w : j <= i}
    BY <1>1
  <2> QED
    BY <2>1 DEF RankIn
<1>4. RankIn(more, n) = Cardinality(w) + 1
  <2>1. \A j \in more : j <= n
    BY <1>1
  <2>2. {j \in more : j <= n} = more
    BY <2>1
  <2> QED
    BY <1>2, <2>2 DEF RankIn
<1>5. {RankIn(more, i) : i \in more} = {RankIn(more, i) : i \in w} \cup {RankIn(more, n)}
  OBVIOUS
<1>6. {RankIn(more, i) : i \in w} = {RankIn(w, i) : i \in w}
  BY <1>3
<1> QED
  BY <1>2, <1>3, <1>4, <1>5, <1>6 DEF Ranks

\* A line is kept exactly if it is news and there is room.
LEMMA KeptMore ==
    ASSUME NEW reg, NEW lines \in Seq(Seq(Bytes)), NEW line \in Seq(Bytes), NEW r,
           NEW kept \in Seq(Seq(Bytes)), KeptAs(kept, lines, Said(reg, lines, r))
    PROVE  LET now == IF Speaks(reg, r, line) THEN Kept(kept, TrimSpace(line)) ELSE kept IN
           /\ now \in Seq(Seq(Bytes))
           /\ KeptAs(now, Append(lines, line), Said(reg, Append(lines, line), r))
<1> DEFINE more == Append(lines, line)
           w == Said(reg, lines, r)
           n == Len(lines) + 1
           text == TrimSpace(line)
           v == Said(reg, more, r)
           now == IF Speaks(reg, r, line) THEN Kept(kept, text) ELSE kept
           c == Cardinality(w)
<1>1. Len(lines) \in Nat /\ w \subseteq 1..Len(lines) /\ more[n] = line /\ \A i \in w : more[i] = lines[i]
  BY LineAppended, SaidIsThere
<1>2. /\ IsFiniteSet(w) /\ c \in Nat /\ Ranks(w) = 1..c
      /\ Len(kept) = IF c <= MaxExamples THEN c ELSE MaxExamples
      /\ \A i \in w : RankIn(w, i) <= MaxExamples => kept[RankIn(w, i)] = TrimSpace(lines[i])
  BY FS_CardinalityType DEF KeptAs
<1>3. v = w \cup (IF Speaks(reg, r, line) /\ IsNews(lines, line) THEN {n} ELSE {})
  BY SaidOfMore
<1>4. text \in Seq(Bytes) /\ MaxExamples \in Nat \ {0} /\ Len(kept) \in Nat /\ DOMAIN kept = 1..Len(kept)
  BY TrimIs, LineScanAssumption
<1>5. (\A i \in w : RankIn(w, i) \in 1..c) /\ \A j \in 1..c : \E i \in w : j = RankIn(w, i)
  BY <1>2 DEF Ranks
<1>6. CASE ~(Speaks(reg, r, line) /\ IsNews(lines, line))
  <2>1. v = w
    BY <1>3, <1>6
  <2>2. now = kept
    <3>1. CASE ~Speaks(reg, r, line)
      BY <3>1
    <3>2. CASE Speaks(reg, r, line)
      <4>1. PICK i \in w : TrimSpace(lines[i]) = text
        BY <1>6, <3>2, OldNews
      <4>2. CASE Len(kept) < MaxExamples
        <5>1. c = Len(kept) /\ RankIn(w, i) \in 1..c /\ c <= MaxExamples
          BY <1>2, <1>4, <1>5, <4>2
        <5>2. RankIn(w, i) \in DOMAIN kept /\ RankIn(w, i) <= MaxExamples
          BY <1>2, <1>4, <5>1
        <5>3. kept[RankIn(w, i)] = text
          BY <1>2, <4>1, <5>2
        <5> HIDE DEF w, text
        <5> QED
          BY <3>2, <5>2, <5>3 DEF Kept
      <4>3. CASE ~(Len(kept) < MaxExamples)
        BY <3>2, <4>3 DEF Kept
      <4> QED
        BY <4>2, <4>3
    <3> QED
      BY <3>1, <3>2
  <2> HIDE DEF w, v, now, more, c
  <2>3. KeptAs(kept, more, w)
    BY <1>1, <1>2 DEF KeptAs, c
  <2> QED
    BY <2>1, <2>2, <2>3 DEF v, now, more
<1>7. CASE Speaks(reg, r, line) /\ IsNews(lines, line)
  <2>1. v = w \cup {n} /\ now = Kept(kept, text)
    BY <1>3, <1>7
  <2>2. /\ IsFiniteSet(v) /\ Cardinality(v) = c + 1
        /\ \A i \in w : RankIn(v, i) = RankIn(w, i)
        /\ RankIn(v, n) = c + 1
        /\ Ranks(v) = (1..c) \cup {c + 1}
    <3>1. v = w \cup {n} /\ c = Cardinality(w) /\ n \in Nat /\ w \in SUBSET Nat /\ IsFiniteSet(w) /\ \A i \in w : i < n
      BY <1>1, <1>2, <2>1
    <3>2. Ranks(w) = 1..c
      BY <1>2
    <3> HIDE DEF w, v, n, c
    <3>3. IsFiniteSet(v) /\ Cardinality(v) = Cardinality(w) + 1 /\ RankIn(v, n) = Cardinality(w) + 1
      BY <3>1, RanksOfMore
    <3>4. \A i \in w : RankIn(v, i) = RankIn(w, i)
      BY <3>1, RanksOfMore
    <3>5. Ranks(v) = Ranks(w) \cup {Cardinality(w) + 1}
      BY <3>1, RanksOfMore
    <3> QED
      BY <3>1, <3>2, <3>3, <3>4, <3>5
  <2>3. (1..c) \cup {c + 1} = 1..(c + 1)
    BY <1>2
  <2>4. CASE c < MaxExamples
    <3>1. Len(kept) = c
      BY <1>2, <1>4, <2>4
    <3>2. ASSUME NEW j \in DOMAIN kept PROVE kept[j] # text
      <4>1. j \in 1..c /\ j <= MaxExamples
        BY <1>2, <1>4, <2>4, <3>1
      <4>2. PICK i \in w : j = RankIn(w, i)
        BY <1>5, <4>1
      <4>3. kept[j] = TrimSpace(lines[i])
        BY <1>2, <4>1, <4>2
      <4>4. i \in 1..Len(lines)
        BY <1>1
      <4> QED
        BY <1>7, <4>3, <4>4 DEF IsNews
    <3>3. now = Append(kept, text)
      BY <2>1, <2>4, <3>1, <3>2 DEF Kept
    <3> HIDE DEF text, now, w, v, n, more, c
    <3>4. /\ now \in Seq(Seq(Bytes)) /\ Len(now) = c + 1 /\ now[c + 1] = text
          /\ \A j \in 1..c : now[j] = kept[j]
      BY <1>4, <3>1, <3>3, LineAppended
    <3>5. ASSUME NEW i \in v, RankIn(v, i) <= MaxExamples PROVE now[RankIn(v, i)] = TrimSpace(more[i])
      <4>1. CASE i = n
        BY <1>1, <2>2, <3>4, <4>1 DEF text
      <4>2. CASE i \in w
        <5>1. RankIn(v, i) = RankIn(w, i) /\ RankIn(w, i) \in 1..c
          BY <1>5, <2>2, <4>2
        <5> QED
          BY <1>1, <1>2, <3>4, <3>5, <4>2, <5>1
      <4> QED
        BY <2>1, <4>1, <4>2
    <3>6. c + 1 <= MaxExamples
      BY <1>2, <1>4, <2>4
    <3>7. KeptAs(now, more, v)
      BY <2>2, <2>3, <3>4, <3>5, <3>6 DEF KeptAs
    <3> QED
      BY <3>4, <3>7 DEF now, more, v, text
  <2>5. CASE ~(c < MaxExamples)
    <3>1. Len(kept) = MaxExamples /\ ~(c + 1 <= MaxExamples)
      BY <1>2, <1>4, <2>5
    <3>2. now = kept
      BY <2>1, <3>1, <1>4 DEF Kept
    <3> HIDE DEF text, now, w, v, n, more, c
    <3>3. ASSUME NEW i \in v, RankIn(v, i) <= MaxExamples PROVE kept[RankIn(v, i)] = TrimSpace(more[i])
      <4>1. CASE i = n
        BY <2>2, <3>1, <3>3, <4>1
      <4>2. CASE i \in w
        BY <1>1, <1>2, <2>2, <3>3, <4>2
      <4> QED
        BY <2>1, <4>1, <4>2
    <3>4. KeptAs(kept, more, v)
      BY <2>2, <2>3, <3>1, <3>3 DEF KeptAs
    <3> QED
      BY <3>2, <3>4 DEF now, more, v, text
  <2> QED
    BY <2>4, <2>5
<1> QED
  BY <1>6, <1>7

-----------------------------------------------------------------------------
(* The steps.                                                                *)

LEMMA LinesAre ==
    ASSUME ScanType
    PROVE  /\ folder \in Seq(Seq(Seq(Bytes))) /\ Len(folder) \in Nat /\ DOMAIN folder = 1..Len(folder)
           /\ \A n \in 1..Len(folder) : /\ folder[n] \in Seq(Seq(Bytes)) /\ Len(folder[n]) \in Nat
                                        /\ DOMAIN folder[n] = 1..Len(folder[n])
                                        /\ \A i \in 1..Len(folder[n]) : folder[n][i] \in Seq(Bytes)
           /\ handed \in Seq(Seq(Bytes)) /\ Len(handed) \in Nat
           /\ at.file \in Nat \ {0} /\ at.line \in Nat \ {0}
<1>1. folder \in Seq(Seq(Seq(Bytes))) /\ handed \in Seq(Seq(Bytes)) /\ at.file \in Nat \ {0} /\ at.line \in Nat \ {0}
  BY LineScanAssumption DEF ScanType
<1>2. Len(folder) \in Nat /\ DOMAIN folder = 1..Len(folder) /\ Len(handed) \in Nat
  BY <1>1
<1>3. ASSUME NEW n \in 1..Len(folder) PROVE folder[n] \in Seq(Seq(Bytes))
  BY <1>1
<1>4. ASSUME NEW n \in 1..Len(folder)
      PROVE  Len(folder[n]) \in Nat /\ DOMAIN folder[n] = 1..Len(folder[n]) /\ \A i \in 1..Len(folder[n]) : folder[n][i] \in Seq(Bytes)
  <2> DEFINE s == folder[n]
  <2>1. s \in Seq(Seq(Bytes))
    BY <1>3
  <2> HIDE DEF s
  <2>2. Len(s) \in Nat /\ DOMAIN s = 1..Len(s) /\ \A i \in 1..Len(s) : s[i] \in Seq(Bytes)
    BY <2>1
  <2> QED
    BY <2>2 DEF s
<1> QED
  BY <1>1, <1>2, <1>3, <1>4

LEMMA NothingSaid == ASSUME NEW reg, NEW r PROVE Said(reg, <<>>, r) = {}
  BY DEF Said

LEMMA NothingKept == ASSUME NEW lines PROVE KeptAs(<<>>, lines, {})
<1>1. IsFiniteSet({}) /\ Cardinality({}) = 0
  BY FS_EmptySet
<1>2. Ranks({}) = {} /\ 1..0 = {}
  BY DEF Ranks
<1>3. 0 <= MaxExamples
  BY LineScanAssumption
<1>4. Len(<<>>) = 0
  OBVIOUS
<1> QED
  BY <1>1, <1>2, <1>3, <1>4 DEF KeptAs

LEMMA ScanStarts == ScanInit => ScanInv
<1> SUFFICES ASSUME ScanInit PROVE ScanInv
  OBVIOUS
<1>1. /\ registry \in Registries /\ folder \in Folders /\ at = [file |-> 1, line |-> 1] /\ expired = FALSE
      /\ found = [r \in RolesKept(registry) |-> <<>>] /\ flags = {} /\ handed = <<>> /\ pc = "build"
  BY DEF ScanInit, RolesKept
<1>2. ScanType
  <2>1. <<>> \in Seq(Seq(Bytes))
    BY EmptySeq
  <2>2. at \in [file : Nat \ {0}, line : Nat \ {0}]
    BY <1>1
  <2>3. found \in [RolesKept(registry) -> Seq(Seq(Bytes))]
    BY <1>1, <2>1
  <2>4. handed \in Seq(Seq(Bytes)) /\ flags \subseteq Flags /\ expired \in BOOLEAN
    BY <1>1, <2>1
  <2> QED
    BY <1>1, <2>2, <2>3, <2>4 DEF ScanType
<1>3. MatchersAreBuilt
  BY <1>1 DEF MatchersAreBuilt
<1>4. Progress
  <2>1. Len(folder) \in Nat /\ Sums(folder)[1] = 0 /\ folder \in Seq(Seq(Seq(Bytes)))
    BY <1>2, LinesAre, SumsAre
  <2>2. Len(handed) = 0
    BY <1>1
  <2>3. ASSUME NEW n \in DOMAIN folder, NEW i \in DOMAIN folder[n], Sums(folder)[n] + i <= Len(handed) PROVE FALSE
    <3>1. Sums(folder)[n] \in Nat /\ i \in Nat \ {0}
      <4>1. n \in 1..Len(folder) /\ n \in 1..(Len(folder) + 1)
        BY <1>2, LinesAre
      <4>2. Sums(folder) \in [1..(Len(folder) + 1) -> Nat]
        BY <2>1, SumsAre
      <4> QED
        BY <1>2, <4>1, <4>2, LinesAre
    <3> QED
      BY <2>2, <2>3, <3>1
  <2>4. AreFirstLines(folder, handed)
    BY <2>3 DEF AreFirstLines
  <2> QED
    BY <1>1, <2>1, <2>2, <2>4 DEF Progress
<1>5. KeptLines
  <2>1. \A r : Said(registry, handed, r) = {}
    BY <1>1, NothingSaid
  <2>2. \A r \in DOMAIN found : found[r] = <<>>
    BY <1>1
  <2> QED
    BY <1>1, <2>1, <2>2, NothingKept DEF KeptLines
<1> QED
  BY <1>2, <1>3, <1>4, <1>5 DEF ScanInv

LEMMA KeptUnchanged ==
    ASSUME KeptLines, UNCHANGED <<registry, handed, found, flags>>
    PROVE  KeptLines'
  BY DEF KeptLines

LEMMA BuildStep == ASSUME ScanInv, BuildMatchers PROVE ScanInv'
<1>1. /\ ScanType /\ MatchersAreBuilt /\ Progress /\ KeptLines
      /\ pc = "build" /\ UNCHANGED <<registry, folder, at, expired, found, flags, handed>>
  BY DEF ScanInv, BuildMatchers
<1>2. \/ registry = {} /\ pc' = "done" /\ UNCHANGED <<ac, tokens>>
      \/ /\ registry # {} /\ ac' = NewACMatcher({ToLower(p.head) : p \in Literals})
         /\ tokens' = NewACMatcher(DerivePrefilterTokens(Patterns)) /\ pc' = "files"
  BY DEF BuildMatchers
<1>3. ScanType'
  BY <1>1, <1>2 DEF ScanType
<1>4. Literals' = Literals /\ Patterns' = Patterns
  BY <1>1 DEF Literals, Patterns
<1>5. handed = <<>>
  <2>1. Len(handed) <= Sums(folder)[1] + 1 - 1 /\ Sums(folder)[1] = 0 /\ handed \in Seq(Seq(Bytes)) /\ Len(handed) \in Nat
    BY <1>1, LinesAre, SumsAre DEF Progress
  <2>2. Len(handed) <= 0
    BY <2>1
  <2> QED
    BY <2>1, <2>2, EmptySeq
<1>6. MatchersAreBuilt'
  BY <1>1, <1>2, <1>4, <1>5 DEF MatchersAreBuilt
<1>7. Progress'
  BY <1>1, <1>2 DEF Progress
<1> QED
  BY <1>1, <1>3, <1>6, <1>7, KeptUnchanged DEF ScanInv

LEMMA ExpireStep == ASSUME ScanInv, Expire PROVE ScanInv'
<1>1. /\ ScanType /\ MatchersAreBuilt /\ Progress /\ KeptLines
      /\ expired' = TRUE /\ UNCHANGED <<registry, ac, tokens, folder, at, found, flags, handed, pc>>
  BY DEF ScanInv, Expire
<1>2. ScanType'
  BY <1>1 DEF ScanType
<1>3. Literals' = Literals /\ Patterns' = Patterns
  BY <1>1 DEF Literals, Patterns
<1>4. MatchersAreBuilt'
  BY <1>1, <1>3 DEF MatchersAreBuilt
<1>5. Progress'
  BY <1>1 DEF Progress
<1> QED
  BY <1>1, <1>2, <1>4, <1>5, KeptUnchanged DEF ScanInv

LEMMA OpenStep == ASSUME ScanInv, OpenFile PROVE ScanInv'
<1>1. /\ ScanType /\ MatchersAreBuilt /\ Progress /\ KeptLines
      /\ pc = "files" /\ pc' = (IF ~expired /\ at.file <= Len(folder) THEN "lines" ELSE "done")
      /\ UNCHANGED <<registry, ac, tokens, folder, at, expired, found, flags, handed>>
  BY DEF ScanInv, OpenFile
<1>2. ScanType'
  BY <1>1 DEF ScanType
<1>3. Literals' = Literals /\ Patterns' = Patterns
  BY <1>1 DEF Literals, Patterns
<1>4. MatchersAreBuilt'
  BY <1>1, <1>3 DEF MatchersAreBuilt
<1>5. Progress'
  <2>1. /\ at.file <= Len(folder) + 1 /\ at.line = 1 /\ at.file \in Nat \ {0} /\ Len(folder) \in Nat
        /\ \A n \in 1..Len(folder) : Len(folder[n]) \in Nat
    BY <1>1, LinesAre DEF Progress
  <2>2. pc' = "lines" => at.file <= Len(folder) /\ at.line <= Len(folder[at.file]) + 1
    <3>1. CASE pc' = "lines"
      <4>1. at.file \in 1..Len(folder)
        BY <1>1, <2>1, <3>1
      <4> QED
        BY <2>1, <4>1
    <3> QED
      BY <3>1
  <2>3. pc' = "done" /\ ~expired => at.file = Len(folder) + 1
    BY <1>1, <2>1
  <2>4. pc' # "build"
    BY <1>1
  <2> QED
    BY <1>1, <2>1, <2>2, <2>3, <2>4 DEF Progress
<1> QED
  BY <1>1, <1>2, <1>4, <1>5, KeptUnchanged DEF ScanInv

\* The end of a file, or of the time.
LEMMA CloseStep ==
    ASSUME ScanInv, pc = "lines", ~(at.line <= Len(folder[at.file]) /\ ~expired),
           at' = [file |-> at.file + 1, line |-> 1], pc' = "files",
           UNCHANGED <<registry, ac, tokens, folder, expired, found, flags, handed>>
    PROVE  ScanInv'
<1>1. ScanType /\ MatchersAreBuilt /\ Progress /\ KeptLines
  BY DEF ScanInv
<1>2. ScanType'
  <2>1. at' \in [file : Nat \ {0}, line : Nat \ {0}]
    BY <1>1, LinesAre
  <2> QED
    BY <1>1, <2>1 DEF ScanType
<1>3. Literals' = Literals /\ Patterns' = Patterns
  BY DEF Literals, Patterns
<1>4. MatchersAreBuilt'
  BY <1>1, <1>3 DEF MatchersAreBuilt
<1>5. Progress'
  <2> DEFINE f == at.file
             l == at.line
             s == Sums(folder)
  <2>1. /\ f \in 1..Len(folder) /\ l \in Nat \ {0} /\ l <= Len(folder[f]) + 1 /\ Len(folder) \in Nat
        /\ Len(folder[f]) \in Nat /\ Len(handed) \in Nat
    <3>1. /\ at.file \in Nat \ {0} /\ at.line \in Nat \ {0} /\ at.file <= Len(folder) /\ Len(folder) \in Nat
          /\ at.line <= Len(folder[at.file]) + 1 /\ Len(handed) \in Nat
      BY <1>1, LinesAre DEF Progress
    <3>2. at.file \in 1..Len(folder)
      BY <3>1
    <3> QED
      BY <1>1, <3>1, <3>2, LinesAre
  <2>2. s[f + 1] = s[f] + Len(folder[f]) /\ s[f] \in Nat /\ s[f + 1] \in Nat
    <3>1. folder \in Seq(Seq(Seq(Bytes)))
      BY <1>1, LinesAre
    <3>2. f \in 1..(Len(folder) + 1)
      BY <2>1
    <3> HIDE DEF f
    <3>3. Sums(folder) \in [1..(Len(folder) + 1) -> Nat] /\ Sums(folder)[f + 1] = Sums(folder)[f] + Len(folder[f])
      BY <2>1, <3>1, SumsAre
    <3> QED
      BY <2>1, <3>2, <3>3
  <2>3. /\ Len(handed) <= s[f] + l - 1 /\ (~expired => Len(handed) = s[f] + l - 1)
        /\ AreFirstLines(folder, handed)
    BY <1>1 DEF Progress
  <2>4. ~(l <= Len(folder[f]) /\ ~expired)
    OBVIOUS
  <2>5. at'.file = f + 1 /\ at'.line = 1
    OBVIOUS
  <2> HIDE DEF f, l, s
  <2>6. Len(handed) <= s[f + 1] /\ (~expired => Len(handed) = s[f + 1])
    BY <2>1, <2>2, <2>3, <2>4
  <2>7. s[f + 1] + 1 - 1 = s[f + 1] /\ f + 1 <= Len(folder) + 1
    BY <2>1, <2>2
  <2>8. Sums(folder)' = s /\ folder' = folder /\ handed' = handed /\ expired' = expired /\ pc' = "files"
    BY DEF s
  <2> QED
    BY <2>3, <2>5, <2>6, <2>7, <2>8 DEF Progress
<1> QED
  BY <1>1, <1>2, <1>4, <1>5, KeptUnchanged DEF ScanInv

\* Where files begin, s, and how many lines they have, c.
Begins(s, c, N) ==
    /\ N \in Nat /\ (\A n \in 1..(N + 1) : s[n] \in Nat) /\ (\A n \in 1..N : c[n] \in Nat)
    /\ \A m \in 1..N : \A n \in (m + 1)..(N + 1) : s[m] + c[m] <= s[n]
Place(s, c, N, n, i) == n \in 1..N /\ i \in 1..c[n]

LEMMA PlaceIs ==
    ASSUME NEW N, NEW s, NEW c, Begins(s, c, N), NEW n, NEW i, Place(s, c, N, n, i)
    PROVE  /\ N \in Nat /\ n \in 1..N /\ s[n] \in Nat /\ c[n] \in Nat /\ i \in Nat \ {0} /\ i <= c[n]
           /\ \A m \in (n + 1)..(N + 1) : s[n] + c[n] <= s[m]
<1>1. N \in Nat /\ n \in 1..N /\ i \in 1..c[n]
  BY DEF Begins, Place
<1>2. n \in 1..(N + 1)
  BY <1>1
<1>3. s[n] \in Nat /\ c[n] \in Nat /\ \A m \in (n + 1)..(N + 1) : s[n] + c[n] <= s[m]
  BY <1>1, <1>2 DEF Begins
<1> DEFINE d == c[n]
<1>4. i \in 1..d /\ d \in Nat
  BY <1>1, <1>3
<1> HIDE DEF d
<1>5. i \in Nat \ {0} /\ i <= d
  BY <1>4
<1> QED
  BY <1>1, <1>3, <1>5 DEF d

LEMMA OnePlace ==
    ASSUME NEW N, NEW s, NEW c, Begins(s, c, N), NEW f, NEW l, Place(s, c, N, f, l),
           NEW n, NEW i, Place(s, c, N, n, i), s[n] + i = s[f] + l
    PROVE  n = f /\ i = l
<1> DEFINE a == s[n]
           b == s[f]
           d == c[n]
           e == c[f]
<1>1. /\ N \in Nat /\ n \in 1..N /\ f \in 1..N /\ a \in Nat /\ b \in Nat /\ d \in Nat /\ e \in Nat
      /\ i \in Nat \ {0} /\ l \in Nat \ {0} /\ i <= d /\ l <= e
  BY PlaceIs
<1>2. a + i = b + l /\ (n = f => a = b)
  OBVIOUS
<1>3. n < f => a + d <= b
  <2>1. n < f => f \in (n + 1)..(N + 1)
    BY <1>1
  <2> QED
    BY <2>1, PlaceIs
<1>4. f < n => b + e <= a
  <2>1. f < n => n \in (f + 1)..(N + 1)
    BY <1>1
  <2> QED
    BY <2>1, PlaceIs
<1> HIDE DEF a, b, d, e
<1>5. ~(n < f) /\ ~(f < n)
  BY <1>1, <1>2, <1>3, <1>4
<1>6. n = f
  BY <1>1, <1>5
<1>7. i = l
  BY <1>1, <1>2, <1>6
<1> QED
  BY <1>6, <1>7

\* What is read next follows what has been handed over, and no other line stands there.
IsNext(files, f, l, lines) ==
    f \in 1..Len(files) /\ l \in 1..Len(files[f]) /\ Len(lines) = Sums(files)[f] + l - 1

LEMMA OneLineOn ==
    ASSUME NEW files \in Seq(Seq(Seq(Bytes))), NEW lines \in Seq(Seq(Bytes)), AreFirstLines(files, lines),
           NEW f, NEW l, IsNext(files, f, l, lines), NEW more, more = Append(lines, files[f][l])
    PROVE  /\ f <= Len(files) /\ f <= Len(files) + 1 /\ l + 1 <= Len(files[f]) + 1
           /\ Len(more) = Sums(files)[f] + (l + 1) - 1 /\ Len(more) <= Sums(files)[f] + (l + 1) - 1
           /\ AreFirstLines(files, more)
<1> DEFINE N == Len(files)
           s == Sums(files)
           k == Len(lines)
           c == [n \in 1..N |-> Len(files[n])]
           line == files[f][l]
<1>0. f \in 1..N /\ l \in 1..Len(files[f]) /\ k = s[f] + l - 1
  BY DEF IsNext
<1>1. N \in Nat /\ DOMAIN files = 1..N /\ k \in Nat
  OBVIOUS
<1>2. ASSUME NEW n \in 1..N PROVE files[n] \in Seq(Seq(Bytes)) /\ c[n] \in Nat /\ c[n] = Len(files[n]) /\ DOMAIN files[n] = 1..c[n]
  <2>1. files[n] \in Seq(Seq(Bytes))
    OBVIOUS
  <2>2. c[n] = Len(files[n])
    OBVIOUS
  <2> HIDE DEF c
  <2> QED
    BY <2>1, <2>2
<1>3. s \in [1..(N + 1) -> Nat]
  BY SumsAre
<1>4. line \in Seq(Bytes)
  <2> DEFINE e == files[f]
  <2>1. e \in Seq(Seq(Bytes)) /\ l \in 1..Len(e)
    BY <1>0, <1>2
  <2> HIDE DEF e
  <2>2. e[l] \in Seq(Bytes)
    BY <2>1
  <2> QED
    BY <2>2 DEF e
<1>5. f \in 1..N /\ l \in 1..c[f] /\ k = s[f] + l - 1
  BY <1>0, <1>2
<1>6. \A n \in 1..N : \A i \in 1..c[n] : s[n] + i <= k => lines[s[n] + i] = files[n][i]
  BY <1>1, <1>2 DEF AreFirstLines
<1>7. \A m \in 1..N : \A n \in (m + 1)..(N + 1) : s[m] + c[m] <= s[n]
  <2>1. ASSUME NEW m \in 1..N, NEW n \in (m + 1)..(N + 1) PROVE s[m] + Len(files[m]) <= s[n]
    BY SumsGrow
  <2>2. \A m \in 1..N : c[m] = Len(files[m])
    BY <1>2
  <2> HIDE DEF N, s, c
  <2> QED
    BY <2>1, <2>2
<1>8. Len(more) = k + 1 /\ more[k + 1] = line /\ \A i \in 1..k : more[i] = lines[i]
  <2>1. more = Append(lines, line)
    OBVIOUS
  <2> HIDE DEF line
  <2> QED
    BY <1>4, <2>1, LineAppended
<1> HIDE DEF N, s, k, c
<1>9. Begins(s, c, N)
  BY <1>1, <1>2, <1>3, <1>7 DEF Begins
<1>10. Place(s, c, N, f, l)
  BY <1>5 DEF Place
<1>11. ASSUME NEW n \in 1..N, NEW i \in 1..c[n], s[n] + i <= k + 1
       PROVE  more[s[n] + i] = files[n][i]
  <2>1. Place(s, c, N, n, i)
    BY DEF Place
  <2> DEFINE a == s[n]
             b == s[f]
  <2>2. a \in Nat /\ b \in Nat /\ i \in Nat \ {0} /\ l \in Nat \ {0} /\ a + i <= k + 1 /\ k = b + l - 1 /\ k \in Nat
    BY <1>1, <1>5, <1>9, <1>10, <1>11, <2>1, PlaceIs
  <2>3. a + i = b + l => n = f /\ i = l
    BY <1>9, <1>10, <2>1, OnePlace
  <2>4. a + i <= k => lines[a + i] = files[n][i]
    BY <1>6
  <2> HIDE DEF a, b
  <2>5. CASE a + i = k + 1
    <3>1. a + i = b + l
      BY <2>2, <2>5
    <3> QED
      BY <1>8, <2>3, <2>5, <3>1 DEF line, a
  <2>6. CASE a + i # k + 1
    <3>1. a + i \in 1..k /\ a + i <= k
      BY <2>2, <2>6
    <3> QED
      BY <1>8, <2>4, <3>1 DEF a
  <2> QED
    BY <2>5, <2>6
<1>12. AreFirstLines(files, more)
  BY <1>1, <1>2, <1>8, <1>11 DEF AreFirstLines, s
<1>13. f <= N /\ f <= N + 1 /\ l + 1 <= c[f] + 1 /\ k + 1 = s[f] + (l + 1) - 1 /\ k + 1 \in Nat
  <2> DEFINE b == s[f]
             e == c[f]
  <2>1. N \in Nat /\ f \in 1..N /\ b \in Nat /\ e \in Nat /\ l \in Nat \ {0} /\ l <= e /\ k = b + l - 1
    BY <1>5, <1>9, <1>10, PlaceIs
  <2> HIDE DEF b, e
  <2>2. f <= N /\ f <= N + 1 /\ l + 1 <= e + 1 /\ k + 1 = b + (l + 1) - 1 /\ k + 1 \in Nat
    BY <2>1
  <2> QED
    BY <2>2 DEF b, e
<1>14. c[f] = Len(files[f])
  BY <1>2, <1>5
<1>15. Len(more) = s[f] + (l + 1) - 1 /\ Len(more) <= s[f] + (l + 1) - 1
  BY <1>8, <1>13
<1> QED
  BY <1>12, <1>13, <1>14, <1>15 DEF N, s

\* A line is read.
LEMMA LineStep ==
    ASSUME ScanInv, pc = "lines", at.line <= Len(folder[at.file]), ~expired,
           LineFunc(folder[at.file][at.line]), handed' = Append(handed, folder[at.file][at.line]),
           at' = [at EXCEPT !.line = @ + 1],
           UNCHANGED <<registry, ac, tokens, folder, expired, pc>>
    PROVE  ScanInv'
<1> DEFINE f == at.file
           l == at.line
           line == folder[f][l]
           s == Sums(folder)
<1>1. ScanType /\ MatchersAreBuilt /\ Progress /\ KeptLines
  BY DEF ScanInv
<1>2. /\ folder \in Seq(Seq(Seq(Bytes))) /\ Len(folder) \in Nat /\ DOMAIN folder = 1..Len(folder)
      /\ handed \in Seq(Seq(Bytes)) /\ Len(handed) \in Nat /\ l \in Nat \ {0}
      /\ \A n \in 1..Len(folder) : Len(folder[n]) \in Nat /\ DOMAIN folder[n] = 1..Len(folder[n])
  BY <1>1, LinesAre
<1>3. f \in 1..Len(folder) /\ l \in 1..Len(folder[f]) /\ line \in Seq(Bytes)
  <2>1. f \in Nat \ {0} /\ f <= Len(folder)
    BY <1>1, LinesAre DEF Progress
  <2>2. f \in 1..Len(folder)
    BY <1>2, <2>1
  <2>3. Len(folder[f]) \in Nat /\ l <= Len(folder[f])
    BY <1>2, <2>2
  <2>4. l \in 1..Len(folder[f])
    BY <1>2, <2>3
  <2> QED
    BY <1>1, <2>2, <2>4, LinesAre
<1>4. /\ handed' = Append(handed, line) /\ handed' \in Seq(Seq(Bytes)) /\ Len(handed') = Len(handed) + 1
      /\ handed'[Len(handed) + 1] = line /\ \A i \in 1..Len(handed) : handed'[i] = handed[i]
  <2>1. handed' = Append(handed, line)
    OBVIOUS
  <2> HIDE DEF line
  <2> QED
    BY <1>2, <1>3, <2>1, LineAppended
<1>5. /\ at' \in [file : Nat \ {0}, line : Nat \ {0}] /\ at'.file = f /\ at'.line = l + 1
  <2>1. at \in [file : Nat \ {0}, line : Nat \ {0}] /\ at' = [at EXCEPT !.line = @ + 1]
    BY <1>1 DEF ScanType
  <2>2. at' = [file |-> at.file, line |-> at.line + 1]
    BY <2>1
  <2> QED
    BY <2>1, <2>2
<1>6. /\ found' = [r \in DOMAIN found |-> IF r \in Heard(line) THEN Kept(found[r], TrimSpace(line)) ELSE found[r]]
      /\ flags' = flags \cup (Heard(line) \cap Flags)
  <2>1. found = [r \in DOMAIN found |-> found[r]]
    BY <1>1 DEF ScanType
  <2>2. LineFunc(line)
    OBVIOUS
  <2> HIDE DEF line
  <2> QED
    BY <2>1, <2>2 DEF LineFunc, Heard
<1>7. \A r : r \in Heard(line) <=> Speaks(registry, r, line)
  <2> HIDE DEF line
  <2> QED
    BY <1>1, <1>3, HeardIsSpoken
<1> HIDE DEF line, f, l
\* What is kept.
<1>8. ASSUME NEW r \in DOMAIN found
      PROVE  /\ r \in DOMAIN found' /\ found'[r] \in Seq(Seq(Bytes))
             /\ KeptAs(found'[r], handed', Said(registry, handed', r))
  <2>1. found[r] \in Seq(Seq(Bytes)) /\ KeptAs(found[r], handed, Said(registry, handed, r))
    BY <1>1 DEF ScanType, KeptLines
  <2>2. r \in DOMAIN found' /\ found'[r] = IF Speaks(registry, r, line) THEN Kept(found[r], TrimSpace(line)) ELSE found[r]
    BY <1>6, <1>7
  <2>3. /\ found'[r] \in Seq(Seq(Bytes))
        /\ KeptAs(found'[r], Append(handed, line), Said(registry, Append(handed, line), r))
    BY <1>2, <1>3, <2>1, <2>2, KeptMore
  <2> QED
    BY <1>4, <2>2, <2>3
<1>9. flags' = {r \in Flags : Said(registry, handed', r) # {}}
  <2>1. ASSUME NEW r PROVE Said(registry, handed', r) # {} <=> Said(registry, handed, r) # {} \/ Speaks(registry, r, line)
    <3>1. Said(registry, handed', r) = Said(registry, handed, r) \cup
            (IF Speaks(registry, r, line) /\ IsNews(handed, line) THEN {Len(handed) + 1} ELSE {})
      BY <1>2, <1>3, <1>4, SaidOfMore
    <3>2. Speaks(registry, r, line) /\ ~IsNews(handed, line) => Said(registry, handed, r) # {}
      BY <1>2, <1>3, OldNews
    <3> QED
      BY <3>1, <3>2
  <2>2. flags = {r \in Flags : Said(registry, handed, r) # {}}
    BY <1>1 DEF KeptLines
  <2> QED
    BY <1>6, <1>7, <2>1, <2>2
<1>10. KeptLines'
  <2>1. DOMAIN found' = DOMAIN found
    BY <1>6
  <2>2. registry' = registry
    OBVIOUS
  <2> QED
    BY <1>8, <1>9, <2>1, <2>2 DEF KeptLines
<1>11. ScanType'
  <2>1. found' \in [RolesKept(registry) -> Seq(Seq(Bytes))]
    <3>1. found \in [RolesKept(registry) -> Seq(Seq(Bytes))]
      BY <1>1 DEF ScanType
    <3> QED
      BY <1>6, <1>8, <3>1
  <2>2. flags' \subseteq Flags
    BY <1>9
  <2> QED
    BY <1>1, <1>4, <1>5, <2>1, <2>2 DEF ScanType
\* Where the scan stands.
<1>12. MatchersAreBuilt'
  <2>1. Literals' = Literals /\ Patterns' = Patterns
    BY DEF Literals, Patterns
  <2> QED
    BY <1>1, <2>1 DEF MatchersAreBuilt
<1>13. Progress'
  <2>1. Sums(folder)' = Sums(folder) /\ folder' = folder /\ expired' = expired /\ pc' = "lines"
    OBVIOUS
  <2>2. Len(handed) = Sums(folder)[f] + l - 1 /\ AreFirstLines(folder, handed)
    BY <1>1 DEF Progress, f, l
  <2>3. /\ f <= Len(folder) /\ f <= Len(folder) + 1 /\ l + 1 <= Len(folder[f]) + 1
        /\ Len(handed') = Sums(folder)[f] + (l + 1) - 1 /\ Len(handed') <= Sums(folder)[f] + (l + 1) - 1
        /\ AreFirstLines(folder, handed')
    <3>1. handed' = Append(handed, folder[f][l])
      BY <1>4 DEF line
    <3>2. IsNext(folder, f, l, handed)
      BY <1>3, <2>2 DEF IsNext
    <3> QED
      BY <1>2, <2>2, <3>1, <3>2, OneLineOn
  <2> QED
    BY <1>5, <2>1, <2>3 DEF Progress
<1> QED
  BY <1>10, <1>11, <1>12, <1>13 DEF ScanInv

LEMMA ScanInvStutters == ASSUME ScanInv, UNCHANGED scanVars PROVE ScanInv'
<1>1. UNCHANGED <<registry, ac, tokens, folder, at, expired, found, flags, handed, pc>>
  BY DEF scanVars
<1>2. ScanType' /\ Progress'
  BY <1>1 DEF ScanInv, ScanType, Progress
<1>3. Literals' = Literals /\ Patterns' = Patterns
  BY <1>1 DEF Literals, Patterns
<1>4. MatchersAreBuilt'
  BY <1>1, <1>3 DEF ScanInv, MatchersAreBuilt
<1> QED
  BY <1>1, <1>2, <1>4, KeptUnchanged DEF ScanInv

LEMMA ScanInvStep == ScanInv /\ [ScanNext]_scanVars => ScanInv'
<1> SUFFICES ASSUME ScanInv, [ScanNext]_scanVars PROVE ScanInv'
  OBVIOUS
<1>1. CASE BuildMatchers
  BY <1>1, BuildStep
<1>2. CASE OpenFile
  BY <1>2, OpenStep
<1>3. CASE Expire
  BY <1>3, ExpireStep
<1>4. CASE ScanLine
  <2>1. CASE at.line <= Len(folder[at.file]) /\ ~expired
    BY <1>4, <2>1, LineStep DEF ScanLine
  <2>2. CASE ~(at.line <= Len(folder[at.file]) /\ ~expired)
    BY <1>4, <2>2, CloseStep DEF ScanLine
  <2> QED
    BY <2>1, <2>2
<1>5. CASE UNCHANGED scanVars
  BY <1>5, ScanInvStutters
<1> QED
  BY <1>1, <1>2, <1>3, <1>4, <1>5 DEF ScanNext, Scan, Done

LEMMA ScanInvariance == ScanSpec => []ScanInv
  BY ScanStarts, ScanInvStep, PTL DEF ScanSpec

-----------------------------------------------------------------------------
(* The theorems.                                                             *)

LEMMA LatestIs ==
    ASSUME ScanType, handed # <<>>
    PROVE  Latest \in Seq(Bytes)
<1>1. handed \in Seq(Seq(Bytes))
  BY DEF ScanType
<1>2. Len(handed) \in 1..Len(handed)
  BY <1>1, EmptySeq
<1> QED
  BY <1>1, <1>2 DEF Latest

\* Whatever literals are registered, and whatever lines there are, one pass of the automaton
\* that newACMatcher builds puts out the literals that stand in a line, and no other.
THEOREM AutomatonExact == ScanSpec => []AutomatonIsExact
<1>1. ScanInv => AutomatonIsExact
  <2> SUFFICES ASSUME ScanInv, handed # <<>>
               PROVE  MatchBoundSelective(ac, Lowered(Latest)) =
                        {ToLower(p.head) : p \in {q \in Literals : Occurs(q, Lowered(Latest))}}
    BY DEF AutomatonIsExact
  <2>1. registry \in Registries /\ ac = NewACMatcher({ToLower(p.head) : p \in Literals}) /\ Latest \in Seq(Bytes)
    BY LatestIs DEF ScanInv, ScanType, MatchersAreBuilt
  <2> QED
    BY <2>1, HitsAre
<1> QED
  BY <1>1, ScanInvariance, PTL

\* Whatever the patterns are and the words that are thought too generic for a token, a line
\* in which a pattern stands is not pre-filtered away.
THEOREM NothingIsHidden == ScanSpec => []PrefilterHidesNothing
<1>1. ScanInv => PrefilterHidesNothing
  <2> SUFFICES ASSUME ScanInv, handed # <<>>, NEW p \in Patterns, Occurs(p, Lowered(Latest)),
                      p.regex => Words(Text(p)) # {}
               PROVE  PassesPrefilter(Lowered(Latest))
    BY DEF PrefilterHidesNothing
  <2>1. registry \in Registries /\ tokens = NewACMatcher(DerivePrefilterTokens(Patterns)) /\ Latest \in Seq(Bytes)
    BY LatestIs DEF ScanInv, ScanType, MatchersAreBuilt
  <2> QED
    BY <2>1, SpeakingPasses
<1> QED
  BY <1>1, ScanInvariance, PTL

\* Whatever the files hold and whenever the deadline passes, the callback has seen the first
\* lines of the files in their order, without a gap, and all of them if there was time.
THEOREM ScanIsAPrefix == ScanSpec => []TimedOutScanIsAPrefix
<1>1. ScanInv => TimedOutScanIsAPrefix
  <2> SUFFICES ASSUME ScanInv PROVE TimedOutScanIsAPrefix
    OBVIOUS
  <2> DEFINE N == Len(folder)
             s == Sums(folder)
             f == at.file
             l == at.line
             k == Len(handed)
  <2>1. ScanType /\ Progress
    BY DEF ScanInv
  <2>2. /\ folder \in Seq(Seq(Seq(Bytes))) /\ N \in Nat /\ k \in Nat /\ f \in 1..(N + 1) /\ l \in Nat \ {0}
        /\ \A n \in 1..N : Len(folder[n]) \in Nat
    BY <2>1, LinesAre DEF Progress
  <2>3. s \in [1..(N + 1) -> Nat]
    BY <2>2, SumsAre
  <2>4. /\ pc = "lines" => f <= N /\ l <= Len(folder[f]) + 1
        /\ pc # "lines" => l = 1
        /\ pc = "done" /\ ~expired /\ registry # {} => f = N + 1
        /\ k <= s[f] + l - 1 /\ (~expired => k = s[f] + l - 1)
        /\ \A n \in DOMAIN folder : \A i \in DOMAIN folder[n] : s[n] + i <= k => handed[s[n] + i] = folder[n][i]
    BY <2>1 DEF Progress, AreFirstLines
  <2>5. \A n \in 1..N : s[n] + Len(folder[n]) <= s[N + 1]
    <3>1. ASSUME NEW n \in 1..N PROVE s[n] + Len(folder[n]) <= s[N + 1]
      <4>1. N + 1 \in (n + 1)..(N + 1)
        BY <2>2
      <4> QED
        BY <2>2, <4>1, SumsGrow
    <3> QED
      BY <3>1
  <2>6. Before = s
    BY BeforeIsSums
  <2> HIDE DEF N, s, f, l, k
  <2>7. s[f] \in Nat /\ s[N + 1] \in Nat
    <3>1. N + 1 \in 1..(N + 1)
      BY <2>2
    <3> QED
      BY <2>2, <2>3, <3>1
  <2>8. k <= s[N + 1]
    <3>1. CASE f = N + 1
      <4>1. l = 1
        BY <2>2, <2>4, <3>1
      <4> QED
        BY <2>2, <2>4, <2>7, <3>1, <4>1
    <3>2. CASE f # N + 1
      <4>1. f \in 1..N
        BY <2>2, <3>2
      <4>2. s[f] + Len(folder[f]) <= s[N + 1] /\ Len(folder[f]) \in Nat
        BY <2>2, <2>5, <4>1
      <4>3. l <= Len(folder[f]) + 1
        BY <2>2, <2>4, <4>2
      <4> QED
        BY <2>2, <2>4, <2>7, <4>2, <4>3
    <3> QED
      BY <3>1, <3>2
  <2>9. pc = "done" /\ ~expired /\ registry # {} => k = s[N + 1]
    <3>1. CASE pc = "done" /\ ~expired /\ registry # {}
      <4>1. f = N + 1 /\ l = 1 /\ k = s[f] + l - 1
        BY <2>4, <3>1
      <4> QED
        BY <2>7, <4>1
    <3> QED
      BY <3>1
  <2> QED
    BY <2>4, <2>6, <2>8, <2>9 DEF TimedOutScanIsAPrefix, N, k
<1> QED
  BY <1>1, ScanInvariance, PTL

\* However many roles a pattern has and however many lines speak of them, what is kept for a
\* description or an article is the first of the different lines that do, in their order.
THEOREM FirstLinesKept == ScanSpec => []FirstLinesAreKept
<1>1. ScanInv => FirstLinesAreKept
  <2> SUFFICES ASSUME ScanInv PROVE FirstLinesAreKept
    OBVIOUS
  <2>1. \A r : Witnesses(r) = Said(registry, handed, r)
    BY DEF Witnesses, Said, Speaks
  <2>2. ASSUME NEW r \in DOMAIN found, NEW w, w = Said(registry, handed, r)
        PROVE  /\ DOMAIN found[r] = Ranks(w) \cap (1..MaxExamples)
               /\ \A i \in w : RankIn(w, i) <= MaxExamples => found[r][RankIn(w, i)] = TrimSpace(handed[i])
    <3>1. KeptAs(found[r], handed, w) /\ found[r] \in Seq(Seq(Bytes))
      BY <2>2 DEF ScanInv, KeptLines, ScanType
    <3>2. /\ IsFiniteSet(w) /\ Ranks(w) = 1..Cardinality(w)
          /\ Len(found[r]) = IF Cardinality(w) <= MaxExamples THEN Cardinality(w) ELSE MaxExamples
          /\ \A i \in w : RankIn(w, i) <= MaxExamples => found[r][RankIn(w, i)] = TrimSpace(handed[i])
      BY <3>1 DEF KeptAs
    <3>3. Cardinality(w) \in Nat /\ MaxExamples \in Nat
      BY <3>2, FS_CardinalityType, LineScanAssumption
    <3>4. DOMAIN found[r] = 1..Len(found[r])
      BY <3>1
    <3>5. 1..Len(found[r]) = (1..Cardinality(w)) \cap (1..MaxExamples)
      BY <3>2, <3>3
    <3> QED
      BY <3>2, <3>4, <3>5
  <2>3. flags = {r \in Flags : Witnesses(r) # {}}
    BY <2>1 DEF ScanInv, KeptLines
  <2>4. ASSUME NEW r \in DOMAIN found
        PROVE  LET w == Witnesses(r)
                   Rank(i) == Cardinality({j \in w : j <= i})
               IN /\ DOMAIN found[r] = {Rank(i) : i \in w} \cap (1..MaxExamples)
                  /\ \A i \in w : Rank(i) <= MaxExamples => found[r][Rank(i)] = TrimSpace(handed[i])
    <3> DEFINE w == Witnesses(r)
    <3>1. /\ DOMAIN found[r] = Ranks(w) \cap (1..MaxExamples)
          /\ \A i \in w : RankIn(w, i) <= MaxExamples => found[r][RankIn(w, i)] = TrimSpace(handed[i])
      BY <2>1, <2>2
    <3> HIDE DEF w
    <3>2. /\ DOMAIN found[r] = {Cardinality({j \in w : j <= i}) : i \in w} \cap (1..MaxExamples)
          /\ \A i \in w : Cardinality({j \in w : j <= i}) <= MaxExamples =>
                            found[r][Cardinality({j \in w : j <= i})] = TrimSpace(handed[i])
      BY <3>1 DEF Ranks, RankIn
    <3> QED
      BY <3>2 DEF w
  <2> QED
    BY <2>3, <2>4 DEF FirstLinesAreKept
<1> QED
  BY <1>1, ScanInvariance, PTL

-----------------------------------------------------------------------------
(* Correlation.                                                              *)

Chronological == \A p, q \in DOMAIN rows : p < q => ~InOrder(rows[q], rows[p])

USE CorrelationAssumption

-----------------------------------------------------------------------------
(* The timeline.                                                             *)

LEMMA DatedIsNat == ASSUME NEW r \in Row PROVE r.at # Undated => r.at \in Nat
  BY DEF Row

LEMMA InOrderAsymmetric ==
    ASSUME NEW r \in Row, NEW s \in Row, InOrder(r, s)
    PROVE  ~InOrder(s, r)
<1>1. (r.at # Undated => r.at \in Nat) /\ (s.at # Undated => s.at \in Nat)
  BY DatedIsNat
<1> QED
  BY <1>1 DEF InOrder

LEMMA NewRowType == ASSUME NEW m \in LogMatch PROVE NewRow(m) \in Row
  BY DEF LogMatch, Row, NewRow

LEMMA CountedType ==
    ASSUME rows \in Seq(Row), NEW m \in LogMatch
    PROVE  Counted(m) \in Seq(Row)
<1>1. ASSUME NEW i \in DOMAIN rows PROVE [rows[i] EXCEPT !.occurrences = @ + 1] \in Row
  <2>1. rows[i] \in Row
    BY <1>1
  <2>2. rows[i].occurrences + 1 \in Nat \ {0}
    BY <2>1 DEF Row
  <2> QED
    BY <2>1, <2>2 DEF Row
<1>2. \A i \in DOMAIN rows : Counted(m)[i] \in Row
  BY <1>1 DEF Counted
<1>3. DOMAIN rows = 1..Len(rows) /\ Len(rows) \in Nat
  OBVIOUS
<1>4. Counted(m) \in [1..Len(rows) -> Row]
  BY <1>2, <1>3 DEF Counted
<1> QED
  BY <1>3, <1>4

LEMMA AddType ==
    ASSUME rows \in Seq(Row), NEW m \in LogMatch, Add(m)
    PROVE  rows' \in Seq(Row)
  BY NewRowType, CountedType DEF Add

\* A stable sort never leaves a row before one that is earlier.
LEMMA SortedIsChronological ==
    ASSUME rows \in Seq(Row), NEW order \in Orders, IsStableSort(order),
           rows' = [p \in DOMAIN rows |-> rows[order[p]]]
    PROVE  rows' \in Seq(Row) /\ Chronological'
<1>1. DOMAIN rows = 1..Len(rows) /\ Len(rows) \in Nat
  OBVIOUS
<1>2. order \in [DOMAIN rows -> DOMAIN rows]
  BY DEF Orders
<1>3. rows' \in [1..Len(rows) -> Row]
  BY <1>1, <1>2
<1>4. rows' \in Seq(Row) /\ DOMAIN rows' = DOMAIN rows
  BY <1>1, <1>3
<1>5. ASSUME NEW p \in DOMAIN rows, NEW q \in DOMAIN rows, p < q
      PROVE  ~InOrder(rows'[q], rows'[p])
  <2>1. /\ rows'[p] = rows[order[p]] /\ rows'[q] = rows[order[q]]
        /\ rows'[p] \in Row /\ rows'[q] \in Row
    BY <1>1, <1>2, <1>3
  <2>2. InOrder(rows'[p], rows'[q]) \/ ~InOrder(rows'[q], rows'[p])
    BY <1>5, <2>1 DEF IsStableSort
  <2> QED
    BY <2>1, <2>2, InOrderAsymmetric
<1> QED
  BY <1>4, <1>5 DEF Chronological

-----------------------------------------------------------------------------
(* The count of the aggregated rows, as operators of a timeline and a list of *)
(* matches.                                                                   *)
Same(r, m) == r.at = m.at /\ r.kind = m.kind
Hits(ms, r) == {n \in DOMAIN ms : Same(r, ms[n])}
Has(rs, m) == \E i \in DOMAIN rs : Same(rs[i], m)
Missed(rs, ms) == {n \in DOMAIN ms : ~Has(rs, ms[n])}

Tally(rs, ms, lost) ==
    /\ \A i \in DOMAIN rs : rs[i].occurrences = Cardinality(Hits(ms, rs[i]))
    /\ \A i, j \in DOMAIN rs : i # j => ~Same(rs[i], rs[j])
    /\ lost = Cardinality(Missed(rs, ms))

LEMMA PartsAreFinite ==
    ASSUME NEW ms \in Seq(LogMatch), NEW T \in SUBSET DOMAIN ms
    PROVE  IsFiniteSet(T) /\ Cardinality(T) \in Nat
<1>1. DOMAIN ms = 1..Len(ms) /\ Len(ms) \in Nat
  OBVIOUS
<1>2. IsFiniteSet(DOMAIN ms)
  BY <1>1, FS_Interval
<1> QED
  BY <1>2, FS_Subset, FS_CardinalityType

\* The matches without a row are as many as their events if none of these repeats.
LEMMA TallyIsCount ==
    ASSUME matches \in Seq(LogMatch), Tally(rows, matches, dropped)
    PROVE  EveryMatchIsCounted
<1> DEFINE lost == {n \in DOMAIN matches : ~Known(matches[n])}
           events == {matches[n] : n \in lost}
           event == [n \in lost |-> matches[n]]
<1>1. lost = Missed(rows, matches)
  BY DEF Missed, Has, Same, Known, SameEvent
<1>2. dropped = Cardinality(lost) /\ IsFiniteSet(lost)
  BY <1>1, PartsAreFinite DEF Tally
<1>3. event \in Surjection(lost, events)
  BY DEF Surjection
<1>4. event \in Injection(lost, events) <=> \A m, n \in lost : matches[m] = matches[n] => m = n
  BY DEF Injection, IsInjective
<1>5. Cardinality(events) = Cardinality(lost) <=> event \in Injection(lost, events)
  <2> HIDE DEF lost, events, event
  <2> QED
    BY <1>2, <1>3, FS_Surjection
<1>6. dropped = Cardinality(events) <=> \A m, n \in lost : matches[m] = matches[n] => m = n
  <2> HIDE DEF lost, events, event
  <2> QED
    BY <1>2, <1>4, <1>5
<1>7. /\ \A i \in DOMAIN rows :
            rows[i].occurrences = Cardinality({n \in DOMAIN matches : SameEvent(i, matches[n])})
      /\ \A i, j \in DOMAIN rows : i # j => ~SameEvent(i, rows[j])
  BY DEF Tally, Hits, Same, SameEvent
<1> QED
  BY <1>2, <1>6, <1>7 DEF EveryMatchIsCounted

\* The matches of one more line are those of before, with the line or without.
LEMMA OneMore ==
    ASSUME NEW ms \in Seq(LogMatch), NEW m \in LogMatch,
           NEW before \in SUBSET DOMAIN ms, NEW after,
           after = before \/ after = before \cup {Len(ms) + 1}
    PROVE  Cardinality(after) = Cardinality(before)
                                + (IF Len(ms) + 1 \in after THEN 1 ELSE 0)
<1>1. IsFiniteSet(before) /\ Cardinality(before) \in Nat
  BY PartsAreFinite
<1>2. Len(ms) + 1 \notin before
  OBVIOUS
<1> QED
  BY <1>1, <1>2, FS_AddElement

LEMMA Appended ==
    ASSUME NEW ms \in Seq(LogMatch), NEW m \in LogMatch
    PROVE  /\ Append(ms, m) \in Seq(LogMatch)
           /\ DOMAIN Append(ms, m) = DOMAIN ms \cup {Len(ms) + 1}
           /\ \A n \in DOMAIN ms : Append(ms, m)[n] = ms[n]
           /\ Append(ms, m)[Len(ms) + 1] = m
  OBVIOUS

LEMMA HitsOfAppend ==
    ASSUME NEW ms \in Seq(LogMatch), NEW m \in LogMatch, NEW r
    PROVE  Cardinality(Hits(Append(ms, m), r)) =
              Cardinality(Hits(ms, r)) + (IF Same(r, m) THEN 1 ELSE 0)
<1>1. Hits(Append(ms, m), r) = IF Same(r, m) THEN Hits(ms, r) \cup {Len(ms) + 1} ELSE Hits(ms, r)
  BY Appended DEF Hits
<1>2. Hits(ms, r) \in SUBSET DOMAIN ms
  BY DEF Hits
<1>3. Len(ms) + 1 \notin DOMAIN ms
  OBVIOUS
<1> QED
  BY <1>1, <1>2, <1>3, OneMore

LEMMA CountedTally ==
    ASSUME rows \in Seq(Row), NEW ms \in Seq(LogMatch), NEW lost, Tally(rows, ms, lost),
           NEW m \in LogMatch, Known(m)
    PROVE  /\ Tally(Counted(m), Append(ms, m), lost)
           /\ Missed(rows, ms) = {} => Missed(Counted(m), Append(ms, m)) = {}
<1> DEFINE new == Counted(m)
           all == Append(ms, m)
<1>1. /\ DOMAIN new = DOMAIN rows
      /\ \A i \in DOMAIN rows : /\ new[i].at = rows[i].at /\ new[i].kind = rows[i].kind
                                /\ new[i].occurrences = rows[i].occurrences
                                                        + (IF Same(rows[i], m) THEN 1 ELSE 0)
  <2>1. ASSUME NEW i \in DOMAIN rows
        PROVE  /\ new[i].at = rows[i].at /\ new[i].kind = rows[i].kind
               /\ new[i].occurrences = rows[i].occurrences + (IF Same(rows[i], m) THEN 1 ELSE 0)
    <3>1. rows[i] \in Row
      BY <2>1
    <3> QED
      BY <3>1 DEF Counted, SameEvent, Same, Row
  <2> QED
    BY <2>1 DEF Counted
<1> HIDE DEF new, all
<1>2. /\ \A i \in DOMAIN rows : \A x : Same(new[i], x) <=> Same(rows[i], x)
      /\ \A x : Has(new, x) <=> Has(rows, x)
  BY <1>1 DEF Same, Has
<1>3. \A i \in DOMAIN rows : Hits(all, new[i]) = Hits(all, rows[i])
  BY <1>2 DEF Hits
<1>4. \A i \in DOMAIN new : new[i].occurrences = Cardinality(Hits(all, new[i]))
  <2>1. ASSUME NEW i \in DOMAIN rows PROVE new[i].occurrences = Cardinality(Hits(all, new[i]))
    <3>1. rows[i].occurrences = Cardinality(Hits(ms, rows[i]))
      BY DEF Tally
    <3>2. Cardinality(Hits(all, rows[i])) = Cardinality(Hits(ms, rows[i]))
                                            + (IF Same(rows[i], m) THEN 1 ELSE 0)
      BY HitsOfAppend DEF all
    <3> QED
      BY <1>1, <1>3, <3>1, <3>2
  <2> QED
    BY <1>1, <2>1
<1>5. \A i, j \in DOMAIN new : i # j => ~Same(new[i], new[j])
  BY <1>1 DEF Tally, Same
<1>6. Missed(new, all) = Missed(rows, ms)
  <2>1. Has(rows, m)
    BY DEF Known, SameEvent, Has, Same
  <2>2. \A n \in DOMAIN all : ~Has(new, all[n]) => n \in DOMAIN ms /\ ~Has(rows, ms[n])
    BY <1>2, <2>1, Appended DEF all
  <2>3. \A n \in DOMAIN ms : n \in DOMAIN all /\ all[n] = ms[n]
    BY Appended DEF all
  <2> QED
    BY <1>2, <2>2, <2>3 DEF Missed
<1>7. Tally(new, all, lost)
  BY <1>4, <1>5, <1>6 DEF Tally
<1> QED
  BY <1>6, <1>7 DEF new, all

LEMMA NewRowTally ==
    ASSUME rows \in Seq(Row), NEW ms \in Seq(LogMatch), NEW lost, Tally(rows, ms, lost),
           NEW m \in LogMatch, ~Known(m), Missed(rows, ms) = {}
    PROVE  LET new == Append(rows, NewRow(m))
           IN  Tally(new, Append(ms, m), lost) /\ Missed(new, Append(ms, m)) = {}
<1> DEFINE new == Append(rows, NewRow(m))
           all == Append(ms, m)
           last == Len(rows) + 1
<1>1. /\ DOMAIN new = DOMAIN rows \cup {last} /\ last \notin DOMAIN rows
      /\ \A i \in DOMAIN rows : new[i] = rows[i]
      /\ new[last] = NewRow(m)
  <2>1. NewRow(m) \in Row
    BY NewRowType
  <2> QED
    BY <2>1
<1>2. \A x : Same(NewRow(m), x) <=> Same(m, x)
  BY DEF NewRow, Same
<1>3. \A i \in DOMAIN rows : ~Same(rows[i], m)
  BY DEF Known, SameEvent, Same
<1>4. Hits(ms, NewRow(m)) = {}
  <2>1. SUFFICES ASSUME NEW n \in DOMAIN ms, Same(m, ms[n]) PROVE FALSE
    BY <1>2 DEF Hits
  <2>2. Has(rows, ms[n])
    BY DEF Missed
  <2> QED
    BY <1>3, <2>1, <2>2 DEF Has, Same
<1> HIDE DEF new, all, last
<1>5. ASSUME NEW i \in DOMAIN new PROVE new[i].occurrences = Cardinality(Hits(all, new[i]))
  <2>1. CASE i \in DOMAIN rows
    <3>1. rows[i].occurrences = Cardinality(Hits(ms, rows[i]))
      BY <2>1 DEF Tally
    <3>2. Cardinality(Hits(all, rows[i])) = Cardinality(Hits(ms, rows[i])) + 0
      BY <1>3, <2>1, HitsOfAppend DEF all
    <3>3. Cardinality(Hits(ms, rows[i])) \in Nat
      BY PartsAreFinite DEF Hits
    <3> QED
      BY <1>1, <2>1, <3>1, <3>2, <3>3
  <2>2. CASE i = last
    <3>1. Cardinality(Hits(all, NewRow(m))) = Cardinality(Hits(ms, NewRow(m))) + 1
      BY <1>2, HitsOfAppend DEF all, Same
    <3>2. Cardinality({}) = 0
      BY FS_EmptySet
    <3>3. Cardinality(Hits(all, NewRow(m))) = 1
      BY <1>4, <3>1, <3>2
    <3>4. NewRow(m).occurrences = 1
      BY DEF NewRow
    <3> QED
      BY <1>1, <2>2, <3>3, <3>4
  <2> QED
    BY <1>1, <2>1, <2>2
<1>6. \A i, j \in DOMAIN new : i # j => ~Same(new[i], new[j])
  BY <1>1, <1>2, <1>3 DEF Tally, Same
<1>7. Missed(new, all) = {}
  <2>1. ASSUME NEW n \in DOMAIN all PROVE Has(new, all[n])
    <3>1. CASE n \in DOMAIN ms
      BY <3>1, <1>1, Appended DEF all, Missed, Has
    <3>2. CASE n = Len(ms) + 1
      BY <3>2, <1>1, <1>2, Appended DEF all, Has, Same
    <3> QED
      BY <3>1, <3>2, Appended DEF all
  <2> QED
    BY <2>1 DEF Missed
<1> QED
  BY <1>5, <1>6, <1>7 DEF Tally, new, all

LEMMA DroppedTally ==
    ASSUME rows \in Seq(Row), NEW ms \in Seq(LogMatch), NEW lost, Tally(rows, ms, lost),
           NEW m \in LogMatch, ~Known(m)
    PROVE  Tally(rows, Append(ms, m), lost + 1)
<1>1. \A i \in DOMAIN rows : ~Same(rows[i], m)
  BY DEF Known, SameEvent, Same
<1>2. ASSUME NEW i \in DOMAIN rows
      PROVE  rows[i].occurrences = Cardinality(Hits(Append(ms, m), rows[i]))
  <2>1. Cardinality(Hits(Append(ms, m), rows[i])) = Cardinality(Hits(ms, rows[i])) + 0
    BY <1>1, HitsOfAppend
  <2>2. Cardinality(Hits(ms, rows[i])) \in Nat
    BY PartsAreFinite DEF Hits
  <2> QED
    BY <2>1, <2>2 DEF Tally
<1>3. Missed(rows, Append(ms, m)) = Missed(rows, ms) \cup {Len(ms) + 1}
  BY <1>1, Appended DEF Missed, Has
<1>4. Missed(rows, ms) \in SUBSET DOMAIN ms
  BY DEF Missed
<1>5. Cardinality(Missed(rows, Append(ms, m))) = lost + 1
  BY <1>3, <1>4, OneMore DEF Tally
<1> QED
  BY <1>2, <1>5 DEF Tally

\* A permutation of the rows has the same events, each with its count.
LEMMA SortedTally ==
    ASSUME rows \in Seq(Row), NEW ms \in Seq(LogMatch), NEW lost, Tally(rows, ms, lost),
           NEW order \in Orders
    PROVE  LET new == [p \in DOMAIN rows |-> rows[order[p]]]
           IN  Tally(new, ms, lost) /\ Missed(new, ms) = Missed(rows, ms)
<1> DEFINE new == [p \in DOMAIN rows |-> rows[order[p]]]
<1>1. order \in [DOMAIN rows -> DOMAIN rows] /\ \A p, q \in DOMAIN rows : order[p] = order[q] => p = q
  BY DEF Orders
<1>2. \A i \in DOMAIN rows : \E p \in DOMAIN rows : order[p] = i
  <2>1. IsFiniteSet(DOMAIN rows)
    <3>1. DOMAIN rows = 1..Len(rows) /\ Len(rows) \in Nat
      OBVIOUS
    <3> QED
      BY <3>1, FS_Interval
  <2>2. order \in Injection(DOMAIN rows, DOMAIN rows)
    BY <1>1 DEF Injection, IsInjective
  <2>3. order \in Surjection(DOMAIN rows, DOMAIN rows)
    BY <2>1, <2>2, FS_Injection
  <2> QED
    BY <2>3 DEF Surjection
<1>3. \A x : Has(new, x) <=> Has(rows, x)
  BY <1>1, <1>2 DEF Has
<1>4. \A i \in DOMAIN new : new[i].occurrences = Cardinality(Hits(ms, new[i]))
  BY <1>1 DEF Tally
<1>5. \A i, j \in DOMAIN new : i # j => ~Same(new[i], new[j])
  BY <1>1 DEF Tally
<1>6. Missed(new, ms) = Missed(rows, ms)
  BY <1>3 DEF Missed
<1> QED
  BY <1>4, <1>5, <1>6 DEF Tally
-----------------------------------------------------------------------------
(* What the sweep has seen, and a maximal run of it.                          *)
Bursts == [kind : Kinds, first : Nat, last : Nat, count : Nat]
Sweeps == [open : [Kinds -> Bursts \cup {NoBurst}], closed : SUBSET Bursts]

Seen(rs, k, n) == {rs[i].at : i \in {j \in 1..n : rs[j].kind = k}} \ {Undated}

Between(ms, k, a, b) ==
    {n \in DOMAIN ms : /\ ms[n].kind = k /\ ms[n].at # Undated
                       /\ a <= ms[n].at /\ ms[n].at <= b}

StartsRun(S, a) == \A t \in S : ~(t < a /\ a <= t + Gap)
EndsRun(S, b) == \A t \in S : ~(b < t /\ t <= b + Gap)
Linked(S, a, b) ==
    /\ a \in S /\ b \in S /\ a <= b
    /\ \A t \in S : a <= t /\ t < b => \E u \in S : t < u /\ u <= t + Gap /\ u <= b

Found(seen) == seen.closed \cup ({seen.open[k] : k \in Kinds} \ {NoBurst})

\* An open burst lacks only its end.
IsRun(S, ms, c) ==
    /\ StartsRun(S, c.first) /\ Linked(S, c.first, c.last)
    /\ c.count = Cardinality(Between(ms, c.kind, c.first, c.last))

OpenRun(S, ms, k, c) == /\ c \in Bursts /\ c.kind = k /\ IsRun(S, ms, c)
                        /\ \A t \in S : t <= c.last

ClosedRun(S, ms, c) == /\ c \in Bursts /\ IsRun(S, ms, c) /\ EndsRun(S, c.last)
                       /\ \E u \in S : c.last < u

Covers(seen, k, t) == \E c \in Found(seen) : c.kind = k /\ c.first <= t /\ t <= c.last

\* What the sweep has after the first n rows.
SweepInv(rs, ms, n, seen) ==
    /\ seen \in Sweeps
    /\ \A k \in Kinds : \/ seen.open[k] = NoBurst /\ Seen(rs, k, n) = {}
                        \/ OpenRun(Seen(rs, k, n), ms, k, seen.open[k])
    /\ \A c \in seen.closed : ClosedRun(Seen(rs, c.kind, n), ms, c)
    /\ \A k \in Kinds : \A t \in Seen(rs, k, n) : Covers(seen, k, t)

LEMMA NoBurstIsNone == NoBurst \notin Bursts
<1>1. \A c \in Bursts : "first" \in DOMAIN c
  BY DEF Bursts
<1>2. "first" \notin DOMAIN NoBurst
  BY DEF NoBurst
<1> QED
  BY <1>1, <1>2

LEMMA OverlappingRuns ==
    ASSUME NEW S \in SUBSET Nat, NEW a \in Nat, NEW b \in Nat, NEW c \in Nat, NEW d \in Nat,
           Linked(S, a, b), StartsRun(S, a), EndsRun(S, b),
           Linked(S, c, d), StartsRun(S, c), EndsRun(S, d),
           a <= c, c <= b
    PROVE  a = c /\ b = d
<1>0. Gap \in Nat
  OBVIOUS
<1>1. a = c
  <2>1. SUFFICES ASSUME a < c PROVE FALSE
    OBVIOUS
  <2> DEFINE T == {t \in S : a <= t /\ t < c}
  <2>2. PICK t \in T : \A u \in T : u <= t
    <3>1. a \in T
      BY <2>1 DEF Linked
    <3>2. ASSUME NEW u \in T PROVE u \in Nat /\ u <= c
      <4>1. u \in Nat /\ u < c
        OBVIOUS
      <4> QED
        BY <4>1
    <3> HIDE DEF T
    <3> QED
      BY <3>1, <3>2, Greatest
  <2>3. t \in S /\ a <= t /\ t < c /\ t \in Nat /\ t < b
    BY <2>2
  <2>4. PICK u \in S : t < u /\ u <= t + Gap /\ u <= b
    BY <2>3 DEF Linked
  <2>5. ~(a <= u /\ u < c)
    <3>1. u \in T => u <= t
      BY <2>2
    <3> QED
      BY <2>3, <2>4, <3>1
  <2>6. u \in Nat /\ c <= u
    BY <2>3, <2>4, <2>5
  <2>7. c <= t + Gap
    BY <1>0, <2>3, <2>4, <2>6
  <2> QED
    BY <2>3, <2>7 DEF StartsRun
<1>2. ~(d < b)
  <2>1. SUFFICES ASSUME d < b PROVE FALSE
    OBVIOUS
  <2>2. d \in S /\ a <= d
    BY <1>1 DEF Linked
  <2> QED
    BY <2>1, <2>2 DEF Linked, EndsRun
<1>3. ~(b < d)
  <2>1. SUFFICES ASSUME b < d PROVE FALSE
    OBVIOUS
  <2>2. b \in S /\ c <= b
    BY DEF Linked
  <2> QED
    BY <2>1, <2>2 DEF Linked, EndsRun
<1> QED
  BY <1>1, <1>2, <1>3

-----------------------------------------------------------------------------
(* A timeline the sweep may be given: sorted, and counting every match.       *)
Faithful(rs, ms) ==
    /\ rs \in Seq(Row) /\ ms \in Seq(LogMatch)
    /\ \A p, q \in DOMAIN rs : p < q => ~InOrder(rs[q], rs[p])
    /\ Tally(rs, ms, 0)

LEMMA NothingMissed ==
    ASSUME NEW rs, NEW ms, Faithful(rs, ms)
    PROVE  \A n \in DOMAIN ms : \E i \in DOMAIN rs : Same(rs[i], ms[n])
<1>1. Missed(rs, ms) \in SUBSET DOMAIN ms /\ Cardinality(Missed(rs, ms)) = 0
  BY DEF Faithful, Tally, Missed
<1>2. IsFiniteSet(Missed(rs, ms))
  BY <1>1, PartsAreFinite DEF Faithful
<1>3. Missed(rs, ms) = {}
  BY <1>1, <1>2, FS_EmptySet
<1> QED
  BY <1>3 DEF Missed, Has

LEMMA RowType ==
    ASSUME NEW r \in Row
    PROVE  /\ r.kind \in Kinds /\ r.occurrences \in Nat \ {0}
           /\ r.at # Undated => r.at \in Times /\ r.at \in Nat
  BY DEF Row

LEMMA SeenType ==
    ASSUME NEW rs \in Seq(Row), NEW k, NEW n \in 0..Len(rs)
    PROVE  Seen(rs, k, n) \in SUBSET (Times \cap Nat)
<1>1. \A i \in 1..n : rs[i] \in Row
  OBVIOUS
<1>2. \A i \in 1..n : rs[i].at # Undated => rs[i].at \in Times \cap Nat
  BY <1>1 DEF Row
<1> QED
  BY <1>2 DEF Seen

LEMMA SeenNext ==
    ASSUME NEW rs \in Seq(Row), NEW k, NEW n \in 1..Len(rs)
    PROVE  Seen(rs, k, n) = IF rs[n].kind = k /\ rs[n].at # Undated
                            THEN Seen(rs, k, n - 1) \cup {rs[n].at} ELSE Seen(rs, k, n - 1)
<1>1. 1..n = (1..(n - 1)) \cup {n}
  OBVIOUS
<1> QED
  BY <1>1 DEF Seen

\* A dated row is later than those of its kind before it.
LEMMA SeenIsEarlier ==
    ASSUME NEW rs, NEW ms, Faithful(rs, ms), NEW n \in 1..Len(rs), rs[n].at # Undated,
           NEW t \in Seen(rs, rs[n].kind, n - 1)
    PROVE  t \in Nat /\ t < rs[n].at
<1>1. rs \in Seq(Row)
  BY DEF Faithful
<1>2. PICK i \in 1..(n - 1) : rs[i].kind = rs[n].kind /\ rs[i].at = t /\ t # Undated
  BY DEF Seen
<1>3. i \in DOMAIN rs /\ n \in DOMAIN rs /\ i < n /\ rs[i] \in Row /\ rs[n] \in Row
  BY <1>1, <1>2
<1>4. ~InOrder(rs[n], rs[i]) /\ ~Same(rs[i], rs[n])
  BY <1>3 DEF Faithful, Tally
<1>5. ~(rs[n].at < t) /\ t # rs[n].at
  BY <1>2, <1>4 DEF InOrder, Same
<1>6. t \in Nat /\ rs[n].at \in Nat
  BY <1>2, <1>3, DatedIsNat
<1> QED
  BY <1>5, <1>6

LEMMA MatchTimes ==
    ASSUME NEW ms \in Seq(LogMatch), NEW x \in DOMAIN ms, ms[x].at # Undated
    PROVE  ms[x].at \in Times /\ ms[x].at \in Nat
<1>1. ms[x] \in LogMatch
  OBVIOUS
<1>2. ms[x].at \in Times \cup {Undated}
  BY <1>1 DEF LogMatch
<1> QED
  BY <1>2

\* The matches up to the time of a row are those up to the last row of its kind
\* before it, and its own.
LEMMA BetweenNext ==
    ASSUME NEW rs, NEW ms, Faithful(rs, ms), NEW n \in 1..Len(rs), rs[n].at # Undated,
           NEW a \in Nat, NEW last \in Nat, a <= last, last < rs[n].at,
           \A t \in Seen(rs, rs[n].kind, n - 1) : t <= last
    PROVE  Cardinality(Between(ms, rs[n].kind, a, rs[n].at)) =
              Cardinality(Between(ms, rs[n].kind, a, last)) + rs[n].occurrences
<1> DEFINE k == rs[n].kind
           t == rs[n].at
<1>1. rs \in Seq(Row) /\ ms \in Seq(LogMatch) /\ n \in DOMAIN rs
  BY DEF Faithful
<1>2. rs[n] \in Row /\ t \in Nat
  BY <1>1, DatedIsNat
<1>3. ASSUME NEW x \in Between(ms, k, a, t), ~(ms[x].at <= last)
      PROVE  x \in Hits(ms, rs[n])
  <2>1. x \in DOMAIN ms /\ ms[x].kind = k /\ ms[x].at # Undated /\ ms[x].at <= t
    BY DEF Between
  <2>2. PICK i \in DOMAIN rs : Same(rs[i], ms[x])
    BY <2>1, NothingMissed
  <2>3. /\ rs[i] \in Row /\ rs[i].kind = k /\ rs[i].at # Undated /\ rs[i].at \in Nat
        /\ rs[i].at <= t /\ ~(rs[i].at <= last) /\ i \in Nat
    <3>1. rs[i] \in Row /\ i \in Nat
      BY <1>1
    <3>2. rs[i].at = ms[x].at /\ rs[i].kind = ms[x].kind
      BY <2>2 DEF Same
    <3>3. rs[i].at # Undated
      BY <2>1, <3>2
    <3>4. rs[i].at \in Nat
      BY <3>1, <3>3, DatedIsNat
    <3> QED
      BY <1>3, <2>1, <3>1, <3>2, <3>3, <3>4
  <2>4. ~(i < n)
    <3>1. SUFFICES ASSUME i < n PROVE FALSE
      OBVIOUS
    <3>2. i \in 1..(n - 1)
      BY <1>1, <2>2, <3>1
    <3>3. rs[i].at \in Seen(rs, k, n - 1)
      BY <2>3, <3>2 DEF Seen
    <3> QED
      BY <2>3, <3>3
  <2>5. ~(n < i)
    <3>1. SUFFICES ASSUME n < i PROVE FALSE
      OBVIOUS
    <3>2. ~InOrder(rs[i], rs[n]) /\ ~Same(rs[i], rs[n])
      BY <1>1, <2>2, <3>1 DEF Faithful, Tally
    <3>3. ~(rs[i].at < t) /\ rs[i].at # t
      BY <2>3, <3>2 DEF InOrder, Same
    <3> QED
      BY <1>2, <2>3, <3>3
  <2>6. i = n
    BY <2>3, <2>4, <2>5
  <2> QED
    BY <2>1, <2>2, <2>6 DEF Hits
<1>4. \A x \in Hits(ms, rs[n]) : /\ x \in DOMAIN ms /\ ms[x].kind = k /\ ms[x].at = t
  BY DEF Hits, Same
<1>5. \A x \in DOMAIN ms : ms[x].at # Undated => ms[x].at \in Nat
  BY <1>1, MatchTimes
<1>6. Between(ms, k, a, t) = Between(ms, k, a, last) \cup Hits(ms, rs[n])
  <2>1. Between(ms, k, a, t) \subseteq Between(ms, k, a, last) \cup Hits(ms, rs[n])
    BY <1>3 DEF Between
  <2>2. Between(ms, k, a, last) \subseteq Between(ms, k, a, t)
    BY <1>2, <1>5 DEF Between
  <2>3. a <= t
    BY <1>2
  <2>4. Hits(ms, rs[n]) \subseteq Between(ms, k, a, t)
    BY <1>2, <1>4, <2>3 DEF Between
  <2> QED
    BY <2>1, <2>2, <2>4
<1>7. Between(ms, k, a, last) \cap Hits(ms, rs[n]) = {}
  <2>1. ~(t <= last)
    BY <1>2
  <2> QED
    BY <1>4, <2>1 DEF Between
<1>8. /\ IsFiniteSet(Between(ms, k, a, last)) /\ IsFiniteSet(Hits(ms, rs[n]))
      /\ Cardinality(Between(ms, k, a, last)) \in Nat
      /\ Cardinality(Hits(ms, rs[n])) \in Nat
  <2>1. Between(ms, k, a, last) \in SUBSET DOMAIN ms /\ Hits(ms, rs[n]) \in SUBSET DOMAIN ms
    BY DEF Between, Hits
  <2> QED
    BY <1>1, <2>1, PartsAreFinite
<1>9. rs[n].occurrences = Cardinality(Hits(ms, rs[n]))
  BY <1>1 DEF Faithful, Tally
<1>10. Cardinality(Between(ms, k, a, t)) =
         Cardinality(Between(ms, k, a, last)) + Cardinality(Hits(ms, rs[n])) - Cardinality({})
  BY <1>6, <1>7, <1>8, FS_Union
<1>11. Cardinality({}) = 0
  BY FS_EmptySet
<1> QED
  BY <1>8, <1>9, <1>10, <1>11

LEMMA BetweenOne ==
    ASSUME NEW rs, NEW ms, Faithful(rs, ms), NEW n \in 1..Len(rs), rs[n].at # Undated
    PROVE  Cardinality(Between(ms, rs[n].kind, rs[n].at, rs[n].at)) = rs[n].occurrences
<1>1. rs \in Seq(Row) /\ ms \in Seq(LogMatch) /\ n \in DOMAIN rs
  BY DEF Faithful
<1>2. rs[n] \in Row /\ rs[n].at \in Nat
  BY <1>1, DatedIsNat
<1>3. \A x \in DOMAIN ms : ms[x].at # Undated => ms[x].at \in Nat
  BY <1>1, MatchTimes
<1>4. Between(ms, rs[n].kind, rs[n].at, rs[n].at) = Hits(ms, rs[n])
  BY <1>2, <1>3 DEF Between, Hits, Same
<1> QED
  BY <1>1, <1>4 DEF Faithful, Tally

\* A later time leaves the runs of the earlier ones as they were.
LEMMA RunStays ==
    ASSUME NEW S \in SUBSET Nat, NEW a \in Nat, NEW b \in Nat, NEW t \in Nat, a < t, b < t
    PROVE  /\ StartsRun(S, a) => StartsRun(S \cup {t}, a)
           /\ Linked(S, a, b) => Linked(S \cup {t}, a, b)
<1>1. ~(t < a) /\ ~(t < b)
  OBVIOUS
<1>2. StartsRun(S, a) => StartsRun(S \cup {t}, a)
  BY <1>1 DEF StartsRun
<1>3. ASSUME Linked(S, a, b) PROVE Linked(S \cup {t}, a, b)
  <2>1. a \in S \cup {t} /\ b \in S \cup {t} /\ a <= b
    BY <1>3 DEF Linked
  <2>2. ASSUME NEW v \in S \cup {t}, a <= v /\ v < b
        PROVE  \E u \in S \cup {t} : v < u /\ u <= v + Gap /\ u <= b
    <3>1. v \in S
      BY <1>1, <2>2
    <3>2. PICK u \in S : v < u /\ u <= v + Gap /\ u <= b
      BY <1>3, <2>2, <3>1 DEF Linked
    <3> QED
      BY <3>2
  <2> QED
    BY <2>1, <2>2 DEF Linked
<1> QED
  BY <1>2, <1>3

\* What a row of another kind, or a later one of its own, leaves as it was.
LEMMA ClosedRunStays ==
    ASSUME NEW S \in SUBSET Nat, NEW ms, NEW c, ClosedRun(S, ms, c),
           NEW t \in Nat, \A u \in S : u < t
    PROVE  ClosedRun(S \cup {t}, ms, c)
<1>1. c.first \in Nat /\ c.last \in Nat /\ c.first \in S /\ c.last \in S
  BY DEF ClosedRun, Bursts, IsRun, Linked
<1>2. c.first < t /\ c.last < t
  BY <1>1
<1>3. StartsRun(S \cup {t}, c.first)
  BY <1>1, <1>2, RunStays DEF ClosedRun, IsRun
<1>4. Linked(S \cup {t}, c.first, c.last)
  BY <1>1, <1>2, RunStays DEF ClosedRun, IsRun
<1>5. EndsRun(S \cup {t}, c.last)
  <2>1. PICK u \in S : c.last < u
    BY DEF ClosedRun
  <2>2. ~(u <= c.last + Gap) /\ u < t /\ u \in Nat /\ Gap \in Nat
    BY <2>1 DEF ClosedRun, EndsRun
  <2>3. ~(t <= c.last + Gap)
    BY <1>1, <2>2
  <2> QED
    BY <2>3 DEF ClosedRun, EndsRun
<1> QED
  BY <1>3, <1>4, <1>5 DEF ClosedRun, IsRun

LEMMA BegunType ==
    ASSUME NEW r \in Row, r.at # Undated
    PROVE  /\ Begun(r) \in Bursts /\ Begun(r) # NoBurst
           /\ Begun(r).kind = r.kind /\ Begun(r).first = r.at /\ Begun(r).last = r.at
           /\ Begun(r).count = r.occurrences
<1>1. r.at \in Nat /\ r.kind \in Kinds /\ r.occurrences \in Nat
  BY DatedIsNat DEF Row
<1>2. Begun(r) \in Bursts
  BY <1>1 DEF Begun, Bursts, Weight
<1> QED
  BY <1>2, NoBurstIsNone DEF Begun, Weight

LEMMA BegunIsOpen ==
    ASSUME NEW rs, NEW ms, Faithful(rs, ms), NEW n \in 1..Len(rs), rs[n].at # Undated,
           NEW S \in SUBSET Nat, \A u \in S : u + Gap < rs[n].at
    PROVE  OpenRun(S \cup {rs[n].at}, ms, rs[n].kind, Begun(rs[n]))
<1>1. rs[n] \in Row /\ rs[n].at \in Nat /\ Gap \in Nat
  BY DatedIsNat DEF Faithful
<1>2. \A u \in S : u \in Nat /\ u < rs[n].at
  BY <1>1
<1>3. StartsRun(S \cup {rs[n].at}, rs[n].at)
  BY <1>1, <1>2 DEF StartsRun
<1>4. Linked(S \cup {rs[n].at}, rs[n].at, rs[n].at)
  BY <1>1 DEF Linked
<1>5. \A u \in S \cup {rs[n].at} : u <= rs[n].at
  BY <1>1, <1>2
<1> QED
  BY <1>1, <1>3, <1>4, <1>5, BegunType, BetweenOne DEF OpenRun, IsRun

\* A row within Gap of an open burst makes it longer.
Near(c, r) == r.at <= c.last + Gap

LEMMA LongerType ==
    ASSUME NEW c \in Bursts, NEW r, r.kind \in Kinds, r.at \in Nat, r.occurrences \in Nat
    PROVE  LET d == Longer(c, r)
           IN  /\ d \in Bursts /\ d.first = c.first /\ d.last = r.at /\ d.kind = r.kind
               /\ d.count = c.count + r.occurrences
<1>1. c.first \in Nat /\ c.count + r.occurrences \in Nat
  BY DEF Bursts
<1> QED
  BY <1>1 DEF Longer, Weight, Bursts

LEMMA LongerIsOpen ==
    ASSUME NEW rs, NEW ms, Faithful(rs, ms), NEW n \in 1..Len(rs), rs[n].at # Undated,
           NEW c, OpenRun(Seen(rs, rs[n].kind, n - 1), ms, rs[n].kind, c),
           Near(c, rs[n])
    PROVE  OpenRun(Seen(rs, rs[n].kind, n - 1) \cup {rs[n].at}, ms, rs[n].kind, Longer(c, rs[n]))
<1> DEFINE S == Seen(rs, rs[n].kind, n - 1)
           t == rs[n].at
           d == Longer(c, rs[n])
<1>1. /\ rs \in Seq(Row) /\ rs[n] \in Row /\ t \in Nat /\ rs[n].occurrences \in Nat
      /\ n - 1 \in 0..Len(rs)
  BY RowType DEF Faithful
<1>2. c \in Bursts /\ c.kind = rs[n].kind
  BY DEF OpenRun
<1>3. c.first \in Nat /\ c.last \in Nat /\ c.count \in Nat /\ c.kind \in Kinds
  BY <1>2 DEF Bursts
<1>4. d \in Bursts /\ d.first = c.first /\ d.last = t /\ d.kind = c.kind
      /\ d.count = c.count + rs[n].occurrences
  BY <1>1, <1>2, LongerType, RowType
<1>5. S \in SUBSET Nat /\ \A u \in S : u < t
  BY <1>1, SeenType, SeenIsEarlier
<1>6. StartsRun(S, c.first) /\ Linked(S, c.first, c.last) /\ \A u \in S : u <= c.last
  BY DEF OpenRun, IsRun
<1>7. c.first \in S /\ c.last \in S /\ c.first <= c.last
  BY <1>6 DEF Linked
<1>8. c.first < t /\ c.last < t
  BY <1>5, <1>7
<1> HIDE DEF S, d, t
<1>9. StartsRun(S \cup {t}, c.first)
  BY <1>1, <1>3, <1>6, <1>8 DEF StartsRun
<1>10. Linked(S \cup {t}, c.first, t)
  <2>0. t <= c.last + Gap
    BY DEF Near, t
  <2>1. ASSUME NEW u \in S \cup {t}, c.first <= u, u < t
        PROVE  \E v \in S \cup {t} : u < v /\ v <= u + Gap /\ v <= t
    <3>1. u \in S /\ u \in Nat /\ u <= c.last
      <4>1. u # t
        BY <1>1, <2>1
      <4> QED
        BY <1>5, <1>6, <4>1
    <3>2. CASE u = c.last
      BY <1>1, <2>0, <2>1, <3>1, <3>2
    <3>3. CASE u # c.last
      <4>1. u < c.last
        BY <1>3, <3>1, <3>3
      <4>2. PICK v \in S : u < v /\ v <= u + Gap /\ v <= c.last
        BY <1>6, <2>1, <3>1, <4>1 DEF Linked
      <4>3. v <= t
        BY <1>1, <1>5, <4>2
      <4> QED
        BY <4>2, <4>3
    <3> QED
      BY <3>2, <3>3
  <2> QED
    BY <1>1, <1>3, <1>7, <1>8, <2>1 DEF Linked
<1>11. \A u \in S \cup {t} : u <= t
  BY <1>1, <1>5
<1>12. d.count = Cardinality(Between(ms, rs[n].kind, c.first, t))
  <2>1. Cardinality(Between(ms, rs[n].kind, c.first, t)) =
          Cardinality(Between(ms, rs[n].kind, c.first, c.last)) + rs[n].occurrences
    BY <1>3, <1>6, <1>7, <1>8, BetweenNext DEF S, t
  <2>2. c.count = Cardinality(Between(ms, c.kind, c.first, c.last))
    BY DEF OpenRun, IsRun
  <2> QED
    BY <1>2, <1>4, <2>1, <2>2
<1>13. OpenRun(S \cup {t}, ms, rs[n].kind, d)
  BY <1>2, <1>4, <1>9, <1>10, <1>11, <1>12 DEF OpenRun, IsRun
<1> QED
  BY <1>13 DEF S, t, d

\* An open burst ends when a later row is too far from it.
LEMMA OpenRunEnds ==
    ASSUME NEW S \in SUBSET Nat, NEW ms, NEW k, NEW c, OpenRun(S, ms, k, c),
           NEW t \in Nat, \A u \in S : u < t, ~(t <= c.last + Gap)
    PROVE  ClosedRun(S \cup {t}, ms, c)
<1>1. c.first \in Nat /\ c.last \in Nat /\ c.first \in S /\ c.last \in S
  BY DEF OpenRun, Bursts, IsRun, Linked
<1>2. c.first < t /\ c.last < t
  BY <1>1
<1>3. StartsRun(S \cup {t}, c.first)
  BY <1>1, <1>2, RunStays DEF OpenRun, IsRun
<1>4. Linked(S \cup {t}, c.first, c.last)
  BY <1>1, <1>2, RunStays DEF OpenRun, IsRun
<1>5. EndsRun(S \cup {t}, c.last)
  <2>1. \A u \in S : u \in Nat /\ u <= c.last
    BY DEF OpenRun
  <2>2. \A u \in S : ~(c.last < u)
    BY <1>1, <2>1
  <2> QED
    BY <2>2 DEF EndsRun
<1> QED
  BY <1>2, <1>3, <1>4, <1>5 DEF OpenRun, ClosedRun, IsRun
With(seen, k, burst, more) ==
    [open |-> [seen.open EXCEPT ![k] = burst], closed |-> seen.closed \cup more]

LEMMA WithType ==
    ASSUME NEW seen \in Sweeps, NEW k \in Kinds, NEW burst \in Bursts, NEW more \in SUBSET Bursts
    PROVE  LET new == With(seen, k, burst, more)
           IN  /\ new \in Sweeps /\ new.closed = seen.closed \cup more
               /\ new.open[k] = burst
               /\ \A j \in Kinds : j # k => new.open[j] = seen.open[j]
<1>1. seen.open \in [Kinds -> Bursts \cup {NoBurst}] /\ seen.closed \in SUBSET Bursts
  BY DEF Sweeps
<1>2. [seen.open EXCEPT ![k] = burst] \in [Kinds -> Bursts \cup {NoBurst}]
  BY <1>1
<1>3. seen.closed \cup more \in SUBSET Bursts
  BY <1>1
<1> QED
  BY <1>1, <1>2, <1>3 DEF With, Sweeps

LEMMA SweptCases ==
    ASSUME NEW seen \in Sweeps, NEW r \in Row
    PROVE  LET k == r.kind
               burst == seen.open[k]
           IN  /\ r.at = Undated => Swept(seen, r) = seen
               /\ r.at # Undated /\ burst = NoBurst => Swept(seen, r) = With(seen, k, Begun(r), {})
               /\ r.at # Undated /\ burst \in Bursts /\ r.at <= burst.last + Gap
                     => Swept(seen, r) = With(seen, k, Longer(burst, r), {})
               /\ r.at # Undated /\ burst \in Bursts /\ ~(r.at <= burst.last + Gap)
                     => Swept(seen, r) = With(seen, k, Begun(r), {burst})
<1> DEFINE k == r.kind
           burst == seen.open[k]
<1>1. /\ seen.open \in [Kinds -> Bursts \cup {NoBurst}] /\ seen.closed \in SUBSET Bursts
      /\ seen = [open |-> seen.open, closed |-> seen.closed]
  BY DEF Sweeps
<1>2. k \in Kinds /\ (r.at # Undated => r.at \in Nat) /\ Gap \in Nat
  BY RowType
<1>3. ASSUME r.at = Undated PROVE Swept(seen, r) = seen
  BY <1>3 DEF Swept
<1>4. ASSUME r.at # Undated, burst = NoBurst PROVE Swept(seen, r) = With(seen, k, Begun(r), {})
  <2>1. Swept(seen, r) = [seen EXCEPT !.open[k] = Begun(r)]
    BY <1>4 DEF Swept
  <2> QED
    BY <1>1, <2>1 DEF With
<1>5. ASSUME r.at # Undated, burst \in Bursts, r.at <= burst.last + Gap
      PROVE  Swept(seen, r) = With(seen, k, Longer(burst, r), {})
  <2>1. burst # NoBurst
    BY <1>5, NoBurstIsNone
  <2>2. burst.last \in Nat
    BY <1>5 DEF Bursts
  <2>3. r.at - burst.last <= Gap
    BY <1>2, <1>5, <2>2
  <2>4. Swept(seen, r) = [seen EXCEPT !.open[k] = Longer(burst, r)]
    BY <1>5, <2>1, <2>3 DEF Swept
  <2> QED
    BY <1>1, <2>4 DEF With
<1>6. ASSUME r.at # Undated, burst \in Bursts, ~(r.at <= burst.last + Gap)
      PROVE  Swept(seen, r) = With(seen, k, Begun(r), {burst})
  <2>1. burst # NoBurst /\ burst.last \in Nat
    BY <1>6, NoBurstIsNone DEF Bursts
  <2>2. ~(r.at - burst.last <= Gap)
    BY <1>2, <1>6, <2>1
  <2> QED
    BY <1>6, <2>1, <2>2 DEF Swept, With
<1> QED
  BY <1>3, <1>4, <1>5, <1>6

LEMMA SweepWith ==
    ASSUME NEW rs, NEW ms, Faithful(rs, ms), NEW n \in 1..Len(rs), rs[n].at # Undated,
           NEW seen, SweepInv(rs, ms, n - 1, seen),
           NEW burst, OpenRun(Seen(rs, rs[n].kind, n), ms, rs[n].kind, burst),
           burst.last = rs[n].at,
           NEW more \in SUBSET Bursts,
           \A c \in more : c.kind = rs[n].kind /\ ClosedRun(Seen(rs, rs[n].kind, n), ms, c),
           \/ seen.open[rs[n].kind] = NoBurst
           \/ seen.open[rs[n].kind] \in more
           \/ /\ seen.open[rs[n].kind].first = burst.first
              /\ seen.open[rs[n].kind].last <= burst.last
    PROVE  SweepInv(rs, ms, n, With(seen, rs[n].kind, burst, more))
<1> DEFINE k == rs[n].kind
           t == rs[n].at
           new == With(seen, k, burst, more)
<1>1. rs \in Seq(Row) /\ rs[n] \in Row /\ k \in Kinds /\ t \in Nat /\ n - 1 \in 0..Len(rs)
  BY RowType DEF Faithful
<1>2. seen \in Sweeps /\ burst \in Bursts /\ burst.kind = k
  BY DEF SweepInv, OpenRun
<1>3. /\ new \in Sweeps /\ new.closed = seen.closed \cup more
      /\ new.open[k] = burst
      /\ \A j \in Kinds : j # k => new.open[j] = seen.open[j]
  BY <1>1, <1>2, WithType
<1> HIDE DEF new
<1>4. /\ Seen(rs, k, n) = Seen(rs, k, n - 1) \cup {t}
      /\ \A j : j # k => Seen(rs, j, n) = Seen(rs, j, n - 1)
  BY <1>1, SeenNext
<1>5. /\ \A j : Seen(rs, j, n - 1) \in SUBSET Nat
      /\ \A u \in Seen(rs, k, n - 1) : u < t
  BY <1>1, SeenType, SeenIsEarlier
<1> HIDE DEF k, t
<1>6. \A j \in Kinds : \/ new.open[j] = NoBurst /\ Seen(rs, j, n) = {}
                       \/ OpenRun(Seen(rs, j, n), ms, j, new.open[j])
  BY <1>3, <1>4 DEF SweepInv, k
<1>7. ASSUME NEW c \in new.closed PROVE ClosedRun(Seen(rs, c.kind, n), ms, c)
  <2>1. CASE c \in more
    BY <2>1 DEF k
  <2>2. CASE c \in seen.closed
    <3>1. ClosedRun(Seen(rs, c.kind, n - 1), ms, c)
      BY <2>2 DEF SweepInv
    <3>2. CASE c.kind # k
      BY <1>4, <3>1, <3>2
    <3>3. CASE c.kind = k
      <4>1. ClosedRun(Seen(rs, k, n - 1), ms, c)
        BY <3>1, <3>3
      <4>2. PICK before : before = Seen(rs, k, n - 1)
        OBVIOUS
      <4>3. before \in SUBSET Nat /\ \A u \in before : u < t
        BY <1>5, <4>2
      <4>4. ClosedRun(before \cup {t}, ms, c)
        BY <1>1, <4>1, <4>2, <4>3, ClosedRunStays
      <4> QED
        BY <1>4, <3>3, <4>2, <4>4
    <3> QED
      BY <3>2, <3>3
  <2> QED
    BY <1>3, <2>1, <2>2
<1>8. ASSUME NEW j \in Kinds, NEW u \in Seen(rs, j, n) PROVE Covers(new, j, u)
  <2>0. /\ burst \in Found(new) /\ burst.first \in Nat /\ burst.last = t /\ burst.first <= burst.last
    <3>1. burst # NoBurst /\ burst.first \in Nat
      BY <1>2, NoBurstIsNone DEF Bursts
    <3>2. burst.first <= burst.last
      BY DEF OpenRun, IsRun, Linked
    <3> QED
      BY <1>1, <1>3, <3>1, <3>2 DEF Found, t
  <2>1. CASE j = k /\ u = t
    BY <1>1, <1>2, <2>0, <2>1 DEF Covers
  <2>2. CASE u \in Seen(rs, j, n - 1)
    <3>1. PICK c \in Found(seen) : c.kind = j /\ c.first <= u /\ u <= c.last
      BY <2>2 DEF SweepInv, Covers
    <3>2. CASE c \in seen.closed
      BY <1>3, <3>1, <3>2 DEF Covers, Found
    <3>3. CASE c \notin seen.closed
      <4>1. PICK i \in Kinds : c = seen.open[i] /\ c # NoBurst
        BY <3>1, <3>3 DEF Found
      <4>2. c.kind = i /\ c \in Bursts
        BY <4>1 DEF SweepInv, OpenRun
      <4>3. CASE j # k
        BY <1>3, <3>1, <4>1, <4>2, <4>3 DEF Covers, Found
      <4>4. CASE j = k /\ c \in more
        BY <1>3, <3>1, <4>4 DEF Covers, Found
      <4>5. CASE j = k /\ c \notin more
        <5>1. c.first = burst.first /\ c.last <= burst.last
          BY <3>1, <4>1, <4>2, <4>5 DEF k
        <5>2. u <= burst.last
          <6>1. u \in Nat /\ c.last \in Nat /\ burst.last \in Nat
            BY <1>1, <1>5, <2>0, <2>2, <4>2 DEF Bursts
          <6> QED
            BY <3>1, <5>1, <6>1
        <5> QED
          BY <1>2, <2>0, <3>1, <4>5, <5>1, <5>2 DEF Covers
      <4> QED
        BY <4>3, <4>4, <4>5
    <3> QED
      BY <3>2, <3>3
  <2> QED
    BY <1>4, <2>1, <2>2
<1>9. SweepInv(rs, ms, n, new)
  BY <1>3, <1>6, <1>7, <1>8 DEF SweepInv
<1> QED
  BY <1>9 DEF new, k

LEMMA SweepInvNext ==
    ASSUME NEW rs, NEW ms, Faithful(rs, ms), NEW n \in 1..Len(rs),
           NEW seen, SweepInv(rs, ms, n - 1, seen)
    PROVE  SweepInv(rs, ms, n, Swept(seen, rs[n]))
<1> DEFINE k == rs[n].kind
           t == rs[n].at
           burst == seen.open[k]
<1>1. rs \in Seq(Row) /\ rs[n] \in Row /\ k \in Kinds /\ n - 1 \in 0..Len(rs) /\ Gap \in Nat
  BY RowType DEF Faithful
<1>2. seen \in Sweeps
  BY DEF SweepInv
<1>3. CASE t = Undated
  <2>1. \A j : Seen(rs, j, n) = Seen(rs, j, n - 1)
    BY <1>1, <1>3, SeenNext
  <2>2. Swept(seen, rs[n]) = seen
    BY <1>1, <1>2, <1>3, SweptCases
  <2> QED
    BY <2>1, <2>2 DEF SweepInv
<1>4. CASE t # Undated /\ burst = NoBurst
  <2>1. Seen(rs, k, n) = Seen(rs, k, n - 1) \cup {t}
    BY <1>1, <1>4, SeenNext
  <2>2. Seen(rs, k, n - 1) = {}
    BY <1>1, <1>4, NoBurstIsNone DEF SweepInv, OpenRun
  <2>3. OpenRun({} \cup {t}, ms, k, Begun(rs[n]))
    BY <1>4, BegunIsOpen
  <2>4. Begun(rs[n]).last = t
    BY <1>1, <1>4, BegunType
  <2>5. SweepInv(rs, ms, n, With(seen, k, Begun(rs[n]), {}))
    BY <1>4, <2>1, <2>2, <2>3, <2>4, SweepWith
  <2> QED
    BY <1>1, <1>2, <1>4, <2>5, SweptCases
<1>5. CASE t # Undated /\ burst # NoBurst
  <2>1. OpenRun(Seen(rs, k, n - 1), ms, k, burst)
    BY <1>1, <1>5 DEF SweepInv
  <2>2. Seen(rs, k, n) = Seen(rs, k, n - 1) \cup {t}
    BY <1>1, <1>5, SeenNext
  <2>3. burst \in Bursts /\ burst.kind = k /\ burst.last \in Nat /\ burst.first \in Nat
    BY <2>1 DEF OpenRun, Bursts
  <2>4. Seen(rs, k, n - 1) \in SUBSET Nat /\ \A u \in Seen(rs, k, n - 1) : u < t /\ u <= burst.last
    BY <1>1, <1>5, <2>1, SeenType, SeenIsEarlier DEF OpenRun
  <2>5. burst.last \in Seen(rs, k, n - 1) /\ t \in Nat
    BY <1>1, <1>5, <2>1, RowType DEF OpenRun, IsRun, Linked
  <2> DEFINE S == Seen(rs, k, n - 1)
             longer == Longer(burst, rs[n])
             begun == Begun(rs[n])
  <2>6. CASE t <= burst.last + Gap
    <3>1. OpenRun(S \cup {t}, ms, k, longer)
      <4>1. Near(burst, rs[n])
        BY <2>6 DEF Near
      <4> QED
        BY <1>5, <2>1, <4>1, LongerIsOpen
    <3>0. longer.first = burst.first /\ longer.last = t
      BY DEF Longer
    <3>2. OpenRun(Seen(rs, k, n), ms, k, longer)
      <4> HIDE DEF longer, k, t
      <4> QED
        BY <2>2, <3>1
    <3>3. burst.first = longer.first /\ burst.last <= longer.last
      <4> HIDE DEF longer, burst, k, t
      <4>1. burst.last < t
        BY <2>4, <2>5
      <4> QED
        BY <2>3, <2>5, <3>0, <4>1
    <3>4. SweepInv(rs, ms, n, With(seen, k, longer, {}))
      BY <1>5, <3>0, <3>2, <3>3, SweepWith
    <3> QED
      BY <1>1, <1>2, <1>5, <2>3, <2>6, <3>4, SweptCases
  <2>7. CASE ~(t <= burst.last + Gap)
    <3>1. \A u \in S : u + Gap < t
      <4> HIDE DEF burst, k, t
      <4> QED
        BY <1>1, <2>3, <2>4, <2>5, <2>7
    <3>2. OpenRun(S \cup {t}, ms, k, begun) /\ begun.last = t
      BY <1>1, <1>5, <2>4, <3>1, BegunIsOpen, BegunType
    <3>3. ClosedRun(S \cup {t}, ms, burst)
      BY <2>1, <2>4, <2>5, <2>7, OpenRunEnds
    <3>4. OpenRun(Seen(rs, k, n), ms, k, begun) /\ ClosedRun(Seen(rs, k, n), ms, burst)
      <4> HIDE DEF begun, burst, k, t
      <4> QED
        BY <2>2, <3>2, <3>3
    <3>5. {burst} \in SUBSET Bursts /\ \A c \in {burst} : c.kind = k /\ ClosedRun(Seen(rs, k, n), ms, c)
      <4> HIDE DEF burst, k, t
      <4> QED
        BY <2>3, <3>4
    <3>6. SweepInv(rs, ms, n, With(seen, k, begun, {burst}))
      BY <1>5, <3>2, <3>4, <3>5, SweepWith
    <3> QED
      BY <1>1, <1>2, <1>5, <2>3, <2>7, <3>6, SweptCases
  <2> QED
    BY <2>6, <2>7
<1> QED
  BY <1>3, <1>4, <1>5

Start == [open |-> [k \in Kinds |-> NoBurst], closed |-> {}]

LEMMA SweepInvStart ==
    ASSUME NEW rs, NEW ms
    PROVE  Start \in Sweeps /\ SweepInv(rs, ms, 0, Start)
<1>1. Start \in Sweeps
  BY DEF Start, Sweeps
<1>2. \A k : Seen(rs, k, 0) = {}
  BY DEF Seen
<1> QED
  BY <1>1, <1>2 DEF SweepInv, Start

LEMMA SweptType ==
    ASSUME NEW seen \in Sweeps, NEW r \in Row
    PROVE  Swept(seen, r) \in Sweeps
<1> DEFINE burst == seen.open[r.kind]
<1>1. /\ r.kind \in Kinds /\ burst \in Bursts \cup {NoBurst} /\ {} \in SUBSET Bursts
  BY RowType DEF Sweeps
<1>2. CASE r.at = Undated
  BY <1>2, SweptCases
<1>3. CASE r.at # Undated
  <2>1. Begun(r) \in Bursts
    BY <1>3, BegunType
  <2>2. burst \in Bursts => {burst} \in SUBSET Bursts /\ Longer(burst, r) \in Bursts
    BY <1>3, RowType, LongerType
  <2> HIDE DEF burst
  <2>3. \/ Swept(seen, r) = With(seen, r.kind, Begun(r), {})
        \/ burst \in Bursts /\ Swept(seen, r) = With(seen, r.kind, Longer(burst, r), {})
        \/ burst \in Bursts /\ Swept(seen, r) = With(seen, r.kind, Begun(r), {burst})
    BY <1>1, <1>3, SweptCases DEF burst
  <2> QED
    BY <1>1, <2>1, <2>2, <2>3, WithType
<1> QED
  BY <1>2, <1>3

\* What Sweep computes, step by step.
LEMMA SweepSteps ==
    ASSUME NEW rs \in Seq(Row)
    PROVE  \E g : /\ g[0] = Start /\ Sweep(rs) = g[Len(rs)]
                  /\ \A n \in 1..Len(rs) : g[n] = Swept(g[n - 1], rs[n])
<1> DEFINE step == [n \in 1..Len(rs) |-> [seen \in Sweeps |-> Swept(seen, rs[n])]]
           Body(f) == [n \in 0..Len(rs) |-> IF n = 0 THEN Start ELSE Swept(f[n - 1], rs[n])]
<1>1. Len(rs) \in Nat /\ Start \in Sweeps /\ \A n \in 1..Len(rs) : rs[n] \in Row
  BY SweepInvStart
<1>2. step \in [1..Len(rs) -> [Sweeps -> Sweeps]]
  BY <1>1, SweptType
<1>3. \A n \in 1..Len(rs) : \A seen \in Sweeps : step[n][seen] = Swept(seen, rs[n])
  OBVIOUS
<1> HIDE DEF step
<1>4. PICK f : Follows(f, Len(rs), Sweeps, Start, step)
  BY <1>1, <1>2, RecursionExists
<1>5. /\ f \in [0..Len(rs) -> Sweeps] /\ f[0] = Start
      /\ \A n \in 1..Len(rs) : f[n] = step[n][f[n - 1]]
  BY <1>4 DEF Follows
<1>6. f = Body(f)
  <2>1. \A n \in 1..Len(rs) : n - 1 \in 0..Len(rs)
    BY <1>1
  <2>2. \A n \in 1..Len(rs) : f[n - 1] \in Sweeps
    BY <1>5, <2>1
  <2>3. \A n \in 1..Len(rs) : f[n] = Swept(f[n - 1], rs[n])
    BY <1>3, <1>5, <2>2
  <2> QED
    BY <1>1, <1>5, <2>3
<1>7. PICK g : g = Body(g) /\ Sweep(rs) = g[Len(rs)]
  BY <1>6 DEF Sweep, Start
<1>8. g[0] = Start
  BY <1>1, <1>7
<1>9. ASSUME NEW n \in 1..Len(rs) PROVE g[n] = Swept(g[n - 1], rs[n])
  <2>1. n \in 0..Len(rs) /\ n # 0
    BY <1>1
  <2> QED
    BY <1>7, <2>1
<1> QED
  BY <1>7, <1>8, <1>9

LEMMA SweepIsRight ==
    ASSUME NEW rs, NEW ms, Faithful(rs, ms)
    PROVE  SweepInv(rs, ms, Len(rs), Sweep(rs))
<1>1. rs \in Seq(Row) /\ Len(rs) \in Nat
  BY DEF Faithful
<1>2. PICK g : /\ g[0] = Start /\ Sweep(rs) = g[Len(rs)]
               /\ \A n \in 1..Len(rs) : g[n] = Swept(g[n - 1], rs[n])
  BY <1>1, SweepSteps
<1> DEFINE T == {n \in 0..Len(rs) : SweepInv(rs, ms, n, g[n])}
<1>3. 0 \in T
  BY <1>1, <1>2, SweepInvStart
<1>4. ASSUME NEW n \in 1..Len(rs), n - 1 \in T PROVE n \in T
  <2>1. SweepInv(rs, ms, n - 1, g[n - 1])
    BY <1>4
  <2>2. n \in 0..Len(rs)
    BY <1>1
  <2> QED
    BY <1>2, <2>1, <2>2, SweepInvNext
<1> HIDE DEF T
<1>5. \A n \in 0..Len(rs) : n \in T
  BY <1>1, <1>3, <1>4, Induction
<1>6. Len(rs) \in T
  BY <1>1, <1>5
<1> QED
  BY <1>2, <1>6 DEF T
-----------------------------------------------------------------------------
(* The bursts of the rows are those of the matches.                           *)
SeenMatches(ms, k) == {ms[n].at : n \in {n \in DOMAIN ms : ms[n].kind = k}} \ {Undated}

\* IsBurst, in the terms of the sweep.
IsBurstOf(ms, c) ==
    LET S == SeenMatches(ms, c.kind)
    IN  /\ StartsRun(S, c.first) /\ EndsRun(S, c.last) /\ Linked(S, c.first, c.last)
        /\ c.count = Cardinality(Between(ms, c.kind, c.first, c.last))
        /\ c.count >= MinCluster

LEMMA BurstsAreRuns == \A c : IsBurst(c) <=> IsBurstOf(matches, c)
<1> SUFFICES ASSUME NEW c PROVE IsBurst(c) <=> IsBurstOf(matches, c)
  OBVIOUS
<1> DEFINE S == SeenMatches(matches, c.kind)
<1>1. IsBurst(c) <=>
        /\ {c.first, c.last} \subseteq S /\ c.first <= c.last
        /\ \A t \in S : ~(t < c.first /\ c.first <= t + Gap) /\ ~(c.last < t /\ t <= c.last + Gap)
        /\ \A t \in S : c.first <= t /\ t < c.last =>
              \E u \in S : t < u /\ u <= t + Gap /\ u <= c.last
        /\ c.count = Cardinality(Between(matches, c.kind, c.first, c.last))
        /\ c.count >= MinCluster
  BY DEF IsBurst, SeenMatches, Between
<1> HIDE DEF S
<1>2. /\ \A t \in S : ~(t < c.first /\ c.first <= t + Gap) /\ ~(c.last < t /\ t <= c.last + Gap)
      <=> StartsRun(S, c.first) /\ EndsRun(S, c.last)
  BY DEF StartsRun, EndsRun
<1>3. /\ {c.first, c.last} \subseteq S /\ c.first <= c.last
      /\ \A t \in S : c.first <= t /\ t < c.last =>
            \E u \in S : t < u /\ u <= t + Gap /\ u <= c.last
      <=> Linked(S, c.first, c.last)
  BY DEF Linked
<1>4. IsBurst(c) <=>
        /\ StartsRun(S, c.first) /\ EndsRun(S, c.last) /\ Linked(S, c.first, c.last)
        /\ c.count = Cardinality(Between(matches, c.kind, c.first, c.last))
        /\ c.count >= MinCluster
  BY <1>1, <1>2, <1>3
<1> QED
  BY <1>4 DEF IsBurstOf, S

LEMMA AllSeen ==
    ASSUME NEW rs, NEW ms, Faithful(rs, ms), NEW k
    PROVE  Seen(rs, k, Len(rs)) = SeenMatches(ms, k)
<1>1. rs \in Seq(Row) /\ ms \in Seq(LogMatch) /\ DOMAIN rs = 1..Len(rs) /\ Len(rs) \in Nat
  BY DEF Faithful
<1>2. ASSUME NEW t \in Seen(rs, k, Len(rs)) PROVE t \in SeenMatches(ms, k)
  <2>1. PICK i \in DOMAIN rs : rs[i].kind = k /\ rs[i].at = t /\ t # Undated
    BY <1>1 DEF Seen
  <2>2. rs[i].occurrences = Cardinality(Hits(ms, rs[i])) /\ rs[i].occurrences # 0
    <3>1. rs[i] \in Row
      BY <1>1
    <3> QED
      BY <3>1, RowType DEF Faithful, Tally
  <2>3. Hits(ms, rs[i]) # {}
    BY <2>2, FS_EmptySet
  <2>4. PICK n \in DOMAIN ms : Same(rs[i], ms[n])
    BY <2>3 DEF Hits
  <2> QED
    BY <2>1, <2>4 DEF Same, SeenMatches
<1>3. ASSUME NEW t \in SeenMatches(ms, k) PROVE t \in Seen(rs, k, Len(rs))
  <2>1. PICK n \in DOMAIN ms : ms[n].kind = k /\ ms[n].at = t /\ t # Undated
    BY DEF SeenMatches
  <2>2. PICK i \in DOMAIN rs : Same(rs[i], ms[n])
    BY NothingMissed
  <2> QED
    BY <1>1, <2>1, <2>2 DEF Same, Seen
<1> QED
  BY <1>2, <1>3

BurstSet(ms) == [kind : Kinds, first : Times, last : Times, count : 1..Len(ms)]

LEMMA FoundIsBurst ==
    ASSUME NEW rs, NEW ms, Faithful(rs, ms), NEW c \in Found(Sweep(rs)), c.count >= MinCluster
    PROVE  c \in BurstSet(ms) /\ IsBurstOf(ms, c)
<1>1. rs \in Seq(Row) /\ ms \in Seq(LogMatch) /\ Len(rs) \in 0..Len(rs)
  BY DEF Faithful
<1>2. SweepInv(rs, ms, Len(rs), Sweep(rs))
  BY SweepIsRight
<1> DEFINE S == Seen(rs, c.kind, Len(rs))
<1>3. /\ c \in Bursts /\ IsRun(S, ms, c) /\ EndsRun(S, c.last)
  <2>1. CASE c \in Sweep(rs).closed
    BY <1>2, <2>1 DEF SweepInv, ClosedRun
  <2>2. CASE c \notin Sweep(rs).closed
    <3>1. PICK k \in Kinds : c = Sweep(rs).open[k] /\ c # NoBurst
      BY <2>2 DEF Found
    <3>2. OpenRun(Seen(rs, k, Len(rs)), ms, k, c)
      BY <1>2, <3>1 DEF SweepInv
    <3>3. c.kind = k /\ c \in Bursts /\ IsRun(S, ms, c) /\ \A t \in S : t <= c.last
      BY <3>2 DEF OpenRun
    <3>4. c.last \in Nat /\ S \in SUBSET Nat
      BY <1>1, <3>3, SeenType DEF Bursts
    <3>5. EndsRun(S, c.last)
      <4>1. \A t \in S : ~(c.last < t)
        BY <3>3, <3>4
      <4> QED
        BY <4>1 DEF EndsRun
    <3> QED
      BY <3>3, <3>5
  <2> QED
    BY <2>1, <2>2
<1>4. S = SeenMatches(ms, c.kind) /\ S \in SUBSET Times
  BY <1>1, AllSeen, SeenType
<1> HIDE DEF S
<1>5. IsBurstOf(ms, c)
  BY <1>3, <1>4 DEF IsBurstOf, IsRun
<1>6. c.count \in 1..Len(ms)
  <2> DEFINE B == Between(ms, c.kind, c.first, c.last)
  <2>1. B \in SUBSET DOMAIN ms /\ DOMAIN ms = 1..Len(ms) /\ Len(ms) \in Nat
    <3>1. DOMAIN ms = 1..Len(ms) /\ Len(ms) \in Nat
      BY <1>1
    <3> QED
      BY <3>1 DEF Between
  <2>2. PICK n \in DOMAIN ms : ms[n].kind = c.kind /\ ms[n].at = c.first /\ c.first # Undated
    BY <1>3, <1>4 DEF IsRun, Linked, SeenMatches
  <2>3. c.first \in Nat /\ c.last \in Nat /\ c.first <= c.last
    BY <1>3 DEF Bursts, IsRun, Linked
  <2>8. c.first <= c.first
    BY <2>3
  <2>4. n \in B
    BY <2>2, <2>3, <2>8 DEF Between
  <2> HIDE DEF B
  <2>5. IsFiniteSet(DOMAIN ms) /\ Cardinality(DOMAIN ms) = Len(ms)
    <3> DEFINE L == Len(ms)
    <3>1. 1 \in Int /\ L \in Int /\ L \in Nat
      BY <2>1
    <3> HIDE DEF L
    <3>2. IsFiniteSet(1..L) /\ Cardinality(1..L) = IF 1 > L THEN 0 ELSE L - 1 + 1
      BY <3>1, FS_Interval
    <3>3. Cardinality(1..L) = L
      BY <3>1, <3>2
    <3> QED
      BY <2>1, <3>2, <3>3 DEF L
  <2>6. IsFiniteSet(B) /\ Cardinality(B) \in Nat /\ Cardinality(B) <= Len(ms)
    BY <1>1, <2>1, <2>5, PartsAreFinite, FS_Subset
  <2>7. Cardinality(B) # 0
    BY <2>4, <2>6, FS_EmptySet
  <2> QED
    BY <1>3, <2>1, <2>6, <2>7 DEF IsRun, B
<1>7. c.first \in Times /\ c.last \in Times /\ c.kind \in Kinds
  BY <1>3, <1>4 DEF IsRun, Linked, Bursts
<1>8. c \in BurstSet(ms)
  BY <1>3, <1>6, <1>7 DEF Bursts, BurstSet
<1> QED
  BY <1>5, <1>8

LEMMA BurstIsFound ==
    ASSUME NEW rs, NEW ms, Faithful(rs, ms), NEW c \in BurstSet(ms), IsBurstOf(ms, c)
    PROVE  c \in Found(Sweep(rs))
<1> DEFINE S == SeenMatches(ms, c.kind)
<1>1. rs \in Seq(Row) /\ ms \in Seq(LogMatch) /\ Len(rs) \in 0..Len(rs)
  BY DEF Faithful
<1>2. c.kind \in Kinds /\ c.first \in Nat /\ c.last \in Nat
  BY DEF BurstSet
<1>3. S = Seen(rs, c.kind, Len(rs)) /\ S \in SUBSET Nat
  BY <1>1, AllSeen, SeenType
<1>4. StartsRun(S, c.first) /\ EndsRun(S, c.last) /\ Linked(S, c.first, c.last)
      /\ c.count = Cardinality(Between(ms, c.kind, c.first, c.last))
  BY DEF IsBurstOf
<1> HIDE DEF S
<1>5. PICK b \in Found(Sweep(rs)) : b.kind = c.kind /\ b.first <= c.first /\ c.first <= b.last
  <2>1. c.first \in Seen(rs, c.kind, Len(rs))
    BY <1>3, <1>4 DEF Linked
  <2>2. Covers(Sweep(rs), c.kind, c.first)
    BY <1>2, <2>1, SweepIsRight DEF SweepInv
  <2> QED
    BY <2>2 DEF Covers
<1>6. b \in Bursts /\ IsRun(S, ms, b) /\ EndsRun(S, b.last)
  <2>1. SweepInv(rs, ms, Len(rs), Sweep(rs))
    BY SweepIsRight
  <2>2. CASE b \in Sweep(rs).closed
    BY <1>3, <1>5, <2>1, <2>2 DEF SweepInv, ClosedRun
  <2>3. CASE b \notin Sweep(rs).closed
    <3>1. PICK k \in Kinds : b = Sweep(rs).open[k] /\ b # NoBurst
      BY <2>3 DEF Found
    <3>2. OpenRun(Seen(rs, k, Len(rs)), ms, k, b)
      BY <2>1, <3>1 DEF SweepInv
    <3>3. b.kind = k /\ b \in Bursts /\ IsRun(S, ms, b) /\ \A t \in S : t <= b.last
      BY <1>3, <1>5, <3>2 DEF OpenRun
    <3>4. b.last \in Nat
      BY <3>3 DEF Bursts
    <3>5. EndsRun(S, b.last)
      <4>1. \A t \in S : ~(b.last < t)
        BY <1>3, <3>3, <3>4
      <4> QED
        BY <4>1 DEF EndsRun
    <3> QED
      BY <3>3, <3>5
  <2> QED
    BY <2>2, <2>3
<1>7. b.first \in Nat /\ b.last \in Nat
  BY <1>6 DEF Bursts
<1>8. b.first = c.first /\ b.last = c.last
  BY <1>2, <1>3, <1>4, <1>5, <1>6, <1>7, OverlappingRuns DEF IsRun
<1>9. b.count = c.count
  BY <1>4, <1>5, <1>6, <1>8 DEF IsRun
<1>10. b = c
  <2>1. b = [kind |-> b.kind, first |-> b.first, last |-> b.last, count |-> b.count]
    BY <1>6 DEF Bursts
  <2>2. c = [kind |-> c.kind, first |-> c.first, last |-> c.last, count |-> c.count]
    BY DEF BurstSet
  <2> QED
    BY <1>5, <1>8, <1>9, <2>1, <2>2
<1> QED
  BY <1>5, <1>10

LEMMA ClustersAreBursts ==
    ASSUME rows \in Seq(Row), matches \in Seq(LogMatch), Chronological,
           Tally(rows, matches, dropped), dropped = 0
    PROVE  Clusters(rows) = {c \in BurstSet(matches) : IsBurst(c)}
<1>1. Faithful(rows, matches)
  BY DEF Faithful, Chronological
<1>2. Clusters(rows) = {c \in Found(Sweep(rows)) : c.count >= MinCluster}
  BY DEF Clusters, Found
<1>3. \A c \in Clusters(rows) : c \in BurstSet(matches) /\ IsBurst(c)
  BY <1>1, <1>2, FoundIsBurst, BurstsAreRuns
<1>4. \A c \in BurstSet(matches) : IsBurst(c) => c \in Clusters(rows)
  BY <1>1, <1>2, BurstIsFound, BurstsAreRuns DEF IsBurstOf
<1> QED
  BY <1>3, <1>4
-----------------------------------------------------------------------------
(* The chains.                                                               *)

LEMMA OrderedMayCause ==
    ASSUME rows \in Seq(Row), Chronological,
           NEW i \in DOMAIN rows, NEW j \in DOMAIN rows, OrderedWithinWindow(i, j)
    PROVE  i < j /\ MayCause(i, j)
<1>1. rows[i] \in Row /\ rows[j] \in Row
  OBVIOUS
<1>2. i < j /\ ~InOrder(rows[j], rows[i])
  BY DEF OrderedWithinWindow, Chronological
<1>3. rows[j].at # Undated => rows[i].at # Undated
  BY <1>2 DEF InOrder
<1> QED
  BY <1>2, <1>3 DEF OrderedWithinWindow, MayCause

LEMMA PositionsShow ==
    \A s : /\ \A i \in Firsts(s) : i \in DOMAIN rows /\ Shows(i, s)
           /\ \A i \in Lasts(s) : i \in DOMAIN rows /\ Shows(i, s)
  BY DEF Firsts, Earliest, Lasts, Showing

\* A chain that is one cause at i and one effect at j.
Backed(rule) ==
    \E i, j \in DOMAIN rows : \E s \in Causes(rule) : \E t \in Effects(rule) \ {s} :
       /\ Shows(i, s) /\ Shows(j, t) /\ MayCause(i, j)
       /\ i < j \/ (i = j /\ rule \in OneLine)

LEMMA BackedByCascade ==
    ASSUME rows \in Seq(Row), Chronological, NEW rule,
           NEW s \in Causes(rule), NEW t \in Effects(rule), s # t,
           NEW i \in DOMAIN rows, NEW j \in DOMAIN rows,
           Shows(i, s), Shows(j, t), OrderedWithinWindow(i, j)
    PROVE  Backed(rule)
  BY OrderedMayCause DEF Backed

LEMMA OverloadBacked ==
    ASSUME rows \in Seq(Row), Chronological, OverloadChain
    PROVE  Backed("overload")
<1>1. PICK i \in Firsts("overlarge"), j \in Firsts("watchdog") : OrderedWithinWindow(i, j)
  BY DEF OverloadChain, Cascade
<1> QED
  BY <1>1, PositionsShow, BackedByCascade DEF Causes, Effects

LEMMA GPOBacked ==
    ASSUME rows \in Seq(Row), Chronological, GPOChain
    PROVE  Backed("gpo")
<1>1. PICK i \in Firsts("gpo"), j \in Firsts("pam") : OrderedWithinWindow(i, j)
  BY DEF GPOChain, Cascade
<1> QED
  BY <1>1, PositionsShow, BackedByCascade DEF Causes, Effects

LEMMA IDMapBacked ==
    ASSUME rows \in Seq(Row), Chronological, IDMapChain
    PROVE  Backed("idmap")
<1>1. PICK i \in Else(Lasts("mapping"), Lasts("outOfRange")), j \in Lasts("noUser") :
         OrderedWithinWindow(i, j)
  BY DEF IDMapChain, Cascade
<1>2. i \in Lasts("mapping") \/ i \in Lasts("outOfRange")
  BY <1>1 DEF Else
<1> QED
  BY <1>1, <1>2, PositionsShow, BackedByCascade DEF Causes, Effects

LEMMA EnumWatchdogBacked ==
    ASSUME rows \in Seq(Row), Chronological, EnumWatchdogChain
    PROVE  Backed("enum-watchdog")
<1>1. PICK i \in DOMAIN rows, j \in DOMAIN rows :
         /\ Shows(i, "overlarge") \/ Shows(i, "hugeGroup")
         /\ Shows(j, "watchdog") \/ Shows(j, "terminated")
         /\ i = j \/ OrderedWithinWindow(i, j)
  BY DEF EnumWatchdogChain, Cascade, Earliest, Showing
<1>2. /\ {"overlarge", "hugeGroup"} = Causes("enum-watchdog")
      /\ {"watchdog", "terminated"} = Effects("enum-watchdog")
  BY DEF Causes, Effects
<1>3. CASE i = j
  <2>1. rows[j] \in Row
    OBVIOUS
  <2>2. MayCause(j, j)
    BY <2>1, DatedIsNat DEF MayCause
  <2> QED
    BY <1>1, <1>2, <1>3, <2>2 DEF Backed, OneLine
<1>4. CASE OrderedWithinWindow(i, j)
  BY <1>1, <1>2, <1>4, BackedByCascade
<1> QED
  BY <1>1, <1>3, <1>4

\* A signal has one first row.
LEMMA OneFirst ==
    ASSUME rows \in Seq(Row), NEW s, NEW i \in Firsts(s), NEW j \in Firsts(s)
    PROVE  i = j
<1>1. i \in Nat /\ j \in Nat /\ i <= j /\ j <= i
  BY DEF Firsts, Earliest, Showing
<1> QED
  BY <1>1

LEMMA DNSBacked ==
    ASSUME rows \in Seq(Row), Chronological, DNSChain
    PROVE  Backed("dns")
<1> DEFINE Links == UNION {Firsts(s) : s \in {"srv", "resolve", "connect", "goingOffline"}}
           Downstream == Else(Firsts("connect"), Else(Firsts("goingOffline"), Firsts("resolve")))
<1>1. PICK first, last \in Links : /\ \A p \in Links : first <= p /\ p <= last
                                   /\ OrderedWithinWindow(first, last)
  BY DEF DNSChain
<1>2. PICK c \in Else(Firsts("srv"), Firsts("resolve")) : \A d \in Downstream : c <= d
  BY DEF DNSChain
<1>3. PICK u \in {"srv", "resolve", "connect", "goingOffline"} : first \in Firsts(u)
  BY <1>1
<1>4. PICK t \in {"srv", "resolve", "connect", "goingOffline"} : last \in Firsts(t)
  BY <1>1
<1>5. PICK s \in {"srv", "resolve"} : c \in Firsts(s) /\ (s = "resolve" => Firsts("srv") = {})
  BY <1>2 DEF Else
<1>6. /\ first \in DOMAIN rows /\ last \in DOMAIN rows /\ c \in DOMAIN rows
      /\ Shows(last, t) /\ Shows(c, s)
  BY <1>3, <1>4, <1>5, PositionsShow
<1>7. first <= c /\ c <= last /\ first < last /\ MayCause(first, last)
  BY <1>1, <1>5, <1>6, OrderedMayCause
<1>8. /\ first \in Nat /\ last \in Nat /\ c \in Nat
      /\ rows[first] \in Row /\ rows[last] \in Row /\ rows[c] \in Row
  BY <1>6
<1>9. CASE c < last
  <2>1. s # t
    BY <1>4, <1>5, <1>8, <1>9, OneFirst
  <2>2. MayCause(c, last)
    <3>1. SUFFICES ASSUME rows[last].at # Undated
                   PROVE  /\ rows[c].at # Undated /\ rows[c].at <= rows[last].at
                          /\ rows[last].at <= rows[c].at + Window
      BY DEF MayCause
    <3>2. /\ rows[first].at # Undated /\ rows[first].at <= rows[last].at
          /\ rows[last].at <= rows[first].at + Window
      BY <1>7, <3>1 DEF MayCause
    <3>3. ~InOrder(rows[last], rows[c])
      BY <1>6, <1>9 DEF Chronological
    <3>4. rows[c].at # Undated /\ ~(rows[last].at < rows[c].at)
      BY <3>1, <3>3 DEF InOrder
    <3>5. first = c \/ ~InOrder(rows[c], rows[first])
      BY <1>6, <1>7, <1>8 DEF Chronological
    <3>6. first = c \/ ~(rows[c].at < rows[first].at)
      BY <3>2, <3>4, <3>5 DEF InOrder
    <3>7. rows[first].at \in Nat /\ rows[last].at \in Nat /\ rows[c].at \in Nat
      BY <1>8, <3>1, <3>2, <3>4, DatedIsNat
    <3>8. rows[first].at <= rows[c].at
      BY <3>6, <3>7
    <3>9. Window \in Nat
      OBVIOUS
    <3>10. rows[c].at <= rows[last].at
      BY <3>4, <3>7
    <3>11. \A a, b, d \in Nat : a <= d + Window /\ d <= b => a <= b + Window
      BY <3>9
    <3>12. rows[last].at <= rows[c].at + Window
      BY <3>2, <3>7, <3>8, <3>11
    <3> QED
      BY <3>4, <3>10, <3>12
  <2> QED
    BY <1>4, <1>5, <1>6, <1>9, <2>1, <2>2 DEF Backed, Causes, Effects
<1>10. CASE c = last
  <2>1. u # s
    BY <1>3, <1>5, <1>7, <1>8, <1>10, OneFirst
  <2>2. PICK v \in {"resolve", "connect", "goingOffline"} :
           v # s /\ \E p \in Firsts(v) : p \in Downstream
    BY <1>3, <1>5, <2>1 DEF Else
  <2>3. PICK d \in Firsts(v) : d \in Downstream
    BY <2>2
  <2>4. d \in Links /\ d \in DOMAIN rows /\ Shows(d, v)
    BY <2>3, PositionsShow
  <2>5. c <= d /\ d <= c
    BY <1>1, <1>2, <1>10, <2>3, <2>4
  <2>6. d = c
    BY <1>8, <2>4, <2>5
  <2>7. MayCause(c, c)
    BY <1>8, DatedIsNat DEF MayCause
  <2> QED
    BY <1>5, <1>6, <2>2, <2>4, <2>6, <2>7 DEF Backed, Causes, Effects, OneLine
<1> QED
  BY <1>7, <1>8, <1>9, <1>10

\* The signals of the three cascades, where each occurs in one row.
LEMMA LoneSignals ==
    ASSUME rows \in Seq(Row), NEW i \in DOMAIN rows, NEW s, Showing(s) = {i}
    PROVE  Firsts(s) = {i} /\ Lasts(s) = {i}
<1>1. i \in Nat
  OBVIOUS
<1> QED
  BY <1>1 DEF Firsts, Lasts, Earliest

LEMMA LoneFires ==
    ASSUME rows \in Seq(Row), NEW rule \in {"idmap", "gpo", "overload"},
           NEW i \in DOMAIN rows, NEW j \in DOMAIN rows, i < j, MayCause(i, j),
           {p \in DOMAIN rows : Signals[rows[p].kind] \cap Causes(rule) # {}} = {i},
           {p \in DOMAIN rows : Signals[rows[p].kind] \cap Effects(rule) # {}} = {j},
           NEW realmMismatch \in BOOLEAN
    PROVE  rule \in Rules /\ Fires(rule, realmMismatch)
<1>1. OrderedWithinWindow(i, j)
  BY DEF OrderedWithinWindow, MayCause
<1>2. CASE rule = "overload"
  <2>1. Showing("overlarge") = {i} /\ Showing("watchdog") = {j}
    BY <1>2 DEF Showing, Shows, Causes, Effects
  <2>2. OverloadChain
    BY <1>1, <2>1, LoneSignals DEF OverloadChain, Cascade
  <2> QED
    BY <1>2, <2>2 DEF Rules, Fires
<1>3. CASE rule = "gpo"
  <2>1. Showing("gpo") = {i} /\ Showing("pam") = {j}
    BY <1>3 DEF Showing, Shows, Causes, Effects
  <2>2. GPOChain
    BY <1>1, <2>1, LoneSignals DEF GPOChain, Cascade
  <2> QED
    BY <1>3, <2>2 DEF Rules, Fires
<1>4. CASE rule = "idmap"
  <2>1. /\ Showing("mapping") \cup Showing("outOfRange") = {i}
        /\ Showing("noUser") = {j}
    <3>1. Causes(rule) = {"mapping", "outOfRange"} /\ Effects(rule) = {"noUser"}
      BY <1>4 DEF Causes, Effects
    <3>2. \A p \in DOMAIN rows : ("mapping" \in Signals[rows[p].kind]
                                 \/ "outOfRange" \in Signals[rows[p].kind]) <=> p = i
      BY <3>1
    <3>3. \A p \in DOMAIN rows : "noUser" \in Signals[rows[p].kind] <=> p = j
      BY <3>1
    <3> QED
      BY <3>2, <3>3 DEF Showing, Shows
  <2>2. Lasts("noUser") = {j}
    BY <2>1, LoneSignals
  <2>3. Else(Lasts("mapping"), Lasts("outOfRange")) = {i}
    <3>1. CASE Showing("mapping") = {i}
      BY <3>1, LoneSignals DEF Else
    <3>2. CASE Showing("mapping") = {} /\ Showing("outOfRange") = {i}
      <4>1. Lasts("mapping") = {}
        BY <3>2 DEF Lasts
      <4> QED
        BY <3>2, <4>1, LoneSignals DEF Else
    <3> QED
      BY <2>1, <3>1, <3>2
  <2>4. IDMapChain
    BY <1>1, <2>2, <2>3 DEF IDMapChain, Cascade
  <2> QED
    BY <1>4, <2>4 DEF Rules, Fires
<1> QED
  BY <1>2, <1>3, <1>4

-----------------------------------------------------------------------------
(* The invariant. *)

\* While there is room for a row, no match has been dropped.
Counting ==
    /\ matches \in Seq(LogMatch)
    /\ Tally(rows, matches, dropped)
    /\ HasRoom => Missed(rows, matches) = {}

IInv ==
    /\ phase \in {"scanning", "sorted", "correlated"}
    /\ rows \in Seq(Row)
    /\ Counting
    /\ phase # "scanning" => Chronological
    /\ phase # "correlated" => findings = {}
    /\ CascadesAreOrdered
    /\ LoneCascadesAreFound
    /\ BurstsSurviveAggregation

LEMMA InitInvariant == Init => IInv
<1> SUFFICES ASSUME Init PROVE IInv
  OBVIOUS
<1>1. rows = <<>> /\ matches = <<>> /\ dropped = 0 /\ findings = {} /\ phase = "scanning"
  BY DEF Init
<1>2. Missed(rows, matches) = {}
  BY <1>1 DEF Missed
<1>3. Tally(rows, matches, dropped)
  BY <1>1, <1>2, FS_EmptySet DEF Tally
<1>4. Counting
  BY <1>1, <1>2, <1>3 DEF Counting
<1> QED
  BY <1>1, <1>4 DEF IInv, CascadesAreOrdered, LoneCascadesAreFound, BurstsSurviveAggregation

LEMMA ScanCounts ==
    ASSUME rows \in Seq(Row), Counting, NEW m \in LogMatch, ScanMatch(m)
    PROVE  Counting'
<1>1. matches \in Seq(LogMatch) /\ Tally(rows, matches, dropped)
  BY DEF Counting
<1>2. matches' = Append(matches, m) /\ matches' \in Seq(LogMatch)
  BY <1>1, Appended DEF ScanMatch
<1>3. /\ Tally(rows', matches', dropped')
      /\ HasRoom' => Missed(rows', matches') = {}
  <2>1. CASE Known(m)
    <3>1. rows' = Counted(m) /\ dropped' = dropped
      BY <2>1 DEF ScanMatch, Add
    <3>2. Len(rows') = Len(rows)
      BY <3>1, CountedType DEF Counted
    <3> QED
      BY <1>1, <1>2, <2>1, <3>1, <3>2, CountedTally DEF Counting, HasRoom
  <2>2. CASE ~Known(m) /\ HasRoom
    <3>1. rows' = Append(rows, NewRow(m)) /\ dropped' = dropped
      BY <2>2 DEF ScanMatch, Add
    <3> QED
      BY <1>1, <1>2, <2>2, <3>1, NewRowTally DEF Counting
  <2>3. CASE ~Known(m) /\ ~HasRoom
    <3>1. rows' = rows /\ dropped' = dropped + 1
      BY <2>3 DEF ScanMatch, Add
    <3> QED
      BY <1>1, <1>2, <2>3, <3>1, DroppedTally DEF HasRoom
  <2> QED
    BY <2>1, <2>2, <2>3
<1> QED
  BY <1>2, <1>3 DEF Counting

LEMMA SortCounts ==
    ASSUME rows \in Seq(Row), Counting, SortTimeline, rows' \in Seq(Row)
    PROVE  Counting'
<1>1. matches \in Seq(LogMatch) /\ Tally(rows, matches, dropped)
  BY DEF Counting
<1>2. PICK order \in Orders : rows' = [p \in DOMAIN rows |-> rows[order[p]]]
  BY DEF SortTimeline
<1>3. Tally(rows', matches, dropped) /\ Missed(rows', matches) = Missed(rows, matches)
  BY <1>1, <1>2, SortedTally
<1>4. matches' = matches /\ dropped' = dropped
  BY DEF SortTimeline
<1>5. Len(rows') = Len(rows)
  <2>1. DOMAIN rows' = DOMAIN rows
    BY <1>2
  <2> QED
    BY <2>1
<1> QED
  BY <1>1, <1>3, <1>4, <1>5 DEF Counting, HasRoom

LEMMA ScanStep ==
    ASSUME IInv, NEW m \in LogMatch, ScanMatch(m)
    PROVE  IInv'
<1>1. rows' \in Seq(Row)
  BY AddType DEF IInv, ScanMatch
<1>2. Counting'
  BY ScanCounts DEF IInv
<1> QED
  BY <1>1, <1>2 DEF IInv, ScanMatch, CascadesAreOrdered, LoneCascadesAreFound, BurstsSurviveAggregation

LEMMA SortStep ==
    ASSUME IInv, SortTimeline
    PROVE  IInv'
<1>1. rows' \in Seq(Row) /\ Chronological'
  BY SortedIsChronological DEF IInv, SortTimeline
<1>2. Counting'
  BY <1>1, SortCounts DEF IInv
<1> QED
  BY <1>1, <1>2 DEF IInv, SortTimeline, CascadesAreOrdered, LoneCascadesAreFound, BurstsSurviveAggregation

LEMMA CorrelateStep ==
    ASSUME IInv, Correlate
    PROVE  IInv'
<1>1. /\ rows \in Seq(Row) /\ Chronological /\ Counting
      /\ rows' = rows /\ phase' = "correlated" /\ dropped' = dropped /\ matches' = matches
  BY DEF IInv, Correlate
<1>2. PICK realmMismatch \in BOOLEAN :
         findings' = IF Len(rows) < MinTimelineEvents THEN {}
                     ELSE {rule \in Rules : Fires(rule, realmMismatch)}
  BY DEF Correlate
<1>3. ASSUME NEW rule \in findings' \cap Cascades PROVE Backed(rule)
  <2>1. Fires(rule, realmMismatch)
    BY <1>2, <1>3
  <2>2. CASE rule = "dns"
    BY <1>1, <2>1, <2>2, DNSBacked DEF Fires
  <2>3. CASE rule = "idmap"
    BY <1>1, <2>1, <2>3, IDMapBacked DEF Fires
  <2>4. CASE rule = "gpo"
    BY <1>1, <2>1, <2>4, GPOBacked DEF Fires
  <2>5. CASE rule = "overload"
    BY <1>1, <2>1, <2>5, OverloadBacked DEF Fires
  <2>6. CASE rule = "enum-watchdog"
    BY <1>1, <2>1, <2>6, EnumWatchdogBacked DEF Fires
  <2> QED
    BY <1>3, <2>2, <2>3, <2>4, <2>5, <2>6 DEF Cascades
<1>4. CascadesAreOrdered'
  BY <1>1, <1>3 DEF CascadesAreOrdered, Backed, Shows, MayCause
<1>5. Chronological'
  BY <1>1 DEF Chronological
<1>6. Counting'
  BY <1>1 DEF Counting, HasRoom
<1>7. BurstsSurviveAggregation'
  <2>1. ASSUME dropped = 0 PROVE clusters' = {c \in BurstSet(matches) : IsBurst(c)}
    <3>1. clusters' = Clusters(rows)
      BY DEF Correlate
    <3> QED
      BY <1>1, <2>1, <3>1, ClustersAreBursts DEF Counting
  <2>2. \A c : IsBurst(c)' <=> IsBurst(c)
    BY <1>1 DEF IsBurst
  <2>3. dropped = 0 => clusters' = {c \in BurstSet(matches') : IsBurst(c)'}
    BY <1>1, <2>1, <2>2
  <2> QED
    BY <1>1, <2>3 DEF BurstsSurviveAggregation, BurstSet
<1>8. LoneCascadesAreFound'
  <2>1. SUFFICES ASSUME ~(Len(rows) < MinTimelineEvents),
                        NEW rule \in {"idmap", "gpo", "overload"},
                        NEW i \in DOMAIN rows, NEW j \in DOMAIN rows, i < j, MayCause(i, j),
                        {p \in DOMAIN rows : Signals[rows[p].kind] \cap Causes(rule) # {}} = {i},
                        {p \in DOMAIN rows : Signals[rows[p].kind] \cap Effects(rule) # {}} = {j}
                 PROVE  rule \in findings'
    BY <1>1 DEF LoneCascadesAreFound, MayCause
  <2> QED
    BY <1>1, <1>2, <2>1, LoneFires
<1> QED
  BY <1>1, <1>4, <1>5, <1>6, <1>7, <1>8 DEF IInv

LEMMA NextInvariant == IInv /\ [Next]_vars => IInv'
<1> SUFFICES ASSUME IInv, [Next]_vars PROVE IInv'
  OBVIOUS
<1>1. CASE UNCHANGED vars
  <2>1. /\ phase # "scanning" => Chronological'
        /\ CascadesAreOrdered'
    BY <1>1 DEF IInv, vars, Chronological, CascadesAreOrdered, Shows, MayCause
  <2>4. LoneCascadesAreFound'
    BY <1>1 DEF IInv, vars, MayCause, LoneCascadesAreFound
  <2>2. Counting'
    BY <1>1 DEF IInv, vars, Counting, HasRoom
  <2>3. BurstsSurviveAggregation'
    <3>1. \A c : IsBurst(c)' <=> IsBurst(c)
      BY <1>1 DEF vars, IsBurst
    <3> QED
      BY <1>1, <3>1 DEF IInv, vars, BurstsSurviveAggregation
  <2> QED
    BY <1>1, <2>1, <2>2, <2>3, <2>4 DEF IInv, vars
<1> QED
  BY <1>1, ScanStep, SortStep, CorrelateStep DEF Next

LEMMA Invariance == Spec => []IInv
  BY InitInvariant, NextInvariant, PTL DEF Spec

\* However the lines come and however many there are, a row counts the matches of its event,
\* no two rows share one, and each match without a row is counted as dropped: the counter is
\* the number of distinct events dropped only if none of them repeats.
THEOREM MatchesAreCounted == Spec => []EveryMatchIsCounted
<1>1. IInv => EveryMatchIsCounted
  BY TallyIsCount DEF IInv, Counting
<1> QED
  BY <1>1, Invariance, PTL

\* Where nothing was dropped, the bursts found in the rows are the maximal runs of
\* matches of a kind, with their times and counts, no more and no fewer.
THEOREM BurstsAreThoseOfTheMatches == Spec => []BurstsSurviveAggregation
<1>1. IInv => BurstsSurviveAggregation
  BY DEF IInv
<1> QED
  BY <1>1, Invariance, PTL

\* Whatever the log and however its lines are dated, a cascade that is reported
\* has a cause before its effect, within the window where both are dated.
THEOREM CascadesOrdered == Spec => []CascadesAreOrdered
<1>1. IInv => CascadesAreOrdered
  BY DEF IInv
<1> QED
  BY <1>1, Invariance, PTL

\* A cause and an effect that each occur once, in order and within the window, are
\* reported.
THEOREM LoneCascadesFound == Spec => []LoneCascadesAreFound
<1>1. IInv => LoneCascadesAreFound
  BY DEF IInv
<1> QED
  BY <1>1, Invariance, PTL
=============================================================================

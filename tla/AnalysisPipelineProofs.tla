------------------------ MODULE AnalysisPipelineProofs -----------------------
(***************************************************************************)
(* Proofs about the analyses of a process, for any folders, knowledge base *)
(* and number of analyses.  Each phase is summed up by the fields of the   *)
(* report it changes; what a report returned is like then follows from     *)
(* what the report under construction has come to when it is finalized.    *)
(* A second invariant says what it comes to: but for the articles, it is a *)
(* function of the folder and the phase, so what is true of that function  *)
(* is true of every report, and two reports of a folder agree.             *)
(***************************************************************************)
EXTENDS AnalysisPipeline, FiniteSetTheorems, FunctionTheorems, SequenceTheorems,
        WellFoundedInduction, TLAPS

Fields == {"host", "search", "realm", "adDomain", "mac", "ad", "conf", "problems", "warnings",
           "findings", "errors", "quotes", "bursts", "matched", "suggested", "summary", "graph"}

\* A finding whose words may be those of runCorrelation (no prover knows that a literal
\* is a STRING).
Words == STRING \cup {"join", "krb5_realm", "dns", "hostname"}
                \cup {x[1] : x \in CrossCheckSources} \cup {x[2] : x \in CrossCheckSources}
Entry == [level : Levels, category : Words, text : [say : Words, of : SUBSET Values],
          root : BOOLEAN, rule : Words, entities : SUBSET Entity, path : Words, line : Nat]

Contradiction == {x \in Entry : IsCrossCheck(x) /\ ~x.root}

\* Reports q and r differ in the fields changed only.
Alike(q, r, changed) == DOMAIN q = DOMAIN r /\ \A x \in DOMAIN r \ changed : q[x] = r[x]
Heard == {"problems", "warnings"}

SupportconfigPhases == {"system", "network", "environment", "scan", "kerberos", "config", "match"}
Early == SupportconfigPhases \cup {"harvest", "logscan"}
Late == {"advanced", "rules", "sequences", "summary", "finalize"}

HostTold == Phases \ {"system", "harvest"}
SearchTold == HostTold \ {"network"}
RealmTold == SearchTold \ {"environment", "scan", "kerberos"}
MacTold == {"scan", "kerberos", "config", "match"}
DomainTold == Late \cup {"match"}

\* The identity fields when phase p is next: what the folder says, once it was read.
Identified(p, f, r) ==
    /\ r.host = IF p \in HostTold THEN f.host ELSE None
    /\ r.search = IF p \in SearchTold THEN f.search ELSE None
    /\ r.realm = IF p \in RealmTold THEN f.realm ELSE None
    /\ r.adDomain = IF p \in DomainTold /\ ~f.raw /\ f.conf THEN Folded(f.adDomain) ELSE None
    /\ p \in MacTold => r.mac = f.mac
    /\ p \in {"harvest", "logscan"} => r.mac = "Unknown"

New(r) == \A s \in r.suggested : s.tid \notin r.matched

\* The report when phase p is next; alone: this is the process's first analysis.
SoFar(p, f, r, alone) ==
    /\ DOMAIN r = Fields /\ r.graph = EmptyGraph /\ r.findings \in Seq(Entry)
    /\ p \in SupportconfigPhases => ~f.raw
    /\ p \in {"harvest", "logscan"} => f.raw
    /\ Identified(p, f, r)
    /\ p \in Early => r.suggested = {}
    /\ New(r)
    /\ p \in Late /\ (alone \/ f.raw) => r.matched = RightMatches(f)

\* What is said of the i-th outcome o.
Sound(i, o) ==
    /\ WellFormed(o.report.graph)
    /\ New(o.report)
    /\ o.complete /\ o.anonymize => NamesShown(o.report) \cap HiddenSpellings(o.folder) = {}
    /\ o.complete /\ (i = 1 \/ o.folder.raw) => o.report.matched = RightMatches(o.folder)

Matchers == /\ DOMAIN matchers = SUBSET Patterns
            /\ past = <<>> /\ phase \in Early \cup {"idle"} => matchers = NoMatchers

IInv ==
    /\ phase \in Phases \cup {"idle"} /\ folder \in Folders
    /\ phase \in Phases => SoFar(phase, folder, report, past = <<>>)
    /\ Matchers
    /\ \E S : past \in Seq(S)
    /\ \A i \in DOMAIN past : Sound(i, past[i])

USE AnalysisPipelineAssumption, CorrelationGraphAssumption, KnowledgeBaseAssumption

-----------------------------------------------------------------------------
(* Induction, from the least element of a set of natural numbers.             *)
LEMMA Least ==
    ASSUME NEW T, T \subseteq Nat, T # {}
    PROVE  \E m \in T : \A n \in T : m <= n
<1> DEFINE R == {ss \in Nat \X Nat : ss[1] < ss[2]}
<1>1. IsWellFoundedOn(R, Nat)
  BY NatLessThanWellFounded DEF OpToRel
<1>2. \A x, y \in Nat : <<x, y>> \in R <=> x < y
  OBVIOUS
<1> HIDE DEF R
<1>3. PICK m \in T : \A n \in T : ~(<<n, m>> \in R)
  BY <1>1, WFMin
<1>4. \A n \in T : ~(n < m)
  BY <1>2, <1>3
<1>5. \A a, b \in Nat : ~(b < a) => a <= b
  OBVIOUS
<1> QED
  BY <1>4, <1>5

LEMMA Induction ==
    ASSUME NEW N \in Nat, NEW T, 0 \in T, \A n \in 1..N : n - 1 \in T => n \in T
    PROVE  \A n \in 0..N : n \in T
<1> DEFINE Out == {n \in 0..N : n \notin T}
<1>1. SUFFICES ASSUME Out # {} PROVE FALSE
  OBVIOUS
<1>2. PICK n \in Out : \A m \in Out : n <= m
  <2>1. Out \subseteq Nat
    OBVIOUS
  <2> HIDE DEF Out
  <2> QED
    BY <1>1, <2>1, Least
<1>3. n \in 1..N /\ n \notin T
  BY <1>2
<1>4. n - 1 \in 0..N /\ ~(n <= n - 1)
  BY <1>3
<1>5. n - 1 \in T
  BY <1>2, <1>4
<1> QED
  BY <1>3, <1>5

\* f follows a recursion up to k.
Follows(f, k, V, base, step) ==
    /\ f \in [0..k -> V]
    /\ f[0] = base /\ \A n \in 1..k : f[n] = step[n][f[n - 1]]

\* A function defined by recursion on 0..N exists.
LEMMA RecursionExists ==
    ASSUME NEW N \in Nat, NEW V, NEW base \in V, NEW step \in [1..N -> [V -> V]]
    PROVE  \E f : Follows(f, N, V, base, step)
<1> DEFINE T == {k \in 0..N : \E f : Follows(f, k, V, base, step)}
<1>1. 0 \in T
  <2>1. Follows([n \in 0..0 |-> base], 0, V, base, step)
    BY DEF Follows
  <2> QED
    BY <2>1
<1>2. ASSUME NEW k \in 1..N, k - 1 \in T PROVE k \in T
  <2>2. PICK f : Follows(f, k - 1, V, base, step)
    BY <1>2
  <2> DEFINE g == [n \in 0..k |-> IF n = k THEN step[k][f[k - 1]] ELSE f[n]]
  <2>3. /\ f \in [0..(k - 1) -> V] /\ f[0] = base
        /\ \A n \in 1..(k - 1) : f[n] = step[n][f[n - 1]]
    BY <2>2 DEF Follows
  <2>4. f[k - 1] \in V /\ step[k] \in [V -> V]
    BY <2>3
  <2>5. step[k][f[k - 1]] \in V
    BY <2>4
  <2>6. g \in [0..k -> V] /\ g[0] = base
    BY <2>3, <2>5
  <2>7. ASSUME NEW n \in 1..k PROVE g[n] = step[n][g[n - 1]]
    <3>1. CASE n = k
      BY <3>1
    <3>2. CASE n # k
      BY <3>2, <2>3
    <3> QED
      BY <3>1, <3>2
  <2> HIDE DEF g
  <2>8. Follows(g, k, V, base, step)
    BY <2>6, <2>7 DEF Follows
  <2> QED
    BY <2>8
<1> HIDE DEF T
<1>3. N \in T
  BY <1>1, <1>2, Induction
<1> QED
  BY <1>3 DEF T

-----------------------------------------------------------------------------
(* Graphs.                                                                   *)

LEMMA NothingIsWellFormed == WellFormed(EmptyGraph)
  BY DEF WellFormed, EmptyGraph

\* An entity that is mentioned has a first mention.
LEMMA FirstOfDoes ==
    ASSUME NEW mentions, NEW n \in Nat, DOMAIN mentions = 0..n, NEW id,
           \E i \in 0..n : \E e \in mentions[i] : EntityId(e) = id
    PROVE  EntityId(FirstOf(id, mentions)) = id
<1> DEFINE Has(i) == \E e \in mentions[i] : EntityId(e) = id
           T == {i \in 0..n : Has(i)}
           First(i) == Has(i) /\ \A j \in 0..(i - 1) : ~Has(j)
           first == CHOOSE i \in DOMAIN mentions : First(i)
<1>1. T \subseteq Nat /\ T # {}
  OBVIOUS
<1> HIDE DEF Has
<1>2. PICK m \in T : \A k \in T : m <= k
  <2> HIDE DEF T
  <2> QED
    BY <1>1, Least
<1>3. First(m) /\ m \in DOMAIN mentions
  BY <1>2
<1> HIDE DEF First, T
<1>4. First(first)
  BY <1>3
<1>5. Has(first)
  BY <1>4 DEF First
<1>6. FirstOf(id, mentions) = CHOOSE e \in mentions[first] : EntityId(e) = id
  BY DEF FirstOf, First, Has
<1> HIDE DEF first
<1> QED
  BY <1>5, <1>6 DEF Has

LEMMA BuiltIsWellFormed ==
    ASSUME NEW top, NEW findings, Len(findings) \in Nat, DOMAIN findings = 1..Len(findings),
           NEW signals, NEW pairs
    PROVE  WellFormed(BuildGraph(top, findings, signals, pairs))
<1> DEFINE g == BuildGraph(top, findings, signals, pairs)
           mentions == [i \in 0..Len(findings) |-> IF i = 0 THEN top ELSE findings[i].entities]
           ids == {EntityId(e) : e \in UNION {mentions[i] : i \in DOMAIN mentions}}
           told == {findings[i] : i \in DOMAIN findings}
           located == {f \in told : f.line > 0}
           IdOf(f) == FindingId(f.category, f.text)
<1>1. g.entities = {[id |-> id, kind |-> FirstOf(id, mentions).kind,
                     value |-> FirstOf(id, mentions).value] : id \in ids}
  BY DEF BuildGraph
<1>2. g.findings = {[id |-> IdOf(f), text |-> f.text] : f \in told \cup signals}
  BY DEF BuildGraph
<1>3. g.sources = {[id |-> SourceId(f.path, f.line)] : f \in located}
  BY DEF BuildGraph
<1>4. g.edges =
         (UNION {{Link(EntityId(e), IdOf(f), "entity_to_finding") : e \in f.entities} : f \in told})
         \cup {Link(x[1].id, IdOf(x[2]), "entity_to_finding") :
                 x \in {y \in g.entities \X signals : Mentions(y[2].text, y[1].value)}}
         \cup {Link(IdOf(f), SourceId(f.path, f.line), "finding_to_source") : f \in located}
         \cup {Link(EntityId(x[1]), EntityId(x[2]), "entity_to_entity") :
                 x \in {y \in pairs : {EntityId(y[1]), EntityId(y[2])} \subseteq ids}}
  BY <1>1 DEF BuildGraph
<1>5. ASSUME NEW f \in told, NEW e \in f.entities PROVE EntityId(e) \in ids
  <2>1. PICK i \in 1..Len(findings) : f = findings[i]
    OBVIOUS
  <2>2. i \in 0..Len(findings) /\ i # 0
    BY <2>1
  <2>3. i \in DOMAIN mentions /\ mentions[i] = f.entities
    BY <2>1, <2>2
  <2> QED
    BY <2>3
<1>6. ASSUME NEW id \in ids PROVE EntityId(FirstOf(id, mentions)) = id
  <2>1. PICK i \in 0..Len(findings) : \E e \in mentions[i] : EntityId(e) = id
    BY <1>6
  <2>2. DOMAIN mentions = 0..Len(findings)
    OBVIOUS
  <2> HIDE DEF mentions
  <2> QED
    BY <2>1, <2>2, FirstOfDoes
<1> HIDE DEF g, mentions, told
<1>7. ASSUME NEW id \in ids PROVE id \in NodeIds(g)
  <2>1. [id |-> id, kind |-> FirstOf(id, mentions).kind, value |-> FirstOf(id, mentions).value]
          \in g.entities
    BY <1>1
  <2> QED
    BY <2>1 DEF NodeIds, IdsOf
<1>8. ASSUME NEW f \in told \cup signals PROVE IdOf(f) \in NodeIds(g)
  <2>1. [id |-> IdOf(f), text |-> f.text] \in g.findings
    BY <1>2
  <2> QED
    BY <2>1 DEF NodeIds, IdsOf
<1>9. ASSUME NEW f \in located PROVE SourceId(f.path, f.line) \in NodeIds(g)
  <2>1. [id |-> SourceId(f.path, f.line)] \in g.sources
    BY <1>3
  <2> QED
    BY <2>1 DEF NodeIds, IdsOf
<1>10. \A n \in g.entities : n.id \in NodeIds(g)
  BY DEF NodeIds, IdsOf
<1> HIDE DEF ids
<1>11. \A e \in g.edges : e.from \in NodeIds(g) /\ e.to \in NodeIds(g)
  <2> SUFFICES ASSUME NEW e \in g.edges PROVE e.from \in NodeIds(g) /\ e.to \in NodeIds(g)
    OBVIOUS
  <2>1. CASE \E f \in told : \E x \in f.entities : e = Link(EntityId(x), IdOf(f), "entity_to_finding")
    BY <1>5, <1>7, <1>8, <2>1 DEF Link
  <2>2. CASE \E x \in g.entities \X signals : e = Link(x[1].id, IdOf(x[2]), "entity_to_finding")
    BY <1>8, <1>10, <2>2 DEF Link
  <2>3. CASE \E f \in located : e = Link(IdOf(f), SourceId(f.path, f.line), "finding_to_source")
    BY <1>8, <1>9, <2>3 DEF Link
  <2>4. CASE \E x \in pairs : /\ e = Link(EntityId(x[1]), EntityId(x[2]), "entity_to_entity")
                              /\ {EntityId(x[1]), EntityId(x[2])} \subseteq ids
    BY <1>7, <2>4 DEF Link
  <2> QED
    BY <1>4, <2>1, <2>2, <2>3, <2>4
<1>12. \A n \in g.entities : n.id = EntityId(n)
  <2> SUFFICES ASSUME NEW n \in g.entities PROVE n.id = EntityId(n)
    OBVIOUS
  <2>1. PICK id \in ids : n = [id |-> id, kind |-> FirstOf(id, mentions).kind,
                               value |-> FirstOf(id, mentions).value]
    BY <1>1
  <2>2. EntityId(n) = EntityId(FirstOf(id, mentions))
    BY <2>1 DEF EntityId
  <2> QED
    BY <1>6, <2>1, <2>2
<1>13. \A m, n \in g.entities : m.id = n.id => m = n
  BY <1>1
<1> QED
  BY <1>11, <1>12, <1>13 DEF WellFormed, g

LEMMA MaskingKeepsIds ==
    ASSUME NEW nodes, NEW known
    PROVE  /\ IdsOf(nodes) \subseteq IdsOf(MaskedEntities(nodes, known))
           /\ IdsOf(nodes) \subseteq IdsOf(MaskedMessages(nodes, known))
<1>1. ASSUME NEW n \in nodes PROVE n.id \in IdsOf(MaskedEntities(nodes, known))
  <2>1. [id |-> n.id, kind |-> n.kind, value |-> MaskName(n.value, known)]
          \in MaskedEntities(nodes, known)
    BY DEF MaskedEntities
  <2> QED
    BY <2>1 DEF IdsOf
<1>2. ASSUME NEW n \in nodes PROVE n.id \in IdsOf(MaskedMessages(nodes, known))
  <2>1. [id |-> n.id, text |-> MaskText(n.text, known)] \in MaskedMessages(nodes, known)
    BY DEF MaskedMessages
  <2> QED
    BY <2>1 DEF IdsOf
<1> QED
  BY <1>1, <1>2 DEF IdsOf

\* Masking renames entities, and may merge some: each edge follows its end.
LEMMA MaskKeepsWellFormed ==
    ASSUME NEW g, NEW known, WellFormed(g)
    PROVE  WellFormed(MaskGraph(g, known))
<1> DEFINE masked == MaskedEntities(g.entities, known)
           m == MaskGraph(g, known)
<1>1. /\ m.entities = Rekeyed(masked)
      /\ m.findings = MaskedMessages(g.findings, known)
      /\ m.sources = g.sources
      /\ m.edges = Rewire(g.edges, masked)
  BY DEF MaskGraph
<1> HIDE DEF m
<1>2. \A n \in m.entities : n.id = EntityId(n)
  BY <1>1 DEF Rekeyed, EntityId
<1>3. ASSUME NEW id \in NodeIds(g)
      PROVE  NewId(id, masked) \in NodeIds(m)
  <2>1. CASE \E n \in masked : n.id = id
    <3>1. PICK n \in masked : n.id = id /\ NewId(id, masked) = EntityId(n)
      BY <2>1 DEF NewId
    <3>2. [id |-> EntityId(n), kind |-> n.kind, value |-> n.value] \in m.entities
      BY <1>1, <3>1 DEF Rekeyed
    <3> QED
      BY <3>1, <3>2 DEF NodeIds, IdsOf
  <2>2. CASE ~\E n \in masked : n.id = id
    <3>1. NewId(id, masked) = id
      BY <2>2 DEF NewId
    <3>2. IdsOf(g.entities) \subseteq IdsOf(masked)
      BY MaskingKeepsIds
    <3>3. id \in IdsOf(g.findings) \cup IdsOf(g.sources)
      BY <2>2, <3>2 DEF NodeIds, IdsOf
    <3>4. IdsOf(g.findings) \subseteq IdsOf(m.findings)
      BY <1>1, MaskingKeepsIds
    <3>5. m.sources = g.sources
      BY <1>1
    <3> QED
      BY <3>1, <3>3, <3>4, <3>5 DEF NodeIds
  <2> QED
    BY <2>1, <2>2
<1>5. ASSUME NEW i \in m.entities, NEW j \in m.entities, i.id = j.id PROVE i = j
  <2> DEFINE Masked(n) == MaskName(n.value, known)
             Node(n) == [id |-> EntityId([id |-> n.id, kind |-> n.kind, value |-> Masked(n)]),
                         kind |-> n.kind, value |-> Masked(n)]
  <2>1. \A n \in m.entities : \E k \in g.entities : n = Node(k)
    BY <1>1 DEF Rekeyed, MaskedEntities
  <2>2. PICK k \in g.entities : i = Node(k)
    BY <2>1
  <2>3. PICK l \in g.entities : j = Node(l)
    BY <2>1
  <2>4. k.kind = l.kind /\ Folded(Masked(k)) = Folded(Masked(l))
    BY <1>5, <2>2, <2>3 DEF EntityId
  <2>5. \A v : MaskName(v, known) \in {v} \cup Placeholders
    BY DEF MaskName, Placeholders
  <2>6. \A v \in Placeholders : Folded(v) = v /\ v \notin Names
    BY DEF Folded
  <2>7. \A v : Folded(v) \in Placeholders => Folded(v) = v
    BY DEF Folded
  <2>8. CASE Masked(k) \in Placeholders \/ Masked(l) \in Placeholders
    <3>1. Masked(k) = Masked(l)
      BY <2>4, <2>6, <2>7, <2>8
    <3> QED
      BY <2>2, <2>3, <2>4, <3>1 DEF EntityId
  <2>9. CASE ~(Masked(k) \in Placeholders \/ Masked(l) \in Placeholders)
    <3>1. Masked(k) = k.value /\ Masked(l) = l.value
      BY <2>5, <2>9
    <3>2. EntityId(k) = EntityId(l)
      BY <2>4, <3>1 DEF EntityId
    <3>3. k = l
      BY <3>2 DEF WellFormed
    <3> QED
      BY <2>2, <2>3, <3>3
  <2> QED
    BY <2>8, <2>9
<1>4. \A e \in m.edges : e.from \in NodeIds(m) /\ e.to \in NodeIds(m)
  <2> SUFFICES ASSUME NEW e \in g.edges
               PROVE  /\ NewId(e.from, masked) \in NodeIds(m)
                      /\ NewId(e.to, masked) \in NodeIds(m)
    BY <1>1 DEF Rewire, Link
  <2>1. e.from \in NodeIds(g) /\ e.to \in NodeIds(g)
    BY DEF WellFormed
  <2> QED
    BY <1>3, <2>1
<1> QED
  BY <1>2, <1>4, <1>5 DEF WellFormed, m

-----------------------------------------------------------------------------
(* Anonymization.                                                            *)

LEMMA MaskHides ==
    ASSUME NEW known \in SUBSET Names, NEW v
    PROVE  MaskName(v, known) \notin known
  BY DEF MaskName, Placeholders

LEMMA MaskedNamesHide ==
    ASSUME NEW known \in SUBSET Names, NEW names
    PROVE  MaskNames(names, known) \cap known = {}
  BY MaskHides DEF MaskNames

LEMMA MaskedTextHides ==
    ASSUME NEW known \in SUBSET Names, NEW t
    PROVE  MaskText(t, known).of \cap known = {}
  BY MaskHides DEF MaskText

LEMMA MaskedTextsHide ==
    ASSUME NEW known \in SUBSET Names, NEW s
    PROVE  TextNames(MaskTexts(s, known)) \cap known = {}
  BY MaskedTextHides DEF TextNames, MaskTexts

LEMMA MaskedFindingHides ==
    ASSUME NEW known \in SUBSET Names, NEW x \in Entry
    PROVE  LET y == MaskFinding(x, known)
           IN  (y.text.of \cup {e.value : e \in y.entities}) \cap known = {}
<1> DEFINE y == MaskFinding(x, known)
<1>1. y.text = MaskText(x.text, known) /\ y.entities = {MaskEntity(e, known) : e \in x.entities}
  BY DEF MaskFinding, Entry
<1>2. ASSUME NEW e \in y.entities PROVE e.value \notin known
  BY <1>1, MaskHides DEF MaskEntity
<1> QED
  BY <1>1, <1>2, MaskedTextHides

LEMMA MaskedGraphHides ==
    ASSUME NEW known \in SUBSET Names, NEW g
    PROVE  LET m == MaskGraph(g, known)
           IN  /\ {n.value : n \in m.entities} \cap known = {}
               /\ (UNION {n.text.of : n \in m.findings}) \cap known = {}
<1> DEFINE m == MaskGraph(g, known)
<1>1. /\ m.entities = Rekeyed(MaskedEntities(g.entities, known))
      /\ m.findings = MaskedMessages(g.findings, known)
  BY DEF MaskGraph
<1> HIDE DEF m
<1>2. ASSUME NEW n \in m.entities PROVE n.value \notin known
  <2>1. PICK k \in g.entities : n.value = MaskName(k.value, known)
    BY <1>1 DEF Rekeyed, MaskedEntities
  <2> QED
    BY <2>1, MaskHides
<1>3. ASSUME NEW n \in m.findings PROVE n.text.of \cap known = {}
  BY <1>1, MaskedTextHides DEF MaskedMessages
<1>4. {n.value : n \in m.entities} \cap known = {}
  BY <1>2
<1>5. (UNION {n.text.of : n \in m.findings}) \cap known = {}
  BY <1>3
<1> QED
  BY <1>4, <1>5 DEF m

\* What is looked for is nowhere in an anonymized report.
LEMMA AnonymizedHides ==
    ASSUME NEW r, DOMAIN r = Fields, r.findings \in Seq(Entry), NEW f \in Folders,
           KnownNames(r, f) \subseteq Names
    PROVE  NamesShown(Anonymized(r, f)) \cap KnownNames(r, f) = {}
<1> DEFINE known == KnownNames(r, f)
           q == Anonymized(r, f)
<1>1. /\ q.host \in {RedactedHost, None}
      /\ q.search = MaskField(r.search, known) /\ q.realm = MaskField(r.realm, known)
      /\ q.adDomain \in {ExampleDomain, None}
      /\ q.quotes = MaskNames(r.quotes, known)
  BY DEF Anonymized, Fields
<1>2. /\ q.problems = MaskTexts(r.problems, known) /\ q.warnings = MaskTexts(r.warnings, known)
      /\ q.graph = MaskGraph(r.graph, known)
  BY DEF Anonymized, Fields
<1>3. /\ q.findings = [i \in DOMAIN r.findings |-> MaskFinding(r.findings[i], known)]
      /\ q.suggested = {[tid |-> s.tid, of |-> MaskNames(s.of, known)] : s \in r.suggested}
  BY DEF Anonymized, Fields
<1> HIDE DEF q, known
<1>4. known \in SUBSET Names
  BY DEF known
<1>5. {RedactedHost, ExampleDomain, None} \cap known = {}
  BY <1>4 DEF Values, Placeholders
<1>6. {q.host, q.search, q.realm, q.adDomain} \cap known = {}
  BY <1>1, <1>4, <1>5, MaskHides DEF MaskField
<1>7. q.quotes \cap known = {}
  BY <1>1, <1>4, MaskedNamesHide
<1>8. TextNames(q.problems) \cap known = {} /\ TextNames(q.warnings) \cap known = {}
  BY <1>2, <1>4, MaskedTextsHide
<1>9. (UNION {x.text.of \cup {e.value : e \in x.entities} : x \in InRange(q.findings)})
        \cap known = {}
  <2>1. ASSUME NEW x \in InRange(q.findings)
        PROVE  (x.text.of \cup {e.value : e \in x.entities}) \cap known = {}
    <3>1. PICK i \in DOMAIN r.findings : x = MaskFinding(r.findings[i], known)
      BY <1>3 DEF InRange
    <3>2. r.findings[i] \in Entry
      OBVIOUS
    <3> QED
      BY <1>4, <3>1, <3>2, MaskedFindingHides
  <2> QED
    BY <2>1
<1>10. (UNION {s.of : s \in q.suggested}) \cap known = {}
  BY <1>3, <1>4, MaskedNamesHide
<1>11. /\ {n.value : n \in q.graph.entities} \cap known = {}
       /\ (UNION {n.text.of : n \in q.graph.findings}) \cap known = {}
  BY <1>2, <1>4, MaskedGraphHides
<1>12. NamesShown(q) \cap known = {}
  BY <1>6, <1>7, <1>8, <1>9, <1>10, <1>11 DEF NamesShown
<1> QED
  BY <1>12 DEF q, known

\* Anonymization renames, it neither matches nor suggests.
LEMMA AnonymizedKeeps ==
    ASSUME NEW r, NEW f, DOMAIN r = Fields, New(r), WellFormed(r.graph)
    PROVE  LET q == Anonymized(r, f)
           IN  New(q) /\ WellFormed(q.graph) /\ q.matched = r.matched
<1> DEFINE q == Anonymized(r, f)
           known == KnownNames(r, f)
<1>1. /\ q.suggested = {[tid |-> s.tid, of |-> MaskNames(s.of, known)] : s \in r.suggested}
      /\ q.matched = r.matched /\ q.graph = MaskGraph(r.graph, known)
  BY DEF Anonymized, Fields
<1> HIDE DEF q
<1>2. New(q)
  BY <1>1 DEF New
<1>3. WellFormed(q.graph)
  BY <1>1, MaskKeepsWellFormed
<1> QED
  BY <1>1, <1>2, <1>3 DEF q

-----------------------------------------------------------------------------
(* The knowledge base.                                                       *)

\* An automaton reports in its own order the patterns that are there.
LEMMA HitsOfOwnOrder ==
    ASSUME NEW patterns, NEW order \in Orders(patterns), NEW found \in SUBSET patterns
    PROVE  PatternsHit(order, order, found) = found
<1>1. ASSUME NEW p \in found
      PROVE  IndexIn(order, p) \in DOMAIN order /\ order[IndexIn(order, p)] = p
  BY DEF Orders, IndexIn
<1> QED
  BY <1>1 DEF PatternsHit

LEMMA MatchesOfSupportconfig ==
    ASSUME NEW f \in Folders, ~f.raw
    PROVE  Matched(f.mac, f.evidence, f.patterns \cap PatternsOf(f.mac), TRUE) = RightMatches(f)
<1>1. \A a \in Candidates(f.mac) :
         ConfigPatterns[a] \cap (f.patterns \cap PatternsOf(f.mac))
           = ConfigPatterns[a] \cap f.patterns
  BY DEF PatternsOf
<1> QED
  BY <1>1 DEF Matched, LogMatched, Candidates, RightMatches

LEMMA MatchesOfRawLogs ==
    ASSUME NEW f \in Folders, f.raw, NEW hit
    PROVE  Matched("Unknown", f.evidence, hit, FALSE) = RightMatches(f)
  BY DEF Matched, Candidates, RightMatches

-----------------------------------------------------------------------------
(* What the phases do to the report.                                         *)

LEMMA NotedAlike ==
    ASSUME NEW r, NEW p, NEW f, DOMAIN r = Fields
    PROVE  Alike(Noted(r, p, f), r, Heard)
  BY DEF Alike, Noted, Fields, Heard

LEMMA WithProblemsAlike ==
    ASSUME NEW r, NEW texts, DOMAIN r = Fields
    PROVE  Alike(WithProblems(r, texts), r, Heard)
  BY DEF Alike, WithProblems, Fields, Heard

LEMMA WithFindingsAlike ==
    ASSUME NEW r, NEW fs \in Seq(Entry), DOMAIN r = Fields, r.findings \in Seq(Entry)
    PROVE  /\ Alike(WithFindings(r, fs), r, Heard \cup {"findings"})
           /\ WithFindings(r, fs).findings \in Seq(Entry)
<1>1. Alike(WithFindings(r, fs), r, Heard \cup {"findings"})
  BY DEF Alike, WithFindings, Fields, Heard
<1>2. WithFindings(r, fs).findings = r.findings \o fs
  BY DEF WithFindings, Fields
<1> QED
  BY <1>1, <1>2

LEMMA ScannedAlike ==
    ASSUME NEW r, NEW f, DOMAIN r = Fields
    PROVE  Alike(Scanned(r, f), r, Heard \cup {"errors", "quotes"})
<1> DEFINE q == [Noted(r, "scan", f) EXCEPT !.errors = f.errors, !.quotes = f.quotes]
<1>1. Alike(q, r, Heard \cup {"errors", "quotes"})
  BY DEF Alike, Noted, Fields, Heard
<1> HIDE DEF q
<1>2. \A texts : Alike(WithProblems(q, texts), r, Heard \cup {"errors", "quotes"})
  BY <1>1, WithProblemsAlike DEF Alike
<1> QED
  BY <1>2 DEF Scanned, q

LEMMA EntryType == Seq(Plain) \subseteq Seq(Entry) /\ Seq(Chain) \subseteq Seq(Entry)
<1>1. Finding \subseteq Entry
  BY DEF Finding, Entry, Text, Words
<1>2. Plain \subseteq Entry /\ Chain \subseteq Entry
  BY <1>1 DEF Plain, Chain
<1> QED
  BY <1>2, SeqMonotonic

LEMMA CrossCheckType ==
    ASSUME NEW v \in Names, NEW w \in Names, NEW level \in {"critical", "error"},
           NEW category \in Words, NEW rule, NEW path, <<rule, path>> \in CrossCheckSources,
           NEW entities \in SUBSET Entity
    PROVE  CrossCheck(level, category, rule, path, {v, w}, entities) \in Contradiction
<1>1. rule \in Words /\ path \in Words
  <2>1. <<rule, path>>[1] = rule /\ <<rule, path>>[2] = path
    OBVIOUS
  <2> QED
    BY <2>1 DEF Words
<1>2. CrossCheck(level, category, rule, path, {v, w}, entities) \in Entry
  BY <1>1 DEF CrossCheck, Entry, Values, Levels
<1> QED
  BY <1>2 DEF CrossCheck, Contradiction, IsCrossCheck

\* A contradiction is a finding, about names the report holds.
LEMMA CrossChecksType ==
    ASSUME NEW r, {r.host, r.search, r.realm, r.adDomain} \subseteq Names \cup {None}
    PROVE  CrossChecks(r) \in Seq(Contradiction)
<1> DEFINE domain == CanonicalDomain(r)
<1>1. domain \in Names \cup {None} /\ (domain # None => Upper[domain] \in Names)
  BY DEF CanonicalDomain, Folded
<1>2. \A condition, entry : entry \in Contradiction => When(condition, entry) \in Seq(Contradiction)
  BY DEF When
<1>6. /\ <<"correlate:krb5-no-realm", "krb5.conf">> \in CrossCheckSources
      /\ <<"correlate:krb5-realm-mismatch", "krb5.conf">> \in CrossCheckSources
      /\ <<"correlate:dns-search-mismatch", "resolv.conf">> \in CrossCheckSources
      /\ <<"correlate:hostname-not-fqdn", "basic-environment.txt">> \in CrossCheckSources
      /\ {"join", "krb5_realm", "dns", "hostname"} \subseteq Words
  BY DEF CrossCheckSources, Words
<1>3. CASE ~r.ad \/ domain = None
  BY <1>3 DEF CrossChecks
<1>4. CASE ~(~r.ad \/ domain = None) /\ r.realm = None
  <2>1. CrossCheck("critical", "join", "correlate:krb5-no-realm", "krb5.conf",
                   {Upper[domain], Upper[domain]}, {}) \in Contradiction
    BY <1>1, <1>4, <1>6, CrossCheckType
  <2> DEFINE entry == CrossCheck("critical", "join", "correlate:krb5-no-realm", "krb5.conf",
                                 {Upper[domain]}, {})
  <2>2. {Upper[domain]} = {Upper[domain], Upper[domain]}
    OBVIOUS
  <2>3. entry \in Contradiction
    BY <2>1, <2>2
  <2>4. CrossChecks(r) = <<entry>>
    BY <1>4 DEF CrossChecks
  <2> HIDE DEF entry
  <2> QED
    BY <2>3, <2>4
<1>5. CASE ~(~r.ad \/ domain = None) /\ r.realm # None
  <2> DEFINE Strange(n) == n # None /\ <<Folded(n), domain>> \notin Overlap
             realm == When(Strange(r.realm),
                           CrossCheck("critical", "krb5_realm", "correlate:krb5-realm-mismatch",
                                      "krb5.conf", {Upper[domain], r.realm},
                                      {[kind |-> "realm", value |-> r.realm]}))
             search == When(Strange(r.search),
                            CrossCheck("error", "dns", "correlate:dns-search-mismatch",
                                       "resolv.conf", {domain, r.search}, {}))
             host == When(r.host # None /\ Strange(DomainOf[r.host]),
                          CrossCheck("error", "hostname", "correlate:hostname-not-fqdn",
                                     "basic-environment.txt", {domain, r.host}, {}))
  <2>1. realm \in Seq(Contradiction)
    <3>1. [kind |-> "realm", value |-> r.realm] \in Entity
      BY <1>5 DEF Entity, EntityKinds, Values
    <3>2. CrossCheck("critical", "krb5_realm", "correlate:krb5-realm-mismatch", "krb5.conf",
                     {Upper[domain], r.realm}, {[kind |-> "realm", value |-> r.realm]}) \in Contradiction
      BY <1>1, <1>5, <1>6, <3>1, CrossCheckType
    <3> QED
      BY <1>2, <3>2
  <2>2. search \in Seq(Contradiction)
    <3>1. CASE Strange(r.search)
      <4>1. CrossCheck("error", "dns", "correlate:dns-search-mismatch", "resolv.conf",
                       {domain, r.search}, {}) \in Contradiction
        BY <1>1, <1>5, <1>6, <3>1, CrossCheckType
      <4> QED
        BY <1>2, <4>1
    <3>2. CASE ~Strange(r.search)
      BY <3>2 DEF When
    <3> QED
      BY <3>1, <3>2
  <2>3. host \in Seq(Contradiction)
    <3>1. CASE r.host # None
      <4>1. CrossCheck("error", "hostname", "correlate:hostname-not-fqdn",
                       "basic-environment.txt", {domain, r.host}, {}) \in Contradiction
        BY <1>1, <1>5, <1>6, <3>1, CrossCheckType
      <4> QED
        BY <1>2, <4>1
    <3>2. CASE r.host = None
      BY <3>2 DEF When
    <3> QED
      BY <3>1, <3>2
  <2>4. CrossChecks(r) = realm \o search \o host
    BY <1>5 DEF CrossChecks
  <2> HIDE DEF realm, search, host
  <2> QED
    BY <2>1, <2>2, <2>3, <2>4
<1> QED
  BY <1>3, <1>4, <1>5

\* Reading sssd.conf adds findings, and the AD domain if there is one to read.
LEMMA ConfiguredDoes ==
    ASSUME NEW r, DOMAIN r = Fields, r.findings \in Seq(Entry), NEW f \in Folders,
           r.adDomain = None
    PROVE  LET q == Configured(r, f)
           IN  /\ Alike(q, r, Heard \cup {"conf", "ad", "adDomain", "findings"})
               /\ q.findings \in Seq(Entry)
               /\ q.adDomain = IF f.conf THEN Folded(f.adDomain) ELSE None
<1>1. f.checks \in Seq(Entry)
  BY EntryType DEF Folder
<1>2. CASE f.conf
  <2> DEFINE s == [r EXCEPT !.conf = TRUE, !.ad = f.ad, !.adDomain = Folded(f.adDomain)]
  <2>1. /\ Alike(s, r, {"conf", "ad", "adDomain"})
        /\ s.findings = r.findings /\ s.adDomain = Folded(f.adDomain)
    BY DEF Alike, Fields
  <2> HIDE DEF s
  <2>2. /\ Alike(WithFindings(s, f.checks), s, Heard \cup {"findings"})
        /\ WithFindings(s, f.checks).findings \in Seq(Entry)
    BY <1>1, <2>1, WithFindingsAlike DEF Alike
  <2>3. Configured(r, f) = WithFindings(s, f.checks)
    BY <1>2 DEF Configured, s
  <2> QED
    BY <1>2, <2>1, <2>2, <2>3 DEF Alike, Fields, Heard
<1>3. CASE ~f.conf
  <2>1. \A texts : Alike(WithProblems(r, texts), r, Heard)
    BY WithProblemsAlike
  <2>2. Alike(Configured(r, f), r, Heard)
    BY <1>3, <2>1 DEF Configured
  <2> QED
    BY <1>3, <2>2 DEF Alike, Fields, Heard
<1> QED
  BY <1>2, <1>3

LEMMA ConfiguredAndCorrelatedDoes ==
    ASSUME NEW r, DOMAIN r = Fields, r.findings \in Seq(Entry), NEW f \in Folders,
           r.adDomain = None, {r.host, r.search, r.realm} \subseteq Names \cup {None}
    PROVE  LET q == ConfiguredAndCorrelated(r, f)
           IN  /\ Alike(q, r, Heard \cup {"conf", "ad", "adDomain", "findings"})
               /\ q.findings \in Seq(Entry)
               /\ q.adDomain = IF f.conf THEN Folded(f.adDomain) ELSE None
<1> DEFINE c == Configured(r, f)
           checked == ServiceChecked(r, f)
<1>1. /\ Alike(c, r, Heard \cup {"conf", "ad", "adDomain", "findings"})
      /\ c.findings \in Seq(Entry)
      /\ c.adDomain = IF f.conf THEN Folded(f.adDomain) ELSE None
  BY ConfiguredDoes
<1> DEFINE texts == When(f.stopped, Say("sssd.service is not running"))
<1>2. checked = WithProblems(c, texts)
  BY DEF ServiceChecked
<1> HIDE DEF c, checked, texts
<1>3. DOMAIN c = Fields
  BY <1>1 DEF Alike
<1>4. Alike(checked, c, Heard)
  BY <1>2, <1>3, WithProblemsAlike
<1>5. /\ checked.findings = c.findings /\ checked.adDomain = c.adDomain
      /\ checked.host = r.host /\ checked.search = r.search /\ checked.realm = r.realm
  BY <1>1, <1>4 DEF Alike, Fields, Heard
<1>6. Folded(f.adDomain) \in Names \cup {None}
  BY DEF Folder, Folded
<1>7. CrossChecks(checked) \in Seq(Entry)
  <2>1. CrossChecks(checked) \in Seq(Contradiction)
    BY <1>1, <1>5, <1>6, CrossChecksType
  <2> QED
    BY <2>1, SeqMonotonic DEF Contradiction
<1>8. /\ Alike(WithFindings(checked, CrossChecks(checked)), checked, Heard \cup {"findings"})
      /\ WithFindings(checked, CrossChecks(checked)).findings \in Seq(Entry)
  BY <1>1, <1>4, <1>5, <1>7, WithFindingsAlike DEF Alike
<1>9. ConfiguredAndCorrelated(r, f) = WithFindings(checked, CrossChecks(checked))
  BY DEF ConfiguredAndCorrelated, checked, c
<1> QED
  BY <1>1, <1>4, <1>5, <1>8, <1>9 DEF Alike, Fields, Heard

LEMMA SummarizedAlike ==
    ASSUME NEW r, NEW f, DOMAIN r = Fields
    PROVE  Alike(Hinted(Summarized(r), f), r, Heard \cup {"summary"})
<1>1. Alike(Summarized(r), r, Heard \cup {"summary"})
  BY DEF Summarized, Alike, Fields, Heard
<1>2. \A q : DOMAIN q = Fields => Alike(Hinted(q, f), q, Heard)
  BY DEF Hinted, Alike, Fields, Heard
<1> QED
  BY <1>1, <1>2 DEF Alike

\* The pass over the knowledge base: while no analysis has compiled an automaton, it
\* finds the patterns that are there.
LEMMA MatchIntoDoes ==
    ASSUME NEW p, NEW r, NEW available, NEW next, DOMAIN r = Fields,
           DOMAIN matchers = SUBSET Patterns, MatchInto(p, r, available, next)
    PROVE  /\ phase' = next /\ UNCHANGED <<folder, past>>
           /\ DOMAIN matchers' = SUBSET Patterns
           /\ Alike(report', r, {"matched"})
           /\ \E hit : report'.matched = Matched(r.mac, folder.evidence, hit, available)
           /\ matchers = NoMatchers =>
                report'.matched = Matched(r.mac, folder.evidence,
                                          folder.patterns \cap PatternsOf(r.mac), available)
<1> DEFINE patterns == PatternsOf(r.mac)
           found == folder.patterns \cap patterns
<1>1. patterns \in SUBSET Patterns
  BY DEF PatternsOf, Candidates
<1>2. PICK order \in Orders(patterns) :
        LET hit == PatternsHit(matchers'[patterns], order, found)
        IN  /\ matchers' = Compiled(matchers, patterns, order)
            /\ Run(p, [r EXCEPT !.matched = Matched(r.mac, folder.evidence, hit, available)], next)
  BY DEF MatchInto
<1> DEFINE hit == PatternsHit(matchers'[patterns], order, found)
<1>3. /\ report' = [r EXCEPT !.matched = Matched(r.mac, folder.evidence, hit, available)]
      /\ phase' = next /\ UNCHANGED <<folder, past>>
      /\ matchers' = Compiled(matchers, patterns, order)
  BY <1>2 DEF Run
<1>4. matchers = NoMatchers => hit = found
  <2>1. matchers = NoMatchers => matchers'[patterns] = order
    BY <1>1, <1>3 DEF Compiled, NoMatchers
  <2> QED
    BY <2>1, HitsOfOwnOrder
<1>5. DOMAIN matchers' = SUBSET Patterns
  BY <1>3 DEF Compiled
<1> HIDE DEF hit
<1>6. /\ Alike(report', r, {"matched"})
      /\ report'.matched = Matched(r.mac, folder.evidence, hit, available)
  BY <1>3 DEF Alike, Fields
<1> QED
  BY <1>3, <1>4, <1>5, <1>6

-----------------------------------------------------------------------------
(* The invariant.                                                            *)

\* A name that a folder gives is one.
LEMMA FolderNames ==
    ASSUME NEW f \in Folders
    PROVE  /\ {f.host, f.node, f.search, f.realm, f.adDomain} \subseteq Names \cup {None}
           /\ f.others \subseteq Names
  BY DEF Folder

\* Phases that only add what they hear leave the rest as it was.
LEMMA PhasesKeepSoFar ==
    ASSUME IInv,
           \/ SystemPhase \/ NetworkPhase \/ EnvironmentPhase \/ ScanPhase \/ KerberosPhase
           \/ HarvestPhase
    PROVE  SoFar(phase', folder', report', past' = <<>>)
<1> USE DEF Late, Early, SupportconfigPhases, HostTold, SearchTold, RealmTold, MacTold,
            DomainTold, Phases
<1>1. phase \in Phases => SoFar(phase, folder, report, past = <<>>)
  BY DEF IInv
<1>2. CASE SystemPhase
  <2>1. phase = "system" /\ phase' = "network" /\ folder' = folder /\ past' = past
    BY <1>2 DEF SystemPhase, Run
  <2>2. SoFar("system", folder, report, past = <<>>)
    BY <1>1, <2>1
  <2>3. Alike(report', report, Heard \cup {"host"}) /\ report'.host = folder.host
    BY <1>2, <2>2, NotedAlike DEF SystemPhase, SystemRead, Run, SoFar, Alike, Fields, Heard
  <2> QED
    BY <2>1, <2>2, <2>3 DEF SoFar, Identified, New, Alike, Fields, Heard
<1>3. CASE NetworkPhase
  <2>1. phase = "network" /\ phase' = "environment" /\ folder' = folder /\ past' = past
    BY <1>3 DEF NetworkPhase, Run
  <2>2. SoFar("network", folder, report, past = <<>>)
    BY <1>1, <2>1
  <2>3. Alike(report', report, Heard \cup {"search"}) /\ report'.search = folder.search
    BY <1>3, <2>2, NotedAlike DEF NetworkPhase, NetworkRead, Run, SoFar, Alike, Fields, Heard
  <2> QED
    BY <2>1, <2>2, <2>3 DEF SoFar, Identified, New, Alike, Fields, Heard
<1>4. CASE EnvironmentPhase
  <2>1. phase = "environment" /\ phase' = "scan" /\ folder' = folder /\ past' = past
    BY <1>4 DEF EnvironmentPhase, Run
  <2>2. SoFar("environment", folder, report, past = <<>>)
    BY <1>1, <2>1
  <2>3. Alike(report', report, Heard \cup {"mac"}) /\ report'.mac = folder.mac
    BY <1>4, <2>2, NotedAlike
       DEF EnvironmentPhase, EnvironmentRead, Run, SoFar, Alike, Fields, Heard
  <2> QED
    BY <2>1, <2>2, <2>3 DEF SoFar, Identified, New, Alike, Fields, Heard
<1>5. CASE ScanPhase
  <2>1. /\ phase = "scan" /\ phase' = "kerberos" /\ folder' = folder /\ past' = past
        /\ report' = report
    BY <1>5 DEF ScanPhase, Run
  <2>2. SoFar("scan", folder, report, past = <<>>)
    BY <1>1, <2>1
  <2> QED
    BY <2>1, <2>2 DEF SoFar, Identified
<1>6. CASE KerberosPhase
  <2> DEFINE q == [Noted(Scanned(report, folder), "kerberos", folder) EXCEPT !.realm = folder.realm]
             texts == When(folder.keytab = {}, Say("no keytab principal"))
  <2>1. /\ phase = "kerberos" /\ phase' = "config" /\ folder' = folder /\ past' = past
        /\ report' = WithProblems(q, texts)
    BY <1>6 DEF KerberosPhase, RealmRead, Run
  <2>2. SoFar("kerberos", folder, report, past = <<>>)
    BY <1>1, <2>1
  <2>3. Alike(Scanned(report, folder), report, Heard \cup {"errors", "quotes"})
    BY <2>2, ScannedAlike DEF SoFar
  <2>4. /\ Alike(q, report, Heard \cup {"errors", "quotes", "realm"})
        /\ q.realm = folder.realm
    BY <2>2, <2>3, NotedAlike DEF SoFar, Alike, Fields, Heard
  <2> HIDE DEF q, texts
  <2>5. Alike(report', q, Heard)
    BY <2>1, <2>2, <2>4, WithProblemsAlike DEF SoFar, Alike
  <2>6. /\ Alike(report', report, Heard \cup {"errors", "quotes", "realm"})
        /\ report'.realm = folder.realm
    BY <2>2, <2>4, <2>5 DEF SoFar, Alike, Fields, Heard
  <2> QED
    BY <2>1, <2>2, <2>6 DEF SoFar, Identified, New, Alike, Fields, Heard
<1>7. CASE HarvestPhase
  <2>1. /\ phase = "harvest" /\ phase' = "logscan" /\ folder' = folder /\ past' = past
        /\ report' = [report EXCEPT !.host = folder.host, !.search = folder.search,
                                    !.realm = folder.realm]
    BY <1>7 DEF HarvestPhase, Harvested, Run
  <2>2. SoFar("harvest", folder, report, past = <<>>)
    BY <1>1, <2>1
  <2>3. /\ Alike(report', report, {"host", "search", "realm"})
        /\ report'.host = folder.host /\ report'.search = folder.search
        /\ report'.realm = folder.realm
    BY <2>1, <2>2 DEF SoFar, Alike, Fields
  <2> QED
    BY <2>1, <2>2, <2>3 DEF SoFar, Identified, New, Alike, Fields
<1> QED
  BY <1>2, <1>3, <1>4, <1>5, <1>6, <1>7

LEMMA ConfigKeepsSoFar ==
    ASSUME IInv, ConfigPhase
    PROVE  SoFar(phase', folder', report', past' = <<>>)
<1> USE DEF Late, Early, SupportconfigPhases, HostTold, SearchTold, RealmTold, MacTold,
            DomainTold, Phases
<1> DEFINE q == ConfiguredAndCorrelated(report, folder)
<1>1. /\ phase = "config" /\ phase' = "match" /\ folder' = folder /\ past' = past
      /\ report' = Noted(q, "config", folder)
  BY DEF ConfigPhase, ConfigRead, Run
<1>2. SoFar("config", folder, report, past = <<>>) /\ folder \in Folders
  BY <1>1 DEF IInv
<1>3. /\ report.adDomain = None
      /\ {report.host, report.search, report.realm} \subseteq Names \cup {None}
  BY <1>2, FolderNames DEF SoFar, Identified
<1>4. /\ Alike(q, report, Heard \cup {"conf", "ad", "adDomain", "findings"})
      /\ q.findings \in Seq(Entry)
      /\ q.adDomain = IF folder.conf THEN Folded(folder.adDomain) ELSE None
  BY <1>2, <1>3, ConfiguredAndCorrelatedDoes DEF SoFar
<1> HIDE DEF q
<1>5. Alike(report', q, Heard)
  BY <1>1, <1>2, <1>4, NotedAlike DEF SoFar, Alike
<1>6. /\ Alike(report', report, Heard \cup {"conf", "ad", "adDomain", "findings"})
      /\ report'.findings \in Seq(Entry)
      /\ report'.adDomain = IF folder.conf THEN Folded(folder.adDomain) ELSE None
  BY <1>2, <1>4, <1>5 DEF SoFar, Alike, Fields, Heard
<1> QED
  BY <1>1, <1>2, <1>6 DEF SoFar, Identified, New, Alike, Fields, Heard

LEMMA MatchingKeepsSoFar ==
    ASSUME IInv, MatchPhase \/ LogScanPhase
    PROVE  SoFar(phase', folder', report', past' = <<>>) /\ DOMAIN matchers' = SUBSET Patterns
<1> USE DEF Late, Early, SupportconfigPhases, HostTold, SearchTold, RealmTold, MacTold,
            DomainTold, Phases
<1>1. DOMAIN matchers = SUBSET Patterns /\ folder \in Folders
  BY DEF IInv, Matchers
<1>2. CASE MatchPhase
  <2>1. phase = "match"
    BY <1>2 DEF MatchPhase, MatchInto, Run
  <2>2. SoFar("match", folder, report, past = <<>>) /\ (past = <<>> => matchers = NoMatchers)
    BY <2>1 DEF IInv, Matchers
  <2>3. DOMAIN report = Fields
    BY <2>2 DEF SoFar
  <2>4. /\ phase' = "advanced" /\ UNCHANGED <<folder, past>>
        /\ DOMAIN matchers' = SUBSET Patterns
        /\ Alike(report', report, {"matched"})
        /\ matchers = NoMatchers =>
             report'.matched = Matched(report.mac, folder.evidence,
                                       folder.patterns \cap PatternsOf(report.mac), TRUE)
    BY <1>1, <1>2, <2>3, MatchIntoDoes DEF MatchPhase
  <2>5. ~folder.raw /\ report.mac = folder.mac
    BY <2>2 DEF SoFar, Identified
  <2>6. past = <<>> => report'.matched = RightMatches(folder)
    BY <1>1, <2>2, <2>4, <2>5, MatchesOfSupportconfig
  <2> QED
    BY <2>2, <2>4, <2>5, <2>6 DEF SoFar, Identified, New, Alike, Fields
<1>3. CASE LogScanPhase
  <2> DEFINE q == Scanned(report, folder)
  <2>1. phase = "logscan"
    BY <1>3 DEF LogScanPhase, MatchInto, Run
  <2>2. SoFar("logscan", folder, report, past = <<>>)
    BY <2>1 DEF IInv
  <2>3. Alike(q, report, Heard \cup {"errors", "quotes"}) /\ DOMAIN q = Fields
    BY <2>2, ScannedAlike DEF SoFar, Alike
  <2> HIDE DEF q
  <2>4. MatchInto("logscan", q, FALSE, "advanced")
    BY <1>3 DEF LogScanPhase, q
  <2>5. /\ phase' = "advanced" /\ UNCHANGED <<folder, past>>
        /\ DOMAIN matchers' = SUBSET Patterns
        /\ Alike(report', q, {"matched"})
        /\ \E hit : report'.matched = Matched(q.mac, folder.evidence, hit, FALSE)
    BY <1>1, <2>3, <2>4, MatchIntoDoes
  <2>6. folder.raw /\ q.mac = "Unknown"
    BY <2>2, <2>3 DEF SoFar, Identified, Alike, Fields, Heard
  <2>7. report'.matched = RightMatches(folder)
    BY <1>1, <2>5, <2>6, MatchesOfRawLogs
  <2>8. Alike(report', report, Heard \cup {"errors", "quotes", "matched"})
    BY <2>2, <2>3, <2>5 DEF SoFar, Alike, Fields, Heard
  <2> QED
    BY <2>2, <2>5, <2>6, <2>7, <2>8 DEF SoFar, Identified, New, Alike, Fields, Heard
<1> QED
  BY <1>2, <1>3

\* Once the articles are matched, no phase matches again.
LEMMA LatePhasesKeepSoFar ==
    ASSUME IInv, AdvancedPhase \/ RulesPhase \/ SequencesPhase \/ SummaryPhase
    PROVE  SoFar(phase', folder', report', past' = <<>>)
<1> USE DEF Late, Early, SupportconfigPhases, HostTold, SearchTold, RealmTold, MacTold,
            DomainTold, Phases
<1>1. phase \in Phases => SoFar(phase, folder, report, past = <<>>)
  BY DEF IInv
<1>2. CASE AdvancedPhase
  <2>1. /\ phase = "advanced" /\ phase' = "rules" /\ folder' = folder /\ past' = past
        /\ report' = [report EXCEPT !.bursts = folder.bursts,
                                    !.suggested = Suggested(folder.similar, report.matched)]
    BY <1>2 DEF AdvancedPhase, Advanced, Run
  <2>2. SoFar("advanced", folder, report, past = <<>>)
    BY <1>1, <2>1
  <2>3. /\ Alike(report', report, {"bursts", "suggested"})
        /\ report'.suggested = Suggested(folder.similar, report.matched)
    BY <2>1, <2>2 DEF SoFar, Alike, Fields
  <2>4. New(report')
    BY <2>2, <2>3 DEF New, Suggested, SoFar, Alike, Fields
  <2> QED
    BY <2>1, <2>2, <2>3, <2>4 DEF SoFar, Identified, Alike, Fields
<1>3. ASSUME NEW fs \in Seq(Entry), NEW p \in {"rules", "sequences"},
             NEW next \in {"sequences", "summary"}, Run(p, WithFindings(report, fs), next)
      PROVE  SoFar(phase', folder', report', past' = <<>>)
  <2>1. /\ phase = p /\ phase' = next /\ folder' = folder /\ past' = past
        /\ report' = WithFindings(report, fs)
    BY <1>3 DEF Run
  <2>2. SoFar(p, folder, report, past = <<>>)
    BY <1>1, <1>3, <2>1
  <2>3. Alike(report', report, Heard \cup {"findings"}) /\ report'.findings \in Seq(Entry)
    BY <2>1, <2>2, WithFindingsAlike DEF SoFar
  <2> QED
    BY <1>3, <2>1, <2>2, <2>3 DEF SoFar, Identified, New, Alike, Fields, Heard
<1>4. CASE RulesPhase \/ SequencesPhase
  <2>1. folder.rules \in Seq(Entry) /\ folder.chains \in Seq(Entry)
    BY EntryType DEF IInv, Folder
  <2> QED
    BY <1>3, <1>4, <2>1 DEF RulesPhase, SequencesPhase
<1>5. CASE SummaryPhase
  <2>1. /\ phase = "summary" /\ phase' = "finalize" /\ folder' = folder /\ past' = past
        /\ report' = Hinted(Summarized(report), folder)
    BY <1>5 DEF SummaryPhase, Run
  <2>2. SoFar("summary", folder, report, past = <<>>)
    BY <1>1, <2>1
  <2>3. Alike(report', report, Heard \cup {"summary"})
    BY <2>1, <2>2, SummarizedAlike DEF SoFar
  <2> QED
    BY <2>1, <2>2, <2>3 DEF SoFar, Identified, New, Alike, Fields, Heard
<1> QED
  BY <1>2, <1>4, <1>5

LEMMA BeginStartsSoFar ==
    ASSUME NEW f \in Folders, Begin(f)
    PROVE  SoFar(phase', folder', report', past' = <<>>)
<1>1. /\ phase' = (IF f.raw THEN "harvest" ELSE "system") /\ folder' = f
      /\ report' = EmptyReport
  BY DEF Begin
<1>2. /\ DOMAIN EmptyReport = Fields /\ EmptyReport.graph = EmptyGraph
      /\ EmptyReport.findings = <<>> /\ EmptyReport.suggested = {}
      /\ EmptyReport.host = None /\ EmptyReport.search = None /\ EmptyReport.realm = None
      /\ EmptyReport.adDomain = None /\ EmptyReport.mac = "Unknown"
  BY DEF EmptyReport, Fields
<1>3. <<>> \in Seq(Entry)
  OBVIOUS
<1>4. New(EmptyReport)
  BY <1>2 DEF New
<1> QED
  BY <1>1, <1>2, <1>3, <1>4
  DEF SoFar, Identified, Late, Early, SupportconfigPhases, HostTold, SearchTold, RealmTold,
      MacTold, DomainTold, Phases

\* The outcomes of a process grow by one at a time.
LEMMA OutcomesGrow ==
    ASSUME NEW s, NEW o, \E S : s \in Seq(S), \A i \in DOMAIN s : Sound(i, s[i]),
           Sound(Len(s) + 1, o)
    PROVE  LET t == Append(s, o)
           IN  t # <<>> /\ (\E S : t \in Seq(S)) /\ \A i \in DOMAIN t : Sound(i, t[i])
<1>1. PICK S : s \in Seq(S)
  OBVIOUS
<1>2. s \in Seq(S \cup {o})
  BY <1>1, SeqMonotonic
<1>3. /\ Append(s, o) \in Seq(S \cup {o}) /\ DOMAIN s = 1..Len(s) /\ Len(s) \in Nat
      /\ DOMAIN Append(s, o) = 1..(Len(s) + 1)
      /\ \A i \in 1..Len(s) : Append(s, o)[i] = s[i]
      /\ Append(s, o)[Len(s) + 1] = o
  BY <1>2, AppendProperties, LenProperties
<1>4. ASSUME NEW i \in DOMAIN Append(s, o) PROVE Sound(i, Append(s, o)[i])
  <2>1. CASE i \in 1..Len(s)
    BY <1>3, <2>1
  <2>2. CASE i = Len(s) + 1
    BY <1>3, <2>2
  <2> QED
    BY <1>3, <2>1, <2>2
<1>5. Append(s, o) # <<>>
  BY <1>3
<1> QED
  BY <1>3, <1>4, <1>5

\* The identity fields of a report are those of its folder, see Identified.
Named(r, f) ==
    /\ r.host = f.host /\ r.search = f.search /\ r.realm = f.realm
    /\ r.adDomain = IF ~f.raw /\ f.conf THEN Folded(f.adDomain) ELSE None

LEMMA KnownAreNames ==
    ASSUME NEW f \in Folders, NEW r, Named(r, f)
    PROVE  KnownNames(r, f) \subseteq Names
<1>1. /\ {r.host, r.search, r.realm, r.adDomain} \subseteq Names \cup {None}
      /\ HostKnown(r, f) \in Names \cup {None} /\ Tokens(r, f) \subseteq Names
  BY FolderNames DEF Named, Folded, HostKnown, Tokens, Given
<1>2. \A n \in Names : AsGiven(n) \subseteq Names /\ Lower[n] \in Names /\ Upper[n] \in Names
  BY DEF AsGiven, Spellings
<1>3. \A host, domains, realm, tokens \in SUBSET Names :
         LookedFor(host, domains, realm, tokens) \subseteq Names
  BY <1>2 DEF LookedFor
<1> QED
  BY <1>1, <1>3 DEF KnownNames, Given

\* What is to be hidden is looked for.
LEMMA HiddenAreKnown ==
    ASSUME NEW f \in Folders, NEW r, Named(r, f)
    PROVE  HiddenSpellings(f) \subseteq KnownNames(r, f)
<1> DEFINE host == IF f.host = None /\ ~f.raw THEN f.node ELSE f.host
           domains == {f.search} \cup (IF f.conf /\ ~f.raw THEN {Folded(f.adDomain)} ELSE {})
           tokens == IF f.raw THEN {host, f.search, f.realm} \cup f.others ELSE {}
           known == KnownNames(r, f)
<1>1. host = HostKnown(r, f) /\ tokens \ {None} = Tokens(r, f)
  <2>1. host = HostKnown(r, f)
    BY DEF Named, HostKnown
  <2>2. None \notin f.others
    BY FolderNames DEF Values
  <2>3. CASE f.raw
    BY <2>1, <2>2, <2>3 DEF Named, Tokens, Given
  <2>4. CASE ~f.raw
    BY <2>1, <2>4 DEF Tokens
  <2> QED
    BY <2>1, <2>3, <2>4
<1>2. domains \ {None} = Given(r.search) \cup Given(r.adDomain)
  BY DEF Named, Given
<1>3. known = LookedFor({host} \ {None}, domains \ {None}, {f.realm} \ {None}, tokens \ {None})
  BY <1>1, <1>2 DEF KnownNames, Given, Named
<1>4. HiddenSpellings(f) =
        (({host, f.realm} \cup domains \cup tokens) \ {None})
        \cup {Upper[n] : n \in (domains \cup tokens) \ {None}}
        \cup {Lower[n] : n \in ({f.realm} \cup tokens) \ {None}}
        \cup {v \in Names : \E n \in ({host} \cup tokens) \cap Labels : Lower[v] = Lower[n]}
  BY DEF HiddenSpellings
<1>5. {host} \cup tokens \subseteq Names \cup {None}
  BY FolderNames
<1> HIDE DEF host, domains, tokens, known
<1>6. \A n \in Names : n \in AsGiven(n)
  BY DEF AsGiven, Spellings
<1>7. ({host, f.realm} \cup domains \cup tokens) \ {None} \subseteq known
  BY <1>3, <1>5, <1>6 DEF LookedFor
<1>8. {Upper[n] : n \in (domains \cup tokens) \ {None}} \subseteq known
  BY <1>3 DEF LookedFor
<1>9. {Lower[n] : n \in ({f.realm} \cup tokens) \ {None}} \subseteq known
  BY <1>3 DEF LookedFor
<1>10. ASSUME NEW v \in Names, NEW n \in ({host} \cup tokens) \cap Labels, Lower[v] = Lower[n]
       PROVE  v \in known
  <2>1. v \in AsGiven(n)
    BY <1>10 DEF AsGiven, Spellings
  <2>2. n # None
    BY DEF Values
  <2> QED
    BY <1>3, <2>1, <2>2 DEF LookedFor
<1> QED
  BY <1>4, <1>7, <1>8, <1>9, <1>10 DEF known

\* A finished report has a graph of its own and, if asked, no name of the host.
LEMMA FinalizedIsSound ==
    ASSUME IInv, phase = "finalize", NEW i \in Nat, i = 1 <=> past = <<>>
    PROVE  Sound(i, [folder |-> folder, anonymize |-> anonymize, complete |-> TRUE,
                     report |-> Finalized(report, folder, anonymize)])
<1> DEFINE g == WithGraph(report)
           r == Finalized(report, folder, anonymize)
<1>1. SoFar("finalize", folder, report, past = <<>>) /\ folder \in Folders
  BY DEF IInv, Phases
<1>2. Alike(g, report, {"graph"})
  BY <1>1 DEF WithGraph, SoFar, Alike, Fields
<1>3. WellFormed(g.graph)
  <2>1. g.graph = BuildGraph(IdentityEntities(report), report.findings, Signals(report),
                             IdentityPairs(report))
    BY <1>1 DEF WithGraph, SoFar, Fields
  <2>2. Len(report.findings) \in Nat /\ DOMAIN report.findings = 1..Len(report.findings)
    BY <1>1, LenProperties DEF SoFar
  <2> QED
    BY <2>1, <2>2, BuiltIsWellFormed
<1> HIDE DEF g
<1>4. DOMAIN g = Fields /\ g.findings \in Seq(Entry) /\ New(g)
  BY <1>1, <1>2 DEF SoFar, Alike, Fields, New
<1>5. Named(g, folder)
  BY <1>1, <1>2
  DEF Named, SoFar, Identified, Alike, Fields, HostTold, SearchTold, RealmTold, DomainTold, Late, Phases
<1>6. past = <<>> \/ folder.raw => g.matched = RightMatches(folder)
  BY <1>1, <1>2 DEF SoFar, Alike, Fields, Late
<1>7. r = IF anonymize THEN Anonymized(g, folder) ELSE g
  BY DEF Finalized, g
<1>8. WellFormed(r.graph) /\ New(r) /\ r.matched = g.matched
  BY <1>3, <1>4, <1>7, AnonymizedKeeps
<1>9. ASSUME anonymize PROVE NamesShown(r) \cap HiddenSpellings(folder) = {}
  <2>1. KnownNames(g, folder) \subseteq Names
    BY <1>1, <1>5, KnownAreNames
  <2>2. HiddenSpellings(folder) \subseteq KnownNames(g, folder)
    BY <1>1, <1>5, HiddenAreKnown
  <2>3. NamesShown(Anonymized(g, folder)) \cap KnownNames(g, folder) = {}
    BY <1>1, <1>4, <2>1, AnonymizedHides
  <2> QED
    BY <1>7, <1>9, <2>2, <2>3
<1> HIDE DEF r
<1>10. Sound(i, [folder |-> folder, anonymize |-> anonymize, complete |-> TRUE, report |-> r])
  BY <1>6, <1>8, <1>9 DEF Sound
<1> QED
  BY <1>10 DEF r

LEMMA ReturnsAreSound ==
    ASSUME IInv, ReturnPartial \/ FinalizePhase
    PROVE  /\ past' # <<>> /\ \E S : past' \in Seq(S)
           /\ \A i \in DOMAIN past' : Sound(i, past'[i])
<1>1. (\E S : past \in Seq(S)) /\ \A i \in DOMAIN past : Sound(i, past[i])
  BY DEF IInv
<1>2. Len(past) \in Nat /\ (Len(past) + 1 = 1 <=> past = <<>>)
  <2>1. PICK S : past \in Seq(S)
    BY <1>1
  <2> QED
    BY <2>1, EmptySeq, LenProperties
<1>3. CASE ReturnPartial
  <2> DEFINE o == [folder |-> folder, anonymize |-> anonymize, complete |-> FALSE,
                   report |-> report]
  <2>1. past' = Append(past, o) /\ phase \in Phases
    BY <1>3 DEF ReturnPartial, Return
  <2>2. WellFormed(report.graph) /\ New(report)
    BY <2>1, NothingIsWellFormed DEF IInv, SoFar
  <2>3. Sound(Len(past) + 1, o)
    BY <2>2 DEF Sound
  <2> HIDE DEF o
  <2> QED
    BY <1>1, <2>1, <2>3, OutcomesGrow
<1>4. CASE FinalizePhase
  <2> DEFINE o == [folder |-> folder, anonymize |-> anonymize, complete |-> TRUE,
                   report |-> Finalized(report, folder, anonymize)]
  <2>1. past' = Append(past, o) /\ phase = "finalize"
    BY <1>4 DEF FinalizePhase, Return
  <2> DEFINE n == Len(past) + 1
  <2>2. n \in Nat /\ (n = 1 <=> past = <<>>)
    BY <1>2
  <2> HIDE DEF n
  <2>3. Sound(n, o)
    BY <2>1, <2>2, FinalizedIsSound
  <2> HIDE DEF o
  <2>4. Sound(Len(past) + 1, o)
    BY <2>3 DEF n
  <2> QED
    BY <1>1, <2>1, <2>4, OutcomesGrow
<1> QED
  BY <1>3, <1>4

\* The invariant holds of every analysis of the process.
THEOREM InvariantHolds == Spec => []IInv
<1>1. Init => IInv
  <2>1. <<>> \in Seq({})
    OBVIOUS
  <2> QED
    BY <2>1 DEF Init, IInv, Matchers, NoMatchers, Phases
<1>2. IInv /\ [Next]_vars => IInv'
  <2> SUFFICES ASSUME IInv, [Next]_vars PROVE IInv'
    OBVIOUS
  <2> USE DEF IInv, Matchers
  <2>1. CASE UNCHANGED vars
    BY <2>1 DEF vars, SoFar, Identified, New, Sound
  <2>2. ASSUME NEW f \in Folders, Begin(f) PROVE IInv'
    <3>1. SoFar(phase', folder', report', past' = <<>>)
      BY <2>2, BeginStartsSoFar
    <3>2. /\ phase = "idle" /\ phase' \in Phases /\ folder' \in Folders
          /\ UNCHANGED <<matchers, past>>
      BY <2>2 DEF Begin, Phases
    <3> QED
      BY <3>1, <3>2
  <2>3. CASE Cancel
    BY <2>3 DEF Cancel
  <2>4. CASE ReturnPartial \/ FinalizePhase
    <3>1. phase' = "idle" /\ UNCHANGED <<folder, matchers>>
      BY <2>4 DEF ReturnPartial, FinalizePhase, Return
    <3>2. /\ past' # <<>> /\ \E S : past' \in Seq(S)
          /\ \A i \in DOMAIN past' : Sound(i, past'[i])
      BY <2>4, ReturnsAreSound
    <3> QED
      BY <3>1, <3>2 DEF Phases
  <2>5. CASE \/ SystemPhase \/ NetworkPhase \/ EnvironmentPhase \/ ScanPhase \/ KerberosPhase
             \/ HarvestPhase
    <3>1. SoFar(phase', folder', report', past' = <<>>)
      BY <2>5, PhasesKeepSoFar
    <3>2. /\ phase \in Early /\ phase' \in Phases /\ UNCHANGED <<folder, matchers, past>>
      BY <2>5 DEF SystemPhase, NetworkPhase, EnvironmentPhase, ScanPhase, KerberosPhase,
                  HarvestPhase, Run, Early, SupportconfigPhases, Phases
    <3> QED
      BY <3>1, <3>2
  <2>6. CASE ConfigPhase
    <3>1. SoFar(phase', folder', report', past' = <<>>)
      BY <2>6, ConfigKeepsSoFar
    <3>2. phase \in Early /\ phase' \in Phases /\ UNCHANGED <<folder, matchers, past>>
      BY <2>6 DEF ConfigPhase, Run, Early, SupportconfigPhases, Phases
    <3> QED
      BY <3>1, <3>2
  <2>7. CASE MatchPhase \/ LogScanPhase
    <3>1. SoFar(phase', folder', report', past' = <<>>) /\ DOMAIN matchers' = SUBSET Patterns
      BY <2>7, MatchingKeepsSoFar
    <3>2. phase' = "advanced" /\ UNCHANGED <<folder, past>>
      BY <2>7 DEF MatchPhase, LogScanPhase, MatchInto, Run
    <3> QED
      BY <3>1, <3>2 DEF Phases, Early, SupportconfigPhases
  <2>8. CASE AdvancedPhase \/ RulesPhase \/ SequencesPhase \/ SummaryPhase
    <3>1. SoFar(phase', folder', report', past' = <<>>)
      BY <2>8, LatePhasesKeepSoFar
    <3>2. phase' \in Late /\ UNCHANGED <<folder, matchers, past>>
      BY <2>8 DEF AdvancedPhase, RulesPhase, SequencesPhase, SummaryPhase, Run, Late
    <3> QED
      BY <3>1, <3>2 DEF Late, Phases, Early, SupportconfigPhases
  <2> QED
    BY <2>1, <2>2, <2>3, <2>4, <2>5, <2>6, <2>7, <2>8 DEF Next
<1> QED
  BY <1>1, <1>2, PTL DEF Spec

-----------------------------------------------------------------------------
(* The theorems on what is matched, suggested, linked and masked.              *)

\* Every edge of a graph that is returned joins two of its nodes, and its entities are
\* keyed by what they say, also after anonymizeReport rewrote the identifiers.
THEOREM GraphsAreWellFormed == Spec => []GraphIsWellFormed
<1>1. IInv => GraphIsWellFormed
  BY DEF IInv, Sound, GraphIsWellFormed
<1> QED
  BY <1>1, InvariantHolds, PTL

\* analyzeKBSuggestions never suggests an article that matched, whatever is similar.
THEOREM SuggestionsAddInformation == Spec => []SuggestionsAreNew
<1>1. IInv => SuggestionsAreNew
  BY DEF IInv, Sound, New, SuggestionsAreNew
<1> QED
  BY <1>1, InvariantHolds, PTL

\* No name by which a folder identifies its host is left in a report that
\* anonymizeReport rewrote, in a spelling that it looks for: as it is stored and in the
\* other cases that maskString replaces; not in a field, a text or an entity of the graph.
THEOREM AnonymizedReportsHideIdentity == Spec => []MaskedReportHidesIdentity
<1>1. IInv => MaskedReportHidesIdentity
  BY DEF IInv, Sound, MaskedReportHidesIdentity, Completed
<1> QED
  BY <1>1, InvariantHolds, PTL

\* With no automaton compiled before, or without sssd.conf, matchKBArticlesWithEvidence
\* matches the articles the folder calls for, in whatever order the Go map yields.
THEOREM FirstVerdictsAreRight == Spec => []VerdictsAreRight
<1>1. IInv => VerdictsAreRight
  BY DEF IInv, Sound, VerdictsAreRight, Completed
<1> QED
  BY <1>1, InvariantHolds, PTL

-----------------------------------------------------------------------------
(* What a folder comes to.  A report under construction is determined by the *)
(* folder, but for the articles matched and suggested.                       *)

Free == {"matched", "suggested", "graph"}
Agree(q, r) == DOMAIN q = Fields /\ Alike(q, r, Free)

Concluded(r, f) == Hinted(Summarized(r), f)

AtScan(f) == EnvironmentRead(NetworkRead(SystemRead(EmptyReport, f), f), f)
AtConfig(f) == RealmRead(AtScan(f), f)
AtMatch(f) == ConfigRead(AtConfig(f), f)
AtAdvanced(f) == IF f.raw THEN Scanned(Harvested(EmptyReport, f), f) ELSE AtMatch(f)
AtRules(f) == Advanced(AtAdvanced(f), f)
AtSequences(f) == WithFindings(AtRules(f), f.rules)
AtSummary(f) == WithFindings(AtSequences(f), f.chains)
AtFinalize(f) == Concluded(AtSummary(f), f)

\* The report when phase p is next.
Expected(p, f) ==
    CASE p \in {"system", "harvest"} -> EmptyReport
      [] p = "network" -> SystemRead(EmptyReport, f)
      [] p = "environment" -> NetworkRead(SystemRead(EmptyReport, f), f)
      [] p \in {"scan", "kerberos"} -> AtScan(f)
      [] p = "config" -> AtConfig(f)
      [] p = "match" -> AtMatch(f)
      [] p = "logscan" -> Harvested(EmptyReport, f)
      [] p = "advanced" -> AtAdvanced(f)
      [] p = "rules" -> AtRules(f)
      [] p = "sequences" -> AtSequences(f)
      [] p = "summary" -> AtSummary(f)
      [] p = "finalize" -> AtFinalize(f)

LEMMA NotedAgrees ==
    ASSUME NEW q, NEW r, NEW p, NEW f, Agree(q, r)
    PROVE  Agree(Noted(q, p, f), Noted(r, p, f))
  BY DEF Agree, Alike, Noted, Fields, Free

LEMMA WithProblemsAgree ==
    ASSUME NEW q, NEW r, NEW texts, Agree(q, r)
    PROVE  Agree(WithProblems(q, texts), WithProblems(r, texts))
  BY DEF Agree, Alike, WithProblems, Fields, Free

LEMMA WithFindingsAgree ==
    ASSUME NEW q, NEW r, NEW fs, Agree(q, r)
    PROVE  Agree(WithFindings(q, fs), WithFindings(r, fs))
<1> DEFINE problems == TextsOf(fs, SevereLevels)
           warnings == TextsOf(fs, MildLevels)
<1>1. /\ WithFindings(q, fs) = [q EXCEPT !.findings = q.findings \o fs,
                                          !.problems = q.problems \o problems,
                                          !.warnings = q.warnings \o warnings]
      /\ WithFindings(r, fs) = [r EXCEPT !.findings = r.findings \o fs,
                                          !.problems = r.problems \o problems,
                                          !.warnings = r.warnings \o warnings]
  BY DEF WithFindings
<1>2. q.findings = r.findings /\ q.problems = r.problems /\ q.warnings = r.warnings
  BY DEF Agree, Alike, Fields, Free
<1> DEFINE a == r.findings \o fs
           b == r.problems \o problems
           c == r.warnings \o warnings
<1>3. /\ WithFindings(q, fs) = [q EXCEPT !.findings = a, !.problems = b, !.warnings = c]
      /\ WithFindings(r, fs) = [r EXCEPT !.findings = a, !.problems = b, !.warnings = c]
  BY <1>1, <1>2
<1> HIDE DEF a, b, c
<1> QED
  BY <1>3 DEF Agree, Alike, Fields, Free

LEMMA ReadsAgree ==
    ASSUME NEW q, NEW r, NEW f, Agree(q, r)
    PROVE  /\ Agree(SystemRead(q, f), SystemRead(r, f))
           /\ Agree(NetworkRead(q, f), NetworkRead(r, f))
           /\ Agree(EnvironmentRead(q, f), EnvironmentRead(r, f))
           /\ Agree(Harvested(q, f), Harvested(r, f))
           /\ Agree(Advanced(q, f), Advanced(r, f))
<1>1. Agree(SystemRead(q, f), SystemRead(r, f))
  BY NotedAgrees DEF SystemRead, Agree, Alike, Fields, Free
<1>2. Agree(NetworkRead(q, f), NetworkRead(r, f))
  BY NotedAgrees DEF NetworkRead, Agree, Alike, Fields, Free
<1>3. Agree(EnvironmentRead(q, f), EnvironmentRead(r, f))
  BY NotedAgrees DEF EnvironmentRead, Agree, Alike, Fields, Free
<1>4. Agree(Harvested(q, f), Harvested(r, f))
  BY DEF Harvested, Agree, Alike, Fields, Free
<1>5. Agree(Advanced(q, f), Advanced(r, f))
  BY DEF Advanced, Agree, Alike, Fields, Free
<1> QED
  BY <1>1, <1>2, <1>3, <1>4, <1>5

LEMMA ScannedAgrees ==
    ASSUME NEW q, NEW r, NEW f, Agree(q, r)
    PROVE  Agree(Scanned(q, f), Scanned(r, f))
<1> DEFINE S(x) == [Noted(x, "scan", f) EXCEPT !.errors = f.errors, !.quotes = f.quotes]
           texts == IF "missing" \in f.keytab THEN <<Say("keytab missing")>>
                    ELSE When("noprincipal" \in f.keytab, Say("no suitable principal"))
<1>1. Agree(S(q), S(r))
  <2> DEFINE n(x) == Noted(x, "scan", f)
  <2>1. Agree(n(q), n(r))
    BY NotedAgrees
  <2> HIDE DEF n
  <2>2. Agree([n(q) EXCEPT !.errors = f.errors, !.quotes = f.quotes],
              [n(r) EXCEPT !.errors = f.errors, !.quotes = f.quotes])
    BY <2>1 DEF Agree, Alike, Fields, Free
  <2> QED
    BY <2>2 DEF n
<1>2. Scanned(q, f) = WithProblems(S(q), texts) /\ Scanned(r, f) = WithProblems(S(r), texts)
  BY DEF Scanned
<1> HIDE DEF S, texts
<1> QED
  BY <1>1, <1>2, WithProblemsAgree

LEMMA RealmReadAgrees ==
    ASSUME NEW q, NEW r, NEW f, Agree(q, r)
    PROVE  Agree(RealmRead(q, f), RealmRead(r, f))
<1> DEFINE S(x) == [Noted(Scanned(x, f), "kerberos", f) EXCEPT !.realm = f.realm]
           texts == When(f.keytab = {}, Say("no keytab principal"))
<1>1. Agree(Noted(Scanned(q, f), "kerberos", f), Noted(Scanned(r, f), "kerberos", f))
  BY ScannedAgrees, NotedAgrees
<1>2. Agree(S(q), S(r))
  BY <1>1 DEF Agree, Alike, Fields, Free
<1>3. RealmRead(q, f) = WithProblems(S(q), texts) /\ RealmRead(r, f) = WithProblems(S(r), texts)
  BY DEF RealmRead
<1> HIDE DEF S, texts
<1> QED
  BY <1>2, <1>3, WithProblemsAgree

LEMMA CrossChecksAgree ==
    ASSUME NEW q, NEW r, Agree(q, r)
    PROVE  CrossChecks(q) = CrossChecks(r)
<1>1. /\ q.ad = r.ad /\ q.realm = r.realm /\ q.search = r.search /\ q.host = r.host
      /\ q.adDomain = r.adDomain
  BY DEF Agree, Alike, Fields, Free
<1>2. CanonicalDomain(q) = CanonicalDomain(r)
  BY <1>1 DEF CanonicalDomain
<1> QED
  BY <1>1, <1>2 DEF CrossChecks

LEMMA ConfigReadAgrees ==
    ASSUME NEW q, NEW r, NEW f, Agree(q, r)
    PROVE  Agree(ConfigRead(q, f), ConfigRead(r, f))
<1>1. Agree(Configured(q, f), Configured(r, f))
  <2>1. CASE f.conf
    <3> DEFINE S(x) == [x EXCEPT !.conf = TRUE, !.ad = f.ad, !.adDomain = Folded(f.adDomain)]
    <3>1. Agree(S(q), S(r))
      BY DEF Agree, Alike, Fields, Free
    <3>2. \A x : Configured(x, f) = WithFindings(S(x), f.checks)
      BY <2>1 DEF Configured
    <3> HIDE DEF S
    <3> QED
      BY <3>1, <3>2, WithFindingsAgree
  <2>2. CASE ~f.conf
    <3> DEFINE texts == <<Say("sssd.conf not found")>>
    <3>1. /\ Configured(q, f) = WithProblems(q, texts)
          /\ Configured(r, f) = WithProblems(r, texts)
      BY <2>2 DEF Configured
    <3> HIDE DEF texts
    <3> QED
      BY <3>1, WithProblemsAgree
  <2> QED
    BY <2>1, <2>2
<1>2. Agree(ServiceChecked(q, f), ServiceChecked(r, f))
  BY <1>1, WithProblemsAgree DEF ServiceChecked
<1>3. CrossChecks(ServiceChecked(q, f)) = CrossChecks(ServiceChecked(r, f))
  BY <1>2, CrossChecksAgree
<1>4. Agree(ConfiguredAndCorrelated(q, f), ConfiguredAndCorrelated(r, f))
  BY <1>2, <1>3, WithFindingsAgree DEF ConfiguredAndCorrelated
<1> QED
  BY <1>4, NotedAgrees DEF ConfigRead

LEMMA SummaryAgrees ==
    ASSUME NEW q, NEW r, q.findings = r.findings, q.problems = r.problems,
           q.warnings = r.warnings, q.errors = r.errors
    PROVE  Summary(q) = Summary(r)
<1>1. HasRoot(q) = HasRoot(r)
  BY DEF HasRoot
<1>2. RootCause(q) = RootCause(r)
  BY <1>1 DEF RootCause
<1>3. \A critical, error : Headline(q, critical, error) = Headline(r, critical, error)
  BY <1>1 DEF Headline
<1> QED
  BY <1>2, <1>3 DEF Summary

LEMMA ConcludedAgrees ==
    ASSUME NEW q, NEW r, NEW f, Agree(q, r)
    PROVE  Agree(Concluded(q, f), Concluded(r, f))
<1> DEFINE S(x) == [x EXCEPT !.problems = Deduplicated(@), !.warnings = Deduplicated(@)]
<1>1. Agree(S(q), S(r))
  BY DEF Agree, Alike, Fields, Free
<1>2. \A x : Summarized(x) = [S(x) EXCEPT !.summary = Summary(S(x))]
  BY DEF Summarized
<1> HIDE DEF S
<1>3. Summary(S(q)) = Summary(S(r))
  <2>1. /\ S(q).findings = S(r).findings /\ S(q).problems = S(r).problems
        /\ S(q).warnings = S(r).warnings /\ S(q).errors = S(r).errors
    BY <1>1 DEF Agree, Alike, Fields, Free
  <2> QED
    BY <2>1, SummaryAgrees
<1>4. Agree(Summarized(q), Summarized(r))
  BY <1>1, <1>2, <1>3 DEF Agree, Alike, Fields, Free
<1>5. ASSUME NEW x, NEW y, Agree(x, y) PROVE Agree(Hinted(x, f), Hinted(y, f))
  <2>1. x.problems = y.problems /\ x.errors = y.errors /\ x.conf = y.conf
    BY <1>5 DEF Agree, Alike, Fields, Free
  <2> DEFINE hint == When((x.problems # <<>> \/ x.errors # {}) /\ ~f.raw /\ x.conf /\ ~f.debug9,
                          DebugHint)
  <2>2. /\ Hinted(x, f) = [x EXCEPT !.warnings = x.warnings \o hint]
        /\ Hinted(y, f) = [y EXCEPT !.warnings = y.warnings \o hint]
    BY <2>1 DEF Hinted
  <2> HIDE DEF hint
  <2> DEFINE a == x.warnings \o hint
  <2>3. x.warnings = y.warnings
    BY <1>5 DEF Agree, Alike, Fields, Free
  <2>4. Hinted(x, f) = [x EXCEPT !.warnings = a] /\ Hinted(y, f) = [y EXCEPT !.warnings = a]
    BY <2>2, <2>3
  <2> HIDE DEF a
  <2> QED
    BY <1>5, <2>4 DEF Agree, Alike, Fields, Free
<1> QED
  BY <1>4, <1>5 DEF Concluded

-----------------------------------------------------------------------------
(* Sequences of texts.                                                       *)

IsSequence(s) == \E S : s \in Seq(S)

\* deduplicateProblems keeps a sequence of the same kind.
LEMMA DeduplicatedType ==
    ASSUME NEW S, NEW s \in Seq(S)
    PROVE  Deduplicated(s) \in Seq(S)
<1> DEFINE N == Len(s)
           V == Seq(S)
           Kept(n, k) == IF s[n] \in InRange(k) THEN k ELSE Append(k, s[n])
           step == [n \in 1..N |-> [k \in V |-> Kept(n, k)]]
           Body(g) == [n \in 0..N |-> IF n = 0 THEN <<>> ELSE Kept(n, g[n - 1])]
<1>1. N \in Nat /\ <<>> \in V /\ \A n \in 1..N : s[n] \in S
  OBVIOUS
<1>2. \A n \in 1..N : \A k \in V : Kept(n, k) \in V
  BY <1>1
<1>3. Deduplicated(s) = (CHOOSE g : g = Body(g))[N]
  BY DEF Deduplicated
<1> HIDE DEF N, V, Kept
<1>4. step \in [1..N -> [V -> V]] /\ \A n \in 1..N : \A k \in V : step[n][k] = Kept(n, k)
  BY <1>2
<1> HIDE DEF step
<1>5. PICK f : Follows(f, N, V, <<>>, step)
  BY <1>1, <1>4, RecursionExists
<1>6. f = Body(f)
  <2>1. \A n \in 1..N : n - 1 \in 0..N
    BY <1>1
  <2>2. f \in [0..N -> V] /\ f[0] = <<>> /\ \A n \in 1..N : f[n] = step[n][f[n - 1]]
    BY <1>5 DEF Follows
  <2>3. \A n \in 1..N : f[n] = Kept(n, f[n - 1])
    BY <1>4, <2>1, <2>2
  <2> QED
    BY <1>1, <2>2, <2>3
<1>7. PICK g : g = Body(g) /\ Deduplicated(s) = g[N]
  BY <1>3, <1>6
<1> DEFINE T == {n \in 0..N : g[n] \in V}
<1>8. 0 \in T
  BY <1>1, <1>7
<1>9. ASSUME NEW n \in 1..N, n - 1 \in T PROVE n \in T
  <2>1. n \in 0..N /\ n # 0
    BY <1>1
  <2>2. g[n] = Kept(n, g[n - 1])
    BY <1>7, <2>1
  <2> QED
    BY <1>2, <1>9, <2>1, <2>2
<1> HIDE DEF T
<1>10. \A n \in 0..N : n \in T
  <2>1. \A n \in 1..N : n - 1 \in T => n \in T
    BY <1>9
  <2>2. N \in Nat
    BY <1>1
  <2> QED
    BY <1>8, <2>1, <2>2, Induction
<1>11. N \in T
  BY <1>1, <1>10
<1> QED
  BY <1>7, <1>11 DEF T, V

LEMMA TextsType ==
    ASSUME NEW fs \in Seq(Entry), NEW levels
    PROVE  IsSequence(TextsOf(fs, levels))
<1> DEFINE N == Len(fs)
           S == {x.text : x \in Entry}
           V == Seq(S)
           Told(n, t) == IF fs[n].level \in levels THEN Append(t, fs[n].text) ELSE t
           step == [n \in 1..N |-> [t \in V |-> Told(n, t)]]
           Body(g) == [n \in 0..N |-> IF n = 0 THEN <<>> ELSE Told(n, g[n - 1])]
<1>1. N \in Nat /\ <<>> \in V /\ \A n \in 1..N : fs[n] \in Entry
  OBVIOUS
<1>2. \A n \in 1..N : \A t \in V : Told(n, t) \in V
  <2>1. \A n \in 1..N : fs[n].text \in S
    BY <1>1
  <2> HIDE DEF S
  <2> QED
    BY <2>1
<1>3. TextsOf(fs, levels) = (CHOOSE g : g = Body(g))[N]
  BY DEF TextsOf
<1> HIDE DEF N, V, Told
<1>4. step \in [1..N -> [V -> V]] /\ \A n \in 1..N : \A t \in V : step[n][t] = Told(n, t)
  BY <1>2
<1> HIDE DEF step
<1>5. PICK f : Follows(f, N, V, <<>>, step)
  BY <1>1, <1>4, RecursionExists
<1>6. f = Body(f)
  <2>1. \A n \in 1..N : n - 1 \in 0..N
    BY <1>1
  <2>2. f \in [0..N -> V] /\ f[0] = <<>> /\ \A n \in 1..N : f[n] = step[n][f[n - 1]]
    BY <1>5 DEF Follows
  <2>3. \A n \in 1..N : f[n] = Told(n, f[n - 1])
    BY <1>4, <2>1, <2>2
  <2> QED
    BY <1>1, <2>2, <2>3
<1>7. PICK g : g = Body(g) /\ TextsOf(fs, levels) = g[N]
  BY <1>3, <1>6
<1> DEFINE T == {n \in 0..N : g[n] \in V}
<1>8. 0 \in T
  BY <1>1, <1>7
<1>9. ASSUME NEW n \in 1..N, n - 1 \in T PROVE n \in T
  <2>1. n \in 0..N /\ n # 0
    BY <1>1
  <2>2. g[n] = Told(n, g[n - 1])
    BY <1>7, <2>1
  <2> QED
    BY <1>2, <1>9, <2>1, <2>2
<1> HIDE DEF T
<1>10. \A n \in 0..N : n \in T
  <2>1. \A n \in 1..N : n - 1 \in T => n \in T
    BY <1>9
  <2>2. N \in Nat
    BY <1>1
  <2> QED
    BY <1>8, <2>1, <2>2, Induction
<1>11. N \in T
  BY <1>1, <1>10
<1> QED
  BY <1>7, <1>11 DEF T, V, IsSequence

\* What is appended is added to what was said.
LEMMA LongerSequence ==
    ASSUME NEW s, NEW t, IsSequence(s), IsSequence(t)
    PROVE  IsSequence(s \o t) /\ InRange(s \o t) = InRange(s) \cup InRange(t)
<1>1. PICK S, T : s \in Seq(S) /\ t \in Seq(T)
  BY DEF IsSequence
<1>2. s \in Seq(S \cup T) /\ t \in Seq(S \cup T)
  BY <1>1, SeqMonotonic
<1>3. s \o t \in Seq(S \cup T)
  BY <1>2
<1>4. /\ DOMAIN s = 1..Len(s) /\ DOMAIN t = 1..Len(t) /\ Len(s) \in Nat /\ Len(t) \in Nat
      /\ DOMAIN (s \o t) = 1..(Len(s) + Len(t))
      /\ \A i \in 1..(Len(s) + Len(t)) : (s \o t)[i] = IF i <= Len(s) THEN s[i] ELSE t[i - Len(s)]
  BY <1>2
<1>5. ASSUME NEW i \in DOMAIN (s \o t) PROVE (s \o t)[i] \in InRange(s) \cup InRange(t)
  <2>1. CASE i <= Len(s)
    BY <1>4, <2>1 DEF InRange
  <2>2. CASE ~(i <= Len(s))
    <3>1. i - Len(s) \in DOMAIN t
      BY <1>4, <2>2
    <3> QED
      BY <1>4, <2>2, <3>1 DEF InRange
  <2> QED
    BY <2>1, <2>2
<1>6. ASSUME NEW i \in DOMAIN s PROVE s[i] \in InRange(s \o t)
  BY <1>4 DEF InRange
<1>7. ASSUME NEW i \in DOMAIN t PROVE t[i] \in InRange(s \o t)
  <2>1. /\ Len(s) + i \in DOMAIN (s \o t) /\ ~(Len(s) + i <= Len(s))
        /\ (Len(s) + i) - Len(s) = i
    BY <1>4
  <2>2. (s \o t)[Len(s) + i] = t[i]
    BY <1>4, <2>1
  <2> QED
    BY <2>1, <2>2 DEF InRange
<1>8. InRange(s \o t) \subseteq InRange(s) \cup InRange(t)
  BY <1>5 DEF InRange
<1>9. InRange(s) \cup InRange(t) \subseteq InRange(s \o t)
  BY <1>6, <1>7 DEF InRange
<1> QED
  BY <1>3, <1>8, <1>9 DEF IsSequence

-----------------------------------------------------------------------------
(* What the report that a folder comes to is like.                           *)

Sane(r) ==
    /\ DOMAIN r = Fields /\ r.findings \in Seq(Entry)
    /\ IsSequence(r.problems) /\ IsSequence(r.warnings) /\ IsFiniteSet(r.errors)

LEMMA EmptyIsSane == Sane(EmptyReport)
<1>1. <<>> \in Seq({}) /\ <<>> \in Seq(Entry)
  OBVIOUS
<1>2. IsSequence(<<>>)
  BY <1>1 DEF IsSequence
<1>3. IsFiniteSet({})
  BY FS_EmptySet
<1> QED
  BY <1>1, <1>2, <1>3 DEF Sane, EmptyReport, Fields

LEMMA NotesAreSequences ==
    ASSUME NEW f \in Folders, NEW p \in Phases
    PROVE  IsSequence(f.notes[p].problems) /\ IsSequence(f.notes[p].warnings)
<1>1. f.notes \in [Phases -> Notes]
  BY DEF Folder
<1>2. f.notes[p] \in Notes
  BY <1>1
<1>3. f.notes[p].problems \in Seq(Text) /\ f.notes[p].warnings \in Seq(Text)
  BY <1>2 DEF Notes
<1> QED
  BY <1>3 DEF IsSequence

LEMMA NotedIsSane ==
    ASSUME NEW f \in Folders, NEW p \in Phases, NEW r, Sane(r)
    PROVE  Sane(Noted(r, p, f))
<1> DEFINE a == r.problems \o f.notes[p].problems
           b == r.warnings \o f.notes[p].warnings
<1>1. IsSequence(a) /\ IsSequence(b)
  BY NotesAreSequences, LongerSequence DEF Sane
<1>2. Noted(r, p, f) = [r EXCEPT !.problems = a, !.warnings = b]
  BY DEF Noted
<1> HIDE DEF a, b
<1> QED
  BY <1>1, <1>2 DEF Sane, Fields

LEMMA WithProblemsIsSane ==
    ASSUME NEW texts, IsSequence(texts), NEW r, Sane(r)
    PROVE  Sane(WithProblems(r, texts))
<1> DEFINE a == r.problems \o texts
<1>1. IsSequence(a)
  BY LongerSequence DEF Sane
<1>2. WithProblems(r, texts) = [r EXCEPT !.problems = a]
  BY DEF WithProblems
<1> HIDE DEF a
<1> QED
  BY <1>1, <1>2 DEF Sane, Fields

LEMMA OneIsSequence == \A entry : IsSequence(<<entry>>)
<1>1. ASSUME NEW entry PROVE IsSequence(<<entry>>)
  <2>1. <<entry>> \in Seq({entry})
    OBVIOUS
  <2> QED
    BY <2>1 DEF IsSequence
<1> QED
  BY <1>1

LEMMA WhenIsSequence == \A condition, entry : IsSequence(When(condition, entry))
<1>1. ASSUME NEW condition, NEW entry PROVE IsSequence(When(condition, entry))
  <2>1. <<entry>> \in Seq({entry}) /\ <<>> \in Seq({entry})
    OBVIOUS
  <2>2. When(condition, entry) \in Seq({entry})
    BY <2>1 DEF When
  <2> QED
    BY <2>2 DEF IsSequence
<1> QED
  BY <1>1

LEMMA WithFindingsIsSane ==
    ASSUME NEW fs \in Seq(Entry), NEW r, Sane(r)
    PROVE  /\ Sane(WithFindings(r, fs))
           /\ InRange(WithFindings(r, fs).findings) = InRange(r.findings) \cup InRange(fs)
<1> DEFINE a == r.findings \o fs
           b == r.problems \o TextsOf(fs, SevereLevels)
           c == r.warnings \o TextsOf(fs, MildLevels)
<1>1. IsSequence(b) /\ IsSequence(c)
  BY TextsType, LongerSequence DEF Sane
<1>2. a \in Seq(Entry) /\ InRange(a) = InRange(r.findings) \cup InRange(fs)
  <2>1. IsSequence(r.findings) /\ IsSequence(fs)
    BY DEF IsSequence, Sane
  <2> QED
    BY <2>1, LongerSequence DEF Sane
<1>3. WithFindings(r, fs) = [r EXCEPT !.findings = a, !.problems = b, !.warnings = c]
  BY DEF WithFindings
<1> HIDE DEF a, b, c
<1> QED
  BY <1>1, <1>2, <1>3 DEF Sane, Fields

LEMMA ScannedIsSane ==
    ASSUME NEW f \in Folders, NEW r, Sane(r)
    PROVE  Sane(Scanned(r, f))
<1> DEFINE n == Noted(r, "scan", f)
           s == [n EXCEPT !.errors = f.errors, !.quotes = f.quotes]
           texts == IF "missing" \in f.keytab THEN <<Say("keytab missing")>>
                    ELSE When("noprincipal" \in f.keytab, Say("no suitable principal"))
<1>1. Sane(n)
  BY NotedIsSane DEF Phases
<1>2. Scanned(r, f) = WithProblems(s, texts)
  BY DEF Scanned
<1>3. IsSequence(texts)
  <2>2. IsSequence(<<Say("keytab missing")>>)
    BY OneIsSequence
  <2>3. IsSequence(When("noprincipal" \in f.keytab, Say("no suitable principal")))
    BY WhenIsSequence
  <2> QED
    BY <2>2, <2>3
<1> HIDE DEF n, texts
<1>4. Sane(s)
  BY <1>1 DEF Sane, Fields
<1> HIDE DEF s
<1> QED
  BY <1>2, <1>3, <1>4, WithProblemsIsSane

\* The sources are read one by one.
LEMMA AtConfigDoes ==
    ASSUME NEW f \in Folders
    PROVE  LET r == AtConfig(f)
           IN  /\ Sane(r) /\ r.findings = <<>>
               /\ {r.host, r.search, r.realm, r.adDomain} \subseteq Names \cup {None}
<1> DEFINE first == SystemRead(EmptyReport, f)
           second == NetworkRead(first, f)
           third == EnvironmentRead(second, f)
           scan == Scanned(third, f)
           heard == Noted(scan, "kerberos", f)
           fourth == [heard EXCEPT !.realm = f.realm]
           texts == When(f.keytab = {}, Say("no keytab principal"))
           Like(r) == Alike(r, EmptyReport, Heard \cup {"host", "search", "realm", "mac",
                                                        "errors", "quotes"})
           Called(r) == {r.host, r.search, r.realm} \subseteq Names \cup {None}
<1>0. /\ "system" \in Phases /\ "network" \in Phases /\ "environment" \in Phases
      /\ "scan" \in Phases /\ "kerberos" \in Phases
  BY DEF Phases
<1>1. Sane(first) /\ Like(first) /\ Called(first)
  <2> DEFINE n == Noted(EmptyReport, "system", f)
  <2>1. Sane(n) /\ Alike(n, EmptyReport, Heard)
    BY <1>0, EmptyIsSane, NotedIsSane, NotedAlike DEF Sane
  <2>2. first = [n EXCEPT !.host = f.host]
    BY DEF SystemRead
  <2> HIDE DEF n
  <2>7. EmptyReport.search = None /\ EmptyReport.realm = None /\ EmptyReport.host = None
    BY DEF EmptyReport
  <2>3. Alike(first, n, {"host"}) /\ first.host = f.host
    BY <2>1, <2>2 DEF Sane, Alike, Fields
  <2>4. Sane(first)
    BY <2>1, <2>3 DEF Sane, Alike, Fields
  <2>5. Like(first)
    BY <2>1, <2>3 DEF Sane, Alike, Fields, Heard
  <2>6. Called(first)
    <3>1. f.host \in Names \cup {None} /\ f.search \in Names \cup {None}
      BY FolderNames
    <3> QED
      BY <3>1, <2>1, <2>3, <2>7 DEF Sane, Alike, Fields, Heard
  <2> QED
    BY <2>4, <2>5, <2>6
<1> HIDE DEF first
<1>2. Sane(second) /\ Like(second) /\ Called(second)
  <2> DEFINE n == Noted(first, "network", f)
  <2>1. Sane(n) /\ Alike(n, first, Heard)
    BY <1>0, <1>1, NotedIsSane, NotedAlike DEF Sane
  <2>2. second = [n EXCEPT !.search = f.search]
    BY DEF NetworkRead
  <2> HIDE DEF n
  <2>3. Alike(second, n, {"search"}) /\ second.search = f.search
    BY <2>1, <2>2 DEF Sane, Alike, Fields
  <2>4. Sane(second)
    BY <2>1, <2>3 DEF Sane, Alike, Fields
  <2>5. Like(second)
    BY <1>1, <2>1, <2>3 DEF Sane, Alike, Fields, Heard
  <2>6. Called(second)
    <3>1. f.host \in Names \cup {None} /\ f.search \in Names \cup {None}
      BY FolderNames
    <3> QED
      BY <3>1, <1>1, <2>1, <2>3 DEF Sane, Alike, Fields, Heard
  <2> QED
    BY <2>4, <2>5, <2>6
<1> HIDE DEF second
<1>3. Sane(third) /\ Like(third) /\ Called(third)
  <2> DEFINE n == Noted(second, "environment", f)
  <2>1. Sane(n) /\ Alike(n, second, Heard)
    BY <1>0, <1>2, NotedIsSane, NotedAlike DEF Sane
  <2>2. third = [n EXCEPT !.mac = f.mac]
    BY DEF EnvironmentRead
  <2> HIDE DEF n
  <2>3. Alike(third, n, {"mac"}) /\ third.mac = f.mac
    BY <2>1, <2>2 DEF Sane, Alike, Fields
  <2>4. Sane(third)
    BY <2>1, <2>3 DEF Sane, Alike, Fields
  <2>5. Like(third)
    BY <1>2, <2>1, <2>3 DEF Sane, Alike, Fields, Heard
  <2>6. Called(third)
    <3>1. f.host \in Names \cup {None} /\ f.search \in Names \cup {None}
      BY FolderNames
    <3> QED
      BY <3>1, <1>2, <2>1, <2>3 DEF Sane, Alike, Fields, Heard
  <2> QED
    BY <2>4, <2>5, <2>6
<1> HIDE DEF third
<1>4. Sane(scan) /\ Like(scan) /\ Called(scan)
  <2>1. Sane(scan) /\ Alike(scan, third, Heard \cup {"errors", "quotes"})
    BY <1>3, ScannedIsSane, ScannedAlike DEF Sane
  <2> HIDE DEF scan
  <2> QED
    BY <1>3, <2>1 DEF Sane, Alike, Fields, Heard
<1> HIDE DEF scan
<1>5. Sane(heard) /\ Like(heard) /\ Called(heard)
  <2>1. Sane(heard) /\ Alike(heard, scan, Heard)
    BY <1>0, <1>4, NotedIsSane, NotedAlike DEF Sane
  <2> HIDE DEF heard
  <2> QED
    BY <1>4, <2>1 DEF Sane, Alike, Fields, Heard
<1> HIDE DEF heard
<1>6. Sane(fourth) /\ Like(fourth) /\ Called(fourth)
  BY <1>5, FolderNames DEF Sane, Alike, Fields, Heard
<1> HIDE DEF fourth, texts
<1>7. AtConfig(f) = WithProblems(fourth, texts)
  BY DEF AtConfig, AtScan, RealmRead, first, second, third, scan, heard, fourth, texts
<1>8. IsSequence(texts)
  BY WhenIsSequence DEF texts
<1> DEFINE last == WithProblems(fourth, texts)
<1>9. Sane(last) /\ Alike(last, fourth, Heard)
  BY <1>6, <1>8, WithProblemsIsSane, WithProblemsAlike DEF Sane
<1> HIDE DEF last
<1>10. Like(last) /\ Called(last)
  BY <1>6, <1>9 DEF Sane, Alike, Fields, Heard
<1>11. last.findings = <<>> /\ last.adDomain = None
  BY <1>9, <1>10 DEF Sane, Alike, Fields, Heard, EmptyReport
<1> QED
  BY <1>7, <1>9, <1>10, <1>11 DEF last

\* No root cause but those of the chains, and the contradictions are those of the fields.
Settled(f, r) ==
    /\ \A x \in InRange(r.findings) : x.root => x \in InRange(f.chains)
    /\ ~f.raw => InRange(CrossChecks(r)) = {x \in InRange(r.findings) : IsCrossCheck(x)}

LEMMA FindingsOfFolder ==
    ASSUME NEW f \in Folders
    PROVE  /\ f.checks \in Seq(Entry) /\ f.rules \in Seq(Entry) /\ f.chains \in Seq(Entry)
           /\ \A x \in InRange(f.checks) \cup InRange(f.rules) :
                 ~x.root /\ ~IsCrossCheck(x)
           /\ \A x \in InRange(f.chains) : ~IsCrossCheck(x)
<1>1. f.checks \in Seq(Plain) /\ f.rules \in Seq(Plain) /\ f.chains \in Seq(Chain)
  BY DEF Folder
<1>2. \A x \in InRange(f.checks) \cup InRange(f.rules) : x \in Plain
  BY <1>1 DEF InRange
<1>3. \A x \in InRange(f.chains) : x \in Chain
  BY <1>1 DEF InRange
<1> QED
  BY <1>1, <1>2, <1>3, EntryType DEF Plain, Chain

LEMMA ContradictionsOf ==
    ASSUME NEW r, {r.host, r.search, r.realm, r.adDomain} \subseteq Names \cup {None}
    PROVE  /\ CrossChecks(r) \in Seq(Entry)
           /\ \A x \in InRange(CrossChecks(r)) : ~x.root /\ IsCrossCheck(x)
<1>1. CrossChecks(r) \in Seq(Contradiction)
  BY CrossChecksType
<1>2. \A x \in InRange(CrossChecks(r)) : x \in Contradiction
  BY <1>1 DEF InRange
<1>3. Seq(Contradiction) \subseteq Seq(Entry)
  BY SeqMonotonic DEF Contradiction
<1> QED
  BY <1>1, <1>2, <1>3 DEF Contradiction

LEMMA SameContradictions ==
    ASSUME NEW q, NEW r, q.ad = r.ad, q.realm = r.realm, q.search = r.search, q.host = r.host,
           q.adDomain = r.adDomain
    PROVE  CrossChecks(q) = CrossChecks(r)
<1>1. CanonicalDomain(q) = CanonicalDomain(r)
  BY DEF CanonicalDomain
<1> QED
  BY <1>1 DEF CrossChecks

\* sssd.conf is read before the sources are compared.
LEMMA ConfiguredIsSane ==
    ASSUME NEW f \in Folders, NEW r, Sane(r), r.findings = <<>>,
           {r.host, r.search, r.realm, r.adDomain} \subseteq Names \cup {None}
    PROVE  LET q == ServiceChecked(r, f)
           IN  /\ Sane(q) /\ InRange(q.findings) \subseteq InRange(f.checks)
               /\ {q.host, q.search, q.realm, q.adDomain} \subseteq Names \cup {None}
<1> DEFINE Called(x) == {x.host, x.search, x.realm, x.adDomain} \subseteq Names \cup {None}
           c == Configured(r, f)
           texts == When(f.stopped, Say("sssd.service is not running"))
<1>1. Sane(c) /\ InRange(c.findings) \subseteq InRange(f.checks) /\ Called(c)
  <2>0. InRange(r.findings) = {}
    BY DEF InRange
  <2>1. CASE f.conf
    <3> DEFINE s == [r EXCEPT !.conf = TRUE, !.ad = f.ad, !.adDomain = Folded(f.adDomain)]
    <3>1. Alike(s, r, {"conf", "ad", "adDomain"}) /\ s.adDomain = Folded(f.adDomain)
      BY DEF Alike, Fields, Sane
    <3>2. c = WithFindings(s, f.checks)
      BY <2>1 DEF Configured
    <3> HIDE DEF s, c
    <3>3. Sane(s)
      BY <3>1 DEF Sane, Alike, Fields
    <3>4. s.findings = r.findings
      BY <3>1 DEF Sane, Alike, Fields
    <3>5. Folded(f.adDomain) \in Names \cup {None}
      BY FolderNames DEF Folded
    <3>6. Called(s)
      BY <3>1, <3>5 DEF Sane, Alike, Fields
    <3>7. Sane(c) /\ InRange(c.findings) = InRange(s.findings) \cup InRange(f.checks)
      BY <3>2, <3>3, WithFindingsIsSane, FindingsOfFolder
    <3>8. Alike(c, s, Heard \cup {"findings"})
      BY <3>2, <3>3, WithFindingsAlike, FindingsOfFolder DEF Sane
    <3>9. Called(c)
      BY <3>6, <3>7, <3>8 DEF Sane, Alike, Fields, Heard
    <3> QED
      BY <2>0, <3>4, <3>7, <3>9
  <2>2. CASE ~f.conf
    <3> DEFINE said == <<Say("sssd.conf not found")>>
    <3>1. c = WithProblems(r, said)
      BY <2>2 DEF Configured
    <3>2. IsSequence(said)
      BY OneIsSequence
    <3> HIDE DEF said, c
    <3>3. Sane(c) /\ Alike(c, r, Heard)
      BY <3>1, <3>2, WithProblemsIsSane, WithProblemsAlike DEF Sane
    <3>4. c.findings = r.findings /\ Called(c)
      BY <3>3 DEF Sane, Alike, Fields, Heard
    <3> QED
      BY <2>0, <3>3, <3>4
  <2> QED
    BY <2>1, <2>2
<1> DEFINE q == WithProblems(c, texts)
<1>2. ServiceChecked(r, f) = q
  BY DEF ServiceChecked
<1>3. IsSequence(texts)
  BY WhenIsSequence
<1> HIDE DEF c, texts
<1>4. Sane(q) /\ Alike(q, c, Heard)
  BY <1>1, <1>3, WithProblemsIsSane, WithProblemsAlike DEF Sane
<1> HIDE DEF q
<1>5. q.findings = c.findings /\ Called(q)
  BY <1>1, <1>4 DEF Sane, Alike, Fields, Heard
<1> QED
  BY <1>1, <1>2, <1>4, <1>5

LEMMA AtMatchIsSettled ==
    ASSUME NEW f \in Folders
    PROVE  Sane(AtMatch(f)) /\ Settled(f, AtMatch(f))
<1> DEFINE q == ServiceChecked(AtConfig(f), f)
           checks == CrossChecks(q)
           s == WithFindings(q, checks)
           last == Noted(s, "config", f)
<1>1. AtMatch(f) = last
  BY DEF AtMatch, ConfigRead, ConfiguredAndCorrelated
<1>2. /\ Sane(q) /\ InRange(q.findings) \subseteq InRange(f.checks)
      /\ {q.host, q.search, q.realm, q.adDomain} \subseteq Names \cup {None}
  BY AtConfigDoes, ConfiguredIsSane
<1> HIDE DEF q
<1>3. /\ checks \in Seq(Entry)
      /\ \A x \in InRange(checks) : ~x.root /\ IsCrossCheck(x)
  BY <1>2, ContradictionsOf
<1> HIDE DEF checks
<1>4. /\ Sane(s) /\ InRange(s.findings) = InRange(q.findings) \cup InRange(checks)
      /\ Alike(s, q, Heard \cup {"findings"})
  BY <1>2, <1>3, WithFindingsIsSane, WithFindingsAlike DEF Sane
<1> HIDE DEF s
<1>5. Sane(last) /\ Alike(last, s, Heard)
  BY <1>4, NotedIsSane, NotedAlike DEF Sane, Phases
<1> HIDE DEF last
<1>6. /\ last.ad = q.ad /\ last.realm = q.realm /\ last.search = q.search /\ last.host = q.host
      /\ last.adDomain = q.adDomain /\ last.findings = s.findings
  BY <1>4, <1>5 DEF Sane, Alike, Fields, Heard
<1>7. CrossChecks(last) = checks
  BY <1>6, SameContradictions DEF checks
<1>8. \A x \in InRange(q.findings) : ~x.root /\ ~IsCrossCheck(x)
  BY <1>2, FindingsOfFolder
<1> QED
  BY <1>1, <1>3, <1>4, <1>5, <1>6, <1>7, <1>8 DEF Settled

\* What is found later is neither a contradiction nor, the chains' apart, a root cause.
LEMMA StaysSettled ==
    ASSUME NEW f \in Folders, NEW r, Sane(r), Settled(f, r), NEW fs \in Seq(Entry),
           \A x \in InRange(fs) : /\ ~IsCrossCheck(x)
                                  /\ x.root => x \in InRange(f.chains)
    PROVE  Sane(WithFindings(r, fs)) /\ Settled(f, WithFindings(r, fs))
<1> DEFINE q == WithFindings(r, fs)
<1>1. /\ Sane(q) /\ InRange(q.findings) = InRange(r.findings) \cup InRange(fs)
      /\ Alike(q, r, Heard \cup {"findings"})
  BY WithFindingsIsSane, WithFindingsAlike DEF Sane
<1> HIDE DEF q
<1>2. /\ q.ad = r.ad /\ q.realm = r.realm /\ q.search = r.search /\ q.host = r.host
      /\ q.adDomain = r.adDomain
  BY <1>1 DEF Sane, Alike, Fields, Heard
<1>3. CrossChecks(q) = CrossChecks(r)
  BY <1>2, SameContradictions
<1> QED
  BY <1>1, <1>3 DEF Settled, q

LEMMA AtSummaryIsSettled ==
    ASSUME NEW f \in Folders
    PROVE  Sane(AtSummary(f)) /\ Settled(f, AtSummary(f))
<1>1. Sane(AtAdvanced(f)) /\ Settled(f, AtAdvanced(f))
  <2>1. CASE ~f.raw
    BY <2>1, AtMatchIsSettled DEF AtAdvanced
  <2>2. CASE f.raw
    <3> DEFINE h == Harvested(EmptyReport, f)
               q == Scanned(h, f)
    <3>1. Alike(h, EmptyReport, {"host", "search", "realm"})
      BY DEF Harvested, Alike, Fields, EmptyReport
    <3>2. Sane(h)
      BY <3>1, EmptyIsSane DEF Sane, Alike, Fields
    <3>3. EmptyReport.findings = <<>> /\ DOMAIN EmptyReport = Fields
      BY DEF EmptyReport, Fields
    <3>4. h.findings = <<>>
      BY <3>1, <3>3 DEF Alike, Fields
    <3> HIDE DEF h
    <3>5. Sane(q) /\ Alike(q, h, Heard \cup {"errors", "quotes"})
      BY <3>2, ScannedIsSane, ScannedAlike DEF Sane
    <3> HIDE DEF q
    <3>6. q.findings = <<>>
      BY <3>2, <3>4, <3>5 DEF Sane, Alike, Fields, Heard
    <3>7. InRange(q.findings) = {}
      BY <3>6 DEF InRange
    <3>8. Settled(f, q)
      BY <2>2, <3>7 DEF Settled
    <3>9. AtAdvanced(f) = q
      BY <2>2 DEF AtAdvanced, q, h
    <3> QED
      BY <3>5, <3>8, <3>9
  <2> QED
    BY <2>1, <2>2
<1>2. Sane(AtRules(f)) /\ Settled(f, AtRules(f))
  <2> DEFINE r == AtAdvanced(f)
             q == Advanced(r, f)
  <2>1. Sane(r) /\ Settled(f, r)
    BY <1>1
  <2> HIDE DEF r
  <2>2. Alike(q, r, {"bursts", "suggested"})
    BY <2>1 DEF Advanced, Alike, Sane, Fields
  <2> HIDE DEF q
  <2>3. Sane(q)
    BY <2>1, <2>2 DEF Sane, Alike, Fields
  <2>4. /\ q.ad = r.ad /\ q.realm = r.realm /\ q.search = r.search /\ q.host = r.host
        /\ q.adDomain = r.adDomain /\ q.findings = r.findings
    BY <2>1, <2>2 DEF Sane, Alike, Fields
  <2>5. CrossChecks(q) = CrossChecks(r)
    BY <2>4, SameContradictions
  <2>6. Settled(f, q)
    BY <2>1, <2>4, <2>5 DEF Settled
  <2> QED
    BY <2>3, <2>6 DEF AtRules, q, r
<1>3. Sane(AtSequences(f)) /\ Settled(f, AtSequences(f))
  BY <1>2, FindingsOfFolder, StaysSettled DEF AtSequences
<1> QED
  BY <1>3, FindingsOfFolder, StaysSettled DEF AtSummary

\* The summary of a report whose root causes are those of the chains.
Told(f, r) ==
    /\ HasRoot(r) => /\ r.summary.headline = "ROOT CAUSE"
                     /\ r.summary.cause \in {c.category : c \in InRange(f.chains)}
    /\ CountOf(r.findings, "critical") > 0 => /\ r.summary.headline \in {"ROOT CAUSE", "CRITICAL"}
                                              /\ r.summary.score <= 75
    /\ r.summary.score \in Int

LEMMA CountsAreNatural ==
    ASSUME NEW fs \in Seq(Entry), NEW level
    PROVE  CountOf(fs, level) \in Nat
<1> DEFINE S == {i \in DOMAIN fs : fs[i].level = level}
<1>1. Len(fs) \in Nat /\ S \subseteq 1..Len(fs)
  OBVIOUS
<1> HIDE DEF S
<1>2. IsFiniteSet(1..Len(fs))
  <2> DEFINE n == Len(fs)
  <2>1. n \in Int
    BY <1>1
  <2> HIDE DEF n
  <2>2. IsFiniteSet(1..n)
    BY <2>1, FS_Interval
  <2> QED
    BY <2>2 DEF n
<1>3. Cardinality(S) \in Nat
  BY <1>1, <1>2, FS_Subset, FS_CardinalityType
<1> QED
  BY <1>3 DEF CountOf, S

LEMMA PenaltiesAddUp ==
    ASSUME NEW critical \in Nat, NEW error \in Nat, NEW problem \in Nat, NEW warning \in Nat,
           NEW logError \in Nat
    PROVE  /\ Score(critical, error, problem, warning, logError) \in Int
           /\ critical > 0 => Score(critical, error, problem, warning, logError) <= 75
  BY DEF Score

\* The first root cause is one of the findings.
LEMMA RootCauseIsOne ==
    ASSUME NEW r, r.findings \in Seq(Entry), HasRoot(r)
    PROVE  \E x \in InRange(r.findings) : x.root /\ RootCause(r) = x.category
<1> DEFINE Roots == {i \in DOMAIN r.findings : r.findings[i].root}
           First(i) == /\ r.findings[i].root
                       /\ \A j \in 1..(i - 1) : ~r.findings[j].root
<1>1. Roots \subseteq Nat /\ Roots # {} /\ DOMAIN r.findings = 1..Len(r.findings)
      /\ Len(r.findings) \in Nat
  BY DEF HasRoot
<1>2. PICK m \in Roots : \A n \in Roots : m <= n
  <2> HIDE DEF Roots
  <2> QED
    BY <1>1, Least
<1>3. \A j \in 1..(m - 1) : ~r.findings[j].root
  <2> SUFFICES ASSUME NEW j \in 1..(m - 1), r.findings[j].root PROVE FALSE
    OBVIOUS
  <2>1. j \in Roots /\ ~(m <= j)
    BY <1>1
  <2> QED
    BY <1>2, <2>1
<1>4. First(m) /\ m \in DOMAIN r.findings
  BY <1>2, <1>3
<1>5. PICK i \in DOMAIN r.findings :
        /\ i = CHOOSE k \in DOMAIN r.findings : First(k)
        /\ First(i)
  <2> HIDE DEF First
  <2> QED
    BY <1>4
<1>6. RootCause(r) = r.findings[i].category
  BY <1>5 DEF RootCause
<1> QED
  BY <1>5, <1>6 DEF InRange

LEMMA SummaryTells ==
    ASSUME NEW f \in Folders, NEW r, Sane(r),
           \A x \in InRange(r.findings) : x.root => x \in InRange(f.chains)
    PROVE  LET s == Summary(r)
           IN  /\ HasRoot(r) => /\ s.headline = "ROOT CAUSE"
                                /\ s.cause \in {c.category : c \in InRange(f.chains)}
               /\ CountOf(r.findings, "critical") > 0 =>
                     s.headline \in {"ROOT CAUSE", "CRITICAL"} /\ s.score <= 75
               /\ s.score \in Int
<1> DEFINE s == Summary(r)
           critical == CountOf(r.findings, "critical")
           error == CountOf(r.findings, "error")
           hints == CountOf(r.findings, "warning")
           warning == hints + Len(r.warnings)
           problem == Len(r.problems)
           logError == Cardinality(r.errors)
<1>1. /\ s.headline = Headline(r, critical, error) /\ s.cause = RootCause(r)
      /\ s.score = Score(critical, error, problem, warning, logError)
  BY DEF Summary
<1>2. critical \in Nat /\ error \in Nat /\ hints \in Nat
  BY CountsAreNatural DEF Sane
<1>3. problem \in Nat /\ Len(r.warnings) \in Nat
  <2>1. PICK S, T : r.problems \in Seq(S) /\ r.warnings \in Seq(T)
    BY DEF Sane, IsSequence
  <2> QED
    BY <2>1
<1>4. logError \in Nat
  BY FS_CardinalityType DEF Sane
<1> HIDE DEF s, critical, error, hints, problem, logError
<1>5. warning \in Nat
  BY <1>2, <1>3
<1> HIDE DEF warning
<1>6. s.score \in Int /\ (critical > 0 => s.score <= 75)
  <2>2. /\ Score(critical, error, problem, warning, logError) \in Int
        /\ critical > 0 => Score(critical, error, problem, warning, logError) <= 75
    BY <1>2, <1>3, <1>4, <1>5, PenaltiesAddUp
  <2> QED
    BY <1>1, <2>2
<1>7. HasRoot(r) => s.headline = "ROOT CAUSE"
  BY <1>1 DEF Headline
<1>8. critical > 0 => s.headline \in {"ROOT CAUSE", "CRITICAL"}
  BY <1>1 DEF Headline
<1>9. HasRoot(r) => s.cause \in {c.category : c \in InRange(f.chains)}
  <2> SUFFICES ASSUME HasRoot(r) PROVE s.cause \in {c.category : c \in InRange(f.chains)}
    OBVIOUS
  <2>1. PICK x \in InRange(r.findings) : x.root /\ RootCause(r) = x.category
    BY RootCauseIsOne DEF Sane
  <2> QED
    BY <1>1, <2>1
<1> QED
  BY <1>6, <1>7, <1>8, <1>9 DEF s, critical

LEMMA AtFinalizeIsTold ==
    ASSUME NEW f \in Folders
    PROVE  LET r == AtFinalize(f) IN Sane(r) /\ Settled(f, r) /\ Told(f, r)
<1> DEFINE r == AtSummary(f)
           final == [r EXCEPT !.problems = Deduplicated(@), !.warnings = Deduplicated(@)]
           s == Summarized(r)
           q == Hinted(s, f)
<1>1. Sane(r) /\ Settled(f, r)
  BY AtSummaryIsSettled
<1>2. AtFinalize(f) = q
  BY DEF AtFinalize, Concluded
<1> HIDE DEF r
<1>3. Sane(final) /\ Alike(final, r, Heard)
  <2>1. PICK S, T : r.problems \in Seq(S) /\ r.warnings \in Seq(T)
    BY <1>1 DEF Sane, IsSequence
  <2> DEFINE a == Deduplicated(r.problems)
             b == Deduplicated(r.warnings)
  <2>2. a \in Seq(S) /\ b \in Seq(T)
    BY <2>1, DeduplicatedType
  <2>3. final = [r EXCEPT !.problems = a, !.warnings = b]
    OBVIOUS
  <2> HIDE DEF a, b, final
  <2>4. IsSequence(a) /\ IsSequence(b)
    BY <2>2 DEF IsSequence
  <2> QED
    BY <1>1, <2>3, <2>4 DEF Sane, Alike, Fields, Heard
<1>4. s = [final EXCEPT !.summary = Summary(final)]
  BY DEF Summarized
<1> HIDE DEF final, s
<1>5. Alike(s, final, {"summary"}) /\ s.summary = Summary(final)
  BY <1>3, <1>4 DEF Alike, Sane, Fields
<1>6. Sane(s)
  BY <1>3, <1>5 DEF Sane, Alike, Fields
<1>7. Sane(q) /\ Alike(q, s, Heard)
  <2> DEFINE hint == When((s.problems # <<>> \/ s.errors # {}) /\ ~f.raw /\ s.conf /\ ~f.debug9,
                          DebugHint)
             a == s.warnings \o hint
  <2>1. IsSequence(a)
    BY <1>6, WhenIsSequence, LongerSequence DEF Sane
  <2>2. q = [s EXCEPT !.warnings = a]
    BY DEF Hinted
  <2> HIDE DEF a, q
  <2> QED
    BY <1>6, <2>1, <2>2 DEF Sane, Alike, Fields, Heard
<1> HIDE DEF q
<1>8. /\ q.ad = r.ad /\ q.realm = r.realm /\ q.search = r.search /\ q.host = r.host
      /\ q.adDomain = r.adDomain /\ q.findings = r.findings /\ q.findings = final.findings
      /\ q.summary = Summary(final)
  BY <1>1, <1>3, <1>5, <1>7 DEF Sane, Alike, Fields, Heard
<1>9. CrossChecks(q) = CrossChecks(r)
  BY <1>8, SameContradictions
<1>10. Settled(f, q)
  BY <1>1, <1>8, <1>9 DEF Settled
<1>11. HasRoot(q) = HasRoot(final)
  BY <1>8 DEF HasRoot
<1>12. \A x \in InRange(final.findings) : x.root => x \in InRange(f.chains)
  BY <1>1, <1>8 DEF Settled
<1>13. Told(f, q)
  BY <1>3, <1>8, <1>11, <1>12, SummaryTells DEF Told
<1> QED
  BY <1>2, <1>7, <1>10, <1>13

-----------------------------------------------------------------------------
(* What an analysis that ran to its end returned.                            *)

\* The report of outcome o is the one its folder comes to.
Rendered(o) == o.complete => /\ o.folder \in Folders /\ o.anonymize \in BOOLEAN
                             /\ Agree(o.report, Finalized(AtFinalize(o.folder), o.folder, o.anonymize))

Determined ==
    /\ anonymize \in BOOLEAN
    /\ phase \in Phases => Agree(report, Expected(phase, folder))
    /\ \A i \in DOMAIN past : Rendered(past[i])

LEMMA FinalizedAgrees ==
    ASSUME NEW f \in Folders, NEW masked \in BOOLEAN, NEW q, NEW r, Agree(q, r)
    PROVE  Agree(Finalized(q, f, masked), Finalized(r, f, masked))
<1> DEFINE a == WithGraph(q)
           b == WithGraph(r)
<1>1. Agree(a, b)
  <2> DEFINE g(x) == BuildGraph(IdentityEntities(x), x.findings, Signals(x), IdentityPairs(x))
  <2>1. a = [q EXCEPT !.graph = g(q)] /\ b = [r EXCEPT !.graph = g(r)]
    BY DEF WithGraph
  <2> HIDE DEF g, a, b
  <2> QED
    BY <2>1 DEF Agree, Alike, Fields, Free
<1> HIDE DEF a, b
<1>2. CASE ~masked
  BY <1>1, <1>2 DEF Finalized, a, b
<1>3. CASE masked
  <2>1. Finalized(q, f, masked) = Anonymized(a, f) /\ Finalized(r, f, masked) = Anonymized(b, f)
    BY <1>3 DEF Finalized, a, b
  <2>2. /\ a.host = b.host /\ a.search = b.search /\ a.realm = b.realm /\ a.adDomain = b.adDomain
        /\ a.problems = b.problems /\ a.warnings = b.warnings /\ a.findings = b.findings
        /\ a.quotes = b.quotes
    BY <1>1 DEF Agree, Alike, Fields, Free
  <2> DEFINE known == KnownNames(a, f)
             host == IF a.host # None \/ (~f.raw /\ f.node # None) THEN RedactedHost ELSE None
             search == MaskField(a.search, known)
             realm == MaskField(a.realm, known)
             adDomain == IF a.adDomain = None THEN None ELSE ExampleDomain
             problems == MaskTexts(a.problems, known)
             warnings == MaskTexts(a.warnings, known)
             findings == [i \in DOMAIN a.findings |-> MaskFinding(a.findings[i], known)]
             quotes == MaskNames(a.quotes, known)
             S(x) == {[tid |-> s.tid, of |-> MaskNames(s.of, known)] : s \in x.suggested}
             g(x) == MaskGraph(x.graph, known)
  <2>3. KnownNames(b, f) = known
    BY <2>2 DEF KnownNames, HostKnown, Tokens
  <2>4. Anonymized(a, f) =
          [a EXCEPT !.host = host, !.search = search, !.realm = realm, !.adDomain = adDomain,
                    !.problems = problems, !.warnings = warnings, !.findings = findings,
                    !.quotes = quotes, !.suggested = S(a), !.graph = g(a)]
    BY DEF Anonymized
  <2>5. Anonymized(b, f) =
          [b EXCEPT !.host = host, !.search = search, !.realm = realm, !.adDomain = adDomain,
                    !.problems = problems, !.warnings = warnings, !.findings = findings,
                    !.quotes = quotes, !.suggested = S(b), !.graph = g(b)]
    BY <2>2, <2>3 DEF Anonymized
  <2> HIDE DEF known, host, search, realm, adDomain, problems, warnings, findings, quotes, S, g
  <2> DEFINE Renamed(x, y) ==
               /\ DOMAIN y = Fields /\ y.host = host /\ y.search = search /\ y.realm = realm
               /\ y.adDomain = adDomain /\ y.problems = problems /\ y.warnings = warnings
               /\ y.findings = findings /\ y.quotes = quotes /\ y.mac = x.mac /\ y.ad = x.ad
               /\ y.conf = x.conf /\ y.errors = x.errors /\ y.bursts = x.bursts
               /\ y.summary = x.summary
  <2>7. DOMAIN a = Fields /\ DOMAIN b = Fields
    BY <1>1 DEF Agree, Alike
  <2>8. Renamed(a, Anonymized(a, f))
    BY <2>4, <2>7 DEF Fields
  <2>9. Renamed(b, Anonymized(b, f))
    BY <2>5, <2>7 DEF Fields
  <2>6. Agree(Anonymized(a, f), Anonymized(b, f))
    <3> DEFINE y == Anonymized(a, f)
               z == Anonymized(b, f)
    <3>1. /\ a.mac = b.mac /\ a.ad = b.ad /\ a.conf = b.conf /\ a.errors = b.errors
          /\ a.bursts = b.bursts /\ a.summary = b.summary
      BY <1>1 DEF Agree, Alike, Fields, Free
    <3>2. Renamed(a, y) /\ Renamed(b, z)
      BY <2>8, <2>9
    <3> HIDE DEF y, z
    <3>3. DOMAIN y = Fields /\ DOMAIN z = Fields
      BY <3>2
    <3>4. /\ y.host = z.host /\ y.search = z.search /\ y.realm = z.realm
          /\ y.adDomain = z.adDomain /\ y.problems = z.problems /\ y.warnings = z.warnings
          /\ y.findings = z.findings /\ y.quotes = z.quotes /\ y.mac = z.mac /\ y.ad = z.ad
          /\ y.conf = z.conf /\ y.errors = z.errors /\ y.bursts = z.bursts
          /\ y.summary = z.summary
      BY <3>1, <3>2
    <3>5. Agree(y, z)
      BY <3>3, <3>4 DEF Agree, Alike, Fields, Free
    <3> QED
      BY <3>5 DEF y, z
  <2> QED
    BY <2>1, <2>6
<1> QED
  BY <1>2, <1>3

\* Each phase takes the report one step further, whatever the folder.
LEMMA PhasesKeepDetermined ==
    ASSUME IInv, Determined,
           \/ SystemPhase \/ NetworkPhase \/ EnvironmentPhase \/ ScanPhase \/ KerberosPhase
           \/ ConfigPhase \/ HarvestPhase
    PROVE  Determined'
<1>1. phase \in Phases => Agree(report, Expected(phase, folder))
  BY DEF Determined
<1>2. UNCHANGED <<folder, anonymize, past>>
  BY DEF SystemPhase, NetworkPhase, EnvironmentPhase, ScanPhase, KerberosPhase, ConfigPhase,
         HarvestPhase, Run
<1>3. phase' \in Phases => Agree(report', Expected(phase', folder))
  <2>1. CASE SystemPhase
    <3>1. phase = "system" /\ phase' = "network" /\ report' = SystemRead(report, folder)
      BY <2>1 DEF SystemPhase, Run
    <3>2. Agree(report, EmptyReport)
      BY <1>1, <3>1 DEF Expected, Phases
    <3>3. Expected("network", folder) = SystemRead(EmptyReport, folder)
      BY DEF Expected
    <3> QED
      BY <3>1, <3>2, <3>3, ReadsAgree
  <2>2. CASE NetworkPhase
    <3>1. phase = "network" /\ phase' = "environment" /\ report' = NetworkRead(report, folder)
      BY <2>2 DEF NetworkPhase, Run
    <3>2. Agree(report, SystemRead(EmptyReport, folder))
      BY <1>1, <3>1 DEF Expected, Phases
    <3>3. Expected("environment", folder) = NetworkRead(SystemRead(EmptyReport, folder), folder)
      BY DEF Expected
    <3> QED
      BY <3>1, <3>2, <3>3, ReadsAgree
  <2>3. CASE EnvironmentPhase
    <3>1. phase = "environment" /\ phase' = "scan" /\ report' = EnvironmentRead(report, folder)
      BY <2>3 DEF EnvironmentPhase, Run
    <3>2. Agree(report, NetworkRead(SystemRead(EmptyReport, folder), folder))
      BY <1>1, <3>1 DEF Expected, Phases
    <3>3. Expected("scan", folder)
            = EnvironmentRead(NetworkRead(SystemRead(EmptyReport, folder), folder), folder)
      BY DEF Expected, AtScan
    <3> QED
      BY <3>1, <3>2, <3>3, ReadsAgree
  <2>4. CASE ScanPhase
    <3>1. phase = "scan" /\ phase' = "kerberos" /\ report' = report
      BY <2>4 DEF ScanPhase, Run
    <3>2. Expected("scan", folder) = AtScan(folder) /\ Expected("kerberos", folder) = AtScan(folder)
      BY DEF Expected
    <3> QED
      BY <1>1, <3>1, <3>2 DEF Phases
  <2>5. CASE KerberosPhase
    <3>1. phase = "kerberos" /\ phase' = "config" /\ report' = RealmRead(report, folder)
      BY <2>5 DEF KerberosPhase, Run
    <3>2. /\ Expected("kerberos", folder) = AtScan(folder)
          /\ Expected("config", folder) = RealmRead(AtScan(folder), folder)
      BY DEF Expected, AtConfig
    <3>3. Agree(report, AtScan(folder))
      BY <1>1, <3>1, <3>2 DEF Phases
    <3> QED
      BY <3>1, <3>2, <3>3, RealmReadAgrees
  <2>6. CASE ConfigPhase
    <3>1. phase = "config" /\ phase' = "match" /\ report' = ConfigRead(report, folder)
      BY <2>6 DEF ConfigPhase, Run
    <3>2. /\ Expected("config", folder) = AtConfig(folder)
          /\ Expected("match", folder) = ConfigRead(AtConfig(folder), folder)
      BY DEF Expected, AtMatch
    <3>3. Agree(report, AtConfig(folder))
      BY <1>1, <3>1, <3>2 DEF Phases
    <3> QED
      BY <3>1, <3>2, <3>3, ConfigReadAgrees
  <2>7. CASE HarvestPhase
    <3>1. phase = "harvest" /\ phase' = "logscan" /\ report' = Harvested(report, folder)
      BY <2>7 DEF HarvestPhase, Run
    <3>2. /\ Expected("harvest", folder) = EmptyReport
          /\ Expected("logscan", folder) = Harvested(EmptyReport, folder)
      BY DEF Expected
    <3>3. Agree(report, EmptyReport)
      BY <1>1, <3>1, <3>2 DEF Phases
    <3> QED
      BY <3>1, <3>2, <3>3, ReadsAgree
  <2> QED
    BY <2>1, <2>2, <2>3, <2>4, <2>5, <2>6, <2>7
<1> QED
  BY <1>2, <1>3 DEF Determined, Rendered

\* The articles matched are no part of what the folder determines.
LEMMA MatchingKeepsDetermined ==
    ASSUME IInv, Determined, MatchPhase \/ LogScanPhase
    PROVE  Determined'
<1>1. /\ phase \in Phases => /\ Agree(report, Expected(phase, folder))
                             /\ SoFar(phase, folder, report, past = <<>>)
      /\ DOMAIN matchers = SUBSET Patterns
  BY DEF Determined, IInv, Matchers
<1>0. anonymize' = anonymize /\ anonymize \in BOOLEAN
  BY DEF Determined, MatchPhase, LogScanPhase, MatchInto, Run
<1>2. CASE MatchPhase
  <2>1. phase = "match"
    BY <1>2 DEF MatchPhase, MatchInto, Run
  <2>2. Agree(report, AtMatch(folder)) /\ ~folder.raw
    BY <1>1, <2>1 DEF Expected, Phases, SoFar, SupportconfigPhases
  <2>3. /\ phase' = "advanced" /\ UNCHANGED <<folder, past>>
        /\ Alike(report', report, {"matched"})
    <3>1. DOMAIN report = Fields
      BY <2>2 DEF Agree
    <3>2. MatchInto("match", report, TRUE, "advanced")
      BY <1>2 DEF MatchPhase
    <3> QED
      BY <1>1, <3>1, <3>2, MatchIntoDoes
  <2>4. Expected("advanced", folder) = AtMatch(folder)
    BY <2>2 DEF Expected, AtAdvanced
  <2>5. Agree(report', AtMatch(folder))
    BY <2>2, <2>3 DEF Agree, Alike, Free, Fields
  <2> QED
    BY <1>0, <2>3, <2>4, <2>5 DEF Determined, Rendered
<1>3. CASE LogScanPhase
  <2> DEFINE q == Scanned(report, folder)
  <2>1. phase = "logscan"
    BY <1>3 DEF LogScanPhase, MatchInto, Run
  <2>2. Agree(report, Harvested(EmptyReport, folder)) /\ folder.raw
    BY <1>1, <2>1 DEF Expected, Phases, SoFar
  <2>3. Agree(q, Scanned(Harvested(EmptyReport, folder), folder))
    BY <2>2, ScannedAgrees
  <2>4. MatchInto("logscan", q, FALSE, "advanced")
    BY <1>3 DEF LogScanPhase
  <2> HIDE DEF q
  <2>5. /\ phase' = "advanced" /\ UNCHANGED <<folder, past>>
        /\ Alike(report', q, {"matched"})
    <3>1. DOMAIN q = Fields
      BY <2>3 DEF Agree
    <3> QED
      BY <1>1, <2>4, <3>1, MatchIntoDoes
  <2>6. Expected("advanced", folder) = Scanned(Harvested(EmptyReport, folder), folder)
    BY <2>2 DEF Expected, AtAdvanced
  <2>7. Agree(report', Scanned(Harvested(EmptyReport, folder), folder))
    BY <2>3, <2>5 DEF Agree, Alike, Free, Fields
  <2> QED
    BY <1>0, <2>5, <2>6, <2>7 DEF Determined, Rendered
<1> QED
  BY <1>2, <1>3

LEMMA LatePhasesKeepDetermined ==
    ASSUME IInv, Determined, AdvancedPhase \/ RulesPhase \/ SequencesPhase \/ SummaryPhase
    PROVE  Determined'
<1>1. phase \in Phases => Agree(report, Expected(phase, folder))
  BY DEF Determined
<1>2. UNCHANGED <<folder, anonymize, past>>
  BY DEF AdvancedPhase, RulesPhase, SequencesPhase, SummaryPhase, Run
<1>3. phase' \in Phases => Agree(report', Expected(phase', folder))
  <2>1. CASE AdvancedPhase
    <3>1. phase = "advanced" /\ phase' = "rules" /\ report' = Advanced(report, folder)
      BY <2>1 DEF AdvancedPhase, Run
    <3>2. /\ Expected("advanced", folder) = AtAdvanced(folder)
          /\ Expected("rules", folder) = Advanced(AtAdvanced(folder), folder)
      BY DEF Expected, AtRules
    <3>3. Agree(report, AtAdvanced(folder))
      BY <1>1, <3>1, <3>2 DEF Phases
    <3> QED
      BY <3>1, <3>2, <3>3, ReadsAgree
  <2>2. CASE RulesPhase
    <3>1. phase = "rules" /\ phase' = "sequences" /\ report' = WithFindings(report, folder.rules)
      BY <2>2 DEF RulesPhase, Run
    <3>2. /\ Expected("rules", folder) = AtRules(folder)
          /\ Expected("sequences", folder) = WithFindings(AtRules(folder), folder.rules)
      BY DEF Expected, AtSequences
    <3>3. Agree(report, AtRules(folder))
      BY <1>1, <3>1, <3>2 DEF Phases
    <3> QED
      BY <3>1, <3>2, <3>3, WithFindingsAgree
  <2>3. CASE SequencesPhase
    <3>1. phase = "sequences" /\ phase' = "summary" /\ report' = WithFindings(report, folder.chains)
      BY <2>3 DEF SequencesPhase, Run
    <3>2. /\ Expected("sequences", folder) = AtSequences(folder)
          /\ Expected("summary", folder) = WithFindings(AtSequences(folder), folder.chains)
      BY DEF Expected, AtSummary
    <3>3. Agree(report, AtSequences(folder))
      BY <1>1, <3>1, <3>2 DEF Phases
    <3> QED
      BY <3>1, <3>2, <3>3, WithFindingsAgree
  <2>4. CASE SummaryPhase
    <3>1. phase = "summary" /\ phase' = "finalize" /\ report' = Concluded(report, folder)
      BY <2>4 DEF SummaryPhase, Run, Concluded
    <3>2. /\ Expected("summary", folder) = AtSummary(folder)
          /\ Expected("finalize", folder) = Concluded(AtSummary(folder), folder)
      BY DEF Expected, AtFinalize
    <3>3. Agree(report, AtSummary(folder))
      BY <1>1, <3>1, <3>2 DEF Phases
    <3> QED
      BY <3>1, <3>2, <3>3, ConcludedAgrees
  <2> QED
    BY <2>1, <2>2, <2>3, <2>4
<1> QED
  BY <1>2, <1>3 DEF Determined, Rendered

LEMMA ReturnsAreRendered ==
    ASSUME IInv, Determined, ReturnPartial \/ FinalizePhase
    PROVE  Determined'
<1>1. PICK o : /\ past' = Append(past, o) /\ phase' = "idle" /\ Rendered(o)
               /\ anonymize' = anonymize /\ anonymize \in BOOLEAN
  <2>1. CASE ReturnPartial
    <3> DEFINE o == [folder |-> folder, anonymize |-> anonymize, complete |-> FALSE,
                     report |-> report]
    <3>1. /\ past' = Append(past, o) /\ phase' = "idle" /\ Rendered(o)
          /\ anonymize' = anonymize /\ anonymize \in BOOLEAN
      BY <2>1 DEF ReturnPartial, Return, Rendered, Determined
    <3> QED
      BY <3>1
  <2>2. CASE FinalizePhase
    <3> DEFINE r == Finalized(report, folder, anonymize)
               o == [folder |-> folder, anonymize |-> anonymize, complete |-> TRUE, report |-> r]
    <3>1. /\ past' = Append(past, o) /\ phase' = "idle" /\ phase = "finalize"
          /\ anonymize' = anonymize /\ anonymize \in BOOLEAN
      BY <2>2 DEF FinalizePhase, Return, Determined
    <3>2. Expected("finalize", folder) = AtFinalize(folder)
      BY DEF Expected
    <3>3. Agree(report, AtFinalize(folder)) /\ folder \in Folders
      BY <3>1, <3>2 DEF Determined, Phases, IInv
    <3>4. Agree(r, Finalized(AtFinalize(folder), folder, anonymize))
      BY <3>1, <3>3, FinalizedAgrees
    <3> HIDE DEF r
    <3>5. Rendered(o)
      BY <3>1, <3>3, <3>4 DEF Rendered
    <3> QED
      BY <3>1, <3>5
  <2> QED
    BY <2>1, <2>2
<1>2. PICK S : past \in Seq(S)
  BY DEF IInv
<1>3. past \in Seq(S \cup {o}) /\ o \in S \cup {o}
  BY <1>2, SeqMonotonic
<1>4. /\ DOMAIN past' = 1..(Len(past) + 1) /\ DOMAIN past = 1..Len(past) /\ Len(past) \in Nat
      /\ \A i \in 1..Len(past) : past'[i] = past[i]
      /\ past'[Len(past) + 1] = o
  BY <1>1, <1>3, AppendProperties, LenProperties
<1>5. \A i \in 1..Len(past) : Rendered(past[i])
  BY <1>4 DEF Determined
<1>6. ASSUME NEW i \in DOMAIN past' PROVE Rendered(past'[i])
  <2>1. CASE i \in 1..Len(past)
    BY <1>4, <1>5, <2>1
  <2>2. CASE i = Len(past) + 1
    BY <1>1, <1>4, <2>2
  <2> QED
    BY <1>4, <2>1, <2>2
<1>7. phase' \notin Phases
  BY <1>1 DEF Phases
<1>8. \A i \in DOMAIN past' : Rendered(past[i])'
  BY <1>6 DEF Rendered
<1> QED
  BY <1>1, <1>7, <1>8 DEF Determined

\* A report under construction, and one that was returned complete, is the one its folder
\* comes to, but for the articles matched and suggested.
THEOREM ReportsAreDetermined == Spec => []Determined
<1>1. Init => Determined
  <2>1. DOMAIN <<>> = {}
    OBVIOUS
  <2> QED
    BY <2>1 DEF Init, Determined, Phases
<1>2. IInv /\ Determined /\ [Next]_vars => Determined'
  <2> SUFFICES ASSUME IInv, Determined, [Next]_vars PROVE Determined'
    OBVIOUS
  <2>2. CASE UNCHANGED vars
    BY <2>2 DEF vars, Determined, Rendered
  <2>3. ASSUME NEW f \in Folders, Begin(f) PROVE Determined'
    <3>1. /\ phase' \in {"system", "harvest"} /\ report' = EmptyReport /\ past' = past
          /\ anonymize' \in BOOLEAN
      BY <2>3 DEF Begin
    <3>2. Expected(phase', folder') = EmptyReport
      BY <3>1 DEF Expected
    <3>3. Agree(EmptyReport, EmptyReport)
      BY DEF Agree, Alike, EmptyReport, Fields
    <3> QED
      BY <3>1, <3>2, <3>3 DEF Determined, Rendered
  <2>4. CASE Cancel
    BY <2>4 DEF Cancel, Determined, Rendered
  <2> QED
    BY <2>2, <2>3, <2>4, PhasesKeepDetermined, MatchingKeepsDetermined,
       LatePhasesKeepDetermined, ReturnsAreRendered DEF Next
<1> QED
  BY <1>1, <1>2, InvariantHolds, PTL DEF Spec

\* The graph and the placeholders leave the levels, the root causes and the summary alone.
LEMMA FinalizedTells ==
    ASSUME NEW f \in Folders, NEW masked \in BOOLEAN
    PROVE  LET r == Finalized(AtFinalize(f), f, masked)
           IN  /\ Told(f, r)
               /\ ~masked /\ ~f.raw =>
                    InRange(CrossChecks(r)) = {x \in InRange(r.findings) : IsCrossCheck(x)}
<1> DEFINE e == AtFinalize(f)
           g == WithGraph(e)
           r == Finalized(e, f, masked)
<1>1. Sane(e) /\ Settled(f, e) /\ Told(f, e)
  BY AtFinalizeIsTold
<1> HIDE DEF e
<1>2. Alike(g, e, {"graph"})
  BY <1>1 DEF WithGraph, Sane, Alike, Fields
<1>3. r = IF masked THEN Anonymized(g, f) ELSE g
  BY DEF Finalized
<1> HIDE DEF g, r
<1>4. /\ g.findings = e.findings /\ g.summary = e.summary /\ g.ad = e.ad /\ g.realm = e.realm
      /\ g.search = e.search /\ g.host = e.host /\ g.adDomain = e.adDomain
      /\ DOMAIN g = Fields /\ g.findings \in Seq(Entry)
  BY <1>1, <1>2 DEF Sane, Alike, Fields
<1>5. CASE ~masked
  <2>1. r = g
    BY <1>3, <1>5
  <2>2. CrossChecks(g) = CrossChecks(e)
    BY <1>4, SameContradictions
  <2>3. HasRoot(g) = HasRoot(e)
    BY <1>4 DEF HasRoot
  <2> QED
    BY <1>1, <1>4, <2>1, <2>2, <2>3 DEF Told, Settled, r, e
<1>6. CASE masked
  <2> DEFINE known == KnownNames(g, f)
  <2>1. r = Anonymized(g, f)
    BY <1>3, <1>6
  <2>2. /\ r.findings = [i \in DOMAIN g.findings |-> MaskFinding(g.findings[i], known)]
        /\ r.summary = g.summary
    BY <1>4, <2>1 DEF Anonymized, Fields
  <2> HIDE DEF known
  <2>3. \A x \in Entry : MaskFinding(x, known).root = x.root /\ MaskFinding(x, known).level = x.level
    BY DEF MaskFinding, Entry
  <2>4. /\ DOMAIN r.findings = DOMAIN e.findings
        /\ \A i \in DOMAIN e.findings : /\ r.findings[i].root = e.findings[i].root
                                        /\ r.findings[i].level = e.findings[i].level
    BY <1>4, <2>2, <2>3
  <2>5. HasRoot(r) = HasRoot(e)
    BY <2>4 DEF HasRoot
  <2>6. CountOf(r.findings, "critical") = CountOf(e.findings, "critical")
    BY <2>4 DEF CountOf
  <2> QED
    BY <1>1, <1>4, <1>6, <2>2, <2>5, <2>6 DEF Told, r, e
<1> QED
  BY <1>5, <1>6

LEMMA AgreementTells ==
    ASSUME NEW f, NEW q, NEW r, Agree(q, r), Told(f, r)
    PROVE  Told(f, q)
<1>1. q.findings = r.findings /\ q.summary = r.summary
  BY DEF Agree, Alike, Fields, Free
<1>2. HasRoot(q) = HasRoot(r)
  BY <1>1 DEF HasRoot
<1> QED
  BY <1>1, <1>2 DEF Told
LEMMA KeysAgree ==
    ASSUME NEW q, NEW r, Agree(q, r)
    PROVE  Keys(q) = Keys(r) /\ q.summary = r.summary
<1>1. q.findings = r.findings /\ q.bursts = r.bursts /\ q.summary = r.summary
  BY DEF Agree, Alike, Fields, Free
<1> QED
  BY <1>1 DEF Keys

-----------------------------------------------------------------------------
(* The theorems on what the findings add up to.                              *)

\* A completed analysis with a correlated root cause has it as its headline, taken from
\* correlateSequences; one with a critical finding says so and scores at most 75, for any
\* findings, hints and log errors (buildHeadline, computeExecutiveSummary).
THEOREM HeadlinesTellTheWorst == Spec => []HeadlineTellsTheWorst
<1>1. Determined => HeadlineTellsTheWorst
  <2> SUFFICES ASSUME Determined, NEW i \in Completed PROVE Told(past[i].folder, past[i].report)
    BY DEF HeadlineTellsTheWorst, Told
  <2> DEFINE o == past[i]
             r == Finalized(AtFinalize(o.folder), o.folder, o.anonymize)
  <2>1. o.folder \in Folders /\ o.anonymize \in BOOLEAN /\ Agree(o.report, r)
    BY DEF Determined, Rendered, Completed
  <2>2. Told(o.folder, r)
    BY <2>1, FinalizedTells
  <2> HIDE DEF r
  <2> QED
    BY <2>1, <2>2, AgreementTells
<1> QED
  BY <1>1, ReportsAreDetermined, PTL

\* The contradictions that runCorrelation reported are those between the fields as they
\* are in the report returned: sssd.conf, krb5.conf, resolv.conf and the host name were
\* all read before, and no phase reads one again.
THEOREM ContradictionsAreCurrent == Spec => []CrossChecksAreCurrent
<1>1. Determined => CrossChecksAreCurrent
  <2> SUFFICES ASSUME Determined, NEW i \in Completed,
                      ~past[i].anonymize, ~past[i].folder.raw
               PROVE  LET r == past[i].report
                      IN  InRange(CrossChecks(r))
                            = {x \in InRange(r.findings) : IsCrossCheck(x)}
    BY DEF CrossChecksAreCurrent
  <2> DEFINE o == past[i]
             r == Finalized(AtFinalize(o.folder), o.folder, o.anonymize)
  <2>1. o.folder \in Folders /\ o.anonymize \in BOOLEAN /\ Agree(o.report, r)
    BY DEF Determined, Rendered, Completed
  <2>2. InRange(CrossChecks(r)) = {x \in InRange(r.findings) : IsCrossCheck(x)}
    BY <2>1, FinalizedTells
  <2> HIDE DEF r
  <2>3. CrossChecks(o.report) = CrossChecks(r)
    BY <2>1, CrossChecksAgree
  <2>4. o.report.findings = r.findings
    BY <2>1 DEF Agree, Alike, Fields, Free
  <2> QED
    BY <2>2, <2>3, <2>4
<1> QED
  BY <1>1, ReportsAreDetermined, PTL

\* Two completed analyses of a folder, whatever was analysed between them and in whatever
\* order the maps were walked, have the same findings, bursts and score: comparing them
\* shows no difference (CompareConfigsAnonymized).
THEOREM ComparisonHasNoPhantoms == Spec => []NoPhantomDelta
<1>1. Determined => NoPhantomDelta
  <2> SUFFICES ASSUME Determined, NEW i \in Completed, NEW j \in Completed,
                      past[i].folder = past[j].folder, past[i].anonymize = past[j].anonymize
               PROVE  LET d == Delta(past[i].report, past[j].report)
                      IN  d.onlyInA = {} /\ d.onlyInB = {} /\ d.score = 0
    BY DEF NoPhantomDelta
  <2> DEFINE a == past[i].report
             b == past[j].report
             r == Finalized(AtFinalize(past[i].folder), past[i].folder, past[i].anonymize)
  <2>1. /\ past[i].folder \in Folders /\ past[i].anonymize \in BOOLEAN
        /\ Agree(a, r) /\ Agree(b, r)
    BY DEF Determined, Rendered, Completed
  <2>2. r.summary.score \in Int
    BY <2>1, FinalizedTells DEF Told
  <2> HIDE DEF a, b, r
  <2>3. Keys(a) = Keys(b) /\ a.summary.score = r.summary.score /\ b.summary.score = r.summary.score
    BY <2>1, KeysAgree
  <2>4. Keys(a) \ Keys(b) = {} /\ Keys(b) \ Keys(a) = {} /\ b.summary.score - a.summary.score = 0
    BY <2>2, <2>3
  <2>5. /\ Delta(a, b).onlyInA = {} /\ Delta(a, b).onlyInB = {} /\ Delta(a, b).score = 0
    BY <2>4 DEF Delta
  <2> QED
    BY <2>5 DEF a, b
<1> QED
  BY <1>1, ReportsAreDetermined, PTL

=============================================================================

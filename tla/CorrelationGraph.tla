--------------------------- MODULE CorrelationGraph --------------------------
(***************************************************************************)
(* The correlation graph of a report, and what anonymization does to it.   *)
(* A name is a host, a domain, a realm or an address in one spelling of    *)
(* its letters.  A text is what it says and the names in it.  Left out:    *)
(* labels, severities, line texts, names within longer names, and whether  *)
(* a placeholder is in capitals.                                           *)
(***************************************************************************)
EXTENDS Integers, Sequences

CONSTANTS Names,          \* identity values, each spelling a name of its own
          Lower, Upper,   \* strings.ToLower and ToUpper
          HostNames,      \* those that name a host
          Addresses,      \* those that are IP addresses
          ExampleDomain,  \* constants.DomainReplacement
          RedactedHost,   \* "redacted-host"
          RedactedAddress \* "XXX.XXX.XXX.XXX"

Placeholders == {ExampleDomain, RedactedHost, RedactedAddress}

ASSUME CorrelationGraphAssumption ==
    /\ HostNames \subseteq Names /\ Addresses \subseteq Names
    /\ Placeholders \cap Names = {}
    /\ Lower \in [Names -> Names] /\ Upper \in [Names -> Names]

Values == Names \cup Placeholders
EntityKinds == {"domain", "realm", "hostname", "dns", "ad_server"}

Text == [say : STRING, of : SUBSET Values]
Entity == [kind : EntityKinds, value : Values]

-----------------------------------------------------------------------------
(* Identifiers.  An entity's has its value in lower case.  A finding's is the *)
(* hash of its raw message: masking the message leaves the identifier alone.  *)

Folded(v) == IF v \in Names THEN Lower[v] ELSE v

EntityId(e) == <<"entity", e.kind, Folded(e.value)>>
FindingId(category, text) == <<"finding", category, text>>
SourceId(path, line) == <<"source", path, line>>

Link(from, to, kind) == [from |-> from, to |-> to, kind |-> kind]
IdsOf(nodes) == {n.id : n \in nodes}

-----------------------------------------------------------------------------
(* buildCorrelationGraph.  top: the entities of the report's identity        *)
(* fields; findings: its configuration findings, in order; signals: its       *)
(* bursts, log errors and suggestions, which mention entities in their text;  *)
(* pairs: the domain-realm, host-domain and host-realm pairs of the fields.   *)

\* addEntity: of the entities with one identifier, the first that is mentioned.
FirstOf(id, mentions) ==
    LET Has(i) == \E e \in mentions[i] : EntityId(e) = id
        first == CHOOSE i \in DOMAIN mentions : Has(i) /\ \A j \in 0..(i - 1) : ~Has(j)
    IN  CHOOSE e \in mentions[first] : EntityId(e) = id

\* wordBoundaryMatch.
Mentions(text, v) == \E w \in text.of : Folded(w) = Folded(v)

BuildGraph(top, findings, signals, pairs) ==
    LET mentions == [i \in 0..Len(findings) |-> IF i = 0 THEN top ELSE findings[i].entities]
        ids == {EntityId(e) : e \in UNION {mentions[i] : i \in DOMAIN mentions}}
        entities == {[id |-> id, kind |-> FirstOf(id, mentions).kind,
                      value |-> FirstOf(id, mentions).value] : id \in ids}
        told == {findings[i] : i \in DOMAIN findings}
        located == {f \in told : f.line > 0}
        IdOf(f) == FindingId(f.category, f.text)
    IN  [entities |-> entities,
         findings |-> {[id |-> IdOf(f), text |-> f.text] : f \in told \cup signals},
         sources  |-> {[id |-> SourceId(f.path, f.line)] : f \in located},
         edges    |->
              (UNION {{Link(EntityId(e), IdOf(f), "entity_to_finding") : e \in f.entities} :
                        f \in told})
              \cup {Link(x[1].id, IdOf(x[2]), "entity_to_finding") :
                      x \in {y \in entities \X signals : Mentions(y[2].text, y[1].value)}}
              \cup {Link(IdOf(f), SourceId(f.path, f.line), "finding_to_source") : f \in located}
              \cup {Link(EntityId(x[1]), EntityId(x[2]), "entity_to_entity") :
                      x \in {y \in pairs : {EntityId(y[1]), EntityId(y[2])} \subseteq ids}}]

EmptyGraph == [entities |-> {}, findings |-> {}, sources |-> {}, edges |-> {}]

-----------------------------------------------------------------------------
(* anonymizeReport: maskString, and the graph.  known: the spellings that the *)
(* regular expressions match and the replacements look for.                   *)

MaskName(v, known) ==
    IF v \notin known THEN v
    ELSE IF v \in Addresses THEN RedactedAddress
    ELSE IF v \in HostNames THEN RedactedHost ELSE ExampleDomain

MaskText(t, known) == [say |-> t.say, of |-> {MaskName(v, known) : v \in t.of}]

MaskedEntities(nodes, known) ==
    {[id |-> n.id, kind |-> n.kind, value |-> MaskName(n.value, known)] : n \in nodes}

MaskedMessages(nodes, known) ==
    {[id |-> n.id, text |-> MaskText(n.text, known)] : n \in nodes}

\* The identifiers of masked entities, recomputed from kind and value.
Rekeyed(nodes) == {[id |-> EntityId(n), kind |-> n.kind, value |-> n.value] : n \in nodes}

\* idRemap.
NewId(id, nodes) ==
    IF \E n \in nodes : n.id = id
    THEN EntityId(CHOOSE n \in nodes : n.id = id) ELSE id

\* Mistake: only the edges' sources are rewritten.
RewireSources(edges, nodes) == {Link(NewId(e.from, nodes), e.to, e.kind) : e \in edges}

Rewire(edges, nodes) ==
    {Link(NewId(e.from, nodes), NewId(e.to, nodes), e.kind) : e \in edges}

MaskGraph(g, known) ==
    LET masked == MaskedEntities(g.entities, known)
    IN  [entities |-> Rekeyed(masked),
         findings |-> MaskedMessages(g.findings, known),
         sources  |-> g.sources,
         edges    |-> Rewire(g.edges, masked)]

-----------------------------------------------------------------------------

NodeIds(g) == IdsOf(g.entities) \cup IdsOf(g.findings) \cup IdsOf(g.sources)

\* Every edge joins two nodes, and an entity has the identifier of its value to itself.
WellFormed(g) ==
    /\ \A e \in g.edges : e.from \in NodeIds(g) /\ e.to \in NodeIds(g)
    /\ \A n \in g.entities : n.id = EntityId(n)
    /\ \A m, n \in g.entities : m.id = n.id => m = n

=============================================================================

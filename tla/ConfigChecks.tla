----------------------------- MODULE ConfigChecks -----------------------------
(***************************************************************************)
(* sssd.conf in an analysis: the parser, and the validators in the order   *)
(* in which analyzeData calls them, two of which look up the option        *)
(* catalog in files that other programs may change meanwhile.  A section   *)
(* name is the sequence of its parts between slashes, a value the sequence *)
(* of its items.  Findings are a set: their order in the report follows    *)
(* that of Go maps.  Wording and suggestions are left out.                 *)
(***************************************************************************)
EXTENDS Integers, Sequences, FiniteSets

CONSTANTS Docs,       \* contents of sssd.conf: sequences of lines, see Line
          Names,      \* the section names that occur
          Keys,       \* the keys that occur, in lower case
          Tokens,     \* the items of values that occur
          LowerCase,  \* lower case of the keys and items that are not
          Atoi,       \* the numbers that items stand for
          Undotted,   \* the items with a leading dot, without it
          Addresses,  \* the items that are IP addresses
          Hostname,   \* the system's, <<>> if unknown
          Roots,      \* the definition roots, per-user before per-system
          Contents,   \* what catalog.json of a root may hold; other than those below,
                      \* a document that cannot be used
          Absent,     \* there: nothing, or nothing that Stat finds
          Unreadable, \* there: a file that cannot be read
          Catalogs,   \* there: a document that decodes into Catalogs[content]
          Embedded,   \* the catalog compiled into the program
          NoName,     \* no section
          MaxEdits    \* bound: files changed by other programs

Global == <<"[global]">>
Line == [kind : {"header", "option", "blank"}, name : Names, key : STRING, value : Seq(Tokens)]
KeyVal == [value : Seq(Tokens), line : Nat]
OptionMeta == [families : SUBSET STRING, type : {"bool", "int", "other"},
               values : SUBSET Tokens]

Lower(t) == IF t \in DOMAIN LowerCase THEN LowerCase[t] ELSE t

ASSUME ConfigAssumption ==
    /\ Global \in Names /\ NoName \notin Names
    /\ Addresses \subseteq Tokens /\ Hostname \in Seq(Tokens)
    /\ Roots \in Seq(STRING)
    /\ \A d \in Docs : /\ d \in Seq(Line) /\ Len(d) > 0
                       /\ \A i \in DOMAIN d : d[i].kind = "option" => Lower(d[i].key) \in Keys
    /\ Atoi \in [DOMAIN Atoi -> Int]
    /\ Absent \in Contents /\ Unreadable \in Contents
    /\ DOMAIN Catalogs \cap {Absent, Unreadable} = {} /\ Embedded \in DOMAIN Catalogs
    /\ MaxEdits \in Nat

VARIABLES disk,    \* catalog.json of each root
          memo,    \* catalogOverrideCache
          doc,     \* the sssd.conf under analysis
          line,    \* its first line not yet read
          cfg,     \* ParsedConfig, and the section being read
          pc,      \* the next step of the analysis
          sec,     \* the section of cfg.order it is at, for validateADSections
          load,    \* loadOptionCatalog, while it runs and what it returned
          report,
          past     \* history: what each root held during this analysis; edits

vars == <<disk, memo, doc, line, cfg, pc, sec, load, report, past>>

RootIds == 1..Len(Roots)
RangeOf(s) == {s[i] : i \in DOMAIN s}
Fold(v) == [i \in DOMAIN v |-> Lower(v[i])]
Undot(v) == [i \in DOMAIN v |-> IF v[i] \in DOMAIN Undotted THEN Undotted[v[i]] ELSE v[i]]

-----------------------------------------------------------------------------
(* The parser.                                                               *)

Kind(n) == IF n = Global THEN "global" ELSE IF n = <<>> THEN "" ELSE n[1]

NoConfig == [order |-> <<>>, opts |-> [n \in Names |-> [k \in Keys |-> <<>>]],
             cur |-> NoName]

\* Mistake: a section that is opened again starts empty.
OpenedAnew(c, n) ==
    [order |-> IF n \in RangeOf(c.order) THEN c.order ELSE Append(c.order, n),
     opts |-> [c.opts EXCEPT ![n] = [k \in Keys |-> <<>>]], cur |-> n]

\* A header that was seen before goes on with its section.
Opened(c, n) ==
    [order |-> IF n \in RangeOf(c.order) THEN c.order ELSE Append(c.order, n),
     opts |-> c.opts, cur |-> n]

\* Options before the first header go to a section of their own.
Started(c) == IF c.cur = NoName THEN Opened(c, Global) ELSE c

Added(c, k, kv) ==
    [order |-> c.order, cur |-> c.cur,
     opts |-> [c.opts EXCEPT ![c.cur][k] = Append(c.opts[c.cur][k], kv)]]

Parsed(c, l, i) ==
    CASE l.kind = "header" -> Opened(c, l.name)
      [] l.kind = "option" -> Added(Started(c), Lower(l.key), [value |-> l.value, line |-> i])
      [] OTHER -> c

Sections(c) == RangeOf(c.order)
Domains(c) == {n \in Sections(c) : Kind(n) = "domain"}
Present(c, n) == {k \in Keys : c.opts[n][k] # <<>>}
Has(c, n, k) == k \in Keys /\ c.opts[n][k] # <<>>
FirstOption(c, n, k) == c.opts[n][k][1]
Is(c, n, k, v) == Has(c, n, k) /\ Fold(FirstOption(c, n, k).value) = v
IsSet(c, n, k) == Has(c, n, k) /\ FirstOption(c, n, k).value # <<>>

IsAd(c, n) == n \in Domains(c) /\ Is(c, n, "id_provider", <<"ad">>)
HasAD(c) == \E n \in Sections(c) : IsAd(c, n)

-----------------------------------------------------------------------------
(* Findings.                                                                 *)

ErrorCapable ==
    {"structure:no-domains", "structure:services", "domain:missing-id-provider",
     "domain:invalid-id-provider", "domain:inherit-from", "idmap:invalid-range",
     "idmap:overlap", "access:simple-allow-without-filter", "syntax:duplicate-key",
     "correlate:krb5-realm-mismatch", "log:ad-domain-unresolvable",
     "log:ad-server-unresolvable", "log:unsupported-sasl-mech",
     "log:krb5-validate-disabled", "log:starttls-on-ad", "log:invalid-gpo-value"}

CatalogSeverity(want, rule) ==
    IF want = "warning" \/ rule \in ErrorCapable THEN want ELSE "warning"

\* What a finding says that names no line.
NoLine == [value |-> <<>>, line |-> 0]

\* A finding of a curated rule; the message may name another section.
FindingOn(sev, rule, n, k, kv, other) ==
    [sev |-> CatalogSeverity(sev, rule), rule |-> rule, sec |-> n, key |-> k,
     value |-> kv.value, line |-> kv.line, other |-> other, by |-> Absent]

Finding(sev, rule, n, k, kv) == FindingOn(sev, rule, n, k, kv, NoName)

\* A finding that quotes the catalog it was made with.
CatalogFinding(rule, n, k, kv, content) ==
    [Finding("warning", rule, n, k, kv) EXCEPT !.by = content]

NewReport == [findings |-> {}, notes |-> {}, diags |-> {}, provenance |-> Absent,
              adProviderMode |-> FALSE, adDomain |-> <<>>, enumerate |-> FALSE,
              fqdn |-> FALSE]

With(r, findings) == [r EXCEPT !.findings = @ \cup findings]

-----------------------------------------------------------------------------
(* The curated rules.                                                        *)

DuplicateKeys(c) ==
    {Finding("error", "syntax:duplicate-key", p[1], p[2], c.opts[p[1]][p[2]][2]) :
       p \in {q \in Sections(c) \X (Keys \ {"debug_level"}) : Len(c.opts[q[1]][q[2]]) >= 2}}

\* The list comes from the embedded catalog, whatever override is in place.
IdProviders ==
    LET known == Catalogs[Embedded].options IN
    IF "id_provider" \in DOMAIN known /\ known["id_provider"].values # {}
      THEN {Lower(v) : v \in known["id_provider"].values}
      ELSE {"ad", "ipa", "ldap", "proxy", "simple", "files"}

DomainStructure(c) ==
       {Finding("error", "domain:missing-id-provider", n, "id_provider", NoLine) :
          n \in {m \in Domains(c) : ~Has(c, m, "id_provider")}}
  \cup {Finding("error", "domain:invalid-id-provider", n, "id_provider",
                FirstOption(c, n, "id_provider")) :
          n \in {m \in Domains(c) :
                   /\ Has(c, m, "id_provider")
                   /\ IsSet(c, m, "id_provider") =>   \* the first item decides
                        Lower(FirstOption(c, m, "id_provider").value[1]) \notin IdProviders}}
  \cup {Finding("error", "domain:inherit-from", n, "inherit_from",
                FirstOption(c, n, "inherit_from")) :
          n \in {m \in Domains(c) : IsSet(c, m, "inherit_from")}}

\* The whole-config part of validateADConfig.
Tuning(c) ==
    LET Some(k, v) == \E n \in Sections(c) : Is(c, n, k, v)
        Any(k) == \E n \in Sections(c) : Has(c, n, k)
        simple == Any("simple_allow_groups") \/ Any("simple_allow_users")
    IN [notes |->
             {x \in {"tokengroups"} : ~Some("ldap_use_tokengroups", <<"false">>)}
        \cup {x \in {"timeout"} : ~Any("timeout")}
        \cup {x \in {"simple_allow_groups"} : Any("simple_allow_groups")},
        findings |->
             {Finding("error", "access:simple-allow-without-filter", NoName,
                      "simple_allow", NoLine) :
                x \in {y \in {1} : simple /\ ~Some("access_provider", <<"simple">>)}}]

IsAddress(v) == Len(v) = 1 /\ v[1] \in Addresses

\* The rules on the first value of one option of an AD domain.
AdRules ==
    {[key |-> k[1], rule |-> k[2], sev |-> k[3]] : k \in
       {<<"ad_domain", "log:ad-domain-unresolvable", "error">>,
        <<"ad_server", "log:ad-server-unresolvable", "error">>,
        <<"ad_hostname", "log:ad-server-unresolvable", "error">>,
        <<"ldap_sasl_mech", "log:unsupported-sasl-mech", "error">>,
        <<"ldap_id_mapping", "log:manual-id-mapping", "warning">>,
        <<"case_sensitive", "log:case-sensitive-on-ad", "warning">>,
        <<"krb5_validate", "log:krb5-validate-disabled", "error">>,
        <<"ldap_id_use_start_tls", "log:starttls-on-ad", "error">>,
        <<"ad_gpo_access_control", "log:invalid-gpo-value", "error">>,
        <<"ad_machine_account_password_renewal_opts", "log:malformed-renewal-opts",
          "warning">>}}

Offends(rule, v) ==
    CASE rule = "log:ad-domain-unresolvable" -> IsAddress(Undot(v))
      [] rule = "log:ad-server-unresolvable" -> IsAddress(v)
      [] rule = "log:unsupported-sasl-mech" -> Fold(v) # <<"gssapi">>
      [] rule \in {"log:manual-id-mapping", "log:krb5-validate-disabled"} ->
           Fold(v) = <<"false">>
      [] rule \in {"log:case-sensitive-on-ad", "log:starttls-on-ad"} -> Fold(v) = <<"true">>
      [] rule = "log:invalid-gpo-value" ->
           Fold(v) \notin {<<"disabled">>, <<"permissive">>, <<"enforcing">>}
      [] rule = "log:malformed-renewal-opts" ->
           ~(Len(v) = 2 /\ v[1] \in DOMAIN Atoi /\ v[2] \in DOMAIN Atoi)

\* One domain of validateADConfig.  The report keeps the first ad_domain it
\* meets, and each realm is compared with that one.
AdSection(c, r, n) ==
    LET adDomain == IF r.adDomain = <<>> /\ IsSet(c, n, "ad_domain")
                      THEN Fold(Undot(FirstOption(c, n, "ad_domain").value)) ELSE r.adDomain
        enumerates == Is(c, n, "enumerate", <<"true">>)
        On(sev, rule, k) == Finding(sev, rule, n, k, FirstOption(c, n, k))
        simple == {On(a.sev, a.rule, a.key) :
                     a \in {b \in AdRules :
                              /\ IsSet(c, n, b.key)
                              /\ Offends(b.rule, FirstOption(c, n, b.key).value)}}
        deprecated == {On("warning", "ad:enumerate-deprecated", "enumerate") :
                         x \in {y \in {1} : enumerates /\ ~r.enumerate}}
        realm == {On("critical", "correlate:krb5-realm-mismatch", "krb5_realm") :
                    x \in {y \in {1} : /\ IsSet(c, n, "krb5_realm") /\ adDomain # <<>>
                                       /\ ~Is(c, n, "krb5_realm", adDomain)}}
        site == {On("warning", "log:static-site-no-failover", "ad_enable_dns_sites") :
                   x \in {y \in {1} : /\ Has(c, n, "ad_site")
                                      /\ Is(c, n, "ad_enable_dns_sites", <<"false">>)}}
        host == {On("warning", "log:ad-hostname-mismatch", "ad_hostname") :
                   x \in {y \in {1} : /\ IsSet(c, n, "ad_hostname") /\ Hostname # <<>>
                                      /\ ~Is(c, n, "ad_hostname", Fold(Hostname))}}
    IN [With(r, simple \cup deprecated \cup realm \cup site \cup host) EXCEPT
          !.adDomain = adDomain, !.enumerate = @ \/ enumerates,
          !.fqdn = @ \/ Is(c, n, "use_fully_qualified_names", <<"true">>)]

\* validateConfigStructure.  The services are compared as they are spelt.
Structure(c) ==
    LET sssd == <<"sssd">>
        services == RangeOf(FirstOption(c, sssd, "services").value)
    IN {Finding("error", "structure:no-domains", NoName, "", NoLine) :
          x \in {y \in {1} : Domains(c) = {}}}
       \cup
       IF sssd \notin Sections(c)
         THEN {Finding("warning", "structure:missing-sssd-section", NoName, "", NoLine)}
         ELSE {Finding("error", "structure:services", sssd, s, NoLine) :
                 s \in {t \in {"nss", "pam"} : IsSet(c, sssd, "services") /\ t \notin services}}

\* firstOptionAny, for the two spellings of a bound of an ID range.
Low == <<"ldap_idmap_range_min", "idmap_range_min">>
High == <<"ldap_idmap_range_max", "idmap_range_max">>
FirstOfAny(c, n, names) == FirstOption(c, n, IF Has(c, n, names[1]) THEN names[1] ELSE names[2])
HasNumber(c, n, names) ==
    /\ \E i \in DOMAIN names : Has(c, n, names[i])
    /\ LET v == FirstOfAny(c, n, names).value IN Len(v) = 1 /\ v[1] \in DOMAIN Atoi
Bound(c, n, names) == Atoi[FirstOfAny(c, n, names).value[1]]

Ranged(c) == {n \in Domains(c) : /\ ~Is(c, n, "ldap_id_mapping", <<"false">>)
                                 /\ HasNumber(c, n, Low) /\ HasNumber(c, n, High)}
Inverted(c) == {n \in Ranged(c) : Bound(c, n, Low) >= Bound(c, n, High)}

\* Mistake: the line of the other bound.
IdFindingHigh(c, rule, n, other) ==
    FindingOn("error", rule, n, Low[1], FirstOfAny(c, n, High), other)

IdFinding(c, rule, n, other) ==
    FindingOn("error", rule, n, Low[1], FirstOfAny(c, n, Low), other)

\* The arrangements that sorting by lower bound may leave: sort.Slice is not stable.
Sorted(c) ==
    LET R == Ranged(c) \ Inverted(c) IN
    {s \in [1..Cardinality(R) -> R] :
       \A i, j \in DOMAIN s :
          i < j => s[i] # s[j] /\ Bound(c, s[i], Low) <= Bound(c, s[j], Low)}

\* Mistake: the upper bound counts as part of the range.
OverlapsIncluding(c, s) ==
    {IdFinding(c, "idmap:overlap", s[i + 1], s[i]) :
       i \in {j \in DOMAIN s : /\ j + 1 \in DOMAIN s
                               /\ Bound(c, s[j + 1], Low) <= Bound(c, s[j], High)}}

\* Each range is compared with its neighbour.
Overlaps(c, s) ==
    {IdFinding(c, "idmap:overlap", s[i + 1], s[i]) :
       i \in {j \in DOMAIN s : /\ j + 1 \in DOMAIN s
                               /\ Bound(c, s[j + 1], Low) < Bound(c, s[j], High)}}

-----------------------------------------------------------------------------
(* The catalog's rules, and those on the provider of a domain.               *)

Allowed(option, n) == \/ option.families = {} \/ "*" \in option.families
                      \/ Kind(n) \in option.families

Booleans == {"true", "false", "yes", "no", "1", "0", "on", "off"}

InvalidValue(option, v) ==
    /\ v # <<>>
    /\ \/ option.type = "bool" /\ ~(Len(v) = 1 /\ Lower(v[1]) \in Booleans)
       \/ option.type = "int" /\ ~(Len(v) = 1 /\ v[1] \in DOMAIN Atoi)
       \/ option.values # {} /\ \A x \in option.values : Lower(x) # Lower(v[1])

\* Mistake: the catalog judges every value.
NoEnumSkip == {}

\* Options whose values a curated rule judges.
CatalogEnumSkip == {"ad_gpo_access_control", "id_provider"}

OptionFindings(c, content) ==
    LET known == Catalogs[content].options
        Used == {p \in Sections(c) \X Keys : Has(c, p[1], p[2])}
        Misplaced(p) == p[2] \in DOMAIN known /\ ~Allowed(known[p[2]], p[1])
        First(rule, p) ==
            CatalogFinding(rule, p[1], p[2], FirstOption(c, p[1], p[2]), content)
        Judged == {p \in Used : /\ p[2] \in DOMAIN known /\ ~Misplaced(p)
                                /\ p[2] \notin CatalogEnumSkip}
        Invalid(p) == {kv \in RangeOf(c.opts[p[1]][p[2]]) : InvalidValue(known[p[2]], kv.value)}
    IN {First("catalog:unknown-option", p) : p \in {q \in Used : q[2] \notin DOMAIN known}}
       \cup {First("catalog:option-in-wrong-section", p) : p \in {q \in Used : Misplaced(q)}}
       \cup UNION {{CatalogFinding("catalog:invalid-value", p[1], p[2], kv, content) :
                      kv \in Invalid(p)} : p \in Judged}

SectionFindings(c, content) ==
    {CatalogFinding("catalog:unknown-section", n, "", NoLine, content) :
       n \in {m \in Sections(c) : Kind(m) # "" /\ Kind(m) \notin Catalogs[content].kinds}}

LdapCapable == {<<"ldap">>, <<"ad">>, <<"ipa">>}
DomainProvider(c, n) ==
    IF Has(c, n, "id_provider") THEN Fold(FirstOption(c, n, "id_provider").value) ELSE <<>>
AuthProvider(c, n) ==
    IF Has(c, n, "auth_provider") THEN Fold(FirstOption(c, n, "auth_provider").value)
                                  ELSE DomainProvider(c, n)

\* The three semantic rules: the keys each looks for, and where they are dead.
SemanticRules ==
    [uri |-> {"ldap_uri", "ldap_search_base", "ldap_backup_uri"},
     bind |-> {"ldap_default_bind_dn", "ldap_default_authtok", "ldap_default_authtok_type"},
     options |-> {"ldap_schema", "ldap_tls_cacert", "ldap_tls_reqcert", "ldap_search_timeout",
                  "ldap_network_timeout", "ldap_opt_timeout"}]
DeadIn(c, rule) ==
    {n \in Domains(c) :
       IF rule = "bind"
         THEN AuthProvider(c, n) \notin LdapCapable \cup {<<>>, <<"krb5">>, <<"proxy">>}
         ELSE DomainProvider(c, n) \notin LdapCapable \cup {<<>>}}
Semantics(c) ==
    UNION {{Finding("warning", rule, p[1], p[2], FirstOption(c, p[1], p[2])) :
              p \in {q \in DeadIn(c, rule) \X SemanticRules[rule] : IsSet(c, q[1], q[2])}} :
           rule \in DOMAIN SemanticRules}

-----------------------------------------------------------------------------
(* The analysis.                                                             *)

NoLoad == [candidate |-> 1, found |-> FALSE, diags |-> {}, by |-> Absent]

Init ==
    /\ disk \in [RootIds -> Contents]
    /\ memo = <<>>
    /\ doc = <<>> /\ line = 1 /\ cfg = NoConfig /\ report = NewReport
    /\ pc = "idle" /\ sec = 1 /\ load = NoLoad
    /\ past = [seen |-> [r \in RootIds |-> {disk[r]}], edits |-> 0]

Begin(d) ==
    /\ pc = "idle"
    /\ doc' = d /\ line' = 1 /\ cfg' = NoConfig /\ report' = NewReport
    /\ pc' = "parse" /\ load' = NoLoad
    /\ past' = [seen |-> [r \in RootIds |-> {disk[r]}], edits |-> past.edits]
    /\ UNCHANGED <<disk, memo, sec>>

ParseLine ==
    /\ pc = "parse"
    /\ cfg' = Parsed(cfg, doc[line], line)
    /\ line' = line + 1
    /\ pc' = IF line = Len(doc) THEN "duplicates" ELSE pc
    /\ UNCHANGED <<disk, memo, doc, sec, load, report, past>>

\* A validator that adds findings and is done.
Validate(step, findings, next) ==
    /\ pc = step
    /\ report' = With(report, findings)
    /\ pc' = next
    /\ UNCHANGED <<disk, memo, doc, line, cfg, sec, load, past>>

ValidateDuplicateKeys == Validate("duplicates", DuplicateKeys(cfg), "domains")
ValidateDomainStructure == Validate("domains", DomainStructure(cfg), "ad")

ValidateADConfig ==
    /\ pc = "ad"
    /\ IF HasAD(cfg)
         THEN /\ report' = [With(report, Tuning(cfg).findings) EXCEPT
                               !.notes = @ \cup Tuning(cfg).notes,
                               !.adProviderMode = TRUE]
              /\ pc' = "ad section" /\ sec' = 1
         ELSE pc' = "structure" /\ UNCHANGED <<report, sec>>
    /\ UNCHANGED <<disk, memo, doc, line, cfg, load, past>>

\* One turn of the loop over the AD domains.
ValidateADSections ==
    /\ pc = "ad section"
    /\ IF IsAd(cfg, cfg.order[sec]) THEN report' = AdSection(cfg, report, cfg.order[sec])
                                    ELSE UNCHANGED report
    /\ sec' = sec + 1
    /\ pc' = IF sec = Len(cfg.order) THEN "structure" ELSE pc
    /\ UNCHANGED <<disk, memo, doc, line, cfg, load, past>>

ValidateConfigStructure == Validate("structure", Structure(cfg), "idmap")

ValidateIDMapRanges ==
    \E s \in Sorted(cfg) :
       Validate("idmap", {IdFinding(cfg, "idmap:invalid-range", n, NoName) : n \in Inverted(cfg)}
                         \cup Overlaps(cfg, s), "options")

-----------------------------------------------------------------------------
(* loadOptionCatalog, once for the options and once for the headers.         *)

Loading == pc \in {"options", "headers"} /\ load.by = Absent
NextCandidate(diags) ==
    [candidate |-> load.candidate + 1, found |-> FALSE, diags |-> diags, by |-> Absent]

\* os.Stat on the candidate: what cannot be found is passed over in silence.
Stat ==
    /\ Loading /\ load.candidate \in RootIds /\ ~load.found
    /\ load' = IF disk[load.candidate] = Absent THEN NextCandidate(load.diags)
                                                ELSE [load EXCEPT !.found = TRUE]
    /\ UNCHANGED <<disk, memo, doc, line, cfg, pc, sec, report, past>>

\* Mistake: the memo is keyed by the file alone.
KeyOfFile(r, content) == <<r, Absent>>

\* A digest of the content is part of the key.
MemoKey(r, content) == <<r, content>>

\* loadOverrideCatalog: the document whose catalog the caller gets, and the memo after.
Decoded(m, r, content) ==
    IF MemoKey(r, content) \in DOMAIN m THEN m[MemoKey(r, content)] ELSE content
Remembered(m, r, content) ==
    [k \in DOMAIN m \cup {MemoKey(r, content)} |->
       IF k \in DOMAIN m THEN m[k] ELSE content]

\* Mistake: only what cannot be decoded is reported.
ReadOverrideQuietly ==
    /\ Loading /\ load.found
    /\ LET r == load.candidate
           content == disk[r]
           readable == content \notin {Absent, Unreadable}
           got == IF readable THEN Decoded(memo, r, content) ELSE Absent
       IN /\ memo' = IF readable THEN Remembered(memo, r, content) ELSE memo
          /\ load' = IF got \in DOMAIN Catalogs THEN [load EXCEPT !.by = got]
                     ELSE NextCandidate(IF readable THEN load.diags \cup {r} ELSE load.diags)
    /\ UNCHANGED <<disk, doc, line, cfg, pc, sec, report, past>>

\* os.ReadFile and the decoding, some time after Stat.
ReadOverride ==
    /\ Loading /\ load.found
    /\ LET r == load.candidate
           content == disk[r]
           readable == content \notin {Absent, Unreadable}
           got == IF readable THEN Decoded(memo, r, content) ELSE Absent
       IN /\ memo' = IF readable THEN Remembered(memo, r, content) ELSE memo
          /\ load' = IF got \in DOMAIN Catalogs THEN [load EXCEPT !.by = got]
                                                 ELSE NextCandidate(load.diags \cup {r})
    /\ UNCHANGED <<disk, doc, line, cfg, pc, sec, report, past>>

FallBack ==
    /\ Loading /\ load.candidate \notin RootIds
    /\ load' = [load EXCEPT !.by = Embedded]
    /\ UNCHANGED <<disk, memo, doc, line, cfg, pc, sec, report, past>>

\* The report names the catalog of the options; AddDiagnostics drops repetitions.
ValidateConfigAgainstCatalog ==
    /\ pc = "options" /\ load.by # Absent
    /\ report' = [With(report, OptionFindings(cfg, load.by)) EXCEPT
                    !.diags = @ \cup load.diags, !.provenance = load.by]
    /\ pc' = "headers" /\ load' = NoLoad
    /\ UNCHANGED <<disk, memo, doc, line, cfg, sec, past>>

ValidateSectionHeaders ==
    /\ pc = "headers" /\ load.by # Absent
    /\ report' = [With(report, SectionFindings(cfg, load.by)) EXCEPT
                    !.diags = @ \cup load.diags]
    /\ pc' = "semantics" /\ load' = NoLoad
    /\ UNCHANGED <<disk, memo, doc, line, cfg, sec, past>>

ValidateConfigSemantics == Validate("semantics", Semantics(cfg), "idle")

\* The inventory looks at a candidate: describeOverrideCatalog fills the memo.
DescribeOverride(r) ==
    /\ disk[r] \notin {Absent, Unreadable} /\ MemoKey(r, disk[r]) \notin DOMAIN memo
    /\ memo' = Remembered(memo, r, disk[r])
    /\ UNCHANGED <<disk, doc, line, cfg, pc, sec, load, report, past>>

\* Another program, or the Studio, puts a file there, changes it or removes it.
Edit(r, content) ==
    /\ content # disk[r] /\ past.edits < MaxEdits
    /\ disk' = [disk EXCEPT ![r] = content]
    /\ past' = [seen |-> [past.seen EXCEPT ![r] = @ \cup {content}],
                edits |-> past.edits + 1]
    /\ UNCHANGED <<memo, doc, line, cfg, pc, sec, load, report>>

Analysis ==
    \/ ParseLine \/ ValidateDuplicateKeys \/ ValidateDomainStructure
    \/ ValidateADConfig \/ ValidateADSections \/ ValidateConfigStructure
    \/ ValidateIDMapRanges \/ Stat \/ ReadOverride \/ FallBack
    \/ ValidateConfigAgainstCatalog \/ ValidateSectionHeaders \/ ValidateConfigSemantics

Next ==
    \/ \E d \in Docs : Begin(d)
    \/ Analysis
    \/ \E r \in RootIds : DescribeOverride(r)
    \/ \E r \in RootIds, content \in Contents : Edit(r, content)

Spec == Init /\ [][Next]_vars

-----------------------------------------------------------------------------
(* Properties.                                                               *)

Steps == {"idle", "parse", "duplicates", "domains", "ad", "ad section", "structure", "idmap",
          "options", "headers", "semantics"}

\* Every variable has its type: the roots hold what a root may hold, the memo maps a root
\* and a content to a content, and the load and the report name roots and contents only.
TypeOK ==
    /\ disk \in [RootIds -> Contents]
    /\ DOMAIN memo \subseteq RootIds \X Contents
    /\ \A k \in DOMAIN memo : memo[k] \in Contents
    /\ pc \in Steps /\ line \in Nat /\ sec \in Nat
    /\ load \in [candidate : Nat, found : BOOLEAN, diags : SUBSET RootIds,
                 by : Contents \cup {Embedded}]
    /\ report.diags \subseteq RootIds
    /\ report.provenance \in Contents \cup {Embedded}
    /\ past \in [seen : [RootIds -> SUBSET Contents], edits : 0..MaxEdits]

\* The section that a line of the file belongs to.
SectionAt(d, i) ==
    LET headers == {j \in 1..i : d[j].kind = "header"} IN
    IF headers = {} THEN Global
    ELSE d[CHOOSE j \in headers : \A k \in headers : k <= j].name

\* What the parser hands to the validators is the file: each option, in lower case, is
\* under the section of the last header above it, in the order of the lines and with
\* their numbers, also when a section is opened again or a key is repeated.
ParsedAsWritten ==
    pc = "duplicates" => \A n \in Names, k \in Keys :
      LET vals == cfg.opts[n][k]
          lines == {i \in DOMAIN doc : /\ doc[i].kind = "option" /\ Lower(doc[i].key) = k
                                      /\ SectionAt(doc, i) = n}
      IN /\ {vals[i].line : i \in DOMAIN vals} = lines
         /\ \A i, j \in DOMAIN vals : i < j => vals[i].line < vals[j].line
         /\ \A i \in DOMAIN vals : vals[i].value = doc[vals[i].line].value

\* A finding with a line number quotes that line: the option it names is written there,
\* in the section it names and with the value it quotes.  The old spelling of a bound of
\* an ID range is quoted under the new one.
FindingsQuoteTheFile ==
    \A f \in report.findings : f.line > 0 =>
      LET l == doc[f.line]
          key == Lower(l.key)
      IN /\ l.kind = "option" /\ l.value = f.value /\ SectionAt(doc, f.line) = f.sec
         /\ key = f.key \/ <<f.key, key>> = Low

Overlapping(a, b) ==
    /\ Bound(cfg, a, Low) < Bound(cfg, b, High) /\ Bound(cfg, b, Low) < Bound(cfg, a, High)
Ranges == Ranged(cfg) \ Inverted(cfg)

\* "Overlaps between ranges of different domains, which cause cross-domain UID/GID
\* collisions" are noticed: although each range is compared with its neighbour only, some
\* overlap is reported whenever two ranges overlap, and what is reported does overlap.
OverlapsAreNoticed ==
    LET reported == {f \in report.findings : f.rule = "idmap:overlap"} IN
    /\ \A f \in reported : f.sec # f.other /\ Overlapping(f.sec, f.other)
    /\ pc = "options" =>
         ((\E a, b \in Ranges : a # b /\ Overlapping(a, b)) => reported # {})

\* A value is judged once: where a curated rule rejects the value of an option, the
\* catalog is silent about that line, whichever catalog is in place.
OneVerdictPerValue ==
    LET curated == {"log:invalid-gpo-value", "domain:invalid-id-provider"} IN
    \A f, g \in report.findings :
      ~ /\ f.rule = "catalog:invalid-value" /\ g.rule \in curated
        /\ f.line = g.line /\ f.key = g.key

Good == DOMAIN Catalogs

\* A root gave no catalog at some time of this analysis.
Passed(r) == \E content \in past.seen[r] : content \notin Good

InPlace(content) ==
    \/ content = Embedded /\ \A r \in RootIds : Passed(r)
    \/ \E r \in RootIds : content \in past.seen[r] /\ \A q \in 1..(r - 1) : Passed(q)

\* Whatever the memo keeps from earlier analyses and whoever changes the files meanwhile,
\* options and headers are judged by a catalog that was in its root during this very
\* analysis, and by one of a later root, or the embedded one, only if each earlier root
\* had none to offer then.
VerdictsUseACatalogInPlace ==
    pc # "idle" =>
      /\ \A f \in report.findings : f.by # Absent => InPlace(f.by)
      /\ report.provenance # Absent => InPlace(report.provenance)

\* A diagnostic for every override that was skipped: when a root held, as long as the
\* analysis ran, nothing but documents that cannot be read or used, and no earlier root
\* had a catalog, the report names that root.
BrokenOverridesAreSaid ==
    report.provenance # Absent /\ pc # "idle" =>
      \A r \in RootIds :
        /\ past.seen[r] \cap (Good \cup {Absent}) = {}
        /\ \A q \in 1..(r - 1) : past.seen[q] \cap Good = {}
        => r \in report.diags

\* A realm is held against the ad_domain of its own domain: no section whose krb5_realm
\* is its ad_domain is reported ("krb5_realm vs ad_domain must match").
RealmsMatchTheirDomain ==
    \A f \in report.findings :
      f.rule = "correlate:krb5-realm-mismatch" =>
        ~ /\ IsSet(cfg, f.sec, "ad_domain")
          /\ Fold(f.value) = Fold(Undot(FirstOption(cfg, f.sec, "ad_domain").value))

=============================================================================

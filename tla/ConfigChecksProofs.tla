-------------------------- MODULE ConfigChecksProofs --------------------------
(***************************************************************************)
(* Which catalog an analysis judges with, which overrides it reports, and  *)
(* what its findings quote, for any configuration, any number of roots and *)
(* any changes of the files by other programs.  Two arguments.  The memo   *)
(* answers with the content it was asked about, and the candidates behind  *)
(* the current one were each seen, during this analysis, without a catalog *)
(* (IInv).  And the parser's state is what the lines read so far say, so   *)
(* what a validator finds in it stands in the file (Faithful).             *)
(***************************************************************************)
EXTENDS ConfigChecks, FiniteSetTheorems, FunctionTheorems, SequenceTheorems, TLAPS

LEMMA RootNumbers == RootIds \subseteq Nat \ {0} /\ Len(Roots) \in Nat
  BY ConfigAssumption, LenProperties DEF RootIds

LEMMA NothingIsNoCatalog == Absent \notin Good /\ Unreadable \notin Good /\ Embedded \in Good
  BY ConfigAssumption DEF Good

-----------------------------------------------------------------------------
(* The invariant.                                                            *)

\* The fields of a report, which every step keeps.
Shape(r) == DOMAIN r = {"findings", "notes", "diags", "provenance", "adProviderMode",
                        "adDomain", "enumerate", "fqdn"}

\* The memo answers with what it was asked about.
MemoOK == \A k \in DOMAIN memo : memo[k] = k[2]

SeenOK == \A r \in RootIds : disk[r] \in past.seen[r]

\* The roots before the candidate gave no catalog when they were looked at, and those of
\* them that held something are among the diagnostics.
LoadOK ==
    /\ load.candidate >= 1
    /\ load.found => load.candidate \in RootIds
    /\ \A q \in RootIds : q < load.candidate =>
          Passed(q) /\ (q \in load.diags \/ Absent \in past.seen[q])
    /\ load.by # Absent =>
          \/ /\ load.candidate \in RootIds
             /\ load.by \in past.seen[load.candidate] /\ load.by \in Good
          \/ load.candidate \notin RootIds /\ load.by = Embedded

\* The two properties, at any time.
Said ==
    report.provenance # Absent =>
      \A r \in RootIds :
        /\ past.seen[r] \cap (Good \cup {Absent}) = {}
        /\ \A q \in 1..(r - 1) : past.seen[q] \cap Good = {}
        => r \in report.diags

Placed ==
    /\ \A f \in report.findings : f.by # Absent => InPlace(f.by)
    /\ report.provenance # Absent => InPlace(report.provenance)

IInv == TypeOK /\ Shape(report) /\ MemoOK /\ SeenOK /\ LoadOK /\ Said /\ Placed

-----------------------------------------------------------------------------
(* What the validators add.                                                  *)

Curated(findings) == \A f \in findings : f.by = Absent

\* A finding of a curated rule quotes no catalog.
LEMMA CuratedBy ==
    /\ \A sev, rule, n, k, kv, other : FindingOn(sev, rule, n, k, kv, other).by = Absent
    /\ \A sev, rule, n, k, kv : Finding(sev, rule, n, k, kv).by = Absent
  BY DEF Finding, FindingOn

LEMMA DuplicatesAreCurated == ASSUME NEW c PROVE Curated(DuplicateKeys(c))
  BY CuratedBy DEF Curated, DuplicateKeys

LEMMA DomainsAreCurated == ASSUME NEW c PROVE Curated(DomainStructure(c))
  BY CuratedBy DEF Curated, DomainStructure

LEMMA TuningIsCurated == ASSUME NEW c PROVE Curated(Tuning(c).findings)
  BY CuratedBy DEF Curated, Tuning

LEMMA StructureIsCurated == ASSUME NEW c PROVE Curated(Structure(c))
  BY CuratedBy DEF Curated, Structure

LEMMA RangesAreCurated ==
    ASSUME NEW c, NEW s
    PROVE  Curated({IdFinding(c, "idmap:invalid-range", n, NoName) : n \in Inverted(c)}
                   \cup Overlaps(c, s))
  BY CuratedBy DEF Curated, Overlaps, IdFinding

LEMMA SemanticsAreCurated == ASSUME NEW c PROVE Curated(Semantics(c))
  BY CuratedBy DEF Curated, Semantics

LEMMA OptionsQuoteTheirCatalog ==
    ASSUME NEW c, NEW content
    PROVE  \A f \in OptionFindings(c, content) : f.by = content
<1>1. \A rule, n, k, kv : CatalogFinding(rule, n, k, kv, content).by = content
  BY DEF CatalogFinding, Finding, FindingOn
<1> QED
  BY <1>1 DEF OptionFindings

LEMMA HeadersQuoteTheirCatalog ==
    ASSUME NEW c, NEW content
    PROVE  \A f \in SectionFindings(c, content) : f.by = content
  BY DEF SectionFindings, CatalogFinding, Finding, FindingOn

LEMMA WithAdds ==
    ASSUME NEW r, Shape(r), NEW findings
    PROVE  /\ Shape(With(r, findings))
           /\ With(r, findings).findings = r.findings \cup findings
           /\ With(r, findings).diags = r.diags
           /\ With(r, findings).provenance = r.provenance
  BY DEF Shape, With
\* One AD section changes findings and flags of the report, nothing else.
LEMMA AdSectionAdds ==
    ASSUME NEW c, NEW r, NEW n, Shape(r)
    PROVE  /\ Shape(AdSection(c, r, n))
           /\ \A f \in AdSection(c, r, n).findings : f \in r.findings \/ f.by = Absent
           /\ AdSection(c, r, n).diags = r.diags
           /\ AdSection(c, r, n).provenance = r.provenance
  BY CuratedBy, WithAdds DEF AdSection, Shape

-----------------------------------------------------------------------------
(* The steps.                                                                *)

\* A step that only adds findings of curated rules.
LEMMA CuratedStep ==
    ASSUME IInv, Shape(report'), report'.diags = report.diags,
           report'.provenance = report.provenance,
           \A f \in report'.findings : f \in report.findings \/ f.by = Absent,
           UNCHANGED <<disk, memo, load, past>>,
           pc' \in Steps, line' \in Nat, sec' \in Nat
    PROVE  IInv'
<1>1. TypeOK'
  BY DEF IInv, TypeOK
<1>2. MemoOK' /\ SeenOK' /\ LoadOK' /\ Said'
  BY DEF IInv, MemoOK, SeenOK, LoadOK, Said, Passed
<1>3. Placed'
  BY DEF IInv, Placed, InPlace, Passed
<1> QED
  BY <1>1, <1>2, <1>3 DEF IInv

\* A validator that adds findings and is done.
LEMMA ValidateStep ==
    ASSUME IInv, NEW step, NEW findings, NEW next \in Steps, Curated(findings),
           Validate(step, findings, next)
    PROVE  IInv'
<1>1. /\ Shape(report') /\ report'.diags = report.diags
      /\ report'.provenance = report.provenance
      /\ report'.findings = report.findings \cup findings
  BY WithAdds DEF Validate, IInv
<1>2. \A f \in report'.findings : f \in report.findings \/ f.by = Absent
  BY <1>1 DEF Curated
<1>3. pc' \in Steps /\ line' \in Nat /\ sec' \in Nat
  BY DEF Validate, IInv, TypeOK
<1> QED
  BY <1>1, <1>2, <1>3, CuratedStep DEF Validate

\* A step that changes nothing but the load and the memo.
LEMMA LoadStep ==
    ASSUME IInv, UNCHANGED <<disk, doc, line, cfg, pc, sec, report, past>>,
           DOMAIN memo' \subseteq RootIds \X Contents,
           \A k \in DOMAIN memo' : memo'[k] \in Contents /\ memo'[k] = k[2],
           load' \in [candidate : Nat, found : BOOLEAN, diags : SUBSET RootIds,
                      by : Contents \cup {Embedded}],
           LoadOK'
    PROVE  IInv'
<1>1. TypeOK'
  BY DEF IInv, TypeOK
<1>2. MemoOK' /\ SeenOK' /\ Said' /\ Placed'
  BY DEF IInv, MemoOK, SeenOK, Said, Placed, InPlace, Passed
<1> QED
  BY <1>1, <1>2 DEF IInv

\* The candidate is passed over: it gave no catalog just now.
LEMMA PassOver ==
    ASSUME IInv, Loading, load.candidate \in RootIds, UNCHANGED past,
           disk[load.candidate] \notin Good, NEW diags \in SUBSET RootIds,
           load.diags \subseteq diags,
           load.candidate \in diags \/ disk[load.candidate] = Absent,
           load' = NextCandidate(diags)
    PROVE  /\ LoadOK'
           /\ load' \in [candidate : Nat, found : BOOLEAN, diags : SUBSET RootIds,
                         by : Contents \cup {Embedded}]
<1> DEFINE c == load.candidate
<1>1. c \in Nat /\ Absent \in Contents
  BY ConfigAssumption DEF IInv, TypeOK
<1>2. load' = [candidate |-> c + 1, found |-> FALSE, diags |-> diags, by |-> Absent]
  BY DEF NextCandidate
<1>3. disk[c] \in past.seen[c]
  BY DEF IInv, SeenOK
<1>4. Passed(c) /\ (c \in diags \/ Absent \in past.seen[c])
  BY <1>3 DEF Passed
<1>5. ASSUME NEW q \in RootIds, q < c + 1
      PROVE  Passed(q) /\ (q \in diags \/ Absent \in past.seen[q])
  <2>1. q = c \/ q < c
    BY <1>1, <1>5, RootNumbers
  <2> QED
    BY <1>4, <2>1 DEF IInv, LoadOK
<1>6. \A q \in RootIds : Passed(q)' <=> Passed(q)
  BY DEF Passed
<1> HIDE DEF c
<1>7. LoadOK'
  BY <1>1, <1>2, <1>5, <1>6 DEF LoadOK
<1> QED
  BY <1>1, <1>2, <1>7

LEMMA StatStep == ASSUME IInv, Stat PROVE IInv'
<1>1. load.candidate \in RootIds /\ load.diags \subseteq RootIds
  BY DEF Stat, IInv, TypeOK
<1>2. \A k \in DOMAIN memo : memo[k] \in Contents /\ memo[k] = k[2]
  BY DEF IInv, TypeOK, MemoOK
<1>3. CASE disk[load.candidate] = Absent
  <2>1. load' = NextCandidate(load.diags)
    BY <1>3 DEF Stat
  <2>2. disk[load.candidate] \notin Good
    BY <1>3, NothingIsNoCatalog
  <2>3. /\ LoadOK'
        /\ load' \in [candidate : Nat, found : BOOLEAN, diags : SUBSET RootIds,
                      by : Contents \cup {Embedded}]
    BY <1>1, <1>3, <2>1, <2>2, PassOver DEF Stat
  <2> QED
    BY <1>2, <2>3, LoadStep DEF Stat, IInv, TypeOK
<1>4. CASE disk[load.candidate] # Absent
  <2>1. load' = [load EXCEPT !.found = TRUE]
    BY <1>4 DEF Stat
  <2>2. load' = [candidate |-> load.candidate, found |-> TRUE, diags |-> load.diags,
                 by |-> load.by]
    BY <2>1 DEF IInv, TypeOK
  <2>3. LoadOK'
    BY <1>1, <2>2 DEF IInv, LoadOK, Stat, Passed
  <2>4. load' \in [candidate : Nat, found : BOOLEAN, diags : SUBSET RootIds,
                   by : Contents \cup {Embedded}]
    BY <2>2 DEF IInv, TypeOK
  <2> QED
    BY <1>2, <2>3, <2>4, LoadStep DEF Stat, IInv, TypeOK
<1> QED
  BY <1>3, <1>4

LEMMA FallBackStep == ASSUME IInv, FallBack PROVE IInv'
<1>1. \A k \in DOMAIN memo : memo[k] \in Contents /\ memo[k] = k[2]
  BY DEF IInv, TypeOK, MemoOK
<1>2. load' = [candidate |-> load.candidate, found |-> load.found, diags |-> load.diags,
               by |-> Embedded]
  BY DEF FallBack, IInv, TypeOK
<1>3. LoadOK'
  BY <1>2 DEF IInv, LoadOK, FallBack, Passed
<1>4. load' \in [candidate : Nat, found : BOOLEAN, diags : SUBSET RootIds,
                 by : Contents \cup {Embedded}]
  BY <1>2 DEF IInv, TypeOK
<1> QED
  BY <1>1, <1>3, <1>4, LoadStep DEF FallBack, IInv, TypeOK

\* What is remembered is what was asked about, and so is what was decoded.
LEMMA MemoGrows ==
    ASSUME IInv, NEW r \in RootIds, NEW content \in Contents
    PROVE  /\ Decoded(memo, r, content) = content
           /\ DOMAIN Remembered(memo, r, content) \subseteq RootIds \X Contents
           /\ \A k \in DOMAIN Remembered(memo, r, content) :
                 /\ Remembered(memo, r, content)[k] \in Contents
                 /\ Remembered(memo, r, content)[k] = k[2]
  BY DEF IInv, TypeOK, MemoOK, Decoded, Remembered, MemoKey

LEMMA ReadStep == ASSUME IInv, ReadOverride PROVE IInv'
<1> DEFINE r == load.candidate
           content == disk[r]
           readable == content \notin {Absent, Unreadable}
           got == IF readable THEN Decoded(memo, r, content) ELSE Absent
<1>1. r \in RootIds /\ content \in Contents /\ load.diags \subseteq RootIds
  BY DEF ReadOverride, IInv, LoadOK, TypeOK
<1>2. /\ memo' = IF readable THEN Remembered(memo, r, content) ELSE memo
      /\ load' = IF got \in DOMAIN Catalogs THEN [load EXCEPT !.by = got]
                                             ELSE NextCandidate(load.diags \cup {r})
  BY DEF ReadOverride
<1>3. got = IF readable THEN content ELSE Absent
  BY <1>1, MemoGrows
<1>4. content \in past.seen[r]
  BY <1>1 DEF IInv, SeenOK
<1>5. got \in Good => got = content
  BY <1>3, NothingIsNoCatalog
<1>6. got \notin Good => content \notin Good
  BY <1>3, NothingIsNoCatalog
<1>7. /\ DOMAIN memo' \subseteq RootIds \X Contents
      /\ \A k \in DOMAIN memo' : memo'[k] \in Contents /\ memo'[k] = k[2]
  <2>1. CASE readable
    <3>1. memo' = Remembered(memo, r, content)
      BY <1>2, <2>1
    <3> HIDE DEF r, content
    <3> QED
      BY <1>1, <3>1, MemoGrows
  <2>2. CASE ~readable
    BY <1>2, <2>2 DEF IInv, TypeOK, MemoOK
  <2> QED
    BY <2>1, <2>2
<1>8. /\ LoadOK'
      /\ load' \in [candidate : Nat, found : BOOLEAN, diags : SUBSET RootIds,
                    by : Contents \cup {Embedded}]
  <2>1. CASE got \in Good
    <3>1. load' = [candidate |-> r, found |-> load.found, diags |-> load.diags,
                   by |-> content]
      BY <1>2, <1>5, <2>1 DEF Good, IInv, TypeOK
    <3>2. content \in Good
      BY <1>5, <2>1
    <3>3. past' = past /\ load.candidate = r /\ r >= 1 /\ r \in RootIds
      BY <1>1, RootNumbers DEF ReadOverride
    <3>4. \A q : Passed(q)' <=> Passed(q)
      BY <3>3 DEF Passed
    <3> HIDE DEF r, content
    <3>5. LoadOK'
      BY <1>4, <3>1, <3>2, <3>3, <3>4 DEF IInv, LoadOK
    <3> QED
      BY <1>1, <3>1, <3>3, <3>5, RootNumbers DEF IInv, TypeOK
  <2>2. CASE got \notin Good
    <3>1. load' = NextCandidate(load.diags \cup {r})
      BY <1>2, <2>2 DEF Good
    <3>2. disk[load.candidate] \notin Good /\ load.candidate \in RootIds
      BY <1>1, <1>6, <2>2
    <3>3. /\ load.diags \cup {r} \in SUBSET RootIds /\ load.diags \subseteq load.diags \cup {r}
          /\ load.candidate \in load.diags \cup {r}
      BY <1>1
    <3> HIDE DEF r, content, readable, got
    <3> QED
      BY <3>1, <3>2, <3>3, PassOver DEF ReadOverride
  <2> QED
    BY <2>1, <2>2
<1> HIDE DEF r, content, readable, got
<1> QED
  BY <1>7, <1>8, LoadStep DEF ReadOverride

\* The catalog that the load returned was in place.
LEMMA ChosenIsInPlace == ASSUME IInv, load.by # Absent PROVE InPlace(load.by)
<1>1. CASE load.candidate \in RootIds /\ load.by \in past.seen[load.candidate]
  <2>1. \A q \in 1..(load.candidate - 1) : q \in RootIds /\ q < load.candidate
    BY <1>1, RootNumbers DEF RootIds
  <2> QED
    BY <1>1, <2>1 DEF InPlace, IInv, LoadOK
<1>2. CASE load.candidate \notin RootIds /\ load.by = Embedded
  <2>1. \A q \in RootIds : q < load.candidate
    BY <1>2, RootNumbers DEF RootIds, IInv, TypeOK, LoadOK
  <2> QED
    BY <1>2, <2>1 DEF InPlace, IInv, LoadOK
<1> QED
  BY <1>1, <1>2 DEF IInv, LoadOK

\* The diagnostics of the load name the roots that Said speaks of.
LEMMA SkippedAreNamed ==
    ASSUME IInv, load.by # Absent, NEW r \in RootIds,
           past.seen[r] \cap (Good \cup {Absent}) = {},
           \A q \in 1..(r - 1) : past.seen[q] \cap Good = {}
    PROVE  r \in load.diags
<1>1. CASE r < load.candidate
  BY <1>1 DEF IInv, LoadOK
<1>2. CASE ~(r < load.candidate)
  <2>1. load.candidate \in RootIds /\ load.by \in past.seen[load.candidate] /\ load.by \in Good
    BY <1>2, RootNumbers DEF RootIds, IInv, LoadOK, TypeOK
  <2>2. load.candidate = r \/ load.candidate \in 1..(r - 1)
    BY <1>2, <2>1, RootNumbers DEF RootIds
  <2> QED
    BY <2>1, <2>2
<1> QED
  BY <1>1, <1>2

\* One of the two passes that use the catalog takes over what the load returned.
LEMMA CatalogStep ==
    ASSUME IInv, load.by # Absent, NEW findings, \A f \in findings : f.by = load.by,
           Shape(report'), report'.findings = report.findings \cup findings,
           report'.diags = report.diags \cup load.diags,
           report'.provenance \in {load.by, report.provenance},
           pc' \in Steps, load' = NoLoad,
           UNCHANGED <<disk, memo, doc, line, cfg, sec, past>>
    PROVE  IInv'
<1>1. TypeOK'
  BY ConfigAssumption DEF IInv, TypeOK, NoLoad
<1>2. MemoOK' /\ SeenOK'
  BY DEF IInv, MemoOK, SeenOK
<1>3. LoadOK'
  BY RootNumbers DEF LoadOK, NoLoad, RootIds
<1>4. \A x : InPlace(x)' <=> InPlace(x)
  BY DEF InPlace, Passed
<1>5. InPlace(load.by)
  BY ChosenIsInPlace
<1>6. Placed'
  BY <1>4, <1>5 DEF IInv, Placed
<1>7. Said'
  BY SkippedAreNamed DEF IInv, Said
<1> QED
  BY <1>1, <1>2, <1>3, <1>6, <1>7 DEF IInv

LEMMA CatalogPasses ==
    ASSUME IInv, ValidateConfigAgainstCatalog \/ ValidateSectionHeaders
    PROVE  IInv'
<1>1. CASE ValidateConfigAgainstCatalog
  <2> DEFINE fs == OptionFindings(cfg, load.by)
  <2>1. \A f \in fs : f.by = load.by
    BY OptionsQuoteTheirCatalog
  <2>2. /\ Shape(With(report, fs)) /\ With(report, fs).findings = report.findings \cup fs
        /\ With(report, fs).diags = report.diags
    BY WithAdds DEF IInv
  <2>3. report' = [With(report, fs) EXCEPT !.diags = @ \cup load.diags, !.provenance = load.by]
    BY <1>1 DEF ValidateConfigAgainstCatalog
  <2> HIDE DEF fs
  <2>4. /\ Shape(report') /\ report'.findings = report.findings \cup fs
        /\ report'.diags = report.diags \cup load.diags /\ report'.provenance = load.by
    BY <2>2, <2>3 DEF Shape
  <2>5. pc' \in Steps /\ load' = NoLoad /\ load.by # Absent
        /\ UNCHANGED <<disk, memo, doc, line, cfg, sec, past>>
    BY <1>1 DEF ValidateConfigAgainstCatalog, Steps
  <2> QED
    BY <2>1, <2>4, <2>5, CatalogStep
<1>2. CASE ValidateSectionHeaders
  <2> DEFINE fs == SectionFindings(cfg, load.by)
  <2>1. \A f \in fs : f.by = load.by
    BY HeadersQuoteTheirCatalog
  <2>2. /\ Shape(With(report, fs)) /\ With(report, fs).findings = report.findings \cup fs
        /\ With(report, fs).diags = report.diags
        /\ With(report, fs).provenance = report.provenance
    BY WithAdds DEF IInv
  <2>3. report' = [With(report, fs) EXCEPT !.diags = @ \cup load.diags]
    BY <1>2 DEF ValidateSectionHeaders
  <2> HIDE DEF fs
  <2>4. /\ Shape(report') /\ report'.findings = report.findings \cup fs
        /\ report'.diags = report.diags \cup load.diags
        /\ report'.provenance = report.provenance
    BY <2>2, <2>3 DEF Shape
  <2>5. pc' \in Steps /\ load' = NoLoad /\ load.by # Absent
        /\ UNCHANGED <<disk, memo, doc, line, cfg, sec, past>>
    BY <1>2 DEF ValidateSectionHeaders, Steps
  <2> QED
    BY <2>1, <2>4, <2>5, CatalogStep
<1> QED
  BY <1>1, <1>2

LEMMA Validators ==
    ASSUME IInv,
           \/ ValidateDuplicateKeys \/ ValidateDomainStructure \/ ValidateADConfig
           \/ ValidateADSections \/ ValidateConfigStructure \/ ValidateIDMapRanges
           \/ ValidateConfigSemantics
    PROVE  IInv'
<1>1. CASE ValidateDuplicateKeys
  BY <1>1, ValidateStep, DuplicatesAreCurated DEF ValidateDuplicateKeys, Steps
<1>2. CASE ValidateDomainStructure
  BY <1>2, ValidateStep, DomainsAreCurated DEF ValidateDomainStructure, Steps
<1>3. CASE ValidateADConfig
  <2> DEFINE fs == Tuning(cfg).findings
             with == With(report, fs)
  <2>1. /\ Shape(report) /\ Shape(with) /\ with.findings = report.findings \cup fs
        /\ with.diags = report.diags /\ with.provenance = report.provenance
    BY WithAdds DEF IInv
  <2>2. Curated(fs)
    BY TuningIsCurated
  <2>3. \/ report' = [with EXCEPT !.notes = @ \cup Tuning(cfg).notes, !.adProviderMode = TRUE]
        \/ report' = report
    BY <1>3 DEF ValidateADConfig
  <2> HIDE DEF fs, with
  <2>4. /\ Shape(report') /\ report'.diags = report.diags
        /\ report'.provenance = report.provenance
        /\ \A f \in report'.findings : f \in report.findings \/ f.by = Absent
    BY <2>1, <2>2, <2>3 DEF Shape, Curated
  <2>5. /\ pc' \in {"ad section", "structure"} /\ sec' \in {1, sec} /\ line' = line
        /\ UNCHANGED <<disk, memo, load, past>>
    BY <1>3 DEF ValidateADConfig
  <2>6. pc' \in Steps /\ sec' \in Nat /\ line' \in Nat
    <3>1. sec \in Nat /\ line \in Nat
      BY DEF IInv, TypeOK
    <3>2. pc' \in Steps
      BY <2>5 DEF Steps
    <3> QED
      <4>1. sec' = 1 \/ sec' = sec
        BY <2>5
      <4>2. line' = line
        BY <2>5
      <4> QED
        BY <3>1, <3>2, <4>1, <4>2
  <2> QED
    BY <2>4, <2>5, <2>6, CuratedStep
<1>4. CASE ValidateADSections
  <2>1. report' = AdSection(cfg, report, cfg.order[sec]) \/ report' = report
    BY <1>4 DEF ValidateADSections
  <2>2. /\ Shape(report') /\ report'.diags = report.diags
        /\ report'.provenance = report.provenance
        /\ \A f \in report'.findings : f \in report.findings \/ f.by = Absent
    BY <2>1, AdSectionAdds DEF IInv
  <2>3. /\ pc' \in {"structure", pc} /\ sec' = sec + 1 /\ line' = line
        /\ UNCHANGED <<disk, memo, load, past>>
    BY <1>4 DEF ValidateADSections
  <2>4. pc' \in Steps /\ sec' \in Nat /\ line' \in Nat
    <3>1. sec \in Nat /\ line \in Nat /\ pc \in Steps
      BY DEF IInv, TypeOK
    <3>2. pc' \in Steps
      BY <2>3, <3>1 DEF Steps
    <3> QED
      BY <2>3, <3>1, <3>2
  <2> QED
    BY <2>2, <2>3, <2>4, CuratedStep
<1>5. CASE ValidateConfigStructure
  BY <1>5, ValidateStep, StructureIsCurated DEF ValidateConfigStructure, Steps
<1>6. CASE ValidateIDMapRanges
  BY <1>6, ValidateStep, RangesAreCurated DEF ValidateIDMapRanges, Steps
<1>7. CASE ValidateConfigSemantics
  BY <1>7, ValidateStep, SemanticsAreCurated DEF ValidateConfigSemantics, Steps
<1> QED
  BY <1>1, <1>2, <1>3, <1>4, <1>5, <1>6, <1>7

\* A new analysis forgets the report, and what the roots held before it.
LEMMA BeginStep == ASSUME IInv, NEW d \in Docs, Begin(d) PROVE IInv'
<1>1. past' = [seen |-> [r \in RootIds |-> {disk[r]}], edits |-> past.edits]
  BY DEF Begin
<1>2. TypeOK'
  BY <1>1, ConfigAssumption DEF Begin, IInv, TypeOK, NewReport, NoLoad, Steps
<1>3. Shape(report') /\ MemoOK' /\ SeenOK' /\ Said' /\ Placed'
  BY <1>1 DEF Begin, IInv, Shape, MemoOK, SeenOK, Said, Placed, NewReport
<1>4. LoadOK'
  BY RootNumbers DEF Begin, LoadOK, NoLoad, RootIds
<1> QED
  BY <1>2, <1>3, <1>4 DEF IInv

\* What a root held during the analysis is only added to.
LEMMA EditStep ==
    ASSUME IInv, NEW r \in RootIds, NEW content \in Contents, Edit(r, content)
    PROVE  IInv'
<1>1. /\ past' = [seen |-> [past.seen EXCEPT ![r] = @ \cup {content}], edits |-> past.edits + 1]
      /\ disk' = [disk EXCEPT ![r] = content]
      /\ UNCHANGED <<memo, line, pc, sec, load, report>>
  BY DEF Edit
<1>2. TypeOK'
  BY <1>1, ConfigAssumption DEF Edit, IInv, TypeOK
<1>3. \A q \in RootIds : past.seen[q] \subseteq past'.seen[q]
  BY <1>1 DEF IInv, TypeOK
<1>4. SeenOK'
  BY <1>1 DEF IInv, SeenOK, TypeOK
<1>5. \A q \in RootIds : Passed(q) => Passed(q)'
  BY <1>3 DEF Passed
<1>6. \A x : InPlace(x) => InPlace(x)'
  <2>1. \A s \in RootIds : \A q \in 1..(s - 1) : q \in RootIds
    BY RootNumbers DEF RootIds
  <2> QED
    BY <1>3, <1>5, <2>1 DEF InPlace
<1>7. MemoOK' /\ Shape(report')
  BY <1>1 DEF IInv, MemoOK
<1>8. LoadOK'
  BY <1>1, <1>3, <1>5 DEF IInv, LoadOK
<1>9. Said'
  <2>1. \A s \in RootIds : \A q \in 1..(s - 1) : q \in RootIds
    BY RootNumbers DEF RootIds
  <2> QED
    BY <1>1, <1>3, <2>1 DEF IInv, Said
<1>10. Placed'
  BY <1>1, <1>6 DEF IInv, Placed
<1> QED
  BY <1>2, <1>4, <1>7, <1>8, <1>9, <1>10 DEF IInv

LEMMA Inductive == IInv /\ [Next]_vars => IInv'
<1> SUFFICES ASSUME IInv, [Next]_vars PROVE IInv'
  OBVIOUS
<1>1. CASE \E d \in Docs : Begin(d)
  BY <1>1, BeginStep
<1>2. CASE ParseLine
  <2>1. /\ UNCHANGED <<disk, memo, load, report, past>> /\ pc' \in Steps /\ line' \in Nat
        /\ sec' \in Nat
    BY <1>2 DEF ParseLine, IInv, TypeOK, Steps
  <2> QED
    BY <2>1, CuratedStep DEF IInv
<1>3. CASE \E r \in RootIds : DescribeOverride(r)
  <2> PICK r \in RootIds : DescribeOverride(r)
    BY <1>3
  <2>1. disk[r] \in Contents /\ memo' = Remembered(memo, r, disk[r])
        /\ UNCHANGED <<disk, doc, line, cfg, pc, sec, load, report, past>>
    BY DEF DescribeOverride, IInv, TypeOK
  <2>2. /\ DOMAIN memo' \subseteq RootIds \X Contents
        /\ \A k \in DOMAIN memo' : memo'[k] \in Contents /\ memo'[k] = k[2]
    BY <2>1, MemoGrows
  <2>3. LoadOK' /\ load' \in [candidate : Nat, found : BOOLEAN, diags : SUBSET RootIds,
                              by : Contents \cup {Embedded}]
    BY <2>1 DEF IInv, LoadOK, TypeOK, Passed
  <2> QED
    BY <2>1, <2>2, <2>3, LoadStep
<1>4. CASE \E r \in RootIds, content \in Contents : Edit(r, content)
  BY <1>4, EditStep
<1>5. CASE Stat \/ ReadOverride \/ FallBack
  BY <1>5, StatStep, ReadStep, FallBackStep
<1>6. CASE ValidateConfigAgainstCatalog \/ ValidateSectionHeaders
  BY <1>6, CatalogPasses
<1>7. CASE UNCHANGED vars
  <2>1. UNCHANGED <<disk, memo, load, report, past, pc, line, sec>>
    BY <1>7 DEF vars
  <2> QED
    BY <2>1, CuratedStep DEF IInv, TypeOK
<1> QED
  BY <1>1, <1>2, <1>3, <1>4, <1>5, <1>6, <1>7, Validators DEF Next, Analysis

LEMMA Initial == Init => IInv
<1> SUFFICES ASSUME Init PROVE IInv
  OBVIOUS
<1>1. TypeOK
  BY ConfigAssumption DEF Init, TypeOK, NewReport, NoLoad, Steps
<1>2. Shape(report) /\ MemoOK /\ SeenOK /\ Said /\ Placed
  BY DEF Init, Shape, MemoOK, SeenOK, Said, Placed, NewReport
<1>3. LoadOK
  BY RootNumbers DEF Init, LoadOK, NoLoad, RootIds
<1> QED
  BY <1>1, <1>2, <1>3 DEF IInv

LEMMA Invariance == Spec => []IInv
  BY Initial, Inductive, PTL DEF Spec

-----------------------------------------------------------------------------
(* Who judges which value.                                                   *)

\* The curated rules on values are about the options that the catalog leaves to them, and
\* the catalog rejects values of other options only.
Curating == {"log:invalid-gpo-value", "domain:invalid-id-provider"}
Divided(findings) ==
    \A f \in findings : /\ f.rule = "catalog:invalid-value" => f.key \notin CatalogEnumSkip
                        /\ f.rule \in Curating => f.key \in CatalogEnumSkip

LEMMA FieldsOf ==
    /\ \A sev, rule, n, k, kv, other :
          /\ FindingOn(sev, rule, n, k, kv, other).rule = rule
          /\ FindingOn(sev, rule, n, k, kv, other).key = k
    /\ \A sev, rule, n, k, kv :
          Finding(sev, rule, n, k, kv).rule = rule /\ Finding(sev, rule, n, k, kv).key = k
    /\ \A rule, n, k, kv, content :
          /\ CatalogFinding(rule, n, k, kv, content).rule = rule
          /\ CatalogFinding(rule, n, k, kv, content).key = k
  BY DEF CatalogFinding, Finding, FindingOn

LEMMA DividedValidators ==
    ASSUME NEW c
    PROVE  /\ Divided(DuplicateKeys(c)) /\ Divided(DomainStructure(c))
           /\ Divided(Tuning(c).findings) /\ Divided(Structure(c)) /\ Divided(Semantics(c))
<1>1. Divided(DuplicateKeys(c))
  BY FieldsOf DEF Divided, Curating, DuplicateKeys
<1>2. Divided(DomainStructure(c))
  BY FieldsOf DEF Divided, Curating, DomainStructure, CatalogEnumSkip
<1>3. Divided(Tuning(c).findings)
  BY FieldsOf DEF Divided, Curating, Tuning
<1>4. Divided(Structure(c))
  <2>1. \A f \in Structure(c) : f.rule \in {"structure:no-domains", "structure:services",
                                           "structure:missing-sssd-section"}
    <3> SUFFICES ASSUME NEW f \in Structure(c)
                 PROVE  f.rule \in {"structure:no-domains", "structure:services",
                                   "structure:missing-sssd-section"}
      OBVIOUS
    <3>1. \E sev, n, k : \/ f = Finding(sev, "structure:no-domains", n, k, NoLine)
                         \/ f = Finding(sev, "structure:services", n, k, NoLine)
                         \/ f = Finding(sev, "structure:missing-sssd-section", n, k, NoLine)
      BY Zenon DEF Structure
    <3> QED
      BY <3>1, FieldsOf
  <2> QED
    BY <2>1 DEF Divided, Curating
<1>5. Divided(Semantics(c))
  BY FieldsOf DEF Divided, Curating, Semantics, SemanticRules
<1> QED
  BY <1>1, <1>2, <1>3, <1>4, <1>5

LEMMA DividedRanges ==
    ASSUME NEW c, NEW s
    PROVE  Divided({IdFinding(c, "idmap:invalid-range", n, NoName) : n \in Inverted(c)}
                   \cup Overlaps(c, s))
  BY FieldsOf DEF Divided, Curating, Overlaps, IdFinding

LEMMA DividedCatalog ==
    ASSUME NEW c, NEW content
    PROVE  Divided(OptionFindings(c, content)) /\ Divided(SectionFindings(c, content))
<1>1. Divided(OptionFindings(c, content))
  BY FieldsOf DEF Divided, Curating, OptionFindings
<1>2. Divided(SectionFindings(c, content))
  <2>1. \A f \in SectionFindings(c, content) : f.rule = "catalog:unknown-section"
    <3> SUFFICES ASSUME NEW f \in SectionFindings(c, content)
                 PROVE  f.rule = "catalog:unknown-section"
      OBVIOUS
    <3>1. \E n, k : f = CatalogFinding("catalog:unknown-section", n, k, NoLine, content)
      BY Zenon DEF SectionFindings
    <3> QED
      BY <3>1, FieldsOf
  <2> QED
    BY <2>1 DEF Divided, Curating
<1> QED
  BY <1>1, <1>2

LEMMA AdRulesDivided ==
    \A a \in AdRules : /\ a.rule # "catalog:invalid-value"
                       /\ a.rule \in Curating => a.key \in CatalogEnumSkip
  BY DEF AdRules, Curating, CatalogEnumSkip

LEMMA DividedADSection ==
    ASSUME NEW c, NEW r, NEW n, Shape(r), Divided(r.findings)
    PROVE  Divided(AdSection(c, r, n).findings)
  BY FieldsOf, AdRulesDivided, WithAdds DEF AdSection, Shape, Divided, Curating

LEMMA DividedStep ==
    ASSUME IInv, Divided(report.findings), [Next]_vars
    PROVE  Divided(report'.findings)
<1>1. ASSUME NEW fs, Divided(fs), report'.findings \subseteq report.findings \cup fs
      PROVE  Divided(report'.findings)
  BY <1>1 DEF Divided
<1>2. ASSUME NEW step, NEW fs, NEW next, Divided(fs), Validate(step, fs, next)
      PROVE  Divided(report'.findings)
  <2>1. report'.findings = report.findings \cup fs
    BY <1>2, WithAdds DEF Validate, IInv
  <2> QED
    BY <1>1, <1>2, <2>1
<1>3. CASE \E d \in Docs : Begin(d)
  BY <1>3 DEF Begin, NewReport, Divided
<1>4. CASE ValidateDuplicateKeys
  BY <1>2, <1>4, DividedValidators DEF ValidateDuplicateKeys
<1>5. CASE ValidateDomainStructure
  BY <1>2, <1>5, DividedValidators DEF ValidateDomainStructure
<1>6. CASE ValidateConfigStructure
  BY <1>2, <1>6, DividedValidators DEF ValidateConfigStructure
<1>7. CASE ValidateConfigSemantics
  BY <1>2, <1>7, DividedValidators DEF ValidateConfigSemantics
<1>8. CASE ValidateIDMapRanges
  BY <1>2, <1>8, DividedRanges DEF ValidateIDMapRanges
<1>9. CASE ValidateADConfig
  <2> DEFINE fs == Tuning(cfg).findings
             with == With(report, fs)
  <2>1. Shape(report) /\ Shape(with) /\ with.findings = report.findings \cup fs
    BY WithAdds DEF IInv
  <2>2. \/ report' = [with EXCEPT !.notes = @ \cup Tuning(cfg).notes, !.adProviderMode = TRUE]
        \/ report' = report
    BY <1>9 DEF ValidateADConfig
  <2>3. Divided(fs)
    BY DividedValidators
  <2> HIDE DEF fs, with
  <2>4. report'.findings \subseteq report.findings \cup fs
    BY <2>1, <2>2 DEF Shape
  <2> QED
    BY <1>1, <2>3, <2>4
<1>10. CASE ValidateADSections
  BY <1>10, DividedADSection DEF ValidateADSections, IInv
<1>11. CASE ValidateConfigAgainstCatalog
  <2> DEFINE fs == OptionFindings(cfg, load.by)
             with == With(report, fs)
  <2>1. Shape(with) /\ with.findings = report.findings \cup fs
    BY WithAdds DEF IInv
  <2>2. report' = [with EXCEPT !.diags = @ \cup load.diags, !.provenance = load.by]
    BY <1>11 DEF ValidateConfigAgainstCatalog
  <2>3. Divided(fs)
    BY DividedCatalog
  <2> HIDE DEF fs, with
  <2>4. report'.findings \subseteq report.findings \cup fs
    BY <2>1, <2>2 DEF Shape
  <2> QED
    BY <1>1, <2>3, <2>4
<1>12. CASE ValidateSectionHeaders
  <2> DEFINE fs == SectionFindings(cfg, load.by)
             with == With(report, fs)
  <2>1. Shape(with) /\ with.findings = report.findings \cup fs
    BY WithAdds DEF IInv
  <2>2. report' = [with EXCEPT !.diags = @ \cup load.diags]
    BY <1>12 DEF ValidateSectionHeaders
  <2>3. Divided(fs)
    BY DividedCatalog
  <2> HIDE DEF fs, with
  <2>4. report'.findings \subseteq report.findings \cup fs
    BY <2>1, <2>2 DEF Shape
  <2> QED
    BY <1>1, <2>3, <2>4
<1>13. CASE UNCHANGED report
  BY <1>13
<1>14. ASSUME ParseLine \/ Stat \/ ReadOverride \/ FallBack
       PROVE  UNCHANGED report
  BY <1>14 DEF ParseLine, Stat, ReadOverride, FallBack
<1>15. ASSUME \/ \E r \in RootIds : DescribeOverride(r)
              \/ \E r \in RootIds, content \in Contents : Edit(r, content)
              \/ UNCHANGED vars
       PROVE  UNCHANGED report
  BY <1>15 DEF DescribeOverride, Edit, vars
<1> QED
  BY <1>3, <1>4, <1>5, <1>6, <1>7, <1>8, <1>9, <1>10, <1>11, <1>12, <1>13, <1>14, <1>15
  DEF Next, Analysis

-----------------------------------------------------------------------------
(* The theorems.                                                             *)

\* Roots, memo, load and report keep their types, for any number of roots and edits.
THEOREM TypeCorrect == Spec => []TypeOK
<1>1. IInv => TypeOK
  BY DEF IInv
<1> QED
  BY <1>1, Invariance, PTL

\* Whatever the memo holds and whoever changes the files, an analysis judges by a catalog
\* that was in place while it ran (loadOptionCatalog, loadOverrideCatalog).
THEOREM CatalogsWereInPlace == Spec => []VerdictsUseACatalogInPlace
<1>1. IInv => VerdictsUseACatalogInPlace
  BY DEF IInv, Placed, VerdictsUseACatalogInPlace
<1> QED
  BY <1>1, Invariance, PTL

\* An override that was unusable as long as the analysis ran is named by its report, unless
\* an earlier root had a catalog (the diagnostics of loadOptionCatalog).
THEOREM UnusableOverridesAreSaid == Spec => []BrokenOverridesAreSaid
<1>1. IInv => BrokenOverridesAreSaid
  BY DEF IInv, Said, BrokenOverridesAreSaid
<1> QED
  BY <1>1, Invariance, PTL

\* No value is judged by a curated rule and by the catalog (validateConfigAgainstCatalog
\* skips the options of catalogEnumSkip), for any configuration and any catalog.
THEOREM ValuesAreJudgedOnce == Spec => []OneVerdictPerValue
<1>1. Init => Divided(report.findings)
  BY DEF Init, NewReport, Divided
<1>2. IInv /\ Divided(report.findings) /\ [Next]_vars => Divided(report.findings)'
  BY DividedStep
<1>3. Divided(report.findings) => OneVerdictPerValue
  BY DEF Divided, Curating, OneVerdictPerValue
<1> QED
  BY <1>1, <1>2, <1>3, Invariance, PTL DEF Spec

-----------------------------------------------------------------------------
(* What the parser made of the lines.                                        *)

HeadersTo(d, p) == {j \in 1..p : d[j].kind = "header"}

\* A line that is no header belongs to the section of the line above it; a header to its own.
LEMMA SectionGoesOn ==
    ASSUME NEW d, NEW p \in Nat
    PROVE  /\ d[p + 1].kind # "header" =>
                 HeadersTo(d, p + 1) = HeadersTo(d, p) /\ SectionAt(d, p + 1) = SectionAt(d, p)
           /\ d[p + 1].kind = "header" =>
                 HeadersTo(d, p + 1) # {} /\ SectionAt(d, p + 1) = d[p + 1].name
<1>1. \A i : SectionAt(d, i) =
               IF HeadersTo(d, i) = {} THEN Global
               ELSE d[CHOOSE j \in HeadersTo(d, i) : \A k \in HeadersTo(d, i) : k <= j].name
  BY DEF SectionAt, HeadersTo
<1>2. CASE d[p + 1].kind # "header"
  <2>1. HeadersTo(d, p + 1) = HeadersTo(d, p)
    BY <1>2 DEF HeadersTo
  <2>2. SectionAt(d, p + 1) = SectionAt(d, p)
    BY <1>1, <2>1, Zenon
  <2> QED
    BY <1>2, <2>1, <2>2
<1>3. CASE d[p + 1].kind = "header"
  <2> DEFINE H == HeadersTo(d, p + 1)
             m == CHOOSE j \in H : \A k \in H : k <= j
  <2>1. p + 1 \in H /\ H \subseteq 1..(p + 1)
    BY <1>3 DEF HeadersTo
  <2>2. \A k \in H : k <= p + 1
    BY <2>1
  <2> HIDE DEF H
  <2>3. m \in H /\ \A k \in H : k <= m
    BY <2>1, <2>2
  <2>4. m = p + 1
    <3> HIDE DEF m
    <3> QED
      BY <2>1, <2>2, <2>3
  <2>5. SectionAt(d, p + 1) = d[m].name
    <3>1. HeadersTo(d, p + 1) # {}
      BY <2>1 DEF H
    <3> QED
      BY <1>1, <3>1, Zenon DEF H
  <2> QED
    BY <1>3, <2>1, <2>4, <2>5 DEF H
<1> QED
  BY <1>2, <1>3

\* Line l of d is an option k of section n.
OptionAt(d, l, n, k) == d[l].kind = "option" /\ Lower(d[l].key) = k /\ SectionAt(d, l) = n

\* The values of option k in section n are those of the first p lines.
ValuesOf(vals, d, p, n, k) ==
    /\ \A i \in DOMAIN vals : /\ vals[i].line \in 1..p /\ OptionAt(d, vals[i].line, n, k)
                              /\ vals[i].value = d[vals[i].line].value
    /\ \A i, j \in DOMAIN vals : i < j => vals[i].line < vals[j].line
    /\ \A l \in 1..p : OptionAt(d, l, n, k) => \E i \in DOMAIN vals : vals[i].line = l

ConfigType(c) == c.order \in Seq(Names) /\ c.opts \in [Names -> [Keys -> Seq(KeyVal)]]

\* The configuration after p lines.
ReadUpTo(c, d, p) ==
    /\ ConfigType(c)
    /\ HeadersTo(d, p) = {} => c.cur \in {NoName, Global}
    /\ HeadersTo(d, p) # {} => c.cur = SectionAt(d, p) /\ c.cur \in Names
    /\ \A n \in Names, k \in Keys : ValuesOf(c.opts[n][k], d, p, n, k)

LEMMA NothingRead == ASSUME NEW d PROVE ReadUpTo(NoConfig, d, 0)
<1>1. NoConfig.opts \in [Names -> [Keys -> Seq(KeyVal)]] /\ NoConfig.order \in Seq(Names)
  BY DEF NoConfig
<1>2. \A n \in Names, k \in Keys : NoConfig.opts[n][k] = <<>>
  BY DEF NoConfig
<1>3. HeadersTo(d, 0) = {} /\ NoConfig.cur = NoName
  BY DEF HeadersTo, NoConfig
<1> QED
  BY <1>1, <1>2, <1>3 DEF ReadUpTo, ConfigType, ValuesOf

\* A line that is no such option leaves the values what they are.
LEMMA ValuesGoOn ==
    ASSUME NEW d, NEW p \in Nat, NEW n, NEW k, NEW vals, ValuesOf(vals, d, p, n, k),
           ~OptionAt(d, p + 1, n, k)
    PROVE  ValuesOf(vals, d, p + 1, n, k)
  BY DEF ValuesOf

\* One that is comes last.
LEMMA ValueComesLast ==
    ASSUME NEW d, NEW p \in Nat, NEW n, NEW k, NEW vals \in Seq(KeyVal), ValuesOf(vals, d, p, n, k),
           OptionAt(d, p + 1, n, k), d[p + 1].value \in Seq(Tokens)
    PROVE  LET kv == [value |-> d[p + 1].value, line |-> p + 1]
           IN  Append(vals, kv) \in Seq(KeyVal) /\ ValuesOf(Append(vals, kv), d, p + 1, n, k)
<1> DEFINE kv == [value |-> d[p + 1].value, line |-> p + 1]
           all == Append(vals, kv)
           N == Len(vals)
<1>1. kv \in KeyVal /\ kv.line = p + 1 /\ kv.value = d[p + 1].value
  BY DEF KeyVal
<1>2. N \in Nat /\ DOMAIN vals = 1..N
  BY LenProperties
<1>3. /\ all \in Seq(KeyVal) /\ DOMAIN all = 1..(N + 1) /\ all[N + 1] = kv
      /\ \A i \in 1..N : all[i] = vals[i]
  <2> HIDE DEF kv
  <2> QED
    BY <1>1, <1>2, AppendProperties
<1> HIDE DEF kv, all, N
<1>4. \A i \in 1..(N + 1) : i = N + 1 \/ i \in 1..N
  BY <1>2
<1>5. \A i \in DOMAIN all : /\ all[i].line \in 1..(p + 1) /\ OptionAt(d, all[i].line, n, k)
                            /\ all[i].value = d[all[i].line].value
  <2> SUFFICES ASSUME NEW i \in DOMAIN all
               PROVE  /\ all[i].line \in 1..(p + 1) /\ OptionAt(d, all[i].line, n, k)
                      /\ all[i].value = d[all[i].line].value
    OBVIOUS
  <2>1. CASE i = N + 1
    BY <1>1, <1>3, <2>1
  <2>2. CASE i \in 1..N
    BY <1>2, <1>3, <2>2 DEF ValuesOf
  <2> QED
    BY <1>3, <1>4, <2>1, <2>2
<1>6. \A i, j \in DOMAIN all : i < j => all[i].line < all[j].line
  <2> SUFFICES ASSUME NEW i \in DOMAIN all, NEW j \in DOMAIN all, i < j
               PROVE  all[i].line < all[j].line
    OBVIOUS
  <2>1. i \in 1..N
    BY <1>2, <1>3
  <2>2. all[i].line = vals[i].line /\ vals[i].line \in 1..p
    BY <1>2, <1>3, <2>1 DEF ValuesOf
  <2>3. CASE j = N + 1
    BY <1>1, <1>3, <2>2, <2>3
  <2>4. CASE j \in 1..N
    BY <1>2, <1>3, <2>1, <2>4 DEF ValuesOf
  <2> QED
    BY <1>3, <1>4, <2>3, <2>4
<1>7. \A l \in 1..(p + 1) : OptionAt(d, l, n, k) => \E i \in DOMAIN all : all[i].line = l
  <2> SUFFICES ASSUME NEW l \in 1..(p + 1), OptionAt(d, l, n, k)
               PROVE  \E i \in DOMAIN all : all[i].line = l
    OBVIOUS
  <2>1. CASE l = p + 1
    <3>1. N + 1 \in DOMAIN all
      BY <1>2, <1>3
    <3> QED
      BY <1>1, <1>3, <2>1, <3>1
  <2>2. CASE l \in 1..p
    <3>1. PICK i \in DOMAIN vals : vals[i].line = l
      BY <2>2 DEF ValuesOf
    <3>2. i \in 1..N /\ i \in DOMAIN all
      BY <1>2, <1>3, <3>1
    <3> QED
      BY <1>3, <3>1, <3>2
  <2>3. l = p + 1 \/ l \in 1..p
    OBVIOUS
  <2> QED
    BY <2>1, <2>2, <2>3
<1>8. ValuesOf(all, d, p + 1, n, k)
  BY <1>5, <1>6, <1>7 DEF ValuesOf
<1> QED
  BY <1>3, <1>8 DEF all, kv

LEMMA OpenedType ==
    ASSUME NEW c, ConfigType(c), NEW n \in Names
    PROVE  /\ ConfigType(Opened(c, n)) /\ Opened(c, n).cur = n
           /\ Opened(c, n).opts = c.opts
<1>1. Append(c.order, n) \in Seq(Names)
  BY AppendProperties DEF ConfigType
<1> QED
  BY <1>1 DEF ConfigType, Opened

\* One line more.
LEMMA LineIsRead ==
    ASSUME NEW d \in Docs, NEW p \in Nat, p < Len(d), NEW c, ReadUpTo(c, d, p)
    PROVE  ReadUpTo(Parsed(c, d[p + 1], p + 1), d, p + 1)
<1> DEFINE l == d[p + 1]
           r == Parsed(c, l, p + 1)
<1>1. /\ l \in Line /\ l.kind \in {"header", "option", "blank"} /\ l.name \in Names
      /\ l.value \in Seq(Tokens) /\ (l.kind = "option" => Lower(l.key) \in Keys)
  <2>1. p + 1 \in DOMAIN d
    BY ConfigAssumption, LenProperties
  <2>2. d \in Seq(Line) /\ (l.kind = "option" => Lower(l.key) \in Keys)
    BY ConfigAssumption, <2>1
  <2>3. l \in Line
    BY <2>1, <2>2, ElementOfSeq, LenProperties
  <2> QED
    BY <2>2, <2>3 DEF Line
<1>2. Global \in Names /\ NoName \notin Names
  BY ConfigAssumption
<1>3. CASE l.kind = "header"
  <2>1. r = Opened(c, l.name)
    BY <1>3 DEF Parsed
  <2>2. ConfigType(r) /\ r.cur = l.name /\ r.opts = c.opts
    BY <1>1, <2>1, OpenedType DEF ReadUpTo
  <2>3. \A n, k : ~OptionAt(d, p + 1, n, k)
    BY <1>3 DEF OptionAt
  <2> HIDE DEF r
  <2>4. \A n \in Names, k \in Keys : ValuesOf(r.opts[n][k], d, p + 1, n, k)
    BY <2>2, <2>3, ValuesGoOn DEF ReadUpTo
  <2>5. HeadersTo(d, p + 1) # {} /\ SectionAt(d, p + 1) = l.name
    BY <1>3, SectionGoesOn
  <2> HIDE DEF l
  <2>6. ReadUpTo(r, d, p + 1)
    BY <1>1, <2>2, <2>4, <2>5 DEF ReadUpTo
  <2> QED
    BY <2>6 DEF r, l
<1>4. CASE l.kind = "blank"
  <2>1. r = c
    BY <1>4 DEF Parsed
  <2>3. \A n, k : ~OptionAt(d, p + 1, n, k)
    BY <1>4 DEF OptionAt
  <2> HIDE DEF r
  <2>4. \A n \in Names, k \in Keys : ValuesOf(r.opts[n][k], d, p + 1, n, k)
    BY <2>1, <2>3, ValuesGoOn DEF ReadUpTo
  <2>5. HeadersTo(d, p + 1) = HeadersTo(d, p) /\ SectionAt(d, p + 1) = SectionAt(d, p)
    BY <1>4, SectionGoesOn
  <2>6. ReadUpTo(r, d, p + 1)
    BY <2>1, <2>4, <2>5 DEF ReadUpTo
  <2> QED
    BY <2>6 DEF r, l
<1>5. CASE l.kind = "option"
  <2> DEFINE s == Started(c)
             m == s.cur
             k0 == Lower(l.key)
             kv == [value |-> l.value, line |-> p + 1]
  <2>1. r = Added(s, k0, kv)
    BY <1>5 DEF Parsed
  <2>2. HeadersTo(d, p + 1) = HeadersTo(d, p) /\ SectionAt(d, p + 1) = SectionAt(d, p)
    BY <1>5, SectionGoesOn
  <2>3. ConfigType(s) /\ s.opts = c.opts /\ m = SectionAt(d, p + 1) /\ m \in Names
        /\ (HeadersTo(d, p) = {} => m = Global)
    <3>1. CASE c.cur = NoName
      <4>1. s = Opened(c, Global)
        BY <3>1 DEF Started
      <4>2. HeadersTo(d, p) = {}
        BY <1>2, <3>1 DEF ReadUpTo
      <4>3. SectionAt(d, p + 1) = Global
        BY <2>2, <4>2 DEF SectionAt, HeadersTo
      <4> QED
        BY <1>2, <4>1, <4>3, OpenedType DEF ReadUpTo
    <3>2. CASE c.cur # NoName
      <4>1. s = c
        BY <3>2 DEF Started
      <4>2. CASE HeadersTo(d, p) = {}
        <5>1. SectionAt(d, p + 1) = Global
          BY <2>2, <4>2 DEF SectionAt, HeadersTo
        <5> QED
          BY <1>2, <3>2, <4>1, <4>2, <5>1 DEF ReadUpTo
      <4>3. CASE HeadersTo(d, p) # {}
        BY <2>2, <4>1, <4>3 DEF ReadUpTo
      <4> QED
        BY <4>2, <4>3
    <3> QED
      BY <3>1, <3>2
  <2>4. k0 \in Keys
    BY <1>1, <1>5
  <2> HIDE DEF s, m, k0, kv
  <2>5. /\ r.order = s.order /\ r.cur = s.cur
        /\ r.opts = [s.opts EXCEPT ![m][k0] = Append(s.opts[m][k0], kv)]
    BY <2>1 DEF Added, m
  <2> DEFINE all == Append(c.opts[m][k0], kv)
  <2>6. c.opts \in [Names -> [Keys -> Seq(KeyVal)]] /\ c.opts[m][k0] \in Seq(KeyVal)
    BY <2>3, <2>4 DEF ReadUpTo, ConfigType
  <2>7. OptionAt(d, p + 1, m, k0)
    BY <1>5, <2>3 DEF OptionAt, k0
  <2>8. ValuesOf(c.opts[m][k0], d, p, m, k0)
    BY <2>3, <2>4 DEF ReadUpTo
  <2>9. all \in Seq(KeyVal) /\ ValuesOf(all, d, p + 1, m, k0)
    <3>1. d[p + 1].value \in Seq(Tokens)
      BY <1>1
    <3> HIDE DEF l
    <3> QED
      BY <2>6, <2>7, <2>8, <3>1, ValueComesLast DEF kv, l
  <2> HIDE DEF all, r, l
  <2>10. r.opts = [c.opts EXCEPT ![m][k0] = all]
    BY <2>3, <2>5 DEF all
  <2>11. r.opts \in [Names -> [Keys -> Seq(KeyVal)]]
    BY <2>3, <2>4, <2>6, <2>9, <2>10
  <2>12. ASSUME NEW n \in Names, NEW k \in Keys
         PROVE  ValuesOf(r.opts[n][k], d, p + 1, n, k)
    <3>1. CASE n = m /\ k = k0
      BY <2>3, <2>4, <2>6, <2>9, <2>10, <3>1
    <3>2. CASE ~(n = m /\ k = k0)
      <4>1. r.opts[n][k] = c.opts[n][k]
        BY <2>3, <2>4, <2>6, <2>10, <3>2
      <4>2. ~OptionAt(d, p + 1, n, k)
        BY <2>7, <3>2 DEF OptionAt
      <4>3. ValuesOf(c.opts[n][k], d, p, n, k)
        BY DEF ReadUpTo
      <4> QED
        BY <4>1, <4>2, <4>3, ValuesGoOn
    <3> QED
      BY <3>1, <3>2
  <2>13. r.order \in Seq(Names)
    BY <2>3, <2>5 DEF ConfigType
  <2>14. ReadUpTo(r, d, p + 1)
    BY <2>2, <2>3, <2>5, <2>11, <2>12, <2>13 DEF ReadUpTo, ConfigType, m
  <2> QED
    BY <2>14 DEF r, l
<1> QED
  BY <1>1, <1>3, <1>4, <1>5

-----------------------------------------------------------------------------
(* What the findings quote.                                                  *)

\* The finding shows an option of the configuration, under its own name or, for the lower
\* bound of a range, under the new one.
Shows(f, c) ==
    \E n \in Names, k \in Keys : \E i \in DOMAIN c.opts[n][k] :
        /\ f.sec = n /\ f.value = c.opts[n][k][i].value /\ f.line = c.opts[n][k][i].line
        /\ f.key = k \/ <<f.key, k>> = Low

\* Findings that have no line or show an option, and are not about overlaps.
Sourced(fs, c) ==
    \A f \in fs : (f.line = 0 \/ Shows(f, c)) /\ f.rule # "idmap:overlap"

LEMMA PartsOf ==
    /\ \A sev, rule, n, k, kv, other :
          LET f == FindingOn(sev, rule, n, k, kv, other)
          IN  /\ f.rule = rule /\ f.sec = n /\ f.key = k /\ f.value = kv.value
              /\ f.line = kv.line /\ f.other = other
    /\ \A sev, rule, n, k, kv :
          LET f == Finding(sev, rule, n, k, kv)
          IN  /\ f.rule = rule /\ f.sec = n /\ f.key = k /\ f.value = kv.value
              /\ f.line = kv.line
    /\ \A rule, n, k, kv, content :
          LET f == CatalogFinding(rule, n, k, kv, content)
          IN  /\ f.rule = rule /\ f.sec = n /\ f.key = k /\ f.value = kv.value
              /\ f.line = kv.line
  BY DEF CatalogFinding, Finding, FindingOn

\* A finding made of an option shows it.
LEMMA OptionIsShown ==
    ASSUME NEW c, NEW n \in Names, NEW k \in Keys, NEW i \in DOMAIN c.opts[n][k],
           NEW f, f.sec = n, f.key = k \/ <<f.key, k>> = Low,
           f.value = c.opts[n][k][i].value, f.line = c.opts[n][k][i].line
    PROVE  Shows(f, c)
  BY DEF Shows

LEMMA SectionsAreNames ==
    ASSUME NEW c, ConfigType(c)
    PROVE  Sections(c) \subseteq Names /\ Domains(c) \subseteq Sections(c)
  BY LenProperties, ElementOfSeq DEF ConfigType, Sections, Domains, RangeOf

LEMMA FirstIsThere ==
    ASSUME NEW c, ConfigType(c), NEW n \in Names, NEW k, Has(c, n, k)
    PROVE  /\ k \in Keys /\ 1 \in DOMAIN c.opts[n][k]
           /\ FirstOption(c, n, k) = c.opts[n][k][1]
<1>1. c.opts[n][k] \in Seq(KeyVal) /\ c.opts[n][k] # <<>> /\ k \in Keys
  BY DEF ConfigType, Has
<1>2. Len(c.opts[n][k]) \in Nat /\ DOMAIN c.opts[n][k] = 1..Len(c.opts[n][k])
      /\ Len(c.opts[n][k]) # 0
  BY <1>1, LenProperties, EmptySeq
<1> QED
  BY <1>1, <1>2 DEF FirstOption

\* So a finding on the first value of an option does.
LEMMA FirstIsShown ==
    ASSUME NEW c, ConfigType(c), NEW n \in Sections(c), NEW k, Has(c, n, k)
    PROVE  /\ \A sev, rule : Shows(Finding(sev, rule, n, k, FirstOption(c, n, k)), c)
           /\ \A rule, content :
                 Shows(CatalogFinding(rule, n, k, FirstOption(c, n, k), content), c)
<1>1. n \in Names
  BY SectionsAreNames
<1>2. k \in Keys /\ 1 \in DOMAIN c.opts[n][k] /\ FirstOption(c, n, k) = c.opts[n][k][1]
  BY <1>1, FirstIsThere
<1>3. \A f : /\ f.sec = n /\ f.key = k /\ f.value = FirstOption(c, n, k).value
             /\ f.line = FirstOption(c, n, k).line
             => Shows(f, c)
  BY <1>1, <1>2, OptionIsShown
<1> QED
  BY <1>3, PartsOf

LEMMA IsThere ==
    ASSUME NEW c, NEW n, NEW k
    PROVE  /\ \A v : Is(c, n, k, v) => Has(c, n, k)
           /\ IsSet(c, n, k) => Has(c, n, k)
  BY DEF Is, IsSet

LEMMA NoLineIsNone == NoLine.line = 0
  BY DEF NoLine

LEMMA SourcedDuplicates ==
    ASSUME NEW c, ConfigType(c) PROVE Sourced(DuplicateKeys(c), c)
<1> SUFFICES ASSUME NEW f \in DuplicateKeys(c)
             PROVE  Shows(f, c) /\ f.rule # "idmap:overlap"
  BY DEF Sourced
<1>1. PICK p \in Sections(c) \X (Keys \ {"debug_level"}) :
          /\ Len(c.opts[p[1]][p[2]]) >= 2
          /\ f = Finding("error", "syntax:duplicate-key", p[1], p[2], c.opts[p[1]][p[2]][2])
  BY DEF DuplicateKeys
<1> DEFINE n == p[1]
           k == p[2]
<1>2. n \in Names /\ k \in Keys
  BY SectionsAreNames
<1> HIDE DEF n, k
<1>3. f = Finding("error", "syntax:duplicate-key", n, k, c.opts[n][k][2]) /\ Len(c.opts[n][k]) >= 2
  BY <1>1 DEF n, k
<1>4. c.opts[n][k] \in Seq(KeyVal)
  BY <1>2 DEF ConfigType
<1>5. 2 \in DOMAIN c.opts[n][k]
  BY <1>3, <1>4, LenProperties
<1>6. /\ f.sec = n /\ f.key = k /\ f.value = c.opts[n][k][2].value
      /\ f.line = c.opts[n][k][2].line /\ f.rule = "syntax:duplicate-key"
  BY <1>3, PartsOf
<1> QED
  BY <1>2, <1>5, <1>6, OptionIsShown

LEMMA SourcedDomains ==
    ASSUME NEW c, ConfigType(c) PROVE Sourced(DomainStructure(c), c)
<1> SUFFICES ASSUME NEW f \in DomainStructure(c)
             PROVE  (f.line = 0 \/ Shows(f, c)) /\ f.rule # "idmap:overlap"
  BY DEF Sourced
<1>1. \/ \E n : f = Finding("error", "domain:missing-id-provider", n, "id_provider", NoLine)
      \/ \E n \in Domains(c) : /\ Has(c, n, "id_provider")
                               /\ f = Finding("error", "domain:invalid-id-provider", n,
                                           "id_provider", FirstOption(c, n, "id_provider"))
      \/ \E n \in Domains(c) : /\ IsSet(c, n, "inherit_from")
                               /\ f = Finding("error", "domain:inherit-from", n,
                                           "inherit_from", FirstOption(c, n, "inherit_from"))
  BY DEF DomainStructure
<1>2. \A n \in Domains(c) : n \in Sections(c)
  BY SectionsAreNames
<1> QED
  BY <1>1, <1>2, PartsOf, FirstIsShown, IsThere, NoLineIsNone

LEMMA SourcedTuning == ASSUME NEW c PROVE Sourced(Tuning(c).findings, c)
<1> SUFFICES ASSUME NEW f \in Tuning(c).findings
             PROVE  f.line = 0 /\ f.rule # "idmap:overlap"
  BY DEF Sourced
<1>1. f = Finding("error", "access:simple-allow-without-filter", NoName, "simple_allow", NoLine)
  BY DEF Tuning
<1> QED
  BY <1>1, PartsOf, NoLineIsNone

LEMMA SourcedStructure == ASSUME NEW c PROVE Sourced(Structure(c), c)
<1> SUFFICES ASSUME NEW f \in Structure(c)
             PROVE  f.line = 0 /\ f.rule # "idmap:overlap"
  BY DEF Sourced
<1>1. \E sev, n, k : \/ f = Finding(sev, "structure:no-domains", n, k, NoLine)
                     \/ f = Finding(sev, "structure:services", n, k, NoLine)
                     \/ f = Finding(sev, "structure:missing-sssd-section", n, k, NoLine)
  BY Zenon DEF Structure
<1> QED
  BY <1>1, PartsOf, NoLineIsNone

LEMMA SourcedSemantics ==
    ASSUME NEW c, ConfigType(c) PROVE Sourced(Semantics(c), c)
<1> SUFFICES ASSUME NEW f \in Semantics(c)
             PROVE  Shows(f, c) /\ f.rule # "idmap:overlap"
  BY DEF Sourced
<1>1. PICK rule \in DOMAIN SemanticRules :
        \E p \in DeadIn(c, rule) \X SemanticRules[rule] :
           /\ IsSet(c, p[1], p[2])
           /\ f = Finding("warning", rule, p[1], p[2], FirstOption(c, p[1], p[2]))
  BY DEF Semantics
<1>2. PICK n \in DeadIn(c, rule), k \in SemanticRules[rule] :
           IsSet(c, n, k) /\ f = Finding("warning", rule, n, k, FirstOption(c, n, k))
  BY <1>1
<1>3. rule \in {"uri", "bind", "options"} /\ n \in Sections(c)
  BY SectionsAreNames DEF SemanticRules, DeadIn
<1>4. Shows(f, c) /\ f.rule = rule
  BY <1>2, <1>3, FirstIsShown, IsThere, PartsOf
<1> QED
  BY <1>3, <1>4

LEMMA SourcedHeaders ==
    ASSUME NEW c, NEW content PROVE Sourced(SectionFindings(c, content), c)
<1> SUFFICES ASSUME NEW f \in SectionFindings(c, content)
             PROVE  f.line = 0 /\ f.rule # "idmap:overlap"
  BY DEF Sourced
<1>1. \E n, k : f = CatalogFinding("catalog:unknown-section", n, k, NoLine, content)
  BY Zenon DEF SectionFindings
<1> QED
  BY <1>1, PartsOf, NoLineIsNone

LEMMA SourcedOptions ==
    ASSUME NEW c, ConfigType(c), NEW content PROVE Sourced(OptionFindings(c, content), c)
<1> SUFFICES ASSUME NEW f \in OptionFindings(c, content)
             PROVE  Shows(f, c) /\ f.rule # "idmap:overlap"
  BY DEF Sourced
<1>1. PICK n \in Sections(c), k \in Keys :
        /\ Has(c, n, k)
        /\ \/ f = CatalogFinding("catalog:unknown-option", n, k, FirstOption(c, n, k), content)
           \/ f = CatalogFinding("catalog:option-in-wrong-section", n, k,
                                 FirstOption(c, n, k), content)
           \/ \E kv \in RangeOf(c.opts[n][k]) :
                 f = CatalogFinding("catalog:invalid-value", n, k, kv, content)
  BY DEF OptionFindings
<1>2. n \in Names
  BY SectionsAreNames
<1>3. CASE \/ f = CatalogFinding("catalog:unknown-option", n, k, FirstOption(c, n, k), content)
           \/ f = CatalogFinding("catalog:option-in-wrong-section", n, k,
                                 FirstOption(c, n, k), content)
  BY <1>1, <1>3, FirstIsShown, PartsOf
<1>4. CASE \E kv \in RangeOf(c.opts[n][k]) :
              f = CatalogFinding("catalog:invalid-value", n, k, kv, content)
  <2>1. PICK i \in DOMAIN c.opts[n][k] :
            f = CatalogFinding("catalog:invalid-value", n, k, c.opts[n][k][i], content)
    BY <1>4 DEF RangeOf
  <2>2. /\ f.sec = n /\ f.key = k /\ f.value = c.opts[n][k][i].value
        /\ f.line = c.opts[n][k][i].line /\ f.rule = "catalog:invalid-value"
    BY <2>1, PartsOf
  <2> QED
    BY <1>2, <2>2, OptionIsShown
<1> QED
  BY <1>1, <1>3, <1>4

\* What one AD section adds.
LEMMA SourcedADSection ==
    ASSUME NEW c, ConfigType(c), NEW r, Shape(r), NEW n \in Sections(c)
    PROVE  \A f \in AdSection(c, r, n).findings \ r.findings :
               Shows(f, c) /\ f.rule # "idmap:overlap"
<1> SUFFICES ASSUME NEW f \in AdSection(c, r, n).findings \ r.findings
             PROVE  Shows(f, c) /\ f.rule # "idmap:overlap"
  OBVIOUS
<1>1. \E sev, rule, k : /\ f = Finding(sev, rule, n, k, FirstOption(c, n, k))
                        /\ Has(c, n, k) /\ rule # "idmap:overlap"
  <2>1. \A a \in AdRules : a.rule # "idmap:overlap"
    BY DEF AdRules
  <2> QED
    BY <2>1, WithAdds, IsThere DEF AdSection, Shape
<1> QED
  BY <1>1, FirstIsShown, PartsOf

-----------------------------------------------------------------------------
(* The ranges of identifiers.                                                *)

LEMMA TwoSpellings ==
    ASSUME NEW c, ConfigType(c), NEW n \in Names, NEW names \in {Low, High},
           HasNumber(c, n, names)
    PROVE  /\ Bound(c, n, names) \in Int
           /\ \E k \in {names[1], names[2]} : Has(c, n, k) /\ FirstOfAny(c, n, names) = FirstOption(c, n, k)
<1>1. DOMAIN names = {1, 2}
  BY DEF Low, High
<1>2. Atoi \in [DOMAIN Atoi -> Int]
  BY ConfigAssumption
<1>3. Bound(c, n, names) \in Int
  BY <1>2 DEF HasNumber, Bound
<1>4. Has(c, n, names[1]) \/ Has(c, n, names[2])
  BY <1>1 DEF HasNumber
<1> QED
  BY <1>3, <1>4 DEF FirstOfAny

LEMMA RangedOnes ==
    ASSUME NEW c, ConfigType(c)
    PROVE  /\ \A n \in Ranged(c) : /\ n \in Names /\ n \in Sections(c)
                                   /\ HasNumber(c, n, Low) /\ HasNumber(c, n, High)
                                   /\ Bound(c, n, Low) \in Int /\ Bound(c, n, High) \in Int
           /\ Inverted(c) \subseteq Ranged(c)
           /\ \A n \in Ranged(c) \ Inverted(c) : Bound(c, n, Low) < Bound(c, n, High)
<1>1. \A n \in Ranged(c) : n \in Names /\ n \in Sections(c)
                           /\ HasNumber(c, n, Low) /\ HasNumber(c, n, High)
  BY SectionsAreNames DEF Ranged
<1>2. \A n \in Ranged(c) : Bound(c, n, Low) \in Int /\ Bound(c, n, High) \in Int
  BY <1>1, TwoSpellings
<1>3. Inverted(c) \subseteq Ranged(c)
  BY DEF Inverted
<1>4. \A n \in Ranged(c) \ Inverted(c) : Bound(c, n, Low) < Bound(c, n, High)
  BY <1>2 DEF Inverted
<1> QED
  BY <1>1, <1>2, <1>3, <1>4

LEMMA IdFindingShows ==
    ASSUME NEW c, ConfigType(c), NEW rule, NEW n \in Ranged(c), NEW other
    PROVE  LET f == IdFinding(c, rule, n, other)
           IN  Shows(f, c) /\ f.rule = rule /\ f.sec = n /\ f.other = other
<1>1. n \in Names /\ HasNumber(c, n, Low)
  BY RangedOnes
<1>2. PICK k \in {Low[1], Low[2]} : Has(c, n, k) /\ FirstOfAny(c, n, Low) = FirstOption(c, n, k)
  BY <1>1, TwoSpellings
<1>3. k \in Keys /\ 1 \in DOMAIN c.opts[n][k] /\ FirstOption(c, n, k) = c.opts[n][k][1]
  BY <1>1, <1>2, FirstIsThere
<1> DEFINE f == IdFinding(c, rule, n, other)
<1>4. /\ f.sec = n /\ f.key = Low[1] /\ f.value = c.opts[n][k][1].value
      /\ f.line = c.opts[n][k][1].line /\ f.rule = rule /\ f.other = other
  BY <1>2, <1>3, PartsOf DEF IdFinding
<1>5. <<Low[1], Low[2]>> = Low
  BY DEF Low
<1> HIDE DEF f
<1>6. f.key = k \/ <<f.key, k>> = Low
  BY <1>2, <1>4, <1>5
<1>7. Shows(f, c)
  BY <1>1, <1>3, <1>4, <1>6, OptionIsShown
<1> QED
  BY <1>4, <1>7 DEF f

Crossing(c, a, b) ==
    /\ Bound(c, a, Low) < Bound(c, b, High) /\ Bound(c, b, Low) < Bound(c, a, High)

LEMMA SortedIsAnEnumeration ==
    ASSUME NEW c, ConfigType(c), NEW s \in Sorted(c)
    PROVE  LET R == Ranged(c) \ Inverted(c)
               N == Cardinality(R)
           IN  /\ N \in Nat /\ s \in [1..N -> R]
               /\ \A i, j \in 1..N : i < j => s[i] # s[j] /\ Bound(c, s[i], Low) <= Bound(c, s[j], Low)
               /\ \A a \in R : \E i \in 1..N : s[i] = a
<1> DEFINE R == Ranged(c) \ Inverted(c)
           N == Cardinality(R)
<1>1. IsFiniteSet(R)
  <2>1. IsFiniteSet(Sections(c))
    <3> DEFINE t == c.order
    <3>1. t \in Seq(Names) /\ Len(t) \in Nat /\ DOMAIN t = 1..Len(t)
      BY LenProperties DEF ConfigType
    <3>2. Sections(c) = {t[i] : i \in DOMAIN t}
      BY DEF Sections, RangeOf
    <3>3. IsFiniteSet(1..Len(t))
      BY <3>1, FS_Interval
    <3>4. t \in Surjection(DOMAIN t, Sections(c))
      BY <3>1, <3>2 DEF Surjection
    <3> QED
      BY <3>1, <3>3, <3>4, FS_Surjection
  <2>2. R \subseteq Sections(c)
    BY RangedOnes
  <2> QED
    BY <2>1, <2>2, FS_Subset
<1>2. N \in Nat
  BY <1>1, FS_CardinalityType
<1>3. s \in [1..N -> R]
      /\ \A i, j \in 1..N : i < j => s[i] # s[j] /\ Bound(c, s[i], Low) <= Bound(c, s[j], Low)
  BY DEF Sorted
<1> HIDE DEF R, N
<1>4. s \in Injection(1..N, R)
  <2>1. \A i, j \in 1..N : s[i] = s[j] => i = j
    <3> SUFFICES ASSUME NEW i \in 1..N, NEW j \in 1..N, s[i] = s[j] PROVE i = j
      OBVIOUS
    <3>1. ~(i < j) /\ ~(j < i)
      BY <1>3
    <3> QED
      BY <1>2, <3>1
  <2> QED
    BY <1>3, <2>1 DEF Injection, IsInjective
<1>5. Cardinality(1..N) = N /\ Cardinality(R) = N
  <2>1. Cardinality(1..N) = N
    BY <1>2, FS_Interval
  <2> QED
    BY <2>1 DEF N
<1>6. s \in Surjection(1..N, R)
  BY <1>1, <1>4, <1>5, FS_Injection
<1>7. \A a \in R : \E i \in 1..N : s[i] = a
  BY <1>6 DEF Surjection
<1> QED
  BY <1>2, <1>3, <1>7 DEF R, N

\* What is reported does overlap; and if two ranges overlap, two neighbours do.
LEMMA NeighboursTell ==
    ASSUME NEW c, ConfigType(c), NEW s \in Sorted(c)
    PROVE  /\ \A f \in Overlaps(c, s) : f.sec # f.other /\ Crossing(c, f.sec, f.other)
           /\ \A a, b \in Ranged(c) \ Inverted(c) :
                 a # b /\ Crossing(c, a, b) => Overlaps(c, s) # {}
<1> DEFINE R == Ranged(c) \ Inverted(c)
           N == Cardinality(R)
           L(x) == Bound(c, x, Low)
           H(x) == Bound(c, x, High)
<1>1. /\ N \in Nat /\ s \in [1..N -> R]
      /\ \A i, j \in 1..N : i < j => s[i] # s[j] /\ L(s[i]) <= L(s[j])
      /\ \A a \in R : \E i \in 1..N : s[i] = a
  BY SortedIsAnEnumeration
<1>2. \A x \in R : L(x) \in Int /\ H(x) \in Int /\ L(x) < H(x) /\ x \in Ranged(c)
  BY RangedOnes
<1>3. Overlaps(c, s) = {IdFinding(c, "idmap:overlap", s[i + 1], s[i]) :
                          i \in {j \in 1..N : j + 1 \in 1..N /\ L(s[j + 1]) < H(s[j])}}
  BY <1>1 DEF Overlaps
<1> HIDE DEF R, N, L, H
<1>4. ASSUME NEW f \in Overlaps(c, s) PROVE f.sec # f.other /\ Crossing(c, f.sec, f.other)
  <2>1. PICK i \in 1..N : /\ i + 1 \in 1..N /\ L(s[i + 1]) < H(s[i])
                          /\ f = IdFinding(c, "idmap:overlap", s[i + 1], s[i])
    BY <1>3
  <2>2. s[i] \in R /\ s[i + 1] \in R
    BY <1>1, <2>1
  <2>3. f.sec = s[i + 1] /\ f.other = s[i]
    BY <1>2, <2>1, <2>2, IdFindingShows
  <2>4. i < i + 1
    OBVIOUS
  <2>5. s[i] # s[i + 1] /\ L(s[i]) <= L(s[i + 1])
    BY <1>1, <2>1, <2>4
  <2>6. L(s[i + 1]) < H(s[i + 1])
    BY <1>2, <2>2
  <2>7. L(s[i]) \in Int /\ L(s[i + 1]) \in Int /\ H(s[i + 1]) \in Int
    BY <1>2, <2>2
  <2>8. L(s[i]) < H(s[i + 1])
    BY <2>5, <2>6, <2>7
  <2> QED
    BY <2>1, <2>3, <2>5, <2>8 DEF Crossing, L, H
<1>5. ASSUME NEW i \in 1..N, NEW j \in 1..N, i < j, L(s[j]) < H(s[i])
      PROVE  Overlaps(c, s) # {}
  <2>1. i + 1 \in 1..N /\ (i + 1 = j \/ i + 1 < j)
    BY <1>1, <1>5
  <2>2. s[i] \in R /\ s[j] \in R /\ s[i + 1] \in R
    BY <1>1, <2>1
  <2>3. L(s[i + 1]) <= L(s[j])
    <3>1. CASE i + 1 = j
      BY <1>2, <2>2, <3>1
    <3>2. CASE i + 1 < j
      BY <1>1, <2>1, <3>2
    <3> QED
      BY <2>1, <3>1, <3>2
  <2>4. L(s[i + 1]) \in Int /\ L(s[j]) \in Int /\ H(s[i]) \in Int
    BY <1>2, <2>2
  <2>5. L(s[i + 1]) < H(s[i])
    BY <1>5, <2>3, <2>4
  <2> QED
    BY <1>3, <2>1, <2>5
<1>6. ASSUME NEW a \in R, NEW b \in R, a # b, L(a) < H(b), L(b) < H(a)
      PROVE  Overlaps(c, s) # {}
  <2>1. PICK i \in 1..N : s[i] = a
    BY <1>1
  <2>2. PICK j \in 1..N : s[j] = b
    BY <1>1
  <2>3. i # j
    BY <1>6, <2>1, <2>2
  <2>4. i < j \/ j < i
    BY <2>3
  <2> QED
    BY <1>5, <1>6, <2>1, <2>2, <2>4
<1> QED
  BY <1>4, <1>6 DEF Crossing, R, L, H

\* What validateIDMapRanges adds.
LEMMA RangesShow ==
    ASSUME NEW c, ConfigType(c), NEW s \in Sorted(c)
    PROVE  LET inverted == {IdFinding(c, "idmap:invalid-range", n, NoName) : n \in Inverted(c)}
           IN  /\ \A f \in inverted : Shows(f, c) /\ f.rule # "idmap:overlap"
               /\ \A f \in Overlaps(c, s) : Shows(f, c) /\ f.rule = "idmap:overlap"
<1>1. ASSUME NEW n \in Inverted(c)
      PROVE  LET f == IdFinding(c, "idmap:invalid-range", n, NoName)
             IN  Shows(f, c) /\ f.rule # "idmap:overlap"
  BY RangedOnes, IdFindingShows
<1>2. ASSUME NEW f \in Overlaps(c, s) PROVE Shows(f, c) /\ f.rule = "idmap:overlap"
  <2> DEFINE R == Ranged(c) \ Inverted(c)
             N == Cardinality(R)
  <2>1. s \in [1..N -> R]
    BY SortedIsAnEnumeration
  <2>2. PICK i \in DOMAIN s : i + 1 \in DOMAIN s /\ f = IdFinding(c, "idmap:overlap", s[i + 1], s[i])
    BY DEF Overlaps
  <2>3. s[i + 1] \in Ranged(c)
    BY <2>1, <2>2
  <2> QED
    BY <2>2, <2>3, IdFindingShows
<1> QED
  BY <1>1, <1>2

-----------------------------------------------------------------------------
(* The second invariant.                                                     *)

\* The finding quotes its line of d.
Quotes(f, d) ==
    LET l == d[f.line]
    IN  /\ l.kind = "option" /\ l.value = f.value /\ SectionAt(d, f.line) = f.sec
        /\ Lower(l.key) = f.key \/ <<f.key, Lower(l.key)>> = Low

LEMMA ShownIsQuoted ==
    ASSUME NEW c, NEW d, NEW p, ReadUpTo(c, d, p), NEW f, Shows(f, c)
    PROVE  Quotes(f, d)
<1>1. PICK n \in Names, k \in Keys : \E i \in DOMAIN c.opts[n][k] :
          /\ f.sec = n /\ f.value = c.opts[n][k][i].value /\ f.line = c.opts[n][k][i].line
          /\ f.key = k \/ <<f.key, k>> = Low
  BY DEF Shows
<1>2. PICK i \in DOMAIN c.opts[n][k] :
          /\ f.sec = n /\ f.value = c.opts[n][k][i].value /\ f.line = c.opts[n][k][i].line
          /\ f.key = k \/ <<f.key, k>> = Low
  BY <1>1
<1>3. /\ OptionAt(d, c.opts[n][k][i].line, n, k)
      /\ c.opts[n][k][i].value = d[c.opts[n][k][i].line].value
  BY DEF ReadUpTo, ValuesOf
<1> QED
  BY <1>2, <1>3 DEF Quotes, OptionAt

\* The parser has read what it has read; findings quote their lines, overlaps overlap, and
\* some are reported if there are any.
Reading ==
    pc = "parse" => /\ doc \in Docs /\ line \in 1..Len(doc) /\ report.findings = {}
                    /\ ReadUpTo(cfg, doc, line - 1)
HasRead == pc \notin {"idle", "parse"} => doc \in Docs /\ ReadUpTo(cfg, doc, Len(doc))
Quoting == \A f \in report.findings : f.line = 0 \/ Quotes(f, doc)
OverlapsCross ==
    \A f \in report.findings :
        f.rule = "idmap:overlap" => f.sec # f.other /\ Crossing(cfg, f.sec, f.other)
OverlapsAreSaid ==
    pc = "options" =>
        \A a, b \in Ranged(cfg) \ Inverted(cfg) :
            a # b /\ Crossing(cfg, a, b) => \E f \in report.findings : f.rule = "idmap:overlap"

Faithful == Reading /\ HasRead /\ Quoting /\ OverlapsCross /\ OverlapsAreSaid

\* A validator adds findings that quote the file and are not about overlaps.
LEMMA AddingStep ==
    ASSUME Faithful, pc \notin {"idle", "parse"}, NEW fs, Sourced(fs, cfg),
           report'.findings \subseteq report.findings \cup fs,
           report.findings \subseteq report'.findings,
           UNCHANGED <<doc, cfg>>, pc' # "parse", pc' = "options" => pc = "options"
    PROVE  Faithful'
<1>1. doc \in Docs /\ ReadUpTo(cfg, doc, Len(doc))
  BY DEF Faithful, HasRead
<1>2. Reading' /\ HasRead'
  BY <1>1 DEF Reading, HasRead
<1>3. \A f \in fs : (f.line = 0 \/ Quotes(f, doc)) /\ f.rule # "idmap:overlap"
  BY <1>1, ShownIsQuoted DEF Sourced
<1>4. \A f : Quotes(f, doc)' <=> Quotes(f, doc)
  BY DEF Quotes
<1>5. Quoting'
  BY <1>3, <1>4 DEF Quoting, Faithful
<1>6. OverlapsCross' /\ OverlapsAreSaid'
  BY <1>3 DEF OverlapsCross, OverlapsAreSaid, Faithful
<1> QED
  BY <1>2, <1>5, <1>6 DEF Faithful

LEMMA FaithfulValidate ==
    ASSUME IInv, Faithful, NEW step, step \notin {"idle", "parse"}, NEW fs,
           NEW next, next \notin {"parse", "options"},
           ConfigType(cfg) => Sourced(fs, cfg), Validate(step, fs, next)
    PROVE  Faithful'
<1>1. pc = step /\ pc' = next /\ UNCHANGED <<doc, cfg>> /\ report' = With(report, fs)
  BY DEF Validate
<1>2. ConfigType(cfg)
  BY <1>1 DEF Faithful, HasRead, ReadUpTo
<1>3. report'.findings = report.findings \cup fs
  BY <1>1, WithAdds DEF IInv
<1> QED
  BY <1>1, <1>2, <1>3, AddingStep

LEMMA FaithfulRanges == ASSUME IInv, Faithful, ValidateIDMapRanges PROVE Faithful'
<1>1. PICK s \in Sorted(cfg) :
        Validate("idmap", {IdFinding(cfg, "idmap:invalid-range", n, NoName) : n \in Inverted(cfg)}
                          \cup Overlaps(cfg, s), "options")
  BY DEF ValidateIDMapRanges
<1> DEFINE inverted == {IdFinding(cfg, "idmap:invalid-range", n, NoName) : n \in Inverted(cfg)}
           over == Overlaps(cfg, s)
<1>2. pc = "idmap" /\ pc' = "options" /\ UNCHANGED <<doc, cfg>>
      /\ report' = With(report, inverted \cup over)
  BY <1>1 DEF Validate
<1>3. doc \in Docs /\ ReadUpTo(cfg, doc, Len(doc)) /\ ConfigType(cfg)
  BY <1>2 DEF Faithful, HasRead, ReadUpTo
<1>4. /\ \A f \in inverted : Shows(f, cfg) /\ f.rule # "idmap:overlap"
      /\ \A f \in over : Shows(f, cfg) /\ f.rule = "idmap:overlap"
  BY <1>3, RangesShow
<1>5. /\ \A f \in over : f.sec # f.other /\ Crossing(cfg, f.sec, f.other)
      /\ \A a, b \in Ranged(cfg) \ Inverted(cfg) : a # b /\ Crossing(cfg, a, b) => over # {}
  BY <1>3, NeighboursTell
<1> HIDE DEF inverted, over
<1>6. report'.findings = report.findings \cup inverted \cup over
  BY <1>2, WithAdds DEF IInv
<1>7. Reading' /\ HasRead'
  BY <1>2, <1>3 DEF Reading, HasRead
<1>8. Quoting'
  <2>1. \A f : Quotes(f, doc)' <=> Quotes(f, doc)
    BY <1>2 DEF Quotes
  <2>2. \A f \in inverted \cup over : Quotes(f, doc)
    BY <1>3, <1>4, ShownIsQuoted
  <2> QED
    BY <1>6, <2>1, <2>2 DEF Quoting, Faithful
<1>9. OverlapsCross'
  <2>1. \A f \in report'.findings : f.rule = "idmap:overlap" =>
            f.sec # f.other /\ Crossing(cfg, f.sec, f.other)
    BY <1>4, <1>5, <1>6 DEF OverlapsCross, Faithful
  <2> QED
    BY <1>2, <2>1 DEF OverlapsCross
<1>10. OverlapsAreSaid'
  <2>1. \A a, b \in Ranged(cfg) \ Inverted(cfg) :
            a # b /\ Crossing(cfg, a, b) => \E f \in report'.findings : f.rule = "idmap:overlap"
    BY <1>4, <1>5, <1>6
  <2> QED
    BY <1>2, <2>1 DEF OverlapsAreSaid
<1> QED
  BY <1>7, <1>8, <1>9, <1>10 DEF Faithful

LEMMA FaithfulBegin == ASSUME NEW d \in Docs, Begin(d) PROVE Faithful'
<1>1. doc' = d /\ line' = 1 /\ cfg' = NoConfig /\ report'.findings = {} /\ pc' = "parse"
  BY DEF Begin, NewReport
<1>2. ReadUpTo(NoConfig, d, 0)
  BY NothingRead
<1>3. Len(d) \in Nat /\ Len(d) > 0
  BY ConfigAssumption, LenProperties
<1>4. 1 \in 1..Len(d) /\ 1 - 1 = 0
  BY <1>3
<1>5. Reading'
  BY <1>1, <1>2, <1>4 DEF Reading
<1> QED
  BY <1>1, <1>5 DEF Faithful, HasRead, Quoting, OverlapsCross, OverlapsAreSaid

LEMMA FaithfulParse == ASSUME Faithful, ParseLine PROVE Faithful'
<1> DEFINE p == line - 1
<1>1. doc \in Docs /\ line \in 1..Len(doc) /\ report.findings = {} /\ ReadUpTo(cfg, doc, p)
  BY DEF Faithful, Reading, ParseLine
<1>2. Len(doc) \in Nat
  BY <1>1, ConfigAssumption, LenProperties
<1>3. p \in Nat /\ p < Len(doc) /\ line = p + 1
  BY <1>1, <1>2
<1>4. /\ cfg' = Parsed(cfg, doc[line], line) /\ line' = line + 1
      /\ pc' = (IF line = Len(doc) THEN "duplicates" ELSE "parse")
      /\ UNCHANGED <<doc, report>>
  BY DEF ParseLine
<1> HIDE DEF p
<1>5. ReadUpTo(cfg', doc, line)
  BY <1>1, <1>3, <1>4, LineIsRead
<1>6. Reading'
  <2>1. line # Len(doc) => line + 1 \in 1..Len(doc) /\ (line + 1) - 1 = line
    BY <1>1, <1>2
  <2> QED
    BY <1>1, <1>4, <1>5, <2>1 DEF Reading
<1>7. HasRead'
  BY <1>1, <1>4, <1>5 DEF HasRead
<1> QED
  BY <1>1, <1>4, <1>6, <1>7 DEF Faithful, Quoting, OverlapsCross, OverlapsAreSaid

\* An AD section takes no finding away.
LEMMA ADSectionKeeps ==
    ASSUME NEW c, NEW r, NEW n, Shape(r)
    PROVE  r.findings \subseteq AdSection(c, r, n).findings
  BY WithAdds DEF AdSection, Shape

LEMMA FaithfulAD ==
    ASSUME IInv, Faithful, ValidateADConfig \/ ValidateADSections PROVE Faithful'
<1>1. CASE ValidateADConfig
  <2> DEFINE fs == Tuning(cfg).findings
             with == With(report, fs)
  <2>1. Shape(report) /\ Shape(with) /\ with.findings = report.findings \cup fs
    BY WithAdds DEF IInv
  <2>2. \/ report' = [with EXCEPT !.notes = @ \cup Tuning(cfg).notes, !.adProviderMode = TRUE]
        \/ report' = report
    BY <1>1 DEF ValidateADConfig
  <2>3. Sourced(fs, cfg)
    BY SourcedTuning
  <2> HIDE DEF fs, with
  <2>4. report'.findings \subseteq report.findings \cup fs
        /\ report.findings \subseteq report'.findings
    BY <2>1, <2>2 DEF Shape
  <2>5. pc = "ad" /\ UNCHANGED <<doc, cfg>> /\ pc' \in {"ad section", "structure"}
    BY <1>1 DEF ValidateADConfig
  <2> QED
    BY <2>3, <2>4, <2>5, AddingStep
<1>2. CASE ValidateADSections
  <2> DEFINE n == cfg.order[sec]
             fs == report'.findings \ report.findings
  <2>1. pc = "ad section" /\ UNCHANGED <<doc, cfg>> /\ pc' \in {"ad section", "structure"}
    BY <1>2 DEF ValidateADSections
  <2>2. ConfigType(cfg)
    BY <2>1 DEF Faithful, HasRead, ReadUpTo
  <2>3. Sourced(fs, cfg) /\ report.findings \subseteq report'.findings
    <3>1. CASE IsAd(cfg, n)
      <4>1. n \in Sections(cfg)
        BY <2>2, <3>1, SectionsAreNames DEF IsAd
      <4>2. report' = AdSection(cfg, report, n)
        BY <1>2, <3>1 DEF ValidateADSections
      <4>3. \A f \in fs : Shows(f, cfg) /\ f.rule # "idmap:overlap"
        <5>1. Shape(report)
          BY DEF IInv
        <5> HIDE DEF n
        <5> QED
          BY <2>2, <4>1, <4>2, <5>1, SourcedADSection
      <4>4. report.findings \subseteq report'.findings
        BY <4>2, ADSectionKeeps DEF IInv
      <4> QED
        BY <4>3, <4>4 DEF Sourced
    <3>2. CASE ~IsAd(cfg, n)
      BY <1>2, <3>2 DEF ValidateADSections, Sourced
    <3> QED
      BY <3>1, <3>2
  <2>4. report'.findings \subseteq report.findings \cup fs
    OBVIOUS
  <2> HIDE DEF fs
  <2> QED
    BY <2>1, <2>3, <2>4, AddingStep
<1> QED
  BY <1>1, <1>2

LEMMA FaithfulCatalogs ==
    ASSUME IInv, Faithful, ValidateConfigAgainstCatalog \/ ValidateSectionHeaders
    PROVE  Faithful'
<1>1. CASE ValidateConfigAgainstCatalog
  <2> DEFINE fs == OptionFindings(cfg, load.by)
             with == With(report, fs)
  <2>1. pc = "options" /\ pc' = "headers" /\ UNCHANGED <<doc, cfg>>
        /\ report' = [with EXCEPT !.diags = @ \cup load.diags, !.provenance = load.by]
    BY <1>1 DEF ValidateConfigAgainstCatalog
  <2>2. Shape(with) /\ with.findings = report.findings \cup fs
    BY WithAdds DEF IInv
  <2>3. Sourced(fs, cfg)
    BY <2>1, SourcedOptions DEF Faithful, HasRead, ReadUpTo
  <2> HIDE DEF fs, with
  <2>4. report'.findings = report.findings \cup fs
    BY <2>1, <2>2 DEF Shape
  <2> QED
    BY <2>1, <2>3, <2>4, AddingStep
<1>2. CASE ValidateSectionHeaders
  <2> DEFINE fs == SectionFindings(cfg, load.by)
             with == With(report, fs)
  <2>1. pc = "headers" /\ pc' = "semantics" /\ UNCHANGED <<doc, cfg>>
        /\ report' = [with EXCEPT !.diags = @ \cup load.diags]
    BY <1>2 DEF ValidateSectionHeaders
  <2>2. Shape(with) /\ with.findings = report.findings \cup fs
    BY WithAdds DEF IInv
  <2>3. Sourced(fs, cfg)
    BY SourcedHeaders
  <2> HIDE DEF fs, with
  <2>4. report'.findings = report.findings \cup fs
    BY <2>1, <2>2 DEF Shape
  <2> QED
    BY <2>1, <2>3, <2>4, AddingStep
<1> QED
  BY <1>1, <1>2

LEMMA FaithfulStep == ASSUME IInv, Faithful, [Next]_vars PROVE Faithful'
<1>1. CASE \E d \in Docs : Begin(d)
  BY <1>1, FaithfulBegin
<1>2. CASE ParseLine
  BY <1>2, FaithfulParse
<1>3. CASE ValidateDuplicateKeys
  BY <1>3, FaithfulValidate, SourcedDuplicates DEF ValidateDuplicateKeys
<1>4. CASE ValidateDomainStructure
  BY <1>4, FaithfulValidate, SourcedDomains DEF ValidateDomainStructure
<1>5. CASE ValidateConfigStructure
  BY <1>5, FaithfulValidate, SourcedStructure DEF ValidateConfigStructure
<1>6. CASE ValidateConfigSemantics
  BY <1>6, FaithfulValidate, SourcedSemantics DEF ValidateConfigSemantics
<1>7. CASE UNCHANGED <<doc, line, cfg, pc, report>>
  BY <1>7 DEF Faithful, Reading, HasRead, Quoting, OverlapsCross, OverlapsAreSaid, Quotes
<1>8. CASE Stat \/ ReadOverride \/ FallBack
  BY <1>7, <1>8 DEF Stat, ReadOverride, FallBack
<1>9. CASE \/ \E r \in RootIds : DescribeOverride(r)
           \/ \E r \in RootIds, content \in Contents : Edit(r, content)
           \/ UNCHANGED vars
  BY <1>7, <1>9 DEF DescribeOverride, Edit, vars
<1> QED
  BY <1>1, <1>2, <1>3, <1>4, <1>5, <1>6, <1>8, <1>9, FaithfulRanges, FaithfulAD,
     FaithfulCatalogs DEF Next, Analysis

LEMMA FaithfulAlways == Spec => []Faithful
<1>1. Init => Faithful
  BY DEF Init, NewReport, Faithful, Reading, HasRead, Quoting, OverlapsCross, OverlapsAreSaid
<1>2. IInv /\ Faithful /\ [Next]_vars => Faithful'
  BY FaithfulStep
<1> QED
  BY <1>1, <1>2, Invariance, PTL DEF Spec

\* Whatever the file: each option reaches the validators under the section of the last header
\* above it, in order and with its line, and nothing else does (parseSssdConfig).
THEOREM ParserIsFaithful == Spec => []ParsedAsWritten
<1>1. Faithful => ParsedAsWritten
  <2> SUFFICES ASSUME Faithful, pc = "duplicates", NEW n \in Names, NEW k \in Keys
               PROVE  LET vals == cfg.opts[n][k]
                          lines == {i \in DOMAIN doc : /\ doc[i].kind = "option"
                                                       /\ Lower(doc[i].key) = k
                                                       /\ SectionAt(doc, i) = n}
                      IN /\ {vals[i].line : i \in DOMAIN vals} = lines
                         /\ \A i, j \in DOMAIN vals : i < j => vals[i].line < vals[j].line
                         /\ \A i \in DOMAIN vals : vals[i].value = doc[vals[i].line].value
    BY DEF ParsedAsWritten
  <2> DEFINE vals == cfg.opts[n][k]
  <2>1. doc \in Docs /\ ValuesOf(vals, doc, Len(doc), n, k)
    BY DEF Faithful, HasRead, ReadUpTo
  <2>2. DOMAIN doc = 1..Len(doc)
    BY <2>1, ConfigAssumption, LenProperties
  <2> QED
    BY <2>1, <2>2 DEF ValuesOf, OptionAt
<1> QED
  BY <1>1, FaithfulAlways, PTL

\* Whatever the file and the catalogs: a finding with a line number quotes the option that is
\* written there, in its section and with its value (the SourceLine and Evidence of the validators).
THEOREM FindingsAreOnTheirLines == Spec => []FindingsQuoteTheFile
<1>1. Faithful => FindingsQuoteTheFile
  BY DEF Faithful, Quoting, Quotes, FindingsQuoteTheFile
<1> QED
  BY <1>1, FaithfulAlways, PTL

\* For any number of domains and whatever arrangement the unstable sort leaves: the comparison of
\* neighbours reports only overlaps, and at least one if there is any (validateIDMapRanges).
THEOREM NeighboursSuffice == Spec => []OverlapsAreNoticed
<1>1. Faithful => OverlapsAreNoticed
  BY DEF Faithful, OverlapsCross, OverlapsAreSaid, OverlapsAreNoticed, Crossing, Overlapping, Ranges
<1> QED
  BY <1>1, FaithfulAlways, PTL

===============================================================================

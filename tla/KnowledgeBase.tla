---------------------------- MODULE KnowledgeBase ----------------------------
(***************************************************************************)
(* The knowledge base of an analysis: which articles match, which are      *)
(* suggested, and the automatons that every analysis of the process        *)
(* shares.  An automaton is the order in which its patterns were           *)
(* registered; canonical indices are positions in it.                      *)
(***************************************************************************)
EXTENDS Naturals, FiniteSets

CONSTANTS Articles,        \* TIDs of the articles loaded
          LogArticles,     \* articles with log patterns
          SELinuxArticles, \* articles that mention SELinux
          Patterns,        \* config patterns
          ConfigPatterns   \* the config patterns of each article

ASSUME KnowledgeBaseAssumption ==
    /\ Articles \subseteq STRING /\ IsFiniteSet(Patterns)
    /\ LogArticles \subseteq Articles /\ SELinuxArticles \subseteq Articles
    /\ ConfigPatterns \in [Articles -> SUBSET Patterns]

-----------------------------------------------------------------------------
(* Automatons.                                                               *)

\* The orders in which a Go map yields the patterns of a set.
Orders(patterns) ==
    {order \in [1..Cardinality(patterns) -> patterns] :
       \A p \in patterns : \E i \in DOMAIN order : order[i] = p}

\* The cache before the first analysis: nothing is compiled.
NoMatchers == [patterns \in SUBSET Patterns |-> <<>>]

\* ACCache.Get: the key of the cache does not depend on the order.
Compiled(matchers, patterns, order) ==
    IF matchers[patterns] = <<>> THEN [matchers EXCEPT ![patterns] = order] ELSE matchers

IndexIn(order, p) == CHOOSE i \in DOMAIN order : order[i] = p

-----------------------------------------------------------------------------
(* matchKBArticlesWithEvidence.                                              *)

Candidates(mac) ==
    {a \in Articles : /\ a \in LogArticles \/ ConfigPatterns[a] # {}
                      /\ mac = "AppArmor" => a \notin SELinuxArticles}

PatternsOf(mac) == UNION {ConfigPatterns[a] : a \in Candidates(mac)}

\* The patterns taken to be in sssd.conf, when found are: the automaton reports
\* positions in its own order, which are read as positions in this call's.
PatternsHit(automaton, order, found) ==
    LET hits == {IndexIn(automaton, p) : p \in found}
    IN  {order[i] : i \in hits}

LogMatched(a, evidence) == a \in LogArticles => a \in evidence

\* Mistake: one class of patterns is enough.
MatchedOnEither(mac, evidence, hit, configAvailable) ==
    {a \in Candidates(mac) : a \in evidence \/ ConfigPatterns[a] \cap hit # {}}

Matched(mac, evidence, hit, configAvailable) ==
    {a \in Candidates(mac) :
       IF configAvailable
       THEN /\ LogMatched(a, evidence)
            /\ ConfigPatterns[a] # {} => ConfigPatterns[a] \cap hit # {}
       ELSE a \in LogArticles /\ a \in evidence}

-----------------------------------------------------------------------------
(* analyzeKBSuggestions: the articles that a timeline line is similar to.    *)

Suggested(similar, matched) == {s \in similar : s.tid \notin matched}

=============================================================================

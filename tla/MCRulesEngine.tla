---------------------------- MODULE MCRulesEngine ----------------------------
(* Three places, one met twice and one inside another, three rules files, rules *)
(* whose evaluation meets every case, and folders that tell them apart.         *)
EXTENDS RulesEngine

CONSTANTS absent, unreadable

\* The last place is a file of the second one's directory: the working directory is a
\* rules directory with a rules.yaml in it.
MCPlaces == <<"system", "user", "system", "inside">>
MCFilesAt == [l \in {"system", "user", "inside"} |->
                CASE l = "system" -> <<"s.yaml">>
                  [] l = "user" -> <<"u.yaml", "v.yaml">>
                  [] l = "inside" -> <<"u.yaml">>]

MCLiterals == {"x", "X", "y", ""}
MCFold == [l \in MCLiterals |-> IF l = "X" THEN "x" ELSE l]
MCDefaultFiles == <<"conf", "log">>

Both == [name |-> "a", severity |-> TRUE, message |-> TRUE, regex |-> FALSE, all |-> TRUE,
         patterns |-> <<"x", "y", "X">>, files |-> <<>>]
Any == [Both EXCEPT !.name = "b", !.all = FALSE, !.patterns = <<"y", "">>, !.files = <<"log">>]
Expression == [Both EXCEPT !.regex = TRUE, !.all = FALSE, !.patterns = <<"r">>]
Loud == [Any EXCEPT !.severity = FALSE]
Nameless == [Any EXCEPT !.name = "", !.severity = FALSE]
Wordless == [Any EXCEPT !.message = FALSE]
Wrong == [Expression EXCEPT !.patterns = <<"(">>]

Of(rules) == [broken |-> FALSE, rules |-> rules]
MCDocuments ==
    {Of(<<Both, Any>>), Of(<<Loud, Expression, Wordless, Expression>>), Of(<<Nameless, Wrong>>),
     [broken |-> TRUE, rules |-> <<>>]}

MCFolders ==
    {[conf |-> <<{"x"}>>, log |-> <<{"y", "r"}>>],
     [conf |-> <<{}, {"x"}>>, log |-> <<{"x"}, {"y"}, {"x", "y"}, {"r", "y", "x"}>>]}

=============================================================================

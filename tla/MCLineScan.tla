------------------------------ MODULE MCLineScan ------------------------------
(* Every pair of literals of up to three characters of two letters against     *)
(* every line of up to five of them, and registries with roles, regular        *)
(* expressions and generic words against folders of several files.             *)
EXTENDS LineScan

Strings(chars, n) == [1..n -> chars]
AB == {"a", "b"}

Lit(text) == [head |-> text, tail |-> <<>>, regex |-> FALSE]
Reg(head, tail) == [head |-> head, tail |-> tail, regex |-> TRUE]

Small == {Lit(s) : s \in Strings(AB, 1) \cup Strings(AB, 2) \cup Strings(AB, 3)}
Pairs == {{<<p, "x">>, <<q, "WatchdogFound">>} : p \in Small, q \in Small}

\* One literal with two roles and two spellings; an article with a literal that others end;
\* regular expressions with a distinctive word, a generic one and letters only.
Roles == {<<Lit(<<"a", "b", " ", "a">>), "x">>, <<Lit(<<"A", "b", " ", "a">>), "CryptoBugFound">>,
          <<Lit(<<"b", " ", "a">>), "article">>, <<Lit(<<".", "b">>), "x">>}
Expressions == {<<Reg(<<"a", "a">>, <<"b">>), "x">>, <<Reg(<<"b", "b", " ">>, <<".">>), "article">>,
                <<Reg(<<"a">>, <<"_", "b">>), "KeytabNotFound">>, <<Lit(<<"b", "b">>), "x">>}

MCRegistries == Pairs \cup {{}, Roles, Expressions}

Lines == {<<>>, <<" ">>, <<"a", "b", " ", "a">>, <<" ", "A", "B", " ", "a">>, <<"b", "a", "a">>,
          <<"a", "b", "b">>, <<"a", ".", "B", "_", "b">>, <<"a", "a", "_", "b">>}
Rich == {<<<<<<" ", "A", "B", " ", "a">>, <<"a", "a", "_", "b">>, <<"A", "B", " ", "a", " ">>,
             <<"b", " ", "a", "a">>>>,
           <<>>,
           <<<<" ">>, <<"a", ".", "B", "_", "b">>, <<"x", "a", "b", " ", "a">>,
             <<"b", "b", " ", ".">>, <<"a", "b", "b">>, <<"a", "b", " ", "a", "_">>>>>>}
MCFolders == {<<<<l>>>> : l \in Strings(AB, 3) \cup Strings(AB, 4) \cup Strings(AB, 5)}
             \cup {<<<<l>>, <<k>>>> : l \in Lines, k \in Lines} \cup Rich

MCBytes == {"a", "b", "x", "A", "B", " ", ".", "_", "*"}
MCUpper == [c \in {"A", "B"} |-> IF c = "A" THEN "a" ELSE "b"]
MCLetters == {"a", "b", "x"}
MCWordBytes == MCLetters \cup {"_"}
MCGenericWords == {<<"b", "b">>}
MCAlwaysKeep == {<<"b", " ">>}
MCExclusions == {<<"x">>}
=============================================================================

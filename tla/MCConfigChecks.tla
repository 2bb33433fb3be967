---------------------------- MODULE MCConfigChecks ----------------------------
(* Files of two roots, of five kinds, and configurations that meet each rule:  *)
(* a section opened twice, options before any header, repeated and upper-case  *)
(* keys, two AD domains, nested and adjacent ID ranges, misplaced options.     *)
EXTENDS ConfigChecks

CONSTANTS absent, unreadable, broken, older, newer, shipped

MCRoots == <<"user", "system">>
MCContents == {absent, unreadable, broken, older, newer}

H(name) == [kind |-> "header", name |-> name, key |-> "", value |-> <<>>]
O(key, value) == [kind |-> "option", name |-> <<>>, key |-> key, value |-> value]
Blank == [kind |-> "blank", name |-> <<>>, key |-> "", value |-> <<>>]

A == <<"domain", "a">>
B == <<"domain", "b">>
D == <<"domain", "c">>
Sssd == <<"sssd">>
Odd == <<"sudoers">>

\* Two AD domains, the second with its own realm; a section opened again.
Forest ==
    <<H(A), O("id_provider", <<"AD">>), O("ad_domain", <<".a.net">>), O("krb5_realm", <<"A.NET">>),
      H(B), O("ID_PROVIDER", <<"ad">>), O("ad_domain", <<"b.net">>), O("krb5_realm", <<"B.NET">>),
      H(A), O("enumerate", <<"true">>), O("Enumerate", <<"maybe">>)>>

\* Nested ranges, one with the old spelling, and one that only touches another.
Ids ==
    <<H(A), O("id_provider", <<"ldap">>), O("ldap_idmap_range_min", <<"1">>),
      O("ldap_idmap_range_max", <<"9">>),
      H(B), O("id_provider", <<"ldap">>), O("idmap_range_min", <<"2">>),
      O("idmap_range_max", <<"3">>),
      H(D), O("id_provider", <<"ldap">>), O("ldap_idmap_range_min", <<"3">>),
      O("ldap_idmap_range_max", <<"4">>)>>

\* Ranges that touch, and one upside down.
Tidy ==
    <<H(Sssd), O("services", <<"nss", "PAM">>), H(B), O("id_provider", <<"ad">>),
      O("ldap_idmap_range_min", <<"1">>), O("ldap_idmap_range_max", <<"3">>),
      H(A), O("ldap_idmap_range_min", <<"3">>), O("ldap_idmap_range_max", <<"4">>),
      H(D), O("ldap_idmap_range_min", <<"4">>), O("ldap_idmap_range_max", <<"2">>)>>

\* Options out of place, unknown, with bad values, and dead under their provider.
Loose ==
    <<O("services", <<"nss">>), Blank, H(A), O("id_provider", <<"files", "ad">>),
      O("ldap_uri", <<"a.net">>), O("ldap_default_authtok", <<"x">>), O("timeout", <<"x">>),
      H(Odd), O("ad_gpo_access_control", <<"maybe">>), H(D), O("id_provider", <<"no">>),
      O("colour", <<"x">>)>>

\* The rules on AD domains.
Strict ==
    <<H(B), O("id_provider", <<"ad">>), O("ad_domain", <<"10.0.0.1">>), O("ad_hostname", <<"h">>),
      O("ad_gpo_access_control", <<"maybe">>), O("simple_allow_users", <<"x">>),
      O("inherit_from", <<"x">>), O("ldap_id_mapping", <<"false">>), O("case_sensitive", <<"true">>),
      O("ad_machine_account_password_renewal_opts", <<"4">>), H(<<>>), O("timeout", <<"4">>)>>

MCDocs == {Forest, Ids, Tidy, Loose, Strict}
LinesOf == UNION {RangeOf(d) : d \in MCDocs}
MCLowerCase ==
    [t \in {"AD", "A.NET", "B.NET", "PAM", "ID_PROVIDER", "Enumerate"} |->
       CASE t = "AD" -> "ad" [] t = "A.NET" -> "a.net" [] t = "B.NET" -> "b.net"
         [] t = "PAM" -> "pam" [] t = "ID_PROVIDER" -> "id_provider" [] OTHER -> "enumerate"]
MCNames == {Global} \cup {l.name : l \in {m \in LinesOf : m.kind = "header"}}
MCKeys == {IF l.key \in DOMAIN MCLowerCase THEN MCLowerCase[l.key] ELSE l.key :
             l \in {m \in LinesOf : m.kind = "option"}}
MCTokens == UNION {RangeOf(l.value) : l \in LinesOf}
MCAtoi == [t \in {"1", "2", "3", "4", "9"} |->
             CASE t = "1" -> 1 [] t = "2" -> 2 [] t = "3" -> 3 [] t = "4" -> 4 [] OTHER -> 9]
MCUndotted == [t \in {".a.net"} |-> "a.net"]
MCAddresses == {"10.0.0.1"}
MCHostname == <<"x">>

Option(type, families, values) == [type |-> type, families |-> families, values |-> values]
Domain(type) == Option(type, {"domain"}, {})

\* The part of the shipped catalog that these files ask about.
Shipped ==
    [kinds |-> {"sssd", "nss", "pam", "domain", "service"},
     options |->
       [k \in MCKeys \ {"colour"} |->
          CASE k \in {"enumerate", "ldap_id_mapping"} -> Domain("bool")
            [] k \in {"ldap_idmap_range_min", "ldap_idmap_range_max", "idmap_range_min",
                      "idmap_range_max"} -> Domain("int")
            [] k = "timeout" -> Option("int", {"service", "domain", "*"}, {})
            [] k = "services" -> Option("other", {"sssd"}, {})
            [] k = "id_provider" ->
                 Option("other", {"domain"}, {"ad", "ipa", "ldap", "proxy", "simple", "files"})
            [] k = "ad_gpo_access_control" ->
                 Option("other", {"domain"}, {"disabled", "enforcing", "permissive"})
            [] k = "case_sensitive" -> Option("other", {"domain"}, {"true", "false", "preserving"})
            [] OTHER -> Domain("other")]]

\* An older release without some options, and a newer one with another section.
Older == [kinds |-> Shipped.kinds \ {"pam"},
          options |-> [k \in {"id_provider", "timeout"} |-> Shipped.options[k]]]
Newer == [kinds |-> Shipped.kinds \cup {"sudoers"},
          options |-> [k \in DOMAIN Shipped.options \cup {"colour"} |->
                         IF k = "colour" THEN Option("other", {}, {"blue"})
                                         ELSE Shipped.options[k]]]
MCCatalogs == [c \in {older, newer, shipped} |->
                 CASE c = older -> Older [] c = newer -> Newer [] OTHER -> Shipped]
=============================================================================

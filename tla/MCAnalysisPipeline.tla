-------------------------- MODULE MCAnalysisPipeline -------------------------
(* Folders with what makes the analyses differ: a joined host with trouble    *)
(* in its logs, a host whose sources contradict each other, a supportconfig   *)
(* without sssd.conf and without a host name, and a directory of raw logs.    *)
(* Domains and the host "files" are spelled in several ways; the other names    *)
(* in one.                                                                    *)
EXTENDS AnalysisPipeline

CONSTANTS none, srv, dc, files, Files, corp, Corp, CORP, lab, LAB, address,
          ekey, ikey, example, redacted, xxx

MCNames == {srv, dc, files, Files, corp, Corp, CORP, lab, LAB, address}
MCLower == [n \in MCNames |-> CASE n \in {Corp, CORP} -> corp [] n = LAB -> lab
                               [] n = Files -> files [] OTHER -> n]
MCUpper == [n \in MCNames |-> CASE n \in {Corp, corp} -> CORP [] n = lab -> LAB
                               [] n = files -> Files [] OTHER -> n]
MCHostNames == {srv, dc, files, Files}
MCLabels == {files, Files}
MCDomainOf == [n \in MCNames |-> IF n \in {srv, dc} THEN corp ELSE none]
MCOverlap == {<<n, n>> : n \in MCNames}

MCArticles == {"log", "log+config", "config", "selinux", "text"}
MCLogArticles == {"log", "log+config", "selinux"}
MCPatterns == {ekey, ikey}
MCConfigPatterns ==
    [a \in MCArticles |-> CASE a = "log+config" -> {ekey} [] a = "config" -> {ikey} [] OTHER -> {}]

Quiet == [problems |-> <<>>, warnings |-> <<>>]
Twice == [say |-> "twice", of |-> {srv}]

MCFinding(level, category, root, entities, line) ==
    [level |-> level, category |-> category, root |-> root, entities |-> entities, line |-> line,
     rule |-> category, text |-> [say |-> category, of |-> {e.value : e \in entities}], path |-> "sssd.conf"]

Joined ==
    [raw |-> FALSE, host |-> srv, node |-> srv, search |-> Corp, realm |-> CORP,
     adDomain |-> Corp, others |-> {}, mac |-> "Unknown", ad |-> TRUE, conf |-> TRUE,
     debug9 |-> FALSE, stopped |-> FALSE, keytab |-> {"found"},
     notes |-> [p \in Phases |-> Quiet],
     errors |-> {"tls"}, bursts |-> {}, quotes |-> {srv, dc, corp, Corp, CORP}, evidence |-> {"log", "log+config"},
     similar |-> {[tid |-> "log", of |-> {}], [tid |-> "text", of |-> {srv}]},
     patterns |-> {ekey}, checks |-> <<>>,
     rules |-> <<MCFinding("warning", "site", FALSE, {[kind |-> "domain", value |-> CORP]}, 0)>>, chains |-> <<>>]

Contradictory ==
    [Joined EXCEPT
       !.search = LAB, !.adDomain = address, !.mac = "AppArmor", !.stopped = TRUE, !.keytab = {},
       !.evidence = {"selinux"}, !.patterns = {ikey}, !.bursts = {"tls"},
       !.notes = [p \in Phases |->
                    IF p \in {"system", "config"}
                    THEN [problems |-> <<Twice>>, warnings |-> <<Twice>>] ELSE Quiet],
       !.checks = <<MCFinding("error", "ad_domain", FALSE,
                              {[kind |-> "domain", value |-> address]}, 3),
                    [MCFinding("critical", "krb5_realm", FALSE,
                               {[kind |-> "realm", value |-> corp]}, 4)
                       EXCEPT !.rule = "correlate:krb5-realm-mismatch"],
                    MCFinding("warning", "tuning", FALSE, {}, 0)>>,
       !.rules = <<MCFinding("error", "site", FALSE, {[kind |-> "domain", value |-> Corp]}, 0),
                   MCFinding("error", "server", FALSE, {[kind |-> "ad_server", value |-> dc]}, 0)>>,
       !.chains = <<MCFinding("error", "tls", TRUE, {}, 0),
                    MCFinding("error", "dns", TRUE, {}, 0)>>]

Unjoined ==
    [Joined EXCEPT !.host = none, !.node = files, !.search = none, !.realm = none,
                   !.evidence = {}, !.keytab = {"missing"}, !.quotes = {corp, CORP, files, Files}]

NoConfig ==
    [Joined EXCEPT !.host = none, !.conf = FALSE, !.ad = FALSE, !.adDomain = none,
                   !.patterns = {}, !.evidence = {"log+config"}, !.keytab = {"noprincipal"}]

RawLogs ==
    [Joined EXCEPT !.raw = TRUE, !.host = files, !.adDomain = none, !.others = {dc, lab}, !.ad = FALSE,
                   !.conf = FALSE, !.patterns = {}, !.evidence = {"log+config", "selinux"},
                   !.quotes = {srv, dc, Files, lab, LAB, corp, CORP}]

MCFolders == {Joined, Contradictory, Unjoined, NoConfig, RawLogs}
=============================================================================

------------------------------ MODULE MCJourney -------------------------------
(* The example fleet and repositories that differ from it in one thing: each    *)
(* way a document or a reference can be wrong, a node declared twice, a node     *)
(* without a capability, no cleanup allowed; and overlay directories of up to    *)
(* three fragments.  Sessions of one command, on nodes and services in whose     *)
(* names the planner finds what it looks for and others, and sessions that       *)
(* write, write again and read the state directory.                              *)
EXTENDS Journey, TLC

Doc == [form |-> "Typed", keys |-> {}]

MCNode(id, os, capabilities) ==
  Doc @@ [id |-> id, os |-> os, primary |-> "system", supports |-> {"system", "platform"},
          capabilities |-> capabilities, policy |-> "production"]

LinuxCapabilities ==
  {"os.linux", "service.systemd", "logs.journald", "process.procfs", "socket.ss", "storage.df",
   "privilege.sudo-helper"}
OpenBsdCapabilities ==
  {"os.openbsd", "service.openbsd-rcctl", "logs.syslog-file", "process.ps", "socket.fstat",
   "storage.df", "privilege.doas-helper"}

WebNode == MCNode("prod-web-01", "linux", LinuxCapabilities)
EdgeNode == MCNode("edge-01", "openbsd", OpenBsdCapabilities)

MCRole ==
  Doc @@ [id |-> "demo", primary |-> "system", runbooks |-> {"service-unhealthy"},
          policy |-> "production", allowlists |-> {"allow-sshd"}]
MCRunbook ==
  Doc @@ [name |-> "service-unhealthy", layer |-> "system", mode |-> "structured_proposal",
          collect |-> {[id |-> "status", capabilities |-> {"service.systemd"}]},
          actions |-> {"service.restart", "collect.more_logs"},
          resources |-> {ServiceResource("prod-web-01", <<"sshd">>)}]
MCPolicy == Doc @@ [id |-> "production", signedLease |-> TRUE, rejectReplay |-> TRUE]

Allow(id, action, target) == Doc @@ [id |-> id, action |-> action, target |-> target]
AllowSshd == Allow("allow-sshd", "service.restart", ServiceResource("prod-web-01", <<"sshd">>))
AllowCleanup == Allow("allow-cache", "file.remove_from_allowlist", Journeys.disk.cleanup)

Overlay(tier, name, settings) == Doc @@ [tier |-> tier, name |-> name, settings |-> settings]
MCOverlays ==
  <<Overlay("global", "", [profile |-> "baseline", tier3 |-> "off"]),
   Overlay("os", "linux", [driver |-> "systemd"]),
   Overlay("os", "openbsd", [driver |-> "rcctl"]),
   Overlay("node", "prod-web-01", [profile |-> "production", driver |-> "own"])>>

MCFleet ==
  [inventory |-> <<EdgeNode, WebNode>>, roles |-> <<MCRole>>, runbooks |-> <<MCRunbook>>,
   policies |-> <<MCPolicy>>, allowlists |-> <<AllowCleanup, AllowSshd>>,
   overlays |-> <<Overlay("node", "prod-web-01", [profile |-> "production"]),
                  Overlay("global", "", [profile |-> "baseline"])>>]

With(directory, documents) == [MCFleet EXCEPT ![directory] = documents]

\* The repository at each path.
Refused ==
  [node |-> With("inventory", <<>>), policy |-> With("policies", <<>>),
   allowlist |-> With("allowlists", <<AllowCleanup>>), runbook |-> With("runbooks", <<>>),
   broken |-> With("policies", <<[MCPolicy EXCEPT !.form = "Broken"]>>),
   lacking |-> With("policies", <<Doc @@ [id |-> "production"]>>),
   unknown |-> With("policies", <<MCPolicy @@ [owner |-> "operations"]>>),
   runtime |-> With("policies", <<[MCPolicy EXCEPT !.keys = {<<"approval", "audit">>}]>>),
   supports |-> With("inventory", <<[WebNode EXCEPT !.supports = {"platform"}]>>),
   layer |-> With("roles", <<[MCRole EXCEPT !.primary = "network"]>>),
   mode |-> With("runbooks", <<[MCRunbook EXCEPT !.mode = "free_text"]>>),
   action |-> With("allowlists", <<[AllowSshd EXCEPT !.action = "manual.takeover"]>>),
   overlay |-> With("overlays", <<Overlay("os", "", <<>>)>>)]

Accepted ==
  [example |-> MCFleet, elsewhere |-> With("inventory", <<EdgeNode>>),
   twice |-> With("inventory", <<WebNode, WebNode>>),
   clash |-> With("inventory", <<WebNode, MCNode("prod-web-01", "openbsd", OpenBsdCapabilities)>>),
   openbsd |-> With("inventory", <<MCNode("prod-web-01", "openbsd", OpenBsdCapabilities)>>),
   nodisk |-> With("inventory", <<MCNode("prod-web-01", "linux", LinuxCapabilities \ {"storage.df"})>>),
   nocleanup |-> With("allowlists", <<AllowSshd>>),
   hidden |-> With("policies", <<[MCPolicy EXCEPT !.keys = {<<"approval", "?", "audit">>}]>>)]

OverlayDirectories == UNION {[1..n -> DOMAIN MCOverlays] : n \in 0..3}

MCRepositories ==
  [path \in {<<"refused", name>> : name \in DOMAIN Refused} |-> Refused[path[2]]]
  @@ [path \in {<<"accepted", name>> : name \in DOMAIN Accepted} |-> Accepted[path[2]]]
  @@ [path \in {<<"overlays", q>> : q \in OverlayDirectories} |->
        With("overlays", [i \in DOMAIN path[2] |-> MCOverlays[path[2][i]]])]

Healthy == [kind \in EvidenceKinds |-> ProgramOutput("Zero", {})]
MCHosts ==
  [down |-> Healthy,
   failed |-> [Healthy EXCEPT !.ServiceStatus = ProgramOutput("Zero", {"activestate=failed"})],
   flapping |-> [Healthy EXCEPT !.ServiceStatus = ProgramOutput("Zero", {"activestate=active"}),
                                !.RecentLogs = ProgramOutput("Zero", {"connection refused"})],
   nosockets |-> [Healthy EXCEPT !.Socket = ProgramOutput("NonZero", {})],
   nologs |-> [Healthy EXCEPT !.RecentLogs = [@ EXCEPT !.empty = TRUE]],
   nodisk |-> [Healthy EXCEPT !.Disk = ProgramFailed]]

Example == <<"accepted", "example">>
Demo(journey, path) == [does |-> "demo", journey |-> journey, path |-> path]
Write == [does |-> "write", journey |-> "service", path |-> Example]
ReceiptOf(journey) == [does |-> "receipt", run |-> Journeys[journey].run]
DogfoodRun(node, service, os, host) ==
  [does |-> "dogfood", journey |-> "dogfood", node |-> node, service |-> service, os |-> os,
   host |-> host]
Dogfooding == DogfoodRun("edge-01", <<"sshd">>, "Linux", "down")

\* A service of any name, and names with the words in them that the planner looks for.
MCServices ==
  {<<"nginx">>, <<"package", "db">>, <<"my", "package", "db">>, <<"package", "nginx", "db">>,
   <<"reboot", "agent">>, <<"reboot", "package", "db">>}

MCIdContains(r, text) ==
  CASE text = "package-db" ->
         \/ r.node = "package-db-01"
         \/ \E i \in 2..Len(r.name) : r.name[i - 1] = "package" /\ r.name[i] = "db"
    [] text = "/reboot" -> r.node = "reboot-01" \/ (r.name # <<>> /\ r.name[1] = "reboot")
    [] OTHER -> FALSE

MCSessions ==
  {<<[does |-> "load", path |-> path]>> : path \in DOMAIN MCRepositories}
  \cup {<<Demo(journey, <<"accepted", name>>)>> : journey \in {"service", "disk"}, name \in DOMAIN Accepted}
  \cup {<<DogfoodRun("edge-01", <<"sshd">>, "Linux", host)>> : host \in DOMAIN MCHosts}
  \cup {<<DogfoodRun(node, service, "Linux", "down")>> :
           node \in {"edge-01", "reboot-01", "package-db-01"}, service \in MCServices}
  \cup {<<DogfoodRun("edge/01", <<"sshd">>, "Linux", "down")>>,
        <<DogfoodRun("edge-01", <<"", "sshd">>, "Linux", "down")>>,
        <<DogfoodRun("edge-01", <<"sshd">>, "FreeBsd", "down")>>}
  \cup {<<Write, ReceiptOf("service")>>, <<Dogfooding, ReceiptOf("dogfood")>>,
        <<Write, Dogfooding, ReceiptOf("service")>>, <<Dogfooding, Dogfooding, ReceiptOf("dogfood")>>}

MCFirstSegment ==
  [n \in {"prod-web-01", "edge-01", "reboot-01", "package-db-01", "edge/01"} |->
     IF n = "edge/01" THEN "edge" ELSE n]
===============================================================================

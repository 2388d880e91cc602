----------------------------- MODULE MCAgentFiles ------------------------------
(* Two configurations of one node, one under another name, one whose identity   *)
(* has the path of the configuration itself, and two that are refused; an       *)
(* identity without and one with an expiry, and one that expires too early.     *)
(* The files begin fresh, with an installed agent, or with modes too open.      *)
EXTENDS AgentFiles

Config(node, identity) ==
  [form |-> "config", node |-> node, url |-> "https", os |-> "linux", trust |-> "trust.pem",
   identity |-> identity, certificate |-> "client.crt", key |-> "client.key", spool |-> "spool"]
MCConfig == Config("n1", "identity.yaml")

Installed(expires) ==
  IdentityFor(MCConfig, [fingerprint |-> "fp1", enrolled |-> 12, expires |-> expires])

\* Numbers have up to three digits.  An end of one is its value and ten to its length;
\* one that begins with 0 is no number of its own.  Names that meet are one or the other.
Powers == {1, 10, 100}
MCBeginnings(n) == {n \div d : d \in Powers} \ {0}
Endings(n) == {<<n % (10 * d), 10 * d>> : d \in {e \in Powers : n >= e}}
MCSplices(field, v, w) ==
  IF field \in {"enrolled", "expires"}
  THEN MCBeginnings(v) \cup {e[1] : e \in {f \in Endings(w) : 10 * f[1] >= f[2]}}
         \cup {e[2] * b + e[1] : b \in MCBeginnings(v), e \in Endings(w)}
  ELSE {v, w}

MCPaths == {"agent.yaml", "identity.yaml", "trust.pem", "client.crt", "client.key", "spool", "here"}
MCAbsolutePaths == MCPaths \ {"here"}

Fresh ==
  [path \in {"trust.pem", "client.crt", "client.key"} |->
     File(Unreadable, IF path = "client.key" THEN "private" ELSE "readable")]
With(fs, path, file) == [q \in DOMAIN fs \cup {path} |-> IF q = path THEN file ELSE fs[q]]
Ready ==
  With(With(With(Fresh, "spool", PrivateDirectory), "agent.yaml", File(MCConfig, "readable")),
       "identity.yaml", File(Installed(250), "private"))

MCInitialFiles ==
  {Fresh, Ready,
   With(Ready, "agent.yaml", File(MCConfig, "writable")),
   With(Ready, "identity.yaml", File(Installed(NoExpiry), "readable")),
   With(Fresh, "spool", File(Unreadable, "readable"))}

Init(config, force) == [does |-> "init", config |-> config, force |-> force]
Install(fingerprint, expires, force) ==
  [does |-> "install", fingerprint |-> fingerprint, enrolled |-> 12, expires |-> expires, force |-> force]

MCCommands ==
  {Init(MCConfig, FALSE), Init(Config("n2", "identity.yaml"), TRUE),
   Init(Config("n1", "agent.yaml"), TRUE), Init([MCConfig EXCEPT !.url = "http"], TRUE),
   Init([MCConfig EXCEPT !.os = "openbsd"], FALSE), Init([MCConfig EXCEPT !.spool = "here"], FALSE),
   Install("fp1", NoExpiry, FALSE), Install("fp2", 250, TRUE), Install("fp2", 12, FALSE),
   [does |-> "run"]}
===============================================================================

------------------------------- MODULE AgentFiles ------------------------------
(***************************************************************************)
(* The local state of an agent (src/crates/runlane-agent/src/config.rs):   *)
(* the commands that write its configuration and its identity, and the     *)
(* startup checks that read them back.                                     *)
(*                                                                         *)
(* Several commands may be at work on the same files; none locks them.     *)
(* Each step of a command is one file operation or one run of checks that  *)
(* nothing of the agent's can disturb.  A command may be killed at any     *)
(* step, and a write may stop half way, inside a number too.               *)
(*                                                                         *)
(* A file is [kind, content, mode].  Content is what its YAML says;        *)
(* "Unreadable" is all that does not parse or has not the shape asked for. *)
(* Of the mode only this counts: "private" (no access for group and        *)
(* others), "readable", "writable" (by others too).                        *)
(*                                                                         *)
(* Texts are not spelled out.  Beginnings and Splices say what the module  *)
(* has to know of them: which value a cut text, or a text written over     *)
(* another, still spells.                                                  *)
(***************************************************************************)
EXTENDS Naturals

CONSTANTS
  Paths, AbsolutePaths,
  ConfigPath,      \* the --config of all commands
  NodeIds,         \* node ids that are not empty and have no space, slash, backslash or colon
  DetectedSystem,  \* the operating system the agent was built for
  InitialFiles,    \* the file systems the agent may be installed on
  Commands,        \* what operators run: [does |-> "init", config, force],
                   \* [does |-> "install", fingerprint, enrolled, expires, force], [does |-> "run"]
  Processes,
  MaxCommands,     \* bound of the model
  Beginnings(_),   \* the numbers spelled by the first digits of a number, all of them included
  Splices(_, _, _) \* Splices(field, v, w): the values of the field spelled by a beginning of v
                   \* followed by an end of w, either of which may be empty

Modes == {"private", "readable", "writable"}
Unreadable == [form |-> "unreadable"]
Empty == [form |-> "empty"]
IsConfig(c) ==
  /\ c.form = "config"
  /\ c = [form |-> "config", node |-> c.node, url |-> c.url, os |-> c.os, trust |-> c.trust,
          identity |-> c.identity, certificate |-> c.certificate, key |-> c.key, spool |-> c.spool]
IsIdentity(c) ==
  /\ c.form = "identity"
  /\ c = [form |-> "identity", node |-> c.node, os |-> c.os, trust |-> c.trust,
          certificate |-> c.certificate, key |-> c.key, fingerprint |-> c.fingerprint,
          enrolled |-> c.enrolled, expires |-> c.expires]
IsBody(c) == c = Unreadable \/ IsConfig(c) \/ IsIdentity(c)

ASSUME FilesAssumption ==
  /\ AbsolutePaths \subseteq Paths
  /\ ConfigPath \in Paths
  /\ MaxCommands \in Nat
  /\ \A fs \in InitialFiles :
       /\ DOMAIN fs \subseteq Paths
       /\ \A path \in DOMAIN fs :
            /\ fs[path].kind \in {"file", "directory"}
            /\ fs[path].mode \in Modes
            /\ IsBody(fs[path].content)
            /\ fs[path].kind = "directory" => fs[path].content = Unreadable
  /\ \A command \in Commands :
       /\ command.does \in {"init", "install", "run"}
       /\ command.does = "init" => IsConfig(command.config)

VARIABLES
  files,    \* files[p]: the file at path p, for the paths where there is one
  at,       \* at[p]: the command process p is at work on, and how far it is
  begun,    \* how many commands have begun
  written,  \* history: the bodies commands set out to write
  mixed,    \* history: the paths whose text two commands may have a part in
  started   \* history: the states agents started with

afVars == <<files, at, begun, written, mixed, started>>

NoExpiry == 0   \* no time an identity could expire at
Idle == [step |-> "idle"]
File(content, mode) == [kind |-> "file", content |-> content, mode |-> mode]
PrivateDirectory == [kind |-> "directory", content |-> Unreadable, mode |-> "private"]

-----------------------------------------------------------------------------
(* Checks.                                                                 *)

StartupSystems == {"linux", "freebsd", "openbsd"}

ConfigShapeValid(config) ==
  /\ config.node \in NodeIds
  /\ config.url = "https"
  /\ config.os \in StartupSystems
  /\ {config.trust, config.identity, config.certificate, config.key, config.spool} \subseteq AbsolutePaths

ExpiryValid(enrolled, expires) == expires # NoExpiry => expires > enrolled

IdentityShapeValid(identity) ==
  /\ identity.node \in NodeIds
  /\ identity.os \in StartupSystems
  /\ identity.fingerprint # ""
  /\ ExpiryValid(identity.enrolled, identity.expires)
  /\ {identity.trust, identity.certificate, identity.key} \subseteq AbsolutePaths

IsFile(path) == path \in DOMAIN files /\ files[path].kind = "file"
NotWritable(path) == files[path].mode # "writable"
Private(path) == files[path].mode = "private"

ConfigFileSafe == IsFile(ConfigPath) /\ NotWritable(ConfigPath)

ConfigLoads ==
  /\ files[ConfigPath].content.form = "config"
  /\ ConfigShapeValid(files[ConfigPath].content)

\* validate_config_prerequisites
PrerequisitesHold(config) ==
  /\ IsFile(config.trust) /\ NotWritable(config.trust)
  /\ IsFile(config.certificate) /\ NotWritable(config.certificate)
  /\ IsFile(config.key) /\ Private(config.key)
  /\ config.spool \in DOMAIN files
  /\ files[config.spool].kind = "directory" /\ NotWritable(config.spool)

IdentityFileSafe(config) == IsFile(config.identity) /\ Private(config.identity)

IdentityLoads(config) ==
  /\ files[config.identity].content.form = "identity"
  /\ IdentityShapeValid(files[config.identity].content)

\* Mutant: a node that was given another name keeps its identity.
MatchesButForNode(config, identity) ==
  \A field \in {"os", "trust", "certificate", "key"} : identity[field] = config[field]

\* validate_identity_matches_config
Matches(config, identity) ==
  \A field \in {"node", "os", "trust", "certificate", "key"} : identity[field] = config[field]

-----------------------------------------------------------------------------
(* Commands.                                                               *)

Goes(p, fields) == at' = [at EXCEPT ![p] = fields]
Ends(p) == Goes(p, Idle)
Stays == UNCHANGED <<begun, written, mixed, started>>
Author(path) == IF path \in mixed THEN "several" ELSE "one"

AfInit ==
  /\ files \in InitialFiles
  /\ at = [p \in Processes |-> Idle]
  /\ begun = 0
  /\ written = {files[path].content : path \in {q \in DOMAIN files : files[q].kind = "file"}}
  /\ mixed = {}
  /\ started = {}

Run(p, command) ==
  /\ at[p].step = "idle" /\ begun < MaxCommands
  /\ Goes(p, [step |-> IF command.does = "init" THEN "prepare" ELSE "check", command |-> command])
  /\ begun' = begun + 1
  /\ UNCHANGED <<files, written, mixed, started>>

\* Any step may be the last, because the process is killed or the file system says no.
Kill(p) == at[p].step # "idle" /\ Ends(p) /\ UNCHANGED files /\ Stays

Put(path, file) == [q \in DOMAIN files \cup {path} |-> IF q = path THEN file ELSE files[q]]

At(p, step) == at[p].step = step
Fail(p) == Ends(p) /\ UNCHANGED files /\ Stays
Writes(p, path, body) ==
  /\ Goes(p, [step |-> "open", command |-> at[p].command, path |-> path, body |-> body])
  /\ written' = written \cup {body}
  /\ UNCHANGED <<begun, mixed, started>>

\* init_config up to the write: the spool directory is made and closed to others even if
\* the configuration is then refused.
Prepare(p) ==
  LET config == at[p].command.config
      accepted ==
        /\ ConfigShapeValid(config)
        /\ config.spool \in DOMAIN files => files[config.spool].kind = "directory"
  IN  /\ At(p, "prepare")
      /\ \/ ~ accepted /\ Fail(p)
         \/ /\ accepted
            /\ files' = Put(config.spool, PrivateDirectory)
            /\ Writes(p, ConfigPath, config)

CheckConfig(p) ==
  /\ At(p, "check")
  /\ \/ ~ ConfigFileSafe /\ Fail(p)
     \/ ConfigFileSafe /\ Goes(p, [at[p] EXCEPT !.step = "load"]) /\ UNCHANGED files /\ Stays

LoadConfig(p) ==
  /\ At(p, "load")
  /\ \/ ~ ConfigLoads /\ Fail(p)
     \/ /\ ConfigLoads
        /\ Goes(p, [step |-> "prerequisites", command |-> at[p].command,
                    config |-> files[ConfigPath].content, by |-> Author(ConfigPath)])
        /\ UNCHANGED files /\ Stays

\* AgentIdentityMetadata::from_config
IdentityFor(config, command) ==
  [form |-> "identity", node |-> config.node, os |-> config.os, trust |-> config.trust,
   certificate |-> config.certificate, key |-> config.key, fingerprint |-> command.fingerprint,
   enrolled |-> command.enrolled, expires |-> command.expires]
IdentityAccepted(command) ==
  command.fingerprint # "" /\ ExpiryValid(command.enrolled, command.expires)

\* install_identity does not ask for the platform, startup does.
CheckPrerequisites(p) ==
  LET config == at[p].config
      command == at[p].command
      accepted ==
        /\ PrerequisitesHold(config)
        /\ IF command.does = "install" THEN IdentityAccepted(command) ELSE config.os = DetectedSystem
  IN  /\ At(p, "prerequisites")
      /\ UNCHANGED files
      /\ \/ ~ accepted /\ Ends(p) /\ Stays
         \/ /\ accepted /\ command.does = "install"
            /\ Writes(p, config.identity, IdentityFor(config, command))
         \/ /\ accepted /\ command.does = "run"
            /\ Goes(p, [at[p] EXCEPT !.step = "identity"]) /\ Stays

CheckIdentity(p) ==
  /\ At(p, "identity")
  /\ \/ ~ IdentityFileSafe(at[p].config) /\ Fail(p)
     \/ /\ IdentityFileSafe(at[p].config)
        /\ Goes(p, [at[p] EXCEPT !.step = "read"]) /\ UNCHANGED files /\ Stays

\* The agent starts if what it reads now matches the configuration it read before.
ReadIdentity(p) ==
  LET config == at[p].config
      accepted == IdentityLoads(config) /\ Matches(config, files[config.identity].content)
  IN  /\ At(p, "read")
      /\ Ends(p)
      /\ started' = IF accepted
                    THEN started \cup {[config |-> config, configBy |-> at[p].by,
                                        identity |-> files[config.identity].content,
                                        identityBy |-> Author(config.identity),
                                        mode |-> files[config.identity].mode]}
                    ELSE started
      /\ UNCHANGED <<files, begun, written, mixed>>

-----------------------------------------------------------------------------
(* write_yaml_restrictive.                                                 *)

Shared(p) == \E q \in Processes \ {p} : At(q, "write") /\ at[q].path = at[p].path
NotesMix(p) ==
  /\ mixed' = IF Shared(p) THEN mixed \cup {at[p].path} ELSE mixed \ {at[p].path}
  /\ UNCHANGED <<begun, written, started>>

\* Mutant: truncate(true) is missing, the old text stays below the new one.
OpensWithoutTruncating(p, mode) ==
  LET path == at[p].path
  IN  /\ files' = Put(path, File(IF path \in DOMAIN files THEN files[path].content ELSE Empty, mode))
      /\ Goes(p, [at[p] EXCEPT !.step = "write"])
      /\ NotesMix(p)

Opens(p, mode) ==
  /\ files' = Put(at[p].path, File(Empty, mode))
  /\ Goes(p, [at[p] EXCEPT !.step = "write"])
  /\ NotesMix(p)

\* Mutant: an existing file is emptied, forced or not.
OpenAlways(p) ==
  /\ At(p, "open")
  /\ \/ at[p].path \notin DOMAIN files /\ Opens(p, "private")
     \/ IsFile(at[p].path) /\ Opens(p, files[at[p].path].mode)
     \/ at[p].path \in DOMAIN files /\ ~ IsFile(at[p].path) /\ Fail(p)

\* The mode given to open counts only for a file it creates.
Open(p) ==
  /\ At(p, "open")
  /\ \/ at[p].path \notin DOMAIN files /\ Opens(p, "private")
     \/ at[p].command.force /\ IsFile(at[p].path) /\ Opens(p, files[at[p].path].mode)
     \/ at[p].path \in DOMAIN files /\ ~ (at[p].command.force /\ IsFile(at[p].path)) /\ Fail(p)

\* The order of the lines, which is that of the fields of AgentConfigFile and AgentIdentityFile.
Lines ==
  [config |-> [node |-> 1, url |-> 2, trust |-> 3, identity |-> 4, certificate |-> 5, key |-> 6,
               spool |-> 7, os |-> 8],
   identity |-> [node |-> 1, os |-> 2, fingerprint |-> 3, trust |-> 4, certificate |-> 5, key |-> 6,
                 enrolled |-> 7, expires |-> 8]]

\* What is readable of a text that ends too early.  The expiry is the last line of an
\* identity and may be absent, so that an identity cut inside one of the two numbers still
\* is one.  The last line of a configuration is a name that no beginning of it is.
Fragments(body) ==
  IF body.form # "identity" THEN {}
  ELSE {[body EXCEPT !.enrolled = n, !.expires = NoExpiry] : n \in Beginnings(body.enrolled)}
         \cup (IF body.expires = NoExpiry THEN {}
               ELSE {[body EXCEPT !.expires = n] : n \in Beginnings(body.expires)})

\* What is readable of a beginning of one text followed by the rest of another.  The lines
\* up to the cut are the new ones and those after it the old, and in the line of the cut the
\* two meet.
LinesSpliced(body, old) ==
  LET line == Lines[body.form]
      Above(field) == {f \in DOMAIN line : line[f] < line[field]}
      Cut(field, value) ==
        [[f \in DOMAIN body |-> IF f \in Above(field) THEN body[f] ELSE old[f]] EXCEPT ![field] = value]
  IN  UNION {{Cut(field, value) : value \in Splices(field, body[field], old[field])} :
               field \in DOMAIN line}

\* Where new lines are longer, a cut in the enrolment may meet the old expiry.
ExpiryMoved(body, old) ==
  IF body.form # "identity" THEN {}
  ELSE {[body EXCEPT !.enrolled = n, !.expires = NoExpiry] :
          n \in Splices("enrolled", body.enrolled, old.expires)}

\* A configuration and an identity agree only in their first lines, so the cut is there.
Spliced(body, old) ==
  IF old.form \in {"empty", "unreadable"} THEN {}
  ELSE IF old.form = body.form THEN LinesSpliced(body, old) \cup ExpiryMoved(body, old)
  ELSE {[old EXCEPT !.node = node] : node \in Splices("node", body.node, old.node)}

\* What stands in a file after all of a body was written over its text, of which the rest
\* follows if it is longer; and what stands there if the write stops on the way.
Overwritten(old, body) == IF old \in {Empty, body} THEN {body} ELSE {body, Unreadable}
Torn(old, body) == {Unreadable} \cup Fragments(body) \cup Spliced(body, old)

Write(p) ==
  LET path == at[p].path
      body == at[p].body
      old == files[path].content
      Leaves(content) == files' = Put(path, File(content, files[path].mode))
  IN  /\ At(p, "write")
      /\ Stays
      /\ \/ (\E content \in Overwritten(old, body) : Leaves(content)) /\ Goes(p, [at[p] EXCEPT !.step = "protect"])
         \/ (\E content \in Torn(old, body) : Leaves(content)) /\ Ends(p)

Protect(p) ==
  /\ At(p, "protect")
  /\ files' = Put(at[p].path, File(files[at[p].path].content, "private"))
  /\ Ends(p)
  /\ Stays

-----------------------------------------------------------------------------

AfNext ==
  \E p \in Processes :
    \/ \E command \in Commands : Run(p, command)
    \/ Kill(p)
    \/ Prepare(p) \/ CheckConfig(p) \/ LoadConfig(p) \/ CheckPrerequisites(p)
    \/ CheckIdentity(p) \/ ReadIdentity(p)
    \/ Open(p) \/ Write(p) \/ Protect(p)

AfSpec == AfInit /\ [][AfNext]_afVars

-----------------------------------------------------------------------------

\* What may stand in a file that bodies of bs were, in full or in part, written into one
\* at a time.
Contents(bs) == {Empty, Unreadable} \cup bs \cup UNION {Fragments(body) : body \in bs}

\* What is open for writing is a file, what it will hold is a body some command set out to
\* write, and unless two commands had a file open at once nothing else is ever readable in
\* it than one such body, in full or cut short: a shorter text leaves nothing of a longer
\* one it replaces (write_yaml_restrictive).
AgentFilesTypeOK ==
  /\ DOMAIN files \subseteq Paths
  /\ \A path \in DOMAIN files :
       /\ files[path].mode \in Modes
       /\ files[path].content = Empty \/ IsBody(files[path].content)
       /\ path \notin mixed => files[path].content \in Contents(written)
  /\ \A p \in Processes : at[p].step \in {"write", "protect"} =>
       at[p].path \in DOMAIN files /\ files[at[p].path].kind = "file" /\ at[p].body \in written

\* An agent that starts has one identity, of the node, the system and the files its
\* configuration names, that nobody else could read, whatever was installed, replaced or cut
\* short since it read its configuration (validate_agent_state reads the two files one after
\* the other).  Unless two commands wrote a file at once, the configuration is what one
\* init wrote, and the identity is in all but its last lines what one install wrote: cut
\* short it may have lost its expiry and digits of its enrolment, or digits of an expiry
\* that is nevertheless later than the enrolment.
CutShort(identity, body) ==
  \/ identity.expires = NoExpiry /\ identity.enrolled \in Beginnings(body.enrolled)
  \/ identity.enrolled = body.enrolled /\ identity.expires \in Beginnings(body.expires)

StartedAgentIsConsistent ==
  \A s \in started :
    /\ s.mode = "private"
    /\ \A field \in {"node", "os", "trust", "certificate", "key"} : s.identity[field] = s.config[field]
    /\ s.config.os = DetectedSystem
    /\ ExpiryValid(s.identity.enrolled, s.identity.expires)
    /\ s.configBy = "one" => s.config \in written
    /\ s.identityBy = "one" => \E body \in written :
         /\ body.form = "identity"
         /\ \A field \in {"node", "os", "fingerprint", "trust", "certificate", "key"} :
              s.identity[field] = body[field]
         /\ s.identity = body \/ CutShort(s.identity, body)

\* A command without --force does no harm.  A file that is there gets another content
\* only from a forced command or from the command that created it, and an agent that
\* could start still can after a step of any command that neither has a file open nor is
\* forced to open one: preparing, checking, being refused and being killed change nothing
\* that matters, although init touches the spool directory before it is refused.
Startable ==
  /\ ConfigFileSafe /\ ConfigLoads
  /\ LET config == files[ConfigPath].content
     IN  /\ PrerequisitesHold(config) /\ config.os = DetectedSystem
         /\ IdentityFileSafe(config) /\ IdentityLoads(config)
         /\ Matches(config, files[config.identity].content)

UnforcedIsHarmless ==
  [][/\ \A path \in DOMAIN files : files'[path].content # files[path].content =>
          \E p \in Processes :
            /\ at[p].step \in {"open", "write"} /\ at[p].path = path
            /\ at[p].command.force \/ At(p, "write")
     /\ Startable /\ (\A p \in Processes : ~ At(p, "write") /\ (At(p, "open") => ~ at[p].command.force))
          => Startable']_afVars

===============================================================================

--------------------------- MODULE AgentFiles_proofs ---------------------------
(***************************************************************************)
(* Proofs about AgentFiles, for any file systems to begin with, commands   *)
(* and processes, and for any texts (nothing is assumed of Beginnings and  *)
(* Splices).  The argument has two parts.  A path never loses its file,    *)
(* and a file closed to others is never opened to them again; so what a    *)
(* startup check found of a path is still true when the next check relies  *)
(* on it.  Only the content may have changed in between, and that is what  *)
(* the checks look at last.  And a file that one command alone has open is *)
(* empty until that command writes, so that what it leaves is all its own. *)
(***************************************************************************)
EXTENDS AgentFiles, TLAPS

\* The progress of a command, by its step.
Waiting == [step : {"idle"}]
Starting == [step : {"prepare", "check", "load"}, command : Commands]
Writing == [step : {"open", "write", "protect"}, command : Commands, path : Paths, body : written]
IsChecking(progress) ==
  /\ progress = [step |-> progress.step, command |-> progress.command,
                 config |-> progress.config, by |-> progress.by]
  /\ progress.step \in {"prerequisites", "identity", "read"}
  /\ progress.command \in Commands

\* What the steps a command has behind it left true.
StepInv(p) ==
  /\ at[p] \in Waiting \cup Starting \cup Writing \/ IsChecking(at[p])
  /\ At(p, "prepare") => at[p].command.does = "init"
  /\ At(p, "load") => ConfigPath \in DOMAIN files
  /\ at[p].step \in {"prerequisites", "identity", "read"} =>
       /\ at[p].config.form = "config" /\ ConfigShapeValid(at[p].config)
       /\ at[p].by = "one" => at[p].config \in written
  /\ at[p].step \in {"identity", "read"} => at[p].config.os = DetectedSystem
  /\ At(p, "read") => at[p].config.identity \in DOMAIN files /\ Private(at[p].config.identity)
  /\ at[p].step \in {"open", "write", "protect"} => at[p].body # Unreadable
  /\ at[p].step \in {"write", "protect"} =>
       at[p].path \in DOMAIN files /\ files[at[p].path].kind = "file"

FilesInv ==
  /\ DOMAIN files \subseteq Paths
  /\ \A path \in DOMAIN files :
       /\ files[path].kind \in {"file", "directory"}
       /\ files[path].mode \in Modes
       /\ files[path].content = Empty \/ IsBody(files[path].content)
       /\ path \notin mixed => files[path].content \in Contents(written)
       /\ files[path].kind = "directory" => files[path].content = Unreadable

\* A file that one command alone has open for writing is empty until the command writes.
MixInv ==
  \A p \in Processes : At(p, "write") /\ at[p].path \notin mixed =>
    /\ files[at[p].path].content = Empty
    /\ \A q \in Processes : q # p => ~ (At(q, "write") /\ at[q].path = at[p].path)

AgentInv ==
  /\ \A body \in written : IsBody(body)
  /\ FilesInv
  /\ at = [p \in Processes |-> at[p]]
  /\ \A p \in Processes : StepInv(p)
  /\ MixInv
  /\ StartedAgentIsConsistent

-----------------------------------------------------------------------------
(* What a write leaves.                                                    *)

\* Part of an identity, if it is readable, is an identity with the same first lines.
LEMMA FragmentIsIdentity ==
  ASSUME NEW body, IsBody(body), NEW c \in Fragments(body)
  PROVE  /\ body.form = "identity" /\ c.form = "identity" /\ IsBody(c)
         /\ \A field \in {"node", "os", "fingerprint", "trust", "certificate", "key"} :
              c[field] = body[field]
         /\ CutShort(c, body)
<1>1. body.form = "identity"
  BY DEF Fragments
<1>2. IsIdentity(body)
  BY <1>1 DEF IsBody, Unreadable, IsConfig
<1>3. CASE \E n \in Beginnings(body.enrolled) : c = [body EXCEPT !.enrolled = n, !.expires = NoExpiry]
  <2>1. PICK n \in Beginnings(body.enrolled) : c = [body EXCEPT !.enrolled = n, !.expires = NoExpiry]
    BY <1>3
  <2>2. c = [form |-> "identity", node |-> body.node, os |-> body.os, trust |-> body.trust,
             certificate |-> body.certificate, key |-> body.key, fingerprint |-> body.fingerprint,
             enrolled |-> n, expires |-> NoExpiry]
    BY <1>2, <2>1 DEF IsIdentity
  <2> QED  BY <1>1, <1>2, <2>2 DEF IsBody, IsIdentity, CutShort
<1>4. CASE \E n \in Beginnings(body.expires) : c = [body EXCEPT !.expires = n]
  <2>1. PICK n \in Beginnings(body.expires) : c = [body EXCEPT !.expires = n]
    BY <1>4
  <2>2. c = [form |-> "identity", node |-> body.node, os |-> body.os, trust |-> body.trust,
             certificate |-> body.certificate, key |-> body.key, fingerprint |-> body.fingerprint,
             enrolled |-> body.enrolled, expires |-> n]
    BY <1>2, <2>1 DEF IsIdentity
  <2> QED  BY <1>1, <1>2, <2>2 DEF IsBody, IsIdentity, CutShort
<1> QED  BY <1>1, <1>3, <1>4 DEF Fragments

\* Where two texts meet, what is readable still has the fields of a configuration or of
\* an identity.
LEMMA SplicedIsBody ==
  ASSUME NEW body, NEW old, IsBody(body), body # Unreadable, old = Empty \/ IsBody(old),
         NEW c \in Spliced(body, old)
  PROVE  IsBody(c)
<1>1. IsConfig(body) \/ IsIdentity(body)
  BY DEF IsBody
<1>2. old.form \notin {"empty", "unreadable"}
  BY DEF Spliced
<1>3. IsConfig(old) \/ IsIdentity(old)
  BY <1>2 DEF IsBody, Empty, Unreadable
<1>4. CASE old.form # body.form
  <2>1. PICK node : c = [old EXCEPT !.node = node]
    BY <1>2, <1>4 DEF Spliced
  <2>2. CASE IsConfig(old)
    <3>1. c = [form |-> "config", node |-> node, url |-> old.url, os |-> old.os, trust |-> old.trust,
               identity |-> old.identity, certificate |-> old.certificate, key |-> old.key,
               spool |-> old.spool]
      BY <2>1, <2>2 DEF IsConfig
    <3> QED  BY <3>1 DEF IsBody, IsConfig
  <2>3. CASE IsIdentity(old)
    <3>1. c = [form |-> "identity", node |-> node, os |-> old.os, trust |-> old.trust,
               certificate |-> old.certificate, key |-> old.key, fingerprint |-> old.fingerprint,
               enrolled |-> old.enrolled, expires |-> old.expires]
      BY <2>1, <2>3 DEF IsIdentity
    <3> QED  BY <3>1 DEF IsBody, IsIdentity
  <2> QED  BY <1>3, <2>2, <2>3
<1>5. CASE old.form = body.form
  <2> DEFINE line == Lines[body.form]
             Above(field) == {f \in DOMAIN line : line[f] < line[field]}
             Cut(field, value) ==
               [[f \in DOMAIN body |-> IF f \in Above(field) THEN body[f] ELSE old[f]]
                  EXCEPT ![field] = value]
  <2>1. ASSUME NEW field, field # "form", NEW value, c = Cut(field, value)  PROVE IsBody(c)
    <3>1. DOMAIN c = DOMAIN body /\ "form" \in DOMAIN body
      BY <1>1, <2>1 DEF IsConfig, IsIdentity
    <3>2. c.form = body.form
      BY <1>5, <2>1, <3>1
    <3>3. c = [f \in DOMAIN body |-> c[f]]
      BY <2>1
    <3> HIDE DEF Cut
    <3>4. CASE IsConfig(body)
      <4>1. DOMAIN body = {"form", "node", "url", "os", "trust", "identity", "certificate", "key", "spool"}
        BY <3>4 DEF IsConfig
      <4>2. c = [form |-> "config", node |-> c.node, url |-> c.url, os |-> c.os, trust |-> c.trust,
                 identity |-> c.identity, certificate |-> c.certificate, key |-> c.key, spool |-> c.spool]
        BY <3>2, <3>3, <3>4, <4>1 DEF IsConfig
      <4> QED  BY <3>2, <3>4, <4>2 DEF IsBody, IsConfig
    <3>5. CASE IsIdentity(body)
      <4>1. DOMAIN body = {"form", "node", "os", "trust", "certificate", "key", "fingerprint",
                           "enrolled", "expires"}
        BY <3>5 DEF IsIdentity
      <4>2. c = [form |-> "identity", node |-> c.node, os |-> c.os, trust |-> c.trust,
                 certificate |-> c.certificate, key |-> c.key, fingerprint |-> c.fingerprint,
                 enrolled |-> c.enrolled, expires |-> c.expires]
        BY <3>2, <3>3, <3>5, <4>1 DEF IsIdentity
      <4> QED  BY <3>2, <3>5, <4>2 DEF IsBody, IsIdentity
    <3> QED  BY <1>1, <3>4, <3>5
  <2>2. \A field \in DOMAIN line : field # "form"
    BY <1>1 DEF Lines, IsConfig, IsIdentity
  <2>3. CASE c \in LinesSpliced(body, old)
    <3>1. \E field \in DOMAIN line : \E value : c = Cut(field, value)
      BY <2>3 DEF LinesSpliced
    <3> QED  BY <2>1, <2>2, <3>1
  <2>4. CASE c \in ExpiryMoved(body, old)
    <3>1. IsIdentity(body)
      BY <1>1, <2>4 DEF IsConfig, ExpiryMoved
    <3>2. PICK n : c = [body EXCEPT !.enrolled = n, !.expires = NoExpiry]
      BY <2>4 DEF ExpiryMoved
    <3>3. c = [form |-> "identity", node |-> body.node, os |-> body.os, trust |-> body.trust,
               certificate |-> body.certificate, key |-> body.key, fingerprint |-> body.fingerprint,
               enrolled |-> n, expires |-> NoExpiry]
      BY <3>1, <3>2 DEF IsIdentity
    <3> QED  BY <3>3 DEF IsBody, IsIdentity
  <2> QED  BY <1>2, <1>5, <2>3, <2>4 DEF Spliced
<1> QED  BY <1>4, <1>5

\* So what a write leaves is unreadable, a configuration or an identity; and its own, in
\* full or in part, if the file was empty.
LEMMA WriteLeaves ==
  ASSUME AgentInv, NEW body \in written, body # Unreadable, NEW old, old = Empty \/ IsBody(old),
         NEW c \in Overwritten(old, body) \cup Torn(old, body)
  PROVE  /\ IsBody(c)
         /\ old = Empty => c \in Contents(written)
<1>1. IsBody(body)
  BY DEF AgentInv
<1>2. c \in {body, Unreadable} \/ c \in Fragments(body) \/ c \in Spliced(body, old)
  BY DEF Overwritten, Torn
<1>3. IsBody(c)
  BY <1>1, <1>2, FragmentIsIdentity, SplicedIsBody DEF IsBody
<1>4. old = Empty => Spliced(body, old) = {}
  BY DEF Spliced, Empty
<1> QED  BY <1>2, <1>3, <1>4 DEF Contents

\* A configuration in a file one command wrote at a time is one some command set out to write.
LEMMA ConfigIsWritten ==
  ASSUME AgentInv, NEW c \in Contents(written), c.form = "config"
  PROVE  c \in written
<1>1. c # Unreadable /\ c # Empty
  BY DEF Unreadable, Empty
<1>2. \A body \in written : IsBody(body)
  BY DEF AgentInv
<1> QED  BY <1>1, <1>2, FragmentIsIdentity DEF Contents

\* An identity there is one some command set out to write, or that cut short.
LEMMA IdentityIsWritten ==
  ASSUME AgentInv, NEW c \in Contents(written), c.form = "identity"
  PROVE  \E body \in written :
           /\ body.form = "identity"
           /\ \A field \in {"node", "os", "fingerprint", "trust", "certificate", "key"} :
                c[field] = body[field]
           /\ c = body \/ CutShort(c, body)
<1>1. c # Unreadable /\ c # Empty
  BY DEF Unreadable, Empty
<1>2. \A body \in written : IsBody(body)
  BY DEF AgentInv
<1>3. CASE c \in written
  BY <1>3
<1>4. CASE \E body \in written : c \in Fragments(body)
  BY <1>2, <1>4, FragmentIsIdentity
<1> QED  BY <1>1, <1>3, <1>4 DEF Contents

\* With more bodies, more may stand in files.
LEMMA ContentsGrow ==
  ASSUME NEW bs, NEW cs, bs \subseteq cs
  PROVE  Contents(bs) \subseteq Contents(cs)
BY DEF Contents

-----------------------------------------------------------------------------
(* What a step of one process does to the others.                          *)

\* What every step does to the files at most, as far as the checks of others go.
Kept ==
  /\ DOMAIN files \subseteq DOMAIN files'
  /\ \A path \in DOMAIN files :
       /\ files'[path].kind = files[path].kind
       /\ Private(path) => files'[path].mode = "private"
  /\ written \subseteq written'

LEMMA OthersKeep ==
  ASSUME Kept, NEW q \in Processes, StepInv(q), at'[q] = at[q]
  PROVE  StepInv(q)'
<1>1. at'[q] \in Waiting \cup Starting \cup Writing' \/ IsChecking(at'[q])
  BY DEF StepInv, Kept, Writing, Waiting, Starting
<1>2. /\ At(q, "prepare")' => at'[q].command.does = "init"
      /\ At(q, "load")' => ConfigPath \in DOMAIN files'
      /\ at'[q].step \in {"prerequisites", "identity", "read"} =>
           /\ at'[q].config.form = "config" /\ ConfigShapeValid(at'[q].config)
           /\ at'[q].by = "one" => at'[q].config \in written'
      /\ at'[q].step \in {"identity", "read"} => at'[q].config.os = DetectedSystem
  BY DEF StepInv, At, Kept
<1>3. At(q, "read")' => at'[q].config.identity \in DOMAIN files' /\ Private(at[q].config.identity)'
  BY DEF StepInv, At, Kept, Private
<1>4. at'[q].step \in {"write", "protect"} =>
        at'[q].path \in DOMAIN files' /\ files'[at'[q].path].kind = "file"
  BY DEF StepInv, Kept
<1>5. at'[q].step \in {"open", "write", "protect"} => at'[q].body # Unreadable
  BY DEF StepInv
<1> QED  BY <1>1, <1>2, <1>3, <1>4, <1>5 DEF StepInv, Private, At, Waiting, Starting

\* The invariant after a step of p, from what is particular to the step.
LEMMA StepSuffices ==
  ASSUME AgentInv, NEW p \in Processes, NEW progress, Goes(p, progress), Kept,
         \A body \in written' \ written : IsBody(body),
         FilesInv', StepInv(p)', MixInv', StartedAgentIsConsistent'
  PROVE  AgentInv'
<1>1. at' = [q \in Processes |-> at'[q]] /\ \A q \in Processes : q # p => at'[q] = at[q]
  BY DEF AgentInv, Goes
<1>2. \A q \in Processes : StepInv(q)'
  BY <1>1, OthersKeep DEF AgentInv
<1>3. \A body \in written' : IsBody(body)
  BY DEF AgentInv
<1> QED  BY <1>1, <1>2, <1>3 DEF AgentInv

\* A step after which its process has no file open, and which leaves alone the files that
\* one other process has.
LEMMA MixKept ==
  ASSUME AgentInv, NEW p \in Processes, NEW progress, Goes(p, progress), progress.step # "write",
         UNCHANGED mixed,
         \A q \in Processes \ {p} : At(q, "write") /\ at[q].path \notin mixed =>
           files'[at[q].path].content = files[at[q].path].content
  PROVE  MixInv'
<1>1. at'[p].step # "write" /\ \A q \in Processes : q # p => at'[q] = at[q]
  BY DEF AgentInv, Goes
<1> SUFFICES ASSUME NEW q \in Processes, At(q, "write")', at'[q].path \notin mixed'
             PROVE  /\ files'[at'[q].path].content = Empty
                    /\ \A r \in Processes : r # q => ~ (At(r, "write")' /\ at'[r].path = at'[q].path)
  BY DEF MixInv, At
<1>2. q # p /\ at'[q] = at[q] /\ At(q, "write") /\ at[q].path \notin mixed
  BY <1>1 DEF At
<1>3. files[at[q].path].content = Empty /\ files'[at[q].path].content = Empty
  BY <1>2 DEF AgentInv, MixInv
<1>4. ASSUME NEW r \in Processes, r # q, At(r, "write")', at'[r].path = at'[q].path  PROVE FALSE
  <2>1. r # p /\ at'[r] = at[r]
    BY <1>1, <1>4 DEF At
  <2> QED  BY <1>2, <1>4, <2>1 DEF AgentInv, MixInv, At
<1> QED  BY <1>2, <1>3, <1>4

\* Steps that start no agent leave those started consistent.
LEMMA StartedKept ==
  ASSUME StartedAgentIsConsistent, UNCHANGED started, written \subseteq written'
  PROVE  StartedAgentIsConsistent'
BY DEF StartedAgentIsConsistent

LEMMA FilesUntouched ==
  ASSUME FilesInv, UNCHANGED <<files, mixed>>, written \subseteq written'
  PROVE  FilesInv' /\ Kept
<1>1. Contents(written) \subseteq Contents(written')
  BY ContentsGrow
<1> QED  BY <1>1 DEF FilesInv, Kept, Private, Contents

\* A command that ends is at no step.
LEMMA Ending ==
  ASSUME AgentInv, NEW p \in Processes, Ends(p)
  PROVE  StepInv(p)'
<1>1. at'[p] = Idle
  BY DEF AgentInv, Ends, Goes
<1> QED  BY <1>1 DEF StepInv, Idle, Waiting, At

\* So failing, at any step, preserves the invariant.
LEMMA Failing ==
  ASSUME AgentInv, NEW p \in Processes, Ends(p), UNCHANGED files, Stays
  PROVE  AgentInv'
<1>1. FilesInv' /\ Kept /\ StartedAgentIsConsistent'
  BY FilesUntouched, StartedKept DEF AgentInv, Stays
<1>2. StepInv(p)'
  BY Ending
<1>3. MixInv'
  BY MixKept DEF Ends, Idle, Stays
<1> QED  BY <1>1, <1>2, <1>3, StepSuffices DEF Ends, Stays

\* A step that only takes note of what it found preserves it if the note is true.
LEMMA MovingOn ==
  ASSUME AgentInv, NEW p \in Processes, NEW progress, Goes(p, progress), progress.step # "write",
         UNCHANGED files, Stays, StepInv(p)'
  PROVE  AgentInv'
<1>1. FilesInv' /\ Kept /\ StartedAgentIsConsistent'
  BY FilesUntouched, StartedKept DEF AgentInv, Stays
<1>2. MixInv'
  BY MixKept DEF Stays
<1> QED  BY <1>1, <1>2, StepSuffices DEF Stays

\* What a file may be replaced by.
LEMMA Putting ==
  ASSUME AgentInv, NEW path \in Paths, NEW file, files' = Put(path, file), written \subseteq written',
         mixed \ {path} \subseteq mixed',
         file.kind \in {"file", "directory"}, file.mode \in Modes,
         file.content = Empty \/ IsBody(file.content),
         path \notin mixed' => file.content \in Contents(written'),
         file.kind = "directory" => file.content = Unreadable,
         path \in DOMAIN files => /\ file.kind = files[path].kind
                                  /\ Private(path) => file.mode = "private"
  PROVE  FilesInv' /\ Kept /\ path \in DOMAIN files' /\ files'[path] = file
<1>1. /\ DOMAIN files' = DOMAIN files \cup {path}
      /\ files'[path] = file
      /\ \A q \in DOMAIN files : q # path => files'[q] = files[q]
  BY DEF Put
<1>2. Contents(written) \subseteq Contents(written')
  BY ContentsGrow
<1>3. Kept
  BY <1>1 DEF Kept, Private
<1>4. DOMAIN files' \subseteq Paths
  BY <1>1 DEF AgentInv, FilesInv
<1>5. \A q \in DOMAIN files' :
        /\ files'[q].kind \in {"file", "directory"}
        /\ files'[q].mode \in Modes
        /\ files'[q].content = Empty \/ IsBody(files'[q].content)
        /\ q \notin mixed' => files'[q].content \in Contents(written')
        /\ files'[q].kind = "directory" => files'[q].content = Unreadable
  BY <1>1, <1>2 DEF AgentInv, FilesInv
<1>6. Contents(written)' = Contents(written')
  BY DEF Contents
<1> QED  BY <1>1, <1>3, <1>4, <1>5, <1>6 DEF FilesInv

-----------------------------------------------------------------------------
(* The invariant holds initially and every step preserves it.              *)

LEMMA AgentInvInitially == AfInit => AgentInv
<1> SUFFICES ASSUME AfInit  PROVE AgentInv
  OBVIOUS
<1>1. \A body \in written : IsBody(body)
  BY FilesAssumption DEF AfInit
<1>2. \A path \in DOMAIN files :
        files[path].content \in Contents(written) /\ IsBody(files[path].content)
  BY FilesAssumption DEF AfInit, Contents
<1>3. FilesInv
  BY <1>2, FilesAssumption DEF AfInit, FilesInv
<1>4. at = [p \in Processes |-> at[p]] /\ \A p \in Processes : at[p] = Idle
  BY DEF AfInit
<1>5. \A p \in Processes : StepInv(p)
  BY <1>4 DEF StepInv, At, Idle, Waiting
<1>6. StartedAgentIsConsistent
  BY DEF AfInit, StartedAgentIsConsistent
<1>7. MixInv
  BY <1>4 DEF MixInv, At, Idle
<1> QED  BY <1>1, <1>3, <1>4, <1>5, <1>6, <1>7 DEF AgentInv

\* What is known of the progress of a command, by its step.
LEMMA Progress ==
  ASSUME AgentInv, NEW p \in Processes
  PROVE  /\ at[p].step \in {"prepare", "check", "load"} => at[p] \in Starting
         /\ at[p].step \in {"prerequisites", "identity", "read"} => IsChecking(at[p])
         /\ at[p].step \in {"open", "write", "protect"} => at[p] \in Writing
<1>1. at[p] \in Waiting \cup Starting \cup Writing \/ IsChecking(at[p])
  BY DEF AgentInv, StepInv
<1> QED  BY <1>1 DEF Waiting, Starting, Writing, IsChecking

LEMMA RunPreserves ==
  ASSUME AgentInv, NEW p \in Processes, NEW command \in Commands, Run(p, command)
  PROVE  AgentInv'
<1> DEFINE progress == [step |-> IF command.does = "init" THEN "prepare" ELSE "check",
                        command |-> command]
<1>1. Goes(p, progress) /\ at'[p] = progress
  BY DEF Run, Goes, AgentInv
<1>2. StepInv(p)'
  BY <1>1 DEF StepInv, At, Starting
<1>3. FilesInv' /\ Kept /\ StartedAgentIsConsistent'
  BY FilesUntouched, StartedKept DEF AgentInv, Run
<1>4. MixInv'
  BY <1>1, MixKept DEF Run
<1> QED  BY <1>1, <1>2, <1>3, <1>4, StepSuffices DEF Run

\* The spool directory is no file a command has open.
LEMMA PreparePreserves ==
  ASSUME AgentInv, NEW p \in Processes, Prepare(p)
  PROVE  AgentInv'
<1> DEFINE config == at[p].command.config
           progress == [step |-> "open", command |-> at[p].command, path |-> ConfigPath, body |-> config]
<1>1. CASE Fail(p)
  BY <1>1, Failing DEF Fail
<1>2. CASE /\ ConfigShapeValid(config)
           /\ config.spool \in DOMAIN files => files[config.spool].kind = "directory"
           /\ files' = Put(config.spool, PrivateDirectory)
           /\ Writes(p, ConfigPath, config)
  <2>1. at[p].command \in Commands /\ at[p].command.does = "init"
    BY Progress DEF Prepare, AgentInv, StepInv, At, Starting
  <2>2. IsBody(config) /\ config # Unreadable
    BY <2>1, FilesAssumption DEF IsBody, IsConfig, Unreadable
  <2>3. config.spool \in Paths
    BY <1>2, FilesAssumption DEF ConfigShapeValid
  <2>4. FilesInv' /\ Kept
    BY <1>2, <2>3, Putting DEF PrivateDirectory, Writes, Modes, Contents, IsBody
  <2>5. at'[p] = progress
    BY <1>2 DEF Writes, Goes, AgentInv
  <2>6. at'[p] \in Writing'
    BY <1>2, <2>1, <2>5, FilesAssumption DEF Writing, Writes
  <2>7. StepInv(p)'
    BY <2>2, <2>5, <2>6 DEF StepInv, At
  <2>8. StartedAgentIsConsistent'
    BY <1>2, StartedKept DEF AgentInv, Writes
  <2>9. \A q \in Processes : At(q, "write") => files'[at[q].path].content = files[at[q].path].content
    BY <1>2 DEF AgentInv, StepInv, At, Put
  <2>10. MixInv'
    BY <1>2, <2>9, MixKept DEF Writes
  <2> QED  BY <1>2, <2>2, <2>4, <2>7, <2>8, <2>10, StepSuffices DEF Writes
<1> QED  BY <1>1, <1>2 DEF Prepare

LEMMA CheckConfigPreserves ==
  ASSUME AgentInv, NEW p \in Processes, CheckConfig(p)
  PROVE  AgentInv'
<1> DEFINE progress == [at[p] EXCEPT !.step = "load"]
<1>1. CASE Fail(p)
  BY <1>1, Failing DEF Fail
<1>2. CASE ConfigFileSafe /\ Goes(p, progress) /\ UNCHANGED files /\ Stays
  <2>1. at[p] \in Starting
    BY Progress DEF CheckConfig, At
  <2>2. at'[p] = progress /\ progress = [step |-> "load", command |-> at[p].command]
    BY <1>2, <2>1 DEF Goes, AgentInv, Starting
  <2>3. StepInv(p)'
    BY <1>2, <2>1, <2>2 DEF StepInv, At, Starting, ConfigFileSafe, IsFile
  <2> QED  BY <1>2, <2>2, <2>3, MovingOn
<1> QED  BY <1>1, <1>2 DEF CheckConfig

\* What is loaded as a configuration is one that was written, unless the file has several
\* authors.
LEMMA LoadConfigPreserves ==
  ASSUME AgentInv, NEW p \in Processes, LoadConfig(p)
  PROVE  AgentInv'
<1> DEFINE config == files[ConfigPath].content
           progress == [step |-> "prerequisites", command |-> at[p].command, config |-> config,
                        by |-> Author(ConfigPath)]
<1>1. CASE Fail(p)
  BY <1>1, Failing DEF Fail
<1>2. CASE ConfigLoads /\ Goes(p, progress) /\ UNCHANGED files /\ Stays
  <2>1. at[p].command \in Commands
    BY Progress DEF LoadConfig, At, Starting
  <2>2. Author(ConfigPath) = "one" => config \in written
    BY <1>2, ConfigIsWritten DEF ConfigLoads, AgentInv, FilesInv, StepInv, LoadConfig, Author
  <2>3. at'[p] = progress
    BY <1>2 DEF Goes, AgentInv
  <2>4. IsChecking(at'[p])
    BY <1>2, <2>1, <2>3 DEF IsChecking
  <2>5. StepInv(p)'
    BY <1>2, <2>2, <2>3, <2>4 DEF StepInv, At, ConfigLoads, Stays
  <2> QED  BY <1>2, <2>5, MovingOn
<1> QED  BY <1>1, <1>2 DEF LoadConfig

LEMMA CheckPrerequisitesPreserves ==
  ASSUME AgentInv, NEW p \in Processes, CheckPrerequisites(p)
  PROVE  AgentInv'
<1> DEFINE config == at[p].config
           command == at[p].command
           identity == IdentityFor(config, command)
           opening == [step |-> "open", command |-> command, path |-> config.identity, body |-> identity]
           going == [at[p] EXCEPT !.step = "identity"]
<1>1. IsChecking(at[p]) /\ config.form = "config" /\ ConfigShapeValid(config)
  BY Progress DEF CheckPrerequisites, AgentInv, StepInv, At
<1>2. CASE Ends(p) /\ UNCHANGED files /\ Stays
  BY <1>2, Failing
<1>3. CASE Writes(p, config.identity, identity) /\ UNCHANGED files
  <2>1. IsBody(identity) /\ identity # Unreadable
    BY DEF IdentityFor, IsBody, IsIdentity, Unreadable
  <2>2. config.identity \in Paths
    BY <1>1, FilesAssumption DEF ConfigShapeValid
  <2>3. FilesInv' /\ Kept /\ StartedAgentIsConsistent'
    BY <1>3, FilesUntouched, StartedKept DEF AgentInv, Writes
  <2>4. at'[p] = opening
    BY <1>3 DEF Writes, Goes, AgentInv
  <2>5. at'[p] \in Writing'
    BY <1>1, <1>3, <2>2, <2>4 DEF Writing, Writes, IsChecking
  <2>6. StepInv(p)'
    BY <2>1, <2>4, <2>5 DEF StepInv, At
  <2>7. MixInv'
    BY <1>3, MixKept DEF Writes
  <2> QED  BY <1>3, <2>1, <2>3, <2>6, <2>7, StepSuffices DEF Writes
<1>4. CASE config.os = DetectedSystem /\ Goes(p, going) /\ UNCHANGED files /\ Stays
  <2>1. /\ at'[p] = going
        /\ going = [step |-> "identity", command |-> command, config |-> config, by |-> at[p].by]
    BY <1>1, <1>4 DEF Goes, AgentInv, IsChecking
  <2>2. IsChecking(at'[p])
    BY <1>1, <2>1 DEF IsChecking
  <2>3. at[p].by = "one" => config \in written
    BY <1>1 DEF AgentInv, StepInv, IsChecking
  <2>4. StepInv(p)'
    BY <1>1, <1>4, <2>1, <2>2, <2>3 DEF StepInv, At, Stays
  <2> QED  BY <1>4, <2>1, <2>4, MovingOn
<1> QED  BY <1>2, <1>3, <1>4 DEF CheckPrerequisites

LEMMA CheckIdentityPreserves ==
  ASSUME AgentInv, NEW p \in Processes, CheckIdentity(p)
  PROVE  AgentInv'
<1> DEFINE config == at[p].config
           going == [at[p] EXCEPT !.step = "read"]
<1>1. /\ IsChecking(at[p]) /\ config.form = "config" /\ ConfigShapeValid(config)
      /\ config.os = DetectedSystem
      /\ at[p].by = "one" => config \in written
  BY Progress DEF CheckIdentity, AgentInv, StepInv, At
<1>2. CASE Fail(p)
  BY <1>2, Failing DEF Fail
<1>3. CASE /\ IdentityFileSafe(config)
           /\ Goes(p, going) /\ UNCHANGED files /\ Stays
  <2>1. /\ at'[p] = going
        /\ going = [step |-> "read", command |-> at[p].command, config |-> config, by |-> at[p].by]
    BY <1>1, <1>3 DEF Goes, AgentInv, IsChecking
  <2>2. IsChecking(at'[p])
    BY <1>1, <2>1 DEF IsChecking
  <2>3. config.identity \in DOMAIN files /\ files[config.identity].mode = "private"
    BY <1>3 DEF IdentityFileSafe, IsFile, Private
  <2>4. StepInv(p)'
    BY <1>1, <1>3, <2>1, <2>2, <2>3 DEF StepInv, At, Private, Stays
  <2> QED  BY <1>3, <2>1, <2>4, MovingOn
<1> QED  BY <1>2, <1>3 DEF CheckIdentity

\* The only step that starts an agent, on what it reads last and what was checked before.
LEMMA ReadIdentityPreserves ==
  ASSUME AgentInv, NEW p \in Processes, ReadIdentity(p)
  PROVE  AgentInv'
<1> DEFINE config == at[p].config
           identity == files[config.identity].content
           state == [config |-> config, configBy |-> at[p].by, identity |-> identity,
                     identityBy |-> Author(config.identity), mode |-> files[config.identity].mode]
<1>1. /\ at[p].by = "one" => config \in written
      /\ config.os = DetectedSystem
      /\ config.identity \in DOMAIN files /\ files[config.identity].mode = "private"
  BY DEF ReadIdentity, AgentInv, StepInv, At, Private
<1>2. FilesInv' /\ Kept
  BY FilesUntouched DEF AgentInv, ReadIdentity
<1>3. StepInv(p)'
  BY Ending DEF ReadIdentity
<1>4. MixInv'
  BY MixKept DEF ReadIdentity, Ends, Idle
<1>5. CASE UNCHANGED started
  <2>1. StartedAgentIsConsistent'
    BY <1>5, StartedKept DEF AgentInv, ReadIdentity
  <2> QED  BY <1>2, <1>3, <1>4, <2>1, StepSuffices DEF ReadIdentity, Ends
<1>6. CASE /\ started' = started \cup {state}
           /\ IdentityLoads(config) /\ Matches(config, identity)
  <2>1. /\ identity.form = "identity" /\ ExpiryValid(identity.enrolled, identity.expires)
        /\ config.identity \notin mixed => identity \in Contents(written)
    BY <1>1, <1>6 DEF IdentityLoads, IdentityShapeValid, AgentInv, FilesInv
  <2>2. state.identityBy = "one" =>
          \E body \in written :
            /\ body.form = "identity"
            /\ \A field \in {"node", "os", "fingerprint", "trust", "certificate", "key"} :
                 identity[field] = body[field]
            /\ identity = body \/ CutShort(identity, body)
    BY <2>1, IdentityIsWritten DEF Author
  <2>3. \A field \in {"node", "os", "trust", "certificate", "key"} : identity[field] = config[field]
    BY <1>6 DEF Matches
  <2> HIDE DEF identity, config
  <2>4. /\ state.mode = "private"
        /\ \A field \in {"node", "os", "trust", "certificate", "key"} :
             state.identity[field] = state.config[field]
        /\ state.config.os = DetectedSystem
        /\ ExpiryValid(state.identity.enrolled, state.identity.expires)
        /\ state.configBy = "one" => state.config \in written
        /\ state.identityBy = "one" => \E body \in written :
             /\ body.form = "identity"
             /\ \A field \in {"node", "os", "fingerprint", "trust", "certificate", "key"} :
                  state.identity[field] = body[field]
             /\ state.identity = body \/ CutShort(state.identity, body)
    BY <1>1, <2>1, <2>2, <2>3
  <2> HIDE DEF state
  <2>5. StartedAgentIsConsistent'
    BY <1>6, <2>4 DEF StartedAgentIsConsistent, ReadIdentity, AgentInv
  <2> QED  BY <1>2, <1>3, <1>4, <2>5, StepSuffices DEF ReadIdentity, Ends
<1> QED  BY <1>5, <1>6 DEF ReadIdentity

\* Opening empties the file; a file that was there keeps its mode.
LEMMA OpenPreserves ==
  ASSUME AgentInv, NEW p \in Processes, Open(p)
  PROVE  AgentInv'
<1> DEFINE path == at[p].path
<1>1. at[p] \in Writing /\ at[p].body # Unreadable
  BY Progress DEF Open, At, AgentInv, StepInv
<1>2. CASE Fail(p)
  BY <1>2, Failing DEF Fail
<1>3. ASSUME NEW mode \in Modes, Opens(p, mode),
             path \in DOMAIN files => IsFile(path) /\ mode = files[path].mode
      PROVE  AgentInv'
  <2>1. /\ mixed' = IF Shared(p) THEN mixed \cup {path} ELSE mixed \ {path}
        /\ UNCHANGED <<begun, written, started>>
    BY <1>3 DEF Opens, NotesMix
  <2>2. /\ FilesInv' /\ Kept /\ path \in DOMAIN files' /\ files'[path] = File(Empty, mode)
        /\ \A other \in DOMAIN files : other # path => files'[other] = files[other]
    <3> DEFINE file == File(Empty, mode)
    <3>1. path \in Paths /\ files' = Put(path, file)
      BY <1>1, <1>3 DEF Opens, Writing
    <3>2. file.kind = "file" /\ file.mode = mode /\ file.content = Empty
      BY DEF File
    <3>3. written \subseteq written' /\ mixed \ {path} \subseteq mixed' /\ Empty \in Contents(written')
      BY <2>1 DEF Contents
    <3>4. path \in DOMAIN files => "file" = files[path].kind /\ (Private(path) => mode = "private")
      BY <1>3 DEF IsFile, Private
    <3>5. \A other \in DOMAIN files : other # path => files'[other] = files[other]
      BY <3>1 DEF Put
    <3> HIDE DEF file, path
    <3>6. FilesInv' /\ Kept /\ path \in DOMAIN files' /\ files'[path] = file
      BY <3>1, <3>2, <3>3, <3>4, Putting
    <3> QED  BY <3>5, <3>6 DEF file
  <2>3. at'[p] = [step |-> "write", command |-> at[p].command, path |-> path, body |-> at[p].body]
    BY <1>1, <1>3 DEF Opens, Goes, AgentInv, Writing
  <2>4. at'[p] \in Writing'
    BY <1>1, <2>1, <2>3 DEF Writing
  <2>5. StepInv(p)'
    BY <1>1, <2>2, <2>3, <2>4 DEF StepInv, At, File
  <2>6. StartedAgentIsConsistent'
    BY <2>1, StartedKept DEF AgentInv
  <2>7. MixInv'
    <3> SUFFICES ASSUME NEW q \in Processes, At(q, "write")', at'[q].path \notin mixed'
                 PROVE  /\ files'[at'[q].path].content = Empty
                        /\ \A r \in Processes : r # q => ~ (At(r, "write")' /\ at'[r].path = at'[q].path)
      BY DEF MixInv, At
    <3>1. \A r \in Processes : r # p => at'[r] = at[r]
      BY <1>3 DEF Opens, Goes, AgentInv
    <3>2. CASE at'[q].path = path
      <4>1. ~ Shared(p)
        BY <2>1, <3>2
      <4>2. q = p
        BY <3>1, <3>2, <4>1 DEF Shared, At
      <4> QED  BY <2>2, <3>1, <3>2, <4>1, <4>2 DEF Shared, At, File
    <3>3. CASE at'[q].path # path
      <4>1. q # p /\ at'[q] = at[q] /\ At(q, "write") /\ at[q].path \notin mixed
        BY <2>1, <2>3, <3>1, <3>3 DEF At
      <4>2. at[q].path \in DOMAIN files /\ files[at[q].path].content = Empty
        BY <4>1 DEF AgentInv, StepInv, MixInv, At
      <4>3. files'[at'[q].path].content = Empty
        BY <2>2, <3>3, <4>1, <4>2
      <4>4. ASSUME NEW r \in Processes, r # q, At(r, "write")', at'[r].path = at'[q].path  PROVE FALSE
        <5>1. r # p /\ at'[r] = at[r]
          BY <2>3, <3>1, <3>3, <4>4
        <5> QED  BY <4>1, <4>4, <5>1 DEF AgentInv, MixInv, At
      <4> QED  BY <4>3, <4>4
    <3> QED  BY <3>2, <3>3
  <2> QED  BY <1>3, <2>1, <2>2, <2>5, <2>6, <2>7, StepSuffices DEF Opens
<1>4. path \in DOMAIN files => files[path].mode \in Modes
  BY DEF AgentInv, FilesInv
<1> QED  BY <1>2, <1>3, <1>4 DEF Open, Modes, IsFile

\* A command that writes disturbs no other that has a file to itself.
LEMMA WritePreserves ==
  ASSUME AgentInv, NEW p \in Processes, Write(p)
  PROVE  AgentInv'
<1> DEFINE path == at[p].path
           body == at[p].body
           old == files[path].content
           progress == [at[p] EXCEPT !.step = "protect"]
<1>1. at[p] \in Writing /\ At(p, "write") /\ path \in DOMAIN files /\ files[path].kind = "file"
  BY Progress DEF Write, AgentInv, StepInv, At
<1>2. path \in Paths /\ body \in written /\ files[path].mode \in Modes /\ (old = Empty \/ IsBody(old))
  BY <1>1 DEF Writing, AgentInv, FilesInv
<1>3. path \notin mixed => old = Empty
  BY <1>1 DEF AgentInv, MixInv
<1>4. body # Unreadable
  BY <1>1 DEF AgentInv, StepInv, At
<1>5. PICK content \in Overwritten(old, body) \cup Torn(old, body) :
        /\ files' = Put(path, File(content, files[path].mode))
        /\ Stays
        /\ Goes(p, progress) \/ Ends(p)
  BY DEF Write
<1>6. IsBody(content) /\ (path \notin mixed => content \in Contents(written))
  BY <1>2, <1>3, <1>4, <1>5, WriteLeaves
<1>7. FilesInv' /\ Kept /\ path \in DOMAIN files' /\ files'[path] = File(content, files[path].mode)
  BY <1>1, <1>2, <1>5, <1>6, Putting DEF Stays, File, Private
<1>8. StartedAgentIsConsistent'
  BY <1>5, StartedKept DEF AgentInv, Stays
<1>9. \A q \in Processes \ {p} : At(q, "write") /\ at[q].path \notin mixed =>
        files'[at[q].path].content = files[at[q].path].content
  BY <1>1, <1>5 DEF AgentInv, StepInv, MixInv, At, Put
<1>10. CASE Goes(p, progress)
  <2>1. /\ at'[p] = progress
        /\ progress = [step |-> "protect", command |-> at[p].command, path |-> path, body |-> body]
    BY <1>1, <1>10 DEF Goes, AgentInv, Writing
  <2>2. at'[p] \in Writing'
    BY <1>1, <1>5, <2>1 DEF Writing, Stays
  <2>3. StepInv(p)'
    BY <1>4, <1>7, <2>1, <2>2 DEF StepInv, At, File
  <2>4. MixInv'
    BY <1>5, <1>9, <1>10, <2>1, MixKept DEF Stays
  <2> QED  BY <1>5, <1>7, <1>8, <1>10, <2>3, <2>4, StepSuffices DEF Stays
<1>11. CASE Ends(p)
  <2>1. StepInv(p)'
    BY <1>11, Ending
  <2>2. MixInv'
    BY <1>5, <1>9, <1>11, MixKept DEF Stays, Ends, Idle
  <2> QED  BY <1>5, <1>7, <1>8, <1>11, <2>1, <2>2, StepSuffices DEF Ends, Stays
<1> QED  BY <1>5, <1>10, <1>11

LEMMA ProtectPreserves ==
  ASSUME AgentInv, NEW p \in Processes, Protect(p)
  PROVE  AgentInv'
<1> DEFINE path == at[p].path
           file == File(files[path].content, "private")
<1>1. at[p] \in Writing /\ path \in DOMAIN files /\ files[path].kind = "file"
  BY Progress DEF Protect, AgentInv, StepInv, At
<1>2. /\ path \in Paths /\ (files[path].content = Empty \/ IsBody(files[path].content))
      /\ path \notin mixed => files[path].content \in Contents(written)
  BY <1>1 DEF Writing, AgentInv, FilesInv
<1>3. files' = Put(path, file) /\ Ends(p) /\ Stays
  BY DEF Protect
<1>4. FilesInv' /\ Kept
  BY <1>1, <1>2, <1>3, Putting DEF Stays, File, Private, Modes
<1>5. StepInv(p)' /\ StartedAgentIsConsistent'
  BY <1>3, Ending, StartedKept DEF AgentInv, Stays
<1>6. \A q \in Processes : At(q, "write") => files'[at[q].path].content = files[at[q].path].content
  BY <1>3 DEF AgentInv, StepInv, At, Put, File
<1>7. MixInv'
  BY <1>3, <1>6, MixKept DEF Stays, Ends, Idle
<1> QED  BY <1>3, <1>4, <1>5, <1>7, StepSuffices DEF Ends, Stays

-----------------------------------------------------------------------------
(* The theorems.                                                           *)

LEMMA NextPreserves == AgentInv /\ [AfNext]_afVars => AgentInv'
<1> SUFFICES ASSUME AgentInv, [AfNext]_afVars  PROVE AgentInv'
  OBVIOUS
<1>1. CASE UNCHANGED afVars
  <2>1. UNCHANGED <<files, at, written, mixed, started>>
    BY <1>1 DEF afVars
  <2>2. FilesInv' /\ StartedAgentIsConsistent' /\ Kept
    BY <2>1, FilesUntouched, StartedKept DEF AgentInv
  <2>3. \A q \in Processes : StepInv(q)'
    BY <2>1, <2>2, OthersKeep DEF AgentInv
  <2>4. MixInv'
    BY <2>1 DEF AgentInv, MixInv, At
  <2> QED  BY <2>1, <2>2, <2>3, <2>4 DEF AgentInv
<1>2. CASE AfNext
  <2>1. PICK p \in Processes :
          \/ \E command \in Commands : Run(p, command)
          \/ Kill(p)
          \/ Prepare(p) \/ CheckConfig(p) \/ LoadConfig(p) \/ CheckPrerequisites(p)
          \/ CheckIdentity(p) \/ ReadIdentity(p)
          \/ Open(p) \/ Write(p) \/ Protect(p)
    BY <1>2 DEF AfNext
  <2>2. Kill(p) => AgentInv'
    BY Failing DEF Kill
  <2> QED
    BY <2>1, <2>2, RunPreserves, PreparePreserves, CheckConfigPreserves, LoadConfigPreserves,
       CheckPrerequisitesPreserves, CheckIdentityPreserves, ReadIdentityPreserves, OpenPreserves,
       WritePreserves, ProtectPreserves
<1> QED  BY <1>1, <1>2

\* The files, what is written into them and how far the commands are have their types;
\* the invariant that says so also says what the checks of a command established.
THEOREM AgentFilesTypeSafe == AfSpec => []AgentFilesTypeOK
<1>1. AgentInv => AgentFilesTypeOK
  <2> SUFFICES ASSUME AgentInv  PROVE AgentFilesTypeOK
    OBVIOUS
  <2>1. \A p \in Processes : at[p].step \in {"write", "protect"} =>
          at[p].path \in DOMAIN files /\ files[at[p].path].kind = "file" /\ at[p].body \in written
    BY Progress DEF AgentInv, StepInv, Writing
  <2> QED  BY <2>1 DEF AgentInv, FilesInv, AgentFilesTypeOK
<1> QED  BY AgentInvInitially, NextPreserves, <1>1, PTL DEF AfSpec

\* However many commands create, replace and cut short the files of an agent, one that
\* starts has the identity of its own configuration, which nobody else could read.
THEOREM StartedAgentsAreConsistent == AfSpec => []StartedAgentIsConsistent
<1>1. AgentInv => StartedAgentIsConsistent
  BY DEF AgentInv
<1> QED  BY AgentInvInitially, NextPreserves, <1>1, PTL DEF AfSpec

\* No file of an agent disappears, and none that only its owner can read is opened to
\* others: no command of any process does (write_yaml_restrictive opens an existing file
\* with the mode it has and only ever restricts it).
THEOREM PrivateFilesStayPrivate ==
  AfSpec => [][\A path \in DOMAIN files :
                 /\ path \in DOMAIN files'
                 /\ files[path].mode = "private" => files'[path].mode = "private"]_afVars
<1>1. AgentInv /\ [AfNext]_afVars =>
        [\A path \in DOMAIN files :
           /\ path \in DOMAIN files'
           /\ files[path].mode = "private" => files'[path].mode = "private"]_afVars
  <2> SUFFICES ASSUME AgentInv, AfNext, NEW path \in DOMAIN files
               PROVE  /\ path \in DOMAIN files'
                      /\ files[path].mode = "private" => files'[path].mode = "private"
    BY DEF afVars
  <2>1. PICK p \in Processes :
          \/ \E command \in Commands : Run(p, command)
          \/ Kill(p)
          \/ Prepare(p) \/ CheckConfig(p) \/ LoadConfig(p) \/ CheckPrerequisites(p)
          \/ CheckIdentity(p) \/ ReadIdentity(p)
          \/ Open(p) \/ Write(p) \/ Protect(p)
    BY DEF AfNext
  <2>2. CASE UNCHANGED files
    BY <2>2
  <2>3. CASE Prepare(p)
    BY <2>3 DEF Prepare, Fail, Put, PrivateDirectory
  <2>4. CASE Open(p)
    BY <2>4 DEF Open, Opens, Fail, Put, File
  <2>5. CASE Write(p)
    BY <2>5 DEF Write, Put, File
  <2>6. CASE Protect(p)
    BY <2>6 DEF Protect, Put, File
  <2> QED
    BY <2>1, <2>2, <2>3, <2>4, <2>5, <2>6
       DEF Run, Kill, CheckConfig, LoadConfig, CheckPrerequisites, CheckIdentity, ReadIdentity, Fail, Writes
<1> QED  BY AgentInvInitially, NextPreserves, <1>1, PTL DEF AfSpec

-----------------------------------------------------------------------------
(* Commands that are not forced.                                           *)

\* Every file keeps its kind, its content, and its mode or is closed to others.
Unharmed ==
  /\ DOMAIN files \subseteq DOMAIN files'
  /\ \A path \in DOMAIN files :
       /\ files'[path].kind = files[path].kind
       /\ files'[path].content = files[path].content
       /\ files'[path].mode \in {files[path].mode, "private"}

\* An agent that could start with the files as they were can with them unharmed.
LEMMA UnharmedStarts ==
  ASSUME Startable, Unharmed
  PROVE  Startable'
<1> DEFINE config == files[ConfigPath].content
<1>1. /\ ConfigPath \in DOMAIN files /\ files[ConfigPath].kind = "file"
      /\ files[ConfigPath].mode # "writable"
      /\ config.form = "config" /\ ConfigShapeValid(config)
      /\ PrerequisitesHold(config) /\ config.os = DetectedSystem
      /\ IdentityFileSafe(config) /\ IdentityLoads(config)
      /\ Matches(config, files[config.identity].content)
  BY DEF Startable, ConfigFileSafe, ConfigLoads, IsFile, NotWritable
<1>2. ConfigFileSafe' /\ files'[ConfigPath].content = config
  BY <1>1 DEF Unharmed, ConfigFileSafe, IsFile, NotWritable
<1> HIDE DEF config
<1>3. \A path : IsFile(path) => path \in DOMAIN files' /\ files'[path].kind = "file"
  BY DEF Unharmed, IsFile
<1>4. \A path \in DOMAIN files : NotWritable(path) => files'[path].mode # "writable"
  BY DEF Unharmed, NotWritable
<1>5. \A path \in DOMAIN files : Private(path) => files'[path].mode = "private"
  BY DEF Unharmed, Private
<1>6. /\ config.trust \in DOMAIN files' /\ files'[config.trust].kind = "file"
      /\ files'[config.trust].mode # "writable"
      /\ config.certificate \in DOMAIN files' /\ files'[config.certificate].kind = "file"
      /\ files'[config.certificate].mode # "writable"
      /\ config.key \in DOMAIN files' /\ files'[config.key].kind = "file"
      /\ files'[config.key].mode = "private"
  BY <1>1, <1>3, <1>4, <1>5 DEF PrerequisitesHold, IsFile
<1>7. /\ config.spool \in DOMAIN files' /\ files'[config.spool].kind = "directory"
      /\ files'[config.spool].mode # "writable"
  BY <1>1, <1>4 DEF PrerequisitesHold, Unharmed
<1>8. /\ config.identity \in DOMAIN files' /\ files'[config.identity].kind = "file"
      /\ files'[config.identity].mode = "private"
      /\ files'[config.identity].content = files[config.identity].content
  BY <1>1, <1>3, <1>5 DEF IdentityFileSafe, IsFile, Unharmed
<1>9. /\ PrerequisitesHold(config)' /\ IdentityFileSafe(config)' /\ IdentityLoads(config)'
      /\ ConfigLoads'
  BY <1>1, <1>2, <1>6, <1>7, <1>8
  DEF PrerequisitesHold, IdentityFileSafe, IdentityLoads, ConfigLoads, IsFile, NotWritable, Private, config
<1> QED  BY <1>1, <1>2, <1>8, <1>9 DEF Startable, config

\* Preparing and protecting harm nothing, and neither does what opens or writes no file
\* that is there.
LEMMA UnforcedSteps ==
  ASSUME AgentInv, NEW p \in Processes,
         \/ \E command \in Commands : Run(p, command)
         \/ Kill(p)
         \/ Prepare(p) \/ CheckConfig(p) \/ LoadConfig(p) \/ CheckPrerequisites(p)
         \/ CheckIdentity(p) \/ ReadIdentity(p)
         \/ Open(p) /\ at[p].path \notin DOMAIN files
         \/ Open(p) /\ UNCHANGED files
         \/ Protect(p)
  PROVE  Unharmed
<1>0. \A path \in DOMAIN files :
        /\ files[path].mode \in Modes
        /\ files[path].kind = "directory" => files[path].content = Unreadable
  BY DEF AgentInv, FilesInv
<1>1. CASE UNCHANGED files
  BY <1>1 DEF Unharmed
<1>2. CASE Prepare(p) /\ ~ UNCHANGED files
  <2> DEFINE spool == at[p].command.config.spool
  <2>1. /\ files' = Put(spool, PrivateDirectory)
        /\ spool \in DOMAIN files => files[spool].kind = "directory"
    BY <1>2 DEF Prepare, Fail
  <2> HIDE DEF spool
  <2> QED  BY <1>0, <2>1 DEF Put, PrivateDirectory, Unharmed
<1>3. CASE Open(p) /\ at[p].path \notin DOMAIN files
  BY <1>3 DEF Open, Opens, Fail, Put, IsFile, Unharmed
<1>4. CASE Protect(p)
  <2>1. at[p].path \in DOMAIN files /\ files[at[p].path].kind = "file"
    BY <1>4 DEF Protect, AgentInv, StepInv, At
  <2>2. files' = Put(at[p].path, File(files[at[p].path].content, "private"))
    BY <1>4 DEF Protect
  <2> QED  BY <2>1, <2>2 DEF Put, File, Unharmed
<1> QED  BY <1>1, <1>2, <1>3, <1>4
  DEF Run, Kill, CheckConfig, LoadConfig, CheckPrerequisites, CheckIdentity, ReadIdentity, Fail, Writes

\* A command without --force changes no file that is there but the one it created, and
\* keeps no agent from starting.
THEOREM UnforcedCommandsHarmNothing == AfSpec => UnforcedIsHarmless
<1> DEFINE Harmless ==
      /\ \A path \in DOMAIN files : files'[path].content # files[path].content =>
           \E p \in Processes :
             /\ at[p].step \in {"open", "write"} /\ at[p].path = path
             /\ at[p].command.force \/ At(p, "write")
      /\ Startable /\ (\A p \in Processes : ~ At(p, "write") /\ (At(p, "open") => ~ at[p].command.force))
           => Startable'
<1>1. ASSUME AgentInv, AfNext PROVE Harmless
  <2>1. PICK p \in Processes :
          \/ \E command \in Commands : Run(p, command)
          \/ Kill(p)
          \/ Prepare(p) \/ CheckConfig(p) \/ LoadConfig(p) \/ CheckPrerequisites(p)
          \/ CheckIdentity(p) \/ ReadIdentity(p)
          \/ Open(p) \/ Write(p) \/ Protect(p)
    BY <1>1 DEF AfNext
  <2>2. CASE Unharmed
    <3>1. \A path \in DOMAIN files : files'[path].content = files[path].content
      BY <2>2 DEF Unharmed
    <3>2. Startable => Startable'
      BY <2>2, UnharmedStarts
    <3> QED  BY <3>1, <3>2
  <2>3. CASE Open(p) /\ at[p].path \in DOMAIN files /\ ~ UNCHANGED files
    <3>1. At(p, "open") /\ at[p].command.force
      BY <2>3 DEF Open, Fail
    <3>2. \A path \in DOMAIN files : path # at[p].path => files'[path] = files[path]
      BY <2>3 DEF Open, Opens, Fail, Put
    <3> QED  BY <3>1, <3>2 DEF At
  <2>4. CASE Write(p)
    <3>1. At(p, "write")
      BY <2>4 DEF Write
    <3>2. \A path \in DOMAIN files : path # at[p].path => files'[path] = files[path]
      BY <2>4 DEF Write, Put
    <3> QED  BY <3>1, <3>2 DEF At
  <2> QED  BY <1>1, <2>1, <2>2, <2>3, <2>4, UnforcedSteps
<1>2. AgentInv /\ [AfNext]_afVars => [Harmless]_afVars
  BY <1>1
<1> QED  BY <1>2, AgentInvInitially, NextPreserves, PTL DEF AfSpec, UnforcedIsHarmless

===============================================================================

--------------------------------- MODULE Fleet ---------------------------------
(***************************************************************************)
(* Loading a fleet repository (src/crates/runlane-core/src/fleet.rs) and   *)
(* resolving its overlays (resolve_fleet_overlays in lib.rs): pure         *)
(* functions from the documents to an error or to desired intent.          *)
(*                                                                         *)
(* A repository gives for each directory the sequence of its YAML          *)
(* documents in path order; a missing directory has none.  A document has  *)
(* the set of its key paths ("keys"), the fields its parser looks at, with *)
(* their defaults where it leaves them out, and a "form": Broken if it is  *)
(* no YAML.  A key path is a sequence of keys, list positions left out; a  *)
(* key that is no string is "?".  Text, labels, host names and sections    *)
(* nobody reads are left out.  A resource is a record of Planning, of      *)
(* layer "none" if its prefix is none of the three.                        *)
(***************************************************************************)
EXTENDS Integers, Lookup

Directories == <<"inventory", "roles", "runbooks", "policies", "allowlists", "overlays">>

FleetLayers == {"system", "platform", "application"}
FleetSystems == {"linux", "freebsd", "openbsd"}
FleetActions == {"service.restart", "service.reload", "file.remove_from_allowlist", "collect.more_logs"}
KnownCapabilities ==
  {"os.linux", "os.freebsd", "os.openbsd", "service.systemd", "service.freebsd-rc",
   "service.openbsd-rcctl", "logs.journald", "logs.syslog-file", "process.procfs",
   "process.procstat", "process.ps", "socket.ss", "socket.sockstat", "socket.fstat",
   "storage.df", "storage.zfs", "package.freebsd-pkg", "package.openbsd-pkg-info",
   "firewall.pf", "privilege.sudo-helper", "privilege.doas-helper"}

\* What a document's layer and system names are read as.
ParseLayer == [system |-> "System", platform |-> "Platform", application |-> "Application"]
ParseOs == [linux |-> "Linux", freebsd |-> "FreeBsd", openbsd |-> "OpenBsd"]

-----------------------------------------------------------------------------
(* One document.                                                           *)

RuntimeKeys ==
  {"evidence", "approvals", "helper_output", "audit_events", "audit", "cognitive_receipts",
   "receipt", "results", "runtime"}

\* The search does not look below a key that is no string.
HasRuntimeKey(paths) ==
  \E path \in paths : \E i \in DOMAIN path :
    path[i] \in RuntimeKeys /\ \A j \in 1..(i - 1) : path[j] # "?"

\* The fields each directory's documents must have; those of OptionalFields have defaults
\* and no document may have any other.
RequiredFields ==
  [inventory |-> {"id", "os", "primary", "capabilities", "policy"},
   roles |-> {"id", "primary", "runbooks", "policy", "allowlists"},
   runbooks |-> {"name", "layer", "resources", "mode"},
   policies |-> {"id", "signedLease", "rejectReplay"},
   allowlists |-> {"id", "action", "target"},
   overlays |-> {"tier"}]
OptionalFields ==
  [inventory |-> {"supports"}, roles |-> {}, runbooks |-> {"collect", "actions"}, policies |-> {},
   allowlists |-> {}, overlays |-> {"name", "settings"}]

HasShape(directory, doc) ==
  /\ RequiredFields[directory] \subseteq DOMAIN doc
  /\ DOMAIN doc \subseteq RequiredFields[directory] \cup OptionalFields[directory] \cup {"form", "keys"}

ResourcesValid(resources) == \A r \in resources : r.layer # "none"
CapabilitiesKnown(capabilities) == capabilities \subseteq KnownCapabilities
ActionsKnown(actions) == actions \subseteq FleetActions

InventoryValid(doc) ==
  /\ doc.primary \in FleetLayers
  /\ doc.supports \subseteq FleetLayers
  /\ doc.primary \in doc.supports
  /\ CapabilitiesKnown(doc.capabilities)
  /\ doc.os \in FleetSystems

RoleValid(doc) == doc.primary \in FleetLayers

RunbookValid(doc) ==
  /\ \A step \in doc.collect : step.id # ""
  /\ CapabilitiesKnown(UNION {step.capabilities : step \in doc.collect})
  /\ ResourcesValid(doc.resources)
  /\ doc.mode = "structured_proposal"
  /\ ActionsKnown(doc.actions)
  /\ doc.layer \in FleetLayers

AllowlistValid(doc) == ActionsKnown({doc.action}) /\ ResourcesValid({doc.target})

OverlayValid(doc) ==
  \/ doc.tier = "global"
  \/ doc.tier = "os" /\ doc.name \in FleetSystems
  \/ doc.tier = "layer" /\ doc.name \in FleetLayers
  \/ doc.tier \in {"role", "environment", "node"} /\ doc.name # ""

DocumentValid(directory, doc) ==
  CASE directory = "inventory" -> InventoryValid(doc)
    [] directory = "roles" -> RoleValid(doc)
    [] directory = "runbooks" -> RunbookValid(doc)
    [] directory = "policies" -> TRUE
    [] directory = "allowlists" -> AllowlistValid(doc)
    [] directory = "overlays" -> OverlayValid(doc)

\* load_documents, for one file: the runtime keys are looked for before the shape.
DocumentError(directory, doc) ==
  CASE doc.form = "Broken" -> "Yaml"
    [] doc.form # "Broken" /\ HasRuntimeKey(doc.keys) -> "Invalid"
    [] doc.form # "Broken" /\ ~ HasRuntimeKey(doc.keys) /\ ~ HasShape(directory, doc) -> "Yaml"
    [] OTHER -> IF DocumentValid(directory, doc) THEN "None" ELSE "Invalid"

-----------------------------------------------------------------------------
(* The repository.                                                         *)

Field(docs, name) == {docs[i][name] : i \in DOMAIN docs}

\* Only roles and nodes are checked for what they refer to.
RepositoryValid(repository) ==
  LET policies == Field(repository.policies, "id")
  IN  /\ repository.inventory # <<>>
      /\ \A role \in ToSet(repository.roles) :
           /\ role.runbooks \subseteq Field(repository.runbooks, "name")
           /\ role.policy \in policies
           /\ role.allowlists \subseteq Field(repository.allowlists, "id")
      /\ Field(repository.inventory, "policy") \subseteq policies

\* The error of the first document that has one, directory by directory, or "None".
FirstDocumentError(repository) ==
  LET errors == [d \in DOMAIN Directories |->
                   [i \in DOMAIN repository[Directories[d]] |->
                      DocumentError(Directories[d], repository[Directories[d]][i])]]
      faulty == {d \in DOMAIN errors : \E i \in DOMAIN errors[d] : errors[d][i] # "None"}
      first == errors[Min(faulty)]
  IN  IF faulty = {} THEN "None" ELSE first[Min({i \in DOMAIN first : first[i] # "None"})]

LoadError(repository) ==
  IF FirstDocumentError(repository) # "None" THEN FirstDocumentError(repository)
  ELSE IF RepositoryValid(repository) THEN "None" ELSE "Validation"

-----------------------------------------------------------------------------
(* Overlays.                                                               *)

OverlayTiers == <<"global", "os", "layer", "role", "environment", "node">>

Rank(tier) == (CHOOSE i \in DOMAIN OverlayTiers : OverlayTiers[i] = tier) - 1

\* Mutant: the fragments are applied in path order.
ByRankUnsorted(overlays) == overlays

\* The stable sort: fragments of one rank stay in path order.
ByRank(overlays) ==
  LET upTo[i \in 0..Len(OverlayTiers)] ==
        IF i = 0 THEN <<>> ELSE upTo[i - 1] \o AllWith(overlays, "tier", OverlayTiers[i])
  IN  upTo[Len(OverlayTiers)]

\* BTreeMap::insert, for each of the settings.
Over(settings, resolved) ==
  [key \in DOMAIN settings \cup DOMAIN resolved |->
     IF key \in DOMAIN settings THEN settings[key] ELSE resolved[key]]

\* Each fragment's settings are inserted over what is there, whatever the fragment is for.
ResolveOverlays(overlays) ==
  LET fragments == ByRank(overlays)
      upTo[n \in 0..Len(fragments)] ==
        IF n = 0 THEN <<>> ELSE Over(fragments[n].settings, upTo[n - 1])
  IN  upTo[Len(fragments)]

\* FleetSyncSummary: how many of each, the resolved settings counted by key.
Summary(repository) ==
  [directories |-> [directory \in ToSet(Directories) |-> Len(repository[directory])],
   resolved |-> DOMAIN ResolveOverlays(repository.overlays)]

===============================================================================

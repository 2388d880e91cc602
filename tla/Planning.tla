------------------------------- MODULE Planning --------------------------------
(***************************************************************************)
(* The runbook planners and the impact-scoped verification planner of      *)
(* src/crates/runlane-core/src/lib.rs: pure functions from a request, the  *)
(* capability report of a node and the impact of an action.                *)
(*                                                                         *)
(* A resource id ("system:node/n/service/web") is the record of its parts; *)
(* a name is the sequence of its "-"-separated words, a mount the sequence *)
(* of its path segments, so that what is joined can also collide.  Reasons *)
(* and goals are left out, and so is the list of conditional checks, which *)
(* every plan leaves empty.                                                *)
(***************************************************************************)
EXTENDS Naturals, Sequences, SequencesExt

CONSTANT IdContains(_, _)
  \* IdContains(r, text): the node id or the name in the id of r, with the slashes about
  \* them, contains the text

OperatingSystems == {"Linux", "FreeBsd", "OpenBsd", "Solaris", "Illumos", "Unknown"}
PlannedSystems == {"Linux", "FreeBsd", "OpenBsd"}
ActionKinds ==
  {"ServiceRestart", "ServiceReload", "PackageUpdate", "NodeReboot",
   "RunAllowlistedScript", "RemoveAllowlistedFile"}
Tiers == {"Precondition", "DirectImpact", "Dependent", "BroadRegression"}

-----------------------------------------------------------------------------
(* Resources and impact.                                                   *)

Resource(layer, node, part, name) == [layer |-> layer, node |-> node, part |-> part, name |-> name]
OnNode(node, part) == Resource("System", node, part, <<>>)
ServiceResource(node, service) == Resource("System", node, "service", service)

MountFragment(mount) == IF mount = <<>> THEN <<"root">> ELSE FlattenSeq(mount)

\* The substrings the planner looks for in a whole resource id.
MentionsPackageDb(r) == r.part = "package-db" \/ IdContains(r, "package-db")
MentionsReboot(r) == r.part = "reboot" \/ IdContains(r, "/reboot")
MentionsService(r) == r.part = "service" \/ IdContains(r, "/service/")

ImpactSet(layer, writes, mayAffect, doesNotAffect) ==
  [layer |-> layer, writes |-> writes, mayAffect |-> mayAffect, doesNotAffect |-> doesNotAffect]

\* first() and iter().find(), with a default.
HeadOr(q, default) == IF q = <<>> THEN default ELSE Head(q)
FirstOr(q, Test(_), default) ==
  LET k == SelectInSeq(q, Test) IN IF k = 0 THEN default ELSE q[k]

\* Mutant: what may be affected counts first.
PrimaryOrAffected(impact) == (impact.mayAffect \o impact.writes)[1]

PrimaryResource(impact) == HeadOr(impact.writes, Resource(impact.layer, "unknown", "unknown", <<>>))
DependentResource(impact) == HeadOr(impact.mayAffect, PrimaryResource(impact))
PackageResource(impact) ==
  FirstOr(impact.writes \o impact.mayAffect, MentionsPackageDb, PrimaryResource(impact))
RebootResource(impact, default) ==
  FirstOr(impact.writes \o impact.mayAffect, MentionsReboot, default)
AffectsService(impact) == \E i \in DOMAIN impact.mayAffect : MentionsService(impact.mayAffect[i])
AffectedService(impact) == FirstOr(impact.mayAffect, MentionsService, PrimaryResource(impact))

-----------------------------------------------------------------------------
(* Verification.  A policy is the set of its toggles that are on.          *)

Check(id, resource, tier) == [id |-> id, resource |-> resource, tier |-> tier]
VerificationPlan(required, skipped) == [required |-> required, skipped |-> skipped]

Conservative == {"dependent_app_canary", "package_audit"}
Minimal == {}

OnlyIf(condition, item) == IF condition THEN <<item>> ELSE <<>>

GenericServiceChange(action, impact) ==
  LET primary == PrimaryResource(impact)
  IN  <<Check("helper_result_matches_request", primary, "DirectImpact"),
        Check(IF action = "ServiceReload" THEN "service_reloaded" ELSE "service_active",
              primary, "DirectImpact")>>

PlatformReload(impact, policy) ==
  VerificationPlan(
    <<Check("config_syntax_valid", PrimaryResource(impact), "Precondition"),
      Check("platform_accepts_connections", PrimaryResource(impact), "DirectImpact")>>
    \o OnlyIf("dependent_app_canary" \in policy,
              Check("dependent_app_canary", DependentResource(impact), "Dependent")),
    <<"full_package_audit">>)

SystemPackageUpdate(impact, policy) ==
  LET package == PackageResource(impact)
      health == "service_health_for_affected_services"
  IN  VerificationPlan(
        <<Check("package_db_consistent", package, "DirectImpact"),
          Check("package_state_matches_policy", package, "DirectImpact"),
          Check("changed_files_classified", package, "DirectImpact"),
          Check("affected_services_identified", package, "Dependent"),
          Check("reboot_required_detected", RebootResource(impact, package), "Dependent")>>
        \o OnlyIf(AffectsService(impact), Check(health, AffectedService(impact), "Dependent"))
        \o OnlyIf("package_audit" \in policy, Check("package_audit", package, "BroadRegression")),
        <<"full_disk_scan">> \o OnlyIf(~ AffectsService(impact), health))

SystemReboot(impact) ==
  LET reboot == RebootResource(impact, PrimaryResource(impact))
  IN  VerificationPlan(
        <<Check("drain_completed", reboot, "Precondition"),
          Check("reboot_completed", reboot, "DirectImpact"),
          Check("node_health_after_reboot", reboot, "DirectImpact"),
          Check("affected_services_healthy_after_reboot", DependentResource(impact), "Dependent")>>,
        <<"package_audit">>)

AllowlistedFileCleanup(impact) ==
  LET cleaned == PrimaryResource(impact)
  IN  VerificationPlan(
        <<Check("helper_result_matches_request", cleaned, "DirectImpact"),
          Check("free_space_improved", DependentResource(impact), "DirectImpact"),
          Check("cleaned_paths_match_allowlist", cleaned, "DirectImpact"),
          Check("no_unrelated_deletion_reported", cleaned, "DirectImpact")>>,
        <<>>)

WritesPackageDb(impact) == \E i \in DOMAIN impact.writes : MentionsPackageDb(impact.writes[i])

\* The arms of VerificationPlanner::plan, tried in this order.
PlanVerification(action, impact, policy) ==
  LET service == action \in {"ServiceRestart", "ServiceReload"}
      system == impact.layer = "System"
  IN  IF impact.layer = "Application" /\ service
        THEN VerificationPlan(GenericServiceChange(action, impact),
                              <<"package_audit", "full_disk_scan", "firewall_audit">>)
      ELSE IF system /\ action = "RemoveAllowlistedFile" THEN AllowlistedFileCleanup(impact)
      ELSE IF impact.layer = "Platform" /\ action = "ServiceReload"
        THEN PlatformReload(impact, policy)
      ELSE IF system /\ action = "PackageUpdate" THEN SystemPackageUpdate(impact, policy)
      ELSE IF system /\ action = "NodeReboot" THEN SystemReboot(impact)
      ELSE IF system /\ WritesPackageDb(impact) THEN SystemPackageUpdate(impact, policy)
      ELSE IF service THEN VerificationPlan(GenericServiceChange(action, impact), <<>>)
      ELSE VerificationPlan(
             <<Check("helper_result_matches_request", PrimaryResource(impact), "DirectImpact")>>, <<>>)

\* What a runbook adds to the planner's skips.
AlsoSkipping(plan, ids) == [plan EXCEPT !.skipped = @ \o ids]

\* VerificationPlan::with_skipped: the skips a plan has are replaced.
WithSkipped(plan, ids) == [plan EXCEPT !.skipped = ids]

\* Mutant: the check the runbook is about.
RunbookSkipsItsOwn == <<"package_audit", "service_active">>

RunbookSkips == <<"package_audit", "firewall_audit">>

-----------------------------------------------------------------------------
(* Capabilities.                                                           *)

ServiceCapability ==
  [Linux |-> "service.systemd", FreeBsd |-> "service.freebsd-rc", OpenBsd |-> "service.openbsd-rcctl"]
LogCapability ==
  [Linux |-> "logs.journald", FreeBsd |-> "logs.syslog-file", OpenBsd |-> "logs.syslog-file"]
ProcessCapability ==
  [Linux |-> "process.procfs", FreeBsd |-> "process.procstat", OpenBsd |-> "process.ps"]
SocketCapability ==
  [Linux |-> "socket.ss", FreeBsd |-> "socket.sockstat", OpenBsd |-> "socket.fstat"]
PrivilegeCapability ==
  [Linux |-> "privilege.sudo-helper", FreeBsd |-> "privilege.sudo-helper",
   OpenBsd |-> "privilege.doas-helper"]

CapabilityReport(node, os, capabilities) == [node |-> node, os |-> os, capabilities |-> capabilities]
Supports(report, capability) == capability \in report.capabilities

\* The capabilities a runbook requires, in the order it asks for them.
ServiceUnhealthyCapabilities(os) ==
  <<ServiceCapability[os], LogCapability[os], ProcessCapability[os], SocketCapability[os],
    "storage.df", PrivilegeCapability[os]>>
DiskPressureCapabilities(os) == <<"storage.df", LogCapability[os], PrivilegeCapability[os]>>

\* <<>> when all are reported, else the error that names the first one missing.
RequireReported(report, needed) ==
  LET missing == {i \in DOMAIN needed : ~ Supports(report, needed[i])}
  IN  IF missing = {} THEN <<>>
      ELSE <<"MissingRequiredCapability", needed[CHOOSE i \in missing : \A j \in missing : i <= j]>>

\* The service runbook asks for its driver before it asks for any capability.
ServiceUnhealthyError(request, report) ==
  CASE request.node # report.node -> <<"NodeMismatch">>
    [] request.node = report.node /\ report.os \notin PlannedSystems -> <<"UnsupportedOperatingSystem">>
    [] OTHER -> RequireReported(report, ServiceUnhealthyCapabilities(report.os))

\* The disk runbook asks for storage.df first, on any operating system.
DiskPressureError(request, report) ==
  CASE request.node # report.node -> <<"NodeMismatch">>
    [] request.node = report.node /\ ~ Supports(report, "storage.df") ->
         <<"MissingRequiredCapability", "storage.df">>
    [] request.node = report.node /\ Supports(report, "storage.df")
         /\ report.os \notin PlannedSystems -> <<"UnsupportedOperatingSystem">>
    [] OTHER -> RequireReported(report, DiskPressureCapabilities(report.os))

-----------------------------------------------------------------------------
(* Runbooks.  A task that changes nothing has no leases of its own, no     *)
(* dependencies and an empty impact; a run has the impact and the          *)
(* verification of its mutating task.                                      *)

Collect(id, capability, reads) ==
  [id |-> id, capabilities |-> {capability}, reads |-> reads, writes |-> <<>>, requests |-> {},
   dependencies |-> {}, impact |-> ImpactSet("System", <<>>, <<>>, <<>>),
   verification |-> VerificationPlan(<<>>, <<>>)]

Mutate(id, capabilities, resource, dependencies, impact, verification) ==
  [id |-> id, capabilities |-> capabilities, reads |-> <<resource>>, writes |-> <<resource>>,
   requests |-> {[resource |-> resource, mode |-> "Exclusive"]}, dependencies |-> dependencies,
   impact |-> impact, verification |-> verification]

ServiceUnhealthyRequest(run, node, service) == [run |-> run, node |-> node, service |-> service]
DiskPressureRequest(run, node, mount, cleanup, subject) ==
  [run |-> run, node |-> node, mount |-> mount, cleanup |-> cleanup, subject |-> subject]

ServiceUnhealthyImpact(request) ==
  ImpactSet("System", <<ServiceResource(request.node, request.service)>>,
            <<Resource("Platform", request.node, "on-node", <<>>),
              Resource("Application", request.node, "on-node", <<>>)>>,
            <<OnNode(request.node, "package-db"), OnNode(request.node, "firewall")>>)

ServiceUnhealthyCollectors(request, os) ==
  <<Collect("collect-service-status", ServiceCapability[os],
            <<ServiceResource(request.node, request.service)>>),
    Collect("collect-recent-logs", LogCapability[os],
            <<Resource("System", request.node, "logs", request.service)>>),
    Collect("collect-disk-snapshot", "storage.df", <<OnNode(request.node, "filesystem")>>),
    Collect("collect-process-snapshot", ProcessCapability[os], <<OnNode(request.node, "processes")>>),
    Collect("collect-socket-snapshot", SocketCapability[os], <<OnNode(request.node, "sockets")>>)>>

IdsOf(tasks) == {tasks[i].id : i \in DOMAIN tasks}

ServiceUnhealthyPlan(request, report) ==
  LET os == report.os
      impact == ServiceUnhealthyImpact(request)
      verification ==
        AlsoSkipping(PlanVerification("ServiceRestart", impact, Minimal), RunbookSkips)
      collectors == ServiceUnhealthyCollectors(request, os)
      restart == Mutate("restart-service", {ServiceCapability[os], PrivilegeCapability[os]},
                        ServiceResource(request.node, request.service), IdsOf(collectors),
                        impact, verification)
  IN  [run |-> request.run, tasks |-> Append(collectors, restart),
       impact |-> impact, verification |-> verification]

FilesystemResource(request) ==
  Resource("System", request.node, "filesystem", MountFragment(request.mount))

DiskPressureImpact(request) ==
  ImpactSet("System", <<request.cleanup>>, <<FilesystemResource(request)>>,
            <<OnNode(request.node, "package-db"), OnNode(request.node, "firewall"),
              Resource("System", request.node, "path", <<"etc">>)>>)

DiskPressureCollectors(request, os) ==
  LET filesystem == FilesystemResource(request)
  IN  <<Collect("collect-disk-usage", "storage.df", <<filesystem>>),
        Collect("collect-cleanup-candidate", "storage.df", <<request.cleanup>>),
        Collect("collect-disk-pressure-logs", LogCapability[os],
                <<Resource("System", request.node, "logs", <<"disk", "pressure">>)>>),
        Collect("collect-pre-action-snapshot", "storage.df", <<filesystem, request.cleanup>>)>>

DiskPressurePlan(request, report) ==
  LET os == report.os
      impact == DiskPressureImpact(request)
      verification ==
        AlsoSkipping(PlanVerification("RemoveAllowlistedFile", impact, Minimal), RunbookSkips)
      collectors == DiskPressureCollectors(request, os)
      cleanup == Mutate("cleanup-allowlisted-path", {PrivilegeCapability[os]}, request.cleanup,
                        IdsOf(collectors), impact, verification)
  IN  [run |-> request.run, tasks |-> Append(collectors, cleanup),
       impact |-> impact, verification |-> verification]

===============================================================================

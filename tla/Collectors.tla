------------------------------ MODULE Collectors -------------------------------
(***************************************************************************)
(* The native collectors of the agent                                      *)
(* (src/crates/runlane-agent/src/platform.rs): what each platform reports  *)
(* it can do, which command collects which evidence, and what becomes of   *)
(* the command's output.                                                   *)
(*                                                                         *)
(* Evidence is as in Analyzer: a source and the markers its body holds.    *)
(* Errors are tuples.  Literal arguments, fixture files, reasons and the   *)
(* text of bodies are left out.  A service name is a sequence of words; a  *)
(* word is "" where the name begins with a dash, "?" if it has a character *)
(* a service name may not have, "*" if it makes the name too long.         *)
(***************************************************************************)
EXTENDS Planning

EvidenceKinds == {"ServiceStatus", "RecentLogs", "Disk", "Process", "Socket"}

LinuxReport ==
  {"os.linux", "service.systemd", "logs.journald", "logs.syslog-file", "process.procfs",
   "process.ps", "socket.ss", "storage.df", "privilege.sudo-helper"}
FreeBsdReport ==
  {"os.freebsd", "service.freebsd-rc", "logs.syslog-file", "process.procstat", "process.ps",
   "socket.sockstat", "storage.df", "package.freebsd-pkg", "privilege.sudo-helper"}
OpenBsdReport ==
  {"os.openbsd", "service.openbsd-rcctl", "logs.syslog-file", "process.ps", "socket.fstat",
   "storage.df", "package.openbsd-pkg-info", "privilege.doas-helper"}

NativeCapabilities(os) ==
  CASE os = "Linux" -> LinuxReport
    [] os = "FreeBsd" -> FreeBsdReport
    [] os = "OpenBsd" -> OpenBsdReport
    [] OTHER -> {}

NativeReport(node, os) == CapabilityReport(node, os, NativeCapabilities(os))

Collector(capability, program, service) ==
  [capability |-> capability, program |-> program, service |-> service]

\* collector_specs: "service" says whether the command is given the service name.
LinuxCollectors ==
  [ServiceStatus |-> Collector("service.systemd", "systemctl", TRUE),
   RecentLogs |-> Collector("logs.journald", "journalctl", TRUE),
   Disk |-> Collector("storage.df", "df", FALSE),
   Process |-> Collector("process.procfs", "ps", FALSE),
   Socket |-> Collector("socket.ss", "ss", FALSE)]
FreeBsdCollectors ==
  [ServiceStatus |-> Collector("service.freebsd-rc", "service", TRUE),
   RecentLogs |-> Collector("logs.syslog-file", "tail", FALSE),
   Disk |-> Collector("storage.df", "df", FALSE),
   Process |-> Collector("process.procstat", "procstat", FALSE),
   Socket |-> Collector("socket.sockstat", "sockstat", FALSE)]
OpenBsdCollectors ==
  [ServiceStatus |-> Collector("service.openbsd-rcctl", "rcctl", TRUE),
   RecentLogs |-> Collector("logs.syslog-file", "tail", FALSE),
   Disk |-> Collector("storage.df", "df", FALSE),
   Process |-> Collector("process.ps", "ps", FALSE),
   Socket |-> Collector("socket.fstat", "fstat", FALSE)]

CollectorSpecs(os) ==
  CASE os = "Linux" -> LinuxCollectors
    [] os = "FreeBsd" -> FreeBsdCollectors
    [] os = "OpenBsd" -> OpenBsdCollectors
    [] OTHER -> <<>>

\* ServiceName::parse
ServiceNameValid(name) == name # <<>> /\ name[1] # "" /\ ToSet(name) \cap {"?", "*"} = {}

\* A request names the service for the two kinds that are about one.
CollectorRequest(kind, service) ==
  [kind |-> kind, service |-> IF kind \in {"ServiceStatus", "RecentLogs"} THEN service ELSE <<>>]

RequestError(request) ==
  IF request.kind \in {"ServiceStatus", "RecentLogs"} /\ ~ ServiceNameValid(request.service)
  THEN <<"InvalidServiceName">> ELSE <<>>

CommandError(os, request) ==
  IF request.kind \notin DOMAIN CollectorSpecs(os) THEN <<"Unsupported", request.kind>>
  ELSE LET spec == CollectorSpecs(os)[request.kind]
       IN  IF spec.capability \notin NativeCapabilities(os) THEN <<"Unsupported", spec.capability>>
           ELSE IF spec.service /\ request.service = <<>> THEN <<"MissingServiceName">>
           ELSE <<>>

\* What running a program did: it did not start, or it ended and wrote a body, in which
\* the markers stand, or nothing at all.
ProgramFailed == [ended |-> "NotStarted", empty |-> TRUE, markers |-> {}]
ProgramOutput(ended, markers) == [ended |-> ended, empty |-> FALSE, markers |-> markers]

OutputError(output) ==
  CASE output.ended = "NotStarted" -> <<"Io">>
    [] output.ended = "NonZero" -> <<"NonZeroStatus">>
    [] OTHER -> IF output.empty THEN <<"EmptyOutput">> ELSE <<>>

ServiceIsUp == {"activestate=active", "is running", "(ok)"}

\* normalize_fixture prepends a marker of its own and keeps the body; the analyzers lower
\* its case.
Normalized(kind, markers) ==
  markers \cup
  (CASE kind = "ServiceStatus" ->
          {IF markers \cap ServiceIsUp # {} THEN "service=active" ELSE "service=not-active"}
     [] OTHER -> {})

CollectNativeError(os, request, output) ==
  IF RequestError(request) # <<>> THEN RequestError(request)
  ELSE IF CommandError(os, request) # <<>> THEN CommandError(os, request)
  ELSE OutputError(output)

CollectNative(os, request, output) ==
  [source |-> <<CollectorSpecs(os)[request.kind].program, request.kind>>,
   markers |-> Normalized(request.kind, output.markers)]

===============================================================================

----------------------------- MODULE DurableLedger -----------------------------
(***************************************************************************)
(* The durable audit ledger (src/crates/runlane-core/src/durable.rs): one  *)
(* file, a stream of YAML documents, that commands extend with the events  *)
(* of a ledger they hold in memory ("state demo-write" of runlane-server,  *)
(* the dogfood run of runlane-agent) and that is read back after a restart. *)
(*                                                                         *)
(* Appending an event is not one step: the whole file is read and checked, *)
(* then the separator and the document are written one after the other.    *)
(* Nothing locks the file.  A command may be killed, or a write may fail,  *)
(* between any two steps; an operator may run it again.                    *)
(*                                                                         *)
(* Abstractions.  The file is the sequence of separators and documents it  *)
(* holds; the line end written after a document is left out, blank lines   *)
(* mean nothing to the parser.  An event is its sequence number and the    *)
(* command whose ledger it belongs to.                                     *)
(***************************************************************************)
EXTENDS Naturals, Sequences, SequencesExt

CONSTANTS
  Commands,   \* the commands that persist a ledger into this state directory
  LedgerSize, \* LedgerSize[c]: how many events the ledger of c holds
  MaxActive,  \* how many commands may be at work on the directory at once
  MaxStarts   \* bound on how often a command is started

ASSUME LedgerAssumption ==
  /\ IsFiniteSet(Commands) /\ Commands # {}
  /\ LedgerSize \in [Commands -> Nat]
  /\ MaxActive \in Nat /\ MaxStarts \in Nat

VARIABLES
  file,    \* what audit.yaml holds
  pc,      \* pc[c]: where c is
  next,    \* next[c]: the event of its ledger c is about to append
  starts,  \* starts[c]: how often c was started
  reported \* history: the commands that reported success

vars == <<file, pc, next, starts, reported>>

Separator == [kind |-> "separator"]
Document(c, n) == [kind |-> "document", command |-> c, sequence |-> n]

Working == {"checking", "separating", "writing"}
Active == {c \in Commands : pc[c] \in Working}

-----------------------------------------------------------------------------
(* load_ledger.                                                            *)

\* Each separator opens a document; one that nothing follows is an empty document, which
\* is not an event.
WellFormed(content) ==
  \E n \in 0..Len(content) :
    /\ Len(content) = 2 * n
    /\ \A k \in 1..n : content[2 * k - 1].kind = "separator" /\ content[2 * k].kind = "document"

\* The documents of a well-formed stream.
Documents(content) == [k \in 1..(Len(content) \div 2) |-> content[2 * k]]

Monotonic(documents) == \A i \in DOMAIN documents : documents[i].sequence = i

Loads(content) == WellFormed(content) /\ Monotonic(Documents(content))

-----------------------------------------------------------------------------
(* A command at work.                                                      *)

\* LocalServerState::init leaves an existing ledger alone.
Start(c) ==
  /\ pc[c] \notin Working
  /\ starts[c] < MaxStarts
  /\ Cardinality(Active) < MaxActive
  /\ pc' = [pc EXCEPT ![c] = "checking"]
  /\ next' = [next EXCEPT ![c] = 1]
  /\ starts' = [starts EXCEPT ![c] = @ + 1]
  /\ UNCHANGED <<file, reported>>

\* Mutant: events the file already numbers are taken to be there.
ExpectedOrOlder(c) == next[c] <= Len(Documents(file)) + 1

\* The sequence number the ledger expects next.
Expected(c) == next[c] = Len(Documents(file)) + 1

\* Mutant: the sequence is counted without parsing the documents.
CheckCounting(c) ==
  /\ pc[c] = "checking"
  /\ next[c] <= LedgerSize[c]
  /\ pc' = [pc EXCEPT ![c] = IF Expected(c) THEN "separating" ELSE "failed"]
  /\ UNCHANGED <<file, next, starts, reported>>

Check(c) ==
  /\ pc[c] = "checking"
  /\ next[c] <= LedgerSize[c]
  /\ pc' = [pc EXCEPT ![c] = IF Loads(file) /\ Expected(c) THEN "separating" ELSE "failed"]
  /\ UNCHANGED <<file, next, starts, reported>>

\* append_ledger has appended every event; the file is not read again.
Report(c) ==
  /\ pc[c] = "checking"
  /\ next[c] > LedgerSize[c]
  /\ pc' = [pc EXCEPT ![c] = "done"]
  /\ reported' = reported \cup {c}
  /\ UNCHANGED <<file, next, starts>>

WriteSeparator(c) ==
  /\ pc[c] = "separating"
  /\ file' = Append(file, Separator)
  /\ pc' = [pc EXCEPT ![c] = "writing"]
  /\ UNCHANGED <<next, starts, reported>>

\* Mutant: the document is numbered from zero, as the vector it comes from is.
WriteDocumentFromZero(c) ==
  /\ pc[c] = "writing"
  /\ file' = Append(file, Document(c, next[c] - 1))
  /\ pc' = [pc EXCEPT ![c] = "checking"]
  /\ next' = [next EXCEPT ![c] = @ + 1]
  /\ UNCHANGED <<starts, reported>>

WriteDocument(c) ==
  /\ pc[c] = "writing"
  /\ file' = Append(file, Document(c, next[c]))
  /\ pc' = [pc EXCEPT ![c] = "checking"]
  /\ next' = [next EXCEPT ![c] = @ + 1]
  /\ UNCHANGED <<starts, reported>>

\* The process dies, or the write it was about to make returns an error.
Kill(c) ==
  /\ pc[c] \in Working
  /\ pc' = [pc EXCEPT ![c] = "killed"]
  /\ UNCHANGED <<file, next, starts, reported>>

Init ==
  /\ file = <<>>
  /\ pc = [c \in Commands |-> "new"]
  /\ next = [c \in Commands |-> 1]
  /\ starts = [c \in Commands |-> 0]
  /\ reported = {}

Next ==
  \E c \in Commands :
    Start(c) \/ Check(c) \/ Report(c) \/ WriteSeparator(c) \/ WriteDocument(c) \/ Kill(c)

Spec == Init /\ [][Next]_vars

-----------------------------------------------------------------------------

\* What the commands write.
Items == {Separator} \cup UNION {{Document(c, n) : n \in 1..LedgerSize[c]} : c \in Commands}

\* The file holds separators and documents of their ledgers, and every command is somewhere in its run.
TypeOK ==
  /\ file \in Seq(Items)
  /\ pc \in [Commands -> Working \cup {"new", "done", "failed", "killed"}]
  /\ next \in [Commands -> Nat \ {0}]
  /\ starts \in [Commands -> 0..MaxStarts]
  /\ reported \subseteq Commands

\* The file never mixes ledgers: commands that take turns, are killed and started again
\* leave in it the first events of one command's ledger, in order, each once.  A command
\* numbers its events from 1, so the sequence check lets it write into an empty file only
\* (durable.rs, append_event).
HoldsFirst(c, n) == Documents(file) = [i \in 1..n |-> Document(c, i)]

OneLedgerPerFile == \E c \in Commands : \E n \in 0..LedgerSize[c] : HoldsFirst(c, n)

\* What a kill can damage is the last document only: without a separator at its end, the
\* file loads.  Nothing is ever written behind a separator that was left alone
\* (durable.rs, load_ledger called by append_event).
WithoutLastSeparator ==
  IF file # <<>> /\ Last(file) = Separator THEN Front(file) ELSE file

TornOnlyAtTheEnd == Loads(WithoutLastSeparator)

\* Success is durable: once a command has reported its ledger as persisted, the file loads
\* and holds that ledger, whatever commands are started, fail or are killed later
\* (durable.rs, append_ledger; server-state.md, receipts after a restart).
ReportedMeansDurable ==
  \A c \in reported : LedgerSize[c] > 0 => Loads(file) /\ HoldsFirst(c, LedgerSize[c])

\* docs/server-state.md, "Local Layout": "Each document is one AuditEvent with a monotonic
\* sequence number."
DocumentsMonotonic == Monotonic(SelectSeq(file, LAMBDA x : x.kind = "document"))

===============================================================================

-------------------------- MODULE DurableLedger_proofs --------------------------
(***************************************************************************)
(* Proofs about DurableLedger, for any commands, ledgers and number of     *)
(* starts, as long as one command at a time is at work (MaxActive = 1):    *)
(* the run durable_two_writers shows what happens otherwise.               *)
(*                                                                         *)
(* The file always holds the first events of one command's ledger and at   *)
(* most one separator more.  Whose they are can change only while it is    *)
(* empty, because every command numbers its events from 1.                 *)
(***************************************************************************)
EXTENDS DurableLedger, FiniteSetTheorems, TLAPS

\* The k-th document is the k-th event of c.
EventAt(content, c, k) == content[2 * k - 1] = Separator /\ content[2 * k] = Document(c, k)

\* The file holds the first n events of c, and then perhaps a separator.
HoldsFrom(content, c, n) ==
  /\ Len(content) \in {2 * n, 2 * n + 1}
  /\ \A k \in 1..n : EventAt(content, c, k)
  /\ Len(content) = 2 * n + 1 => content[2 * n + 1] = Separator

Shape == \E c \in Commands : \E n \in 0..LedgerSize[c] : HoldsFrom(file, c, n)

\* How much of its ledger a command at work has written: all before the event it is at.
Written(c) == HoldsFrom(file, c, next[c] - 1) /\ next[c] - 1 <= LedgerSize[c]

Progress(c) ==
  /\ pc[c] = "checking" /\ next[c] > 1 => Written(c) /\ Len(file) = 2 * (next[c] - 1)
  /\ pc[c] = "separating" =>
       Written(c) /\ next[c] <= LedgerSize[c] /\ Len(file) = 2 * (next[c] - 1)
  /\ pc[c] = "writing" =>
       Written(c) /\ next[c] <= LedgerSize[c] /\ Len(file) = 2 * (next[c] - 1) + 1

Alone == \A c, d \in Commands : pc[c] \in Working /\ pc[d] \in Working => c = d

Kept(c) == HoldsFrom(file, c, LedgerSize[c]) /\ Len(file) = 2 * LedgerSize[c]

LedgerInv ==
  /\ TypeOK
  /\ Alone
  /\ Shape
  /\ \A c \in Commands : Progress(c)
  /\ \A c \in reported : LedgerSize[c] > 0 => Kept(c)

LEMMA Halves ==
  ASSUME NEW n \in Nat
  PROVE  (2 * n) \div 2 = n /\ (2 * n + 1) \div 2 = n
OBVIOUS

\* Separators and documents are told apart, and documents by their command.
LEMMA Kinds ==
  ASSUME NEW c, NEW d, NEW m, NEW n
  PROVE  /\ Separator.kind = "separator" /\ Document(c, n).kind = "document"
         /\ Separator # Document(c, n)
         /\ Document(c, n) = Document(d, m) => c = d /\ n = m
         /\ Document(c, n).sequence = n
<1>1. Separator.kind = "separator" /\ Document(c, n).kind = "document"
  BY DEF Separator, Document
<1>2. Document(c, n) = Document(d, m) => c = d /\ n = m
  <2>1. Document(c, n).command = c /\ Document(d, m).command = d
    BY DEF Document
  <2>2. Document(c, n).sequence = n /\ Document(d, m).sequence = m
    BY DEF Document
  <2> QED  BY <2>1, <2>2
<1>3. Document(c, n).sequence = n
  BY DEF Document
<1>4. Separator # Document(c, n)
  BY <1>1
<1> QED  BY <1>1, <1>2, <1>3, <1>4

\* What the invariant says of a file is what the checks of the code see of it.
LEMMA DocumentsHeld ==
  ASSUME NEW content \in Seq(Items), NEW c \in Commands, NEW n \in Nat, HoldsFrom(content, c, n)
  PROVE  /\ Documents(content) = [i \in 1..n |-> Document(c, i)]
         /\ Len(content) = 2 * n => Loads(content)
<1>1. Len(content) \div 2 = n
  BY Halves DEF HoldsFrom
<1>2. Documents(content) = [i \in 1..n |-> Document(c, i)]
  BY <1>1 DEF Documents, HoldsFrom, EventAt
<1>3. ASSUME Len(content) = 2 * n  PROVE Loads(content)
  <2>1. n \in 0..Len(content)
    BY <1>3
  <2>2. \A k \in 1..n : content[2 * k - 1].kind = "separator" /\ content[2 * k].kind = "document"
    <3> SUFFICES ASSUME NEW k \in 1..n
                 PROVE  content[2 * k - 1].kind = "separator" /\ content[2 * k].kind = "document"
      OBVIOUS
    <3>1. EventAt(content, c, k)
      BY DEF HoldsFrom
    <3> QED  BY <3>1, Kinds DEF EventAt
  <2>3. WellFormed(content)
    BY <1>3, <2>1, <2>2 DEF WellFormed
  <2>4. Monotonic(Documents(content))
    BY <1>2, Kinds DEF Monotonic
  <2> QED  BY <2>3, <2>4 DEF Loads
<1> QED  BY <1>2, <1>3

\* A file that loads and expects the first event is empty.
LEMMA ExpectsFirst ==
  ASSUME NEW content \in Seq(Items), WellFormed(content), Len(Documents(content)) = 0
  PROVE  content = <<>>
<1>1. PICK n \in 0..Len(content) : Len(content) = 2 * n
  BY DEF WellFormed
<1>2. Documents(content) = [k \in 1..n |-> content[2 * k]]
  BY <1>1, Halves DEF Documents
<1>3. Len(Documents(content)) = n
  BY <1>2
<1> QED  BY <1>1, <1>3

-----------------------------------------------------------------------------
(* The invariant holds initially and every step preserves it.              *)

LEMMA LedgerInvInitially == Init => LedgerInv
<1> SUFFICES ASSUME Init  PROVE LedgerInv
  OBVIOUS
<1>1. TypeOK
  BY LedgerAssumption DEF Init, TypeOK
<1>2. Alone /\ \A c \in Commands : Progress(c)
  BY DEF Init, Alone, Progress, Working
<1>3. PICK c \in Commands : TRUE
  BY LedgerAssumption
<1>4. HoldsFrom(file, c, 0)
  BY DEF Init, HoldsFrom
<1>5. Shape
  BY <1>3, <1>4, LedgerAssumption DEF Shape
<1> QED  BY <1>1, <1>2, <1>5 DEF LedgerInv, Init

\* A step of c that leaves the file alone preserves the invariant if what it says of c does.
LEMMA FileUntouched ==
  ASSUME LedgerInv, NEW c \in Commands, UNCHANGED file, TypeOK', Alone', Progress(c)',
         \A d \in Commands : d # c => pc'[d] = pc[d] /\ next'[d] = next[d],
         \A d \in reported' \ reported : LedgerSize[d] > 0 => Kept(d)
  PROVE  LedgerInv'
<1>1. Shape'
  BY DEF LedgerInv, Shape
<1>2. ASSUME NEW d \in Commands, d # c  PROVE Progress(d)'
  BY <1>2 DEF LedgerInv, Progress, Written, HoldsFrom
<1>3. \A d \in reported' : LedgerSize[d] > 0 => Kept(d)'
  BY DEF LedgerInv, Kept, HoldsFrom
<1> QED  BY <1>1, <1>2, <1>3 DEF LedgerInv

LEMMA StartPreserves ==
  ASSUME LedgerInv, MaxActive = 1, NEW c \in Commands, Start(c)
  PROVE  LedgerInv'
<1>1. Active = {}
  <2>1. IsFiniteSet(Active)
    BY LedgerAssumption, FS_Subset DEF Active
  <2>2. Cardinality(Active) = 0
    BY <2>1, FS_CardinalityType DEF Start
  <2> QED  BY <2>1, <2>2, FS_EmptySet
<1>2. TypeOK'
  BY LedgerAssumption DEF LedgerInv, TypeOK, Start, Working
<1>3. Alone'
  BY <1>1 DEF LedgerInv, TypeOK, Start, Alone, Active
<1>4. Progress(c)'
  BY DEF LedgerInv, TypeOK, Start, Progress
<1> QED  BY <1>2, <1>3, <1>4, FileUntouched DEF Start, LedgerInv, TypeOK

LEMMA KillPreserves ==
  ASSUME LedgerInv, NEW c \in Commands, Kill(c)
  PROVE  LedgerInv'
<1>1. TypeOK'
  BY DEF LedgerInv, TypeOK, Kill
<1>2. Alone' /\ Progress(c)'
  BY DEF LedgerInv, TypeOK, Kill, Alone, Progress, Working
<1> QED  BY <1>1, <1>2, FileUntouched DEF Kill, LedgerInv, TypeOK

\* Only the check of the first event admits a file that is not known to be the command's own.
LEMMA CheckPreserves ==
  ASSUME LedgerInv, NEW c \in Commands, Check(c)
  PROVE  LedgerInv'
<1>1. TypeOK'
  BY DEF LedgerInv, TypeOK, Check, Working
<1>2. Alone'
  BY DEF LedgerInv, TypeOK, Check, Alone, Working
<1>3. /\ file \in Seq(Items) /\ next[c] \in Nat \ {0} /\ LedgerSize[c] \in Nat
      /\ pc'[c] \in {"separating", "failed"}
  BY LedgerAssumption DEF LedgerInv, TypeOK, Check
<1>4. CASE pc'[c] = "failed"
  <2>1. Progress(c)'
    BY <1>4 DEF Progress
  <2> QED  BY <1>1, <1>2, <2>1, FileUntouched DEF Check, LedgerInv, TypeOK
<1>5. CASE pc'[c] = "separating"
  <2>1. Loads(file) /\ Expected(c)
    BY <1>5 DEF Check, LedgerInv, TypeOK
  <2>2. ASSUME next[c] = 1  PROVE Written(c) /\ Len(file) = 2 * (next[c] - 1)
    <3>1. Len(Documents(file)) = 0
      BY <2>1, <2>2, <1>3 DEF Expected, Documents
    <3>2. file = <<>>
      BY <1>3, <2>1, <3>1, ExpectsFirst DEF Loads
    <3> QED  BY <1>3, <2>2, <3>2 DEF Written, HoldsFrom
  <2>3. ASSUME next[c] > 1  PROVE Written(c) /\ Len(file) = 2 * (next[c] - 1)
    BY <2>3 DEF LedgerInv, Progress, Check
  <2>4. Written(c) /\ Len(file) = 2 * (next[c] - 1)
    BY <1>3, <2>2, <2>3
  <2>5. Progress(c)'
    BY <1>5, <2>4 DEF Progress, Check, Written, HoldsFrom
  <2> QED  BY <1>1, <1>2, <2>5, FileUntouched DEF Check, LedgerInv, TypeOK
<1> QED  BY <1>3, <1>4, <1>5

LEMMA ReportPreserves ==
  ASSUME LedgerInv, NEW c \in Commands, Report(c)
  PROVE  LedgerInv'
<1>1. TypeOK' /\ Alone' /\ Progress(c)'
  BY DEF LedgerInv, TypeOK, Report, Alone, Progress, Working
<1>2. next[c] \in Nat /\ LedgerSize[c] \in Nat
  BY LedgerAssumption DEF LedgerInv, TypeOK
<1>3. LedgerSize[c] > 0 => Kept(c)
  <2> SUFFICES ASSUME LedgerSize[c] > 0  PROVE Kept(c)
    OBVIOUS
  <2>1. Written(c) /\ Len(file) = 2 * (next[c] - 1)
    BY <1>2 DEF LedgerInv, Progress, Report
  <2>2. next[c] - 1 = LedgerSize[c]
    BY <1>2, <2>1 DEF Written, Report
  <2> QED  BY <2>1, <2>2 DEF Written, Kept
<1> QED  BY <1>1, <1>3, FileUntouched DEF Report, LedgerInv, TypeOK

\* While a command writes, no whole ledger is in the file: another's would keep it from
\* its first event, and of its own the event it writes is missing.
LEMMA NothingKept ==
  ASSUME LedgerInv, NEW c \in Commands, NEW d \in reported, Written(c), next[c] <= LedgerSize[c],
         Len(file) \in {2 * (next[c] - 1), 2 * (next[c] - 1) + 1}, LedgerSize[d] > 0
  PROVE  FALSE
<1> DEFINE m == next[c] - 1
           n == LedgerSize[d]
<1>1. d \in Commands /\ m \in Nat /\ n \in Nat /\ LedgerSize[c] \in Nat /\ next[c] = m + 1
  <2>1. d \in Commands /\ next[c] \in Nat \ {0}
    BY DEF LedgerInv, TypeOK
  <2> QED  BY <2>1, LedgerAssumption
<1>2. HoldsFrom(file, d, n) /\ Len(file) = 2 * n
  BY DEF LedgerInv, Kept
<1>3. m = n
  BY <1>1, <1>2
<1>4. 1 \in 1..m
  BY <1>1, <1>3
<1>5. EventAt(file, c, 1) /\ EventAt(file, d, 1)
  BY <1>2, <1>3, <1>4 DEF Written, HoldsFrom
<1>6. c = d
  BY <1>5, Kinds DEF EventAt
<1> QED  BY <1>1, <1>3, <1>6

LEMMA WriteSeparatorPreserves ==
  ASSUME LedgerInv, NEW c \in Commands, WriteSeparator(c)
  PROVE  LedgerInv'
<1> DEFINE m == next[c] - 1
<1>1. /\ file \in Seq(Items) /\ m \in Nat /\ next[c] = m + 1 /\ LedgerSize[c] \in Nat
      /\ Written(c) /\ next[c] <= LedgerSize[c] /\ Len(file) = 2 * m
  <2>1. file \in Seq(Items) /\ m \in Nat /\ next[c] = m + 1 /\ LedgerSize[c] \in Nat
    BY LedgerAssumption DEF LedgerInv, TypeOK
  <2>2. Written(c) /\ next[c] <= LedgerSize[c] /\ Len(file) = 2 * m
    BY DEF LedgerInv, WriteSeparator, Progress
  <2> QED  BY <2>1, <2>2
<1>2. file' = Append(file, Separator) /\ file' \in Seq(Items)
  BY <1>1 DEF WriteSeparator, Items
<1>3. /\ Len(file') = 2 * m + 1
      /\ file'[2 * m + 1] = Separator
      /\ \A i \in 1..(2 * m) : file'[i] = file[i]
  BY <1>1, <1>2
<1>4. ASSUME NEW k \in 1..m  PROVE EventAt(file', c, k)
  <2>1. EventAt(file, c, k)
    BY <1>1 DEF Written, HoldsFrom
  <2>2. 2 * k - 1 \in 1..(2 * m) /\ 2 * k \in 1..(2 * m)
    BY <1>1
  <2> QED  BY <1>3, <2>1, <2>2 DEF EventAt
<1>5. HoldsFrom(file', c, m)
  BY <1>3, <1>4 DEF HoldsFrom
<1>6. TypeOK'
  BY <1>2 DEF LedgerInv, TypeOK, WriteSeparator, Working
<1>7. Alone'
  BY DEF LedgerInv, TypeOK, WriteSeparator, Alone, Working
<1>8. Shape'
  BY <1>1, <1>5 DEF Shape
<1>9. ASSUME NEW d \in Commands  PROVE Progress(d)'
  <2>1. CASE d = c
    BY <1>1, <1>3, <1>5, <2>1 DEF Progress, Written, WriteSeparator, LedgerInv, TypeOK
  <2>2. CASE d # c
    BY <2>2 DEF Progress, WriteSeparator, LedgerInv, TypeOK, Alone, Working
  <2> QED  BY <2>1, <2>2
<1>10. \A d \in reported' : LedgerSize[d] > 0 => Kept(d)'
  BY <1>1, NothingKept DEF WriteSeparator
<1> QED  BY <1>6, <1>7, <1>8, <1>9, <1>10 DEF LedgerInv

LEMMA WriteDocumentPreserves ==
  ASSUME LedgerInv, NEW c \in Commands, WriteDocument(c)
  PROVE  LedgerInv'
<1> DEFINE m == next[c] - 1
<1>1. /\ file \in Seq(Items) /\ m \in Nat /\ next[c] = m + 1 /\ LedgerSize[c] \in Nat
      /\ Written(c) /\ next[c] <= LedgerSize[c] /\ Len(file) = 2 * m + 1
  <2>1. file \in Seq(Items) /\ m \in Nat /\ next[c] = m + 1 /\ LedgerSize[c] \in Nat
    BY LedgerAssumption DEF LedgerInv, TypeOK
  <2>2. Written(c) /\ next[c] <= LedgerSize[c] /\ Len(file) = 2 * m + 1
    BY DEF LedgerInv, WriteDocument, Progress
  <2> QED  BY <2>1, <2>2
<1>2. file' = Append(file, Document(c, m + 1)) /\ file' \in Seq(Items)
  BY <1>1 DEF WriteDocument, Items
<1>3. /\ Len(file') = 2 * (m + 1)
      /\ file'[2 * (m + 1)] = Document(c, m + 1)
      /\ \A i \in 1..(2 * m + 1) : file'[i] = file[i]
  BY <1>1, <1>2
<1>4. file[2 * (m + 1) - 1] = Separator
  BY <1>1 DEF Written, HoldsFrom
<1>5. ASSUME NEW k \in 1..(m + 1)  PROVE EventAt(file', c, k)
  <2>1. CASE k = m + 1
    <3>1. 2 * (m + 1) - 1 \in 1..(2 * m + 1)
      BY <1>1
    <3> QED  BY <1>3, <1>4, <2>1, <3>1 DEF EventAt
  <2>2. CASE k \in 1..m
    <3>1. EventAt(file, c, k)
      BY <1>1, <2>2 DEF Written, HoldsFrom
    <3>2. 2 * k - 1 \in 1..(2 * m + 1) /\ 2 * k \in 1..(2 * m + 1)
      BY <1>1, <2>2
    <3> QED  BY <1>3, <3>1, <3>2 DEF EventAt
  <2> QED  BY <1>1, <2>1, <2>2
<1>6. HoldsFrom(file', c, m + 1)
  BY <1>1, <1>3, <1>5 DEF HoldsFrom
<1>7. TypeOK'
  BY <1>1, <1>2 DEF LedgerInv, TypeOK, WriteDocument, Working
<1>8. Alone'
  BY DEF LedgerInv, TypeOK, WriteDocument, Alone, Working
<1>9. Shape'
  BY <1>1, <1>6 DEF Shape
<1>10. ASSUME NEW d \in Commands  PROVE Progress(d)'
  <2>1. CASE d = c
    <3>1. pc'[c] = "checking" /\ next'[c] = m + 2
      BY <1>1 DEF WriteDocument, LedgerInv, TypeOK
    <3> QED  BY <1>1, <1>3, <1>6, <2>1, <3>1 DEF Progress, Written
  <2>2. CASE d # c
    BY <2>2 DEF Progress, WriteDocument, LedgerInv, TypeOK, Alone, Working
  <2> QED  BY <2>1, <2>2
<1>11. \A d \in reported' : LedgerSize[d] > 0 => Kept(d)'
  BY <1>1, NothingKept DEF WriteDocument
<1> QED  BY <1>7, <1>8, <1>9, <1>10, <1>11 DEF LedgerInv

LEMMA NextPreserves == MaxActive = 1 /\ LedgerInv /\ [Next]_vars => LedgerInv'
<1> SUFFICES ASSUME MaxActive = 1, LedgerInv, [Next]_vars  PROVE LedgerInv'
  OBVIOUS
<1>1. CASE UNCHANGED vars
  BY <1>1 DEF vars, LedgerInv, TypeOK, Alone, Shape, Progress, Written, Kept, HoldsFrom
<1>2. CASE Next
  BY <1>2, StartPreserves, CheckPreserves, ReportPreserves, WriteSeparatorPreserves,
     WriteDocumentPreserves, KillPreserves DEF Next
<1> QED  BY <1>1, <1>2

-----------------------------------------------------------------------------
(* The theorems.                                                           *)

\* The ledger file and the commands at work on it have their types.
THEOREM LedgerTypeCorrect ==
  ASSUME MaxActive = 1
  PROVE  Spec => []TypeOK
<1>1. LedgerInv => TypeOK
  BY DEF LedgerInv
<1>2. LedgerInv /\ [Next]_vars => LedgerInv'
  BY NextPreserves
<1> QED  BY LedgerInvInitially, <1>1, <1>2, PTL DEF Spec

\* Commands that take turns, each killed and started again at any time, leave the events of
\* one command's ledger in the file.
THEOREM FileHoldsOneLedger ==
  ASSUME MaxActive = 1
  PROVE  Spec => []OneLedgerPerFile
<1>1. LedgerInv => OneLedgerPerFile
  <2> SUFFICES ASSUME LedgerInv  PROVE OneLedgerPerFile
    OBVIOUS
  <2>1. PICK c \in Commands : \E n \in 0..LedgerSize[c] : HoldsFrom(file, c, n)
    BY DEF LedgerInv, Shape
  <2>2. PICK n \in 0..LedgerSize[c] : HoldsFrom(file, c, n)
    BY <2>1
  <2>3. n \in Nat
    BY LedgerAssumption
  <2>4. HoldsFirst(c, n)
    BY <2>2, <2>3, DocumentsHeld DEF HoldsFirst, LedgerInv, TypeOK
  <2> QED  BY <2>4 DEF OneLedgerPerFile
<1>2. LedgerInv /\ [Next]_vars => LedgerInv'
  BY NextPreserves
<1> QED  BY LedgerInvInitially, <1>1, <1>2, PTL DEF Spec

\* All a kill can damage is the end: but for a separator there, the file loads.
THEOREM FileTornOnlyAtTheEnd ==
  ASSUME MaxActive = 1
  PROVE  Spec => []TornOnlyAtTheEnd
<1>1. LedgerInv => TornOnlyAtTheEnd
  <2> SUFFICES ASSUME LedgerInv  PROVE Loads(WithoutLastSeparator)
    BY DEF TornOnlyAtTheEnd
  <2>1. PICK c \in Commands : \E n \in 0..LedgerSize[c] : HoldsFrom(file, c, n)
    BY DEF LedgerInv, Shape
  <2>2. PICK n \in 0..LedgerSize[c] : HoldsFrom(file, c, n)
    BY <2>1
  <2>3. n \in Nat /\ file \in Seq(Items)
    BY LedgerAssumption DEF LedgerInv, TypeOK
  <2>4. CASE Len(file) = 2 * n
    <3>1. ASSUME n # 0  PROVE Last(file) # Separator
      <4>1. n \in 1..n
        BY <2>3, <3>1
      <4>2. EventAt(file, c, n)
        BY <2>2, <4>1 DEF HoldsFrom
      <4> QED  BY <2>4, <4>2, Kinds DEF EventAt, Last
    <3>2. WithoutLastSeparator = file
      BY <2>3, <2>4, <3>1 DEF WithoutLastSeparator
    <3> QED  BY <2>2, <2>3, <2>4, <3>2, DocumentsHeld
  <2>5. CASE Len(file) = 2 * n + 1
    <3>1. file # <<>> /\ Last(file) = Separator
      BY <2>2, <2>3, <2>5 DEF HoldsFrom, Last
    <3>2. WithoutLastSeparator = Front(file)
      BY <3>1 DEF WithoutLastSeparator
    <3>3. Front(file) \in Seq(Items) /\ Len(Front(file)) = 2 * n /\ \A i \in 1..(2 * n) : Front(file)[i] = file[i]
      BY <2>3, <2>5 DEF Front
    <3>4. ASSUME NEW k \in 1..n  PROVE EventAt(Front(file), c, k)
      <4>1. EventAt(file, c, k)
        BY <2>2 DEF HoldsFrom
      <4>2. 2 * k - 1 \in 1..(2 * n) /\ 2 * k \in 1..(2 * n)
        BY <2>3
      <4> QED  BY <3>3, <4>1, <4>2 DEF EventAt
    <3>5. HoldsFrom(Front(file), c, n)
      BY <2>3, <3>3, <3>4 DEF HoldsFrom
    <3> QED  BY <2>3, <3>2, <3>3, <3>5, DocumentsHeld
  <2> QED  BY <2>2, <2>4, <2>5 DEF HoldsFrom
<1>2. LedgerInv /\ [Next]_vars => LedgerInv'
  BY NextPreserves
<1> QED  BY LedgerInvInitially, <1>1, <1>2, PTL DEF Spec

\* What a command has reported as persisted is in the file for ever, and the file loads.
THEOREM SuccessIsDurable ==
  ASSUME MaxActive = 1
  PROVE  Spec => []ReportedMeansDurable
<1>1. LedgerInv => ReportedMeansDurable
  <2> SUFFICES ASSUME LedgerInv, NEW c \in reported, LedgerSize[c] > 0
               PROVE  Loads(file) /\ HoldsFirst(c, LedgerSize[c])
    BY DEF ReportedMeansDurable
  <2>1. Kept(c) /\ c \in Commands /\ LedgerSize[c] \in Nat /\ file \in Seq(Items)
    BY LedgerAssumption DEF LedgerInv, TypeOK
  <2> QED  BY <2>1, DocumentsHeld DEF Kept, HoldsFirst
<1>2. LedgerInv /\ [Next]_vars => LedgerInv'
  BY NextPreserves
<1> QED  BY LedgerInvInitially, <1>1, <1>2, PTL DEF Spec
=================================================================================

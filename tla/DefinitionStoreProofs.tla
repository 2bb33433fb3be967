------------------------ MODULE DefinitionStoreProofs ------------------------
(***************************************************************************)
(* Proofs about the definition store, for every number of saves and every  *)
(* set of documents.  The properties are not inductive: IInv adds what a   *)
(* save knows of its own text, its temporary file and, while it is alone,  *)
(* of the target and the backup.                                           *)
(***************************************************************************)
EXTENDS DefinitionStore, TLAPS

Validated == Working \ {"called"}

\* A save past the validation holds an accepted text, its temporary file holds
\* that text once written, and only a flushed file is renamed.
TempsOK ==
    \A s \in Savers :
        /\ pc[s] \in Validated => content[s] \in Accepted
        /\ pc[s] \in {"written", "flushed"} => tmp[s] = content[s]
        /\ pc[s] = "flushed" => s \notin unflushed

\* A save that runs alone finds the target as it read it, and the backup as it
\* left it.
BackupsOK ==
    \A s \in Savers :
        /\ pc[s] \in {"idle", "called", "ready"} => previous[s] = Absent
        /\ alone[s] /\ pc[s] \in Working =>
              /\ \A r \in Savers : pc[r] \in Working => r = s
              /\ pc[s] = "truncated" => bak = Torn
              /\ previous[s] # Absent /\ pc[s] # "renamed" /\ pc[s] # "cleanup" =>
                    /\ target = previous[s]
                    /\ pc[s] \notin {"read", "truncated"} => bak = previous[s]

IInv == TypeOK /\ NeverTruncated /\ NoStrayTemp /\ TempsOK /\ BackupsOK

USE DEF Working, Ended, Texts, files

-----------------------------------------------------------------------------

LEMMA InitIInv == Init => IInv
  BY StoreAssumption
  DEF Init, IInv, TypeOK, NeverTruncated, NoStrayTemp, TempsOK, Validated, BackupsOK

\* No step of a save disturbs the types, the wholeness of the target, or what a
\* save knows of its temporary file.
LEMMA SaveKeepsFiles ==
    ASSUME IInv, NEW s \in Savers, Save(s)
    PROVE  TypeOK' /\ NeverTruncated' /\ NoStrayTemp' /\ TempsOK'
<1> USE StoreAssumption DEF IInv, TypeOK, NeverTruncated, NoStrayTemp, TempsOK, Validated, Move
<1>1. ASSUME NEW text \in Documents, Call(s, text)
      PROVE  TypeOK' /\ NeverTruncated' /\ NoStrayTemp' /\ TempsOK'
  BY <1>1 DEF Call
<1>2. CASE Refuse(s) \/ MakeRoot(s) \/ Succeed(s)
  BY <1>2 DEF Refuse, MakeRoot, Succeed
<1>3. CASE ReadOld(s) \/ TruncateBackup(s)
  BY <1>3 DEF ReadOld, TruncateBackup
<1>4. CASE WriteBackup(s)
  BY <1>4 DEF WriteBackup
<1>5. CASE CreateTemp(s) \/ RemoveTemp(s)
  BY <1>5 DEF CreateTemp, RemoveTemp
<1>6. CASE WriteTemp(s)
  BY <1>6 DEF WriteTemp
<1>7. CASE FlushTemp(s)
  BY <1>7 DEF FlushTemp
<1>8. CASE Rename(s)
  BY <1>8 DEF Rename
<1>9. QED
  BY <1>1, <1>2, <1>3, <1>4, <1>5, <1>6, <1>7, <1>8 DEF Save

\* No step of a save disturbs what a save that is alone knows.
LEMMA SaveKeepsBackups ==
    ASSUME IInv, NEW s \in Savers, Save(s)
    PROVE  BackupsOK'
<1> USE StoreAssumption DEF IInv, TypeOK, BackupsOK, Move
<1>1. ASSUME NEW text \in Documents, Call(s, text)
      PROVE  BackupsOK'
  BY ZenonT(60), <1>1 DEF Call, Running
<1>2. CASE Refuse(s) \/ MakeRoot(s) \/ Succeed(s)
  BY <1>2 DEF Refuse, MakeRoot, Succeed
<1>3. CASE ReadOld(s)
  BY <1>3 DEF ReadOld
<1>4. CASE TruncateBackup(s)
  BY <1>4 DEF TruncateBackup
<1>5. CASE WriteBackup(s)
  BY <1>5 DEF WriteBackup
<1>6. CASE CreateTemp(s) \/ WriteTemp(s) \/ FlushTemp(s) \/ RemoveTemp(s)
  BY <1>6 DEF CreateTemp, WriteTemp, FlushTemp, RemoveTemp
<1>7. CASE Rename(s)
  BY <1>7 DEF Rename
<1>8. QED
  BY <1>1, <1>2, <1>3, <1>4, <1>5, <1>6, <1>7 DEF Save

\* The death of some saves' process, and of the machine.
LEMMA FaultsKeepIInv ==
    ASSUME IInv, (\E S \in SUBSET Running : ProcessDies(S)) \/ PowerLoss
    PROVE  IInv'
<1> USE StoreAssumption
    DEF IInv, TypeOK, NeverTruncated, NoStrayTemp, TempsOK, Validated, BackupsOK, Running, Gone
<1>1. ASSUME NEW S \in SUBSET Running, ProcessDies(S)
      PROVE  IInv'
  BY <1>1 DEF ProcessDies
<1>2. CASE PowerLoss
  BY <1>2 DEF PowerLoss
<1>3. QED
  BY <1>1, <1>2

LEMMA NextIInv == IInv /\ [Next]_vars => IInv'
<1>1. CASE UNCHANGED vars
  BY <1>1
  DEF vars, IInv, TypeOK, NeverTruncated, NoStrayTemp, TempsOK, Validated, BackupsOK, Running
<1>2. QED
  BY <1>1, SaveKeepsFiles, SaveKeepsBackups, FaultsKeepIInv DEF Next, IInv

LEMMA Inductive == Spec => []IInv
  BY InitIInv, NextIInv, PTL DEF Spec

\* A text the validation refuses reaches none of the files.
THEOREM TypeCorrect == Spec => []TypeOK
<1>1. IInv => TypeOK
  BY DEF IInv
<1>2. QED
  BY <1>1, Inductive, PTL

\* No interleaving of saves, deaths and power losses leaves rules.yaml (or
\* catalog.json) other than a whole, accepted document.
THEOREM WholeDocuments == Spec => []NeverTruncated
<1>1. IInv => NeverTruncated
  BY DEF IInv
<1>2. QED
  BY <1>1, Inductive, PTL

\* Only the death of its process, or a removal that failed, makes a save leave its temporary
\* file behind.
THEOREM TempsAreRemoved == Spec => []NoStrayTemp
<1>1. IInv => NoStrayTemp
  BY DEF IInv
<1>2. QED
  BY <1>1, Inductive, PTL

\* The backup holds the document that a save without company replaces.
THEOREM BackedUpWhenAlone == Spec => ReplacedIsBackedUp
<1> DEFINE Kept == \A s \in Savers :
              pc[s] = "flushed" /\ pc'[s] = "renamed" /\ alone[s] /\ previous[s] # Absent
                 => bak = target
<1>1. IInv => Kept
  BY DEF IInv, BackupsOK
<1>2. IInv /\ [Next]_vars => [Kept]_vars
  BY <1>1
<1>3. QED
  BY <1>2, Inductive, PTL DEF Spec, ReplacedIsBackedUp

-----------------------------------------------------------------------------
(* The store implements AtomicDocument.                                      *)

LEMMA InitRefines == Init => Atomic!Init
  BY DEF Init, Atomic!Init, Stage

\* Each step of a save is the step of the atomic document its stage names, or
\* changes nothing the atomic document shows.
LEMMA SaveRefines ==
    ASSUME IInv, NEW s \in Savers, Save(s)
    PROVE  Atomic!Next \/ UNCHANGED Atomic!vars
<1> USE DEF IInv, TypeOK, Move, Stage, Atomic!vars
<1> DEFINE Unseen == UNCHANGED <<target, device, content>>
<1>1. ASSUME NEW text \in Documents, Call(s, text)
      PROVE  Atomic!Request(s, text)
  BY <1>1 DEF Call, Atomic!Request
\* A step within the pending stage shows nothing, and one that ends it shows
\* the failure.
<1>2. ASSUME NEW from \in Working \ {"renamed"}, NEW to \in Working \ {"renamed"},
             Move(s, from, to), Unseen
      PROVE  UNCHANGED Atomic!vars
  BY <1>2
<1>3. ASSUME NEW from \in Working \ {"renamed"}, NEW to \in {"failed", "littered"},
             Move(s, from, to), Unseen
      PROVE  Atomic!Fail(s)
  BY <1>3 DEF Atomic!Fail
<1>4. CASE Refuse(s) \/ MakeRoot(s) \/ ReadOld(s)
  <2>1. Unseen
    BY <1>4 DEF Refuse, MakeRoot, ReadOld
  <2>2. \/ Move(s, "called", "failed")
        \/ Move(s, "called", "ready")
        \/ Move(s, "ready", "read") \/ Move(s, "ready", "backed")
    BY <1>4 DEF Refuse, MakeRoot, ReadOld
  <2>3. QED
    BY <2>1, <2>2, <1>2, <1>3 DEF Atomic!Next
<1>5. CASE TruncateBackup(s) \/ WriteBackup(s) \/ CreateTemp(s)
  <2>1. Unseen
    BY <1>5 DEF TruncateBackup, WriteBackup, CreateTemp
  <2>2. \/ Move(s, "read", "truncated") \/ Move(s, "read", "failed")
        \/ Move(s, "truncated", "backed") \/ Move(s, "truncated", "failed")
        \/ Move(s, "backed", "created") \/ Move(s, "backed", "failed")
    BY <1>5 DEF TruncateBackup, WriteBackup, CreateTemp
  <2>3. QED
    BY <2>1, <2>2, <1>2, <1>3 DEF Atomic!Next
<1>6. CASE WriteTemp(s) \/ FlushTemp(s) \/ RemoveTemp(s)
  <2>1. Unseen
    BY <1>6 DEF WriteTemp, FlushTemp, RemoveTemp
  <2>2. \/ Move(s, "created", "written") \/ Move(s, "created", "cleanup")
        \/ Move(s, "written", "flushed") \/ Move(s, "written", "cleanup")
        \/ Move(s, "cleanup", "failed") \/ Move(s, "cleanup", "littered")
    BY <1>6 DEF WriteTemp, FlushTemp, RemoveTemp
  <2>3. QED
    BY <2>1, <2>2, <1>2, <1>3 DEF Atomic!Next
<1>7. CASE Rename(s)
  <2>1. CASE Move(s, "flushed", "cleanup") /\ UNCHANGED <<target, device, tmp>>
    BY <1>7, <2>1, <1>2 DEF Rename
  <2>2. CASE Move(s, "flushed", "renamed")
    <3>1. content[s] \in Accepted /\ tmp[s] = content[s] /\ s \notin unflushed
      BY <2>2 DEF TempsOK, Validated
    <3>2. target' = content[s] /\ device' = device \cup {content[s]} /\ UNCHANGED content
      BY <1>7, <2>2, <3>1 DEF Rename
    <3>3. Atomic!Commit(s)
      BY <2>2, <3>1, <3>2 DEF Atomic!Commit
    <3>4. QED
      BY <3>3 DEF Atomic!Next
  <2>3. QED
    BY <1>7, <2>1, <2>2 DEF Rename
<1>8. CASE Succeed(s)
  <2>1. Atomic!Succeed(s)
    BY <1>8 DEF Succeed, Atomic!Succeed
  <2>2. QED
    BY <2>1 DEF Atomic!Next
<1>9. QED
  BY <1>1, <1>4, <1>5, <1>6, <1>7, <1>8 DEF Save, Atomic!Next

LEMMA FaultsRefine ==
    ASSUME IInv, (\E S \in SUBSET Running : ProcessDies(S)) \/ PowerLoss
    PROVE  Atomic!Next
<1> USE DEF IInv, TypeOK, Stage, Running, Gone, Atomic!Unanswered, Atomic!Next
<1>1. ASSUME NEW S \in SUBSET Running, ProcessDies(S)
      PROVE  Atomic!Vanish(S) /\ S \in SUBSET Atomic!Unanswered
  BY <1>1 DEF ProcessDies, Atomic!Vanish
<1>2. CASE PowerLoss
  BY <1>2 DEF PowerLoss, Atomic!PowerLoss
<1>3. QED
  BY <1>1, <1>2

\* SaveRuleYAML and InstallCatalog, with all their steps, interleavings and
\* faults, are atomic replacements of one document.
THEOREM StoreIsAtomic == Spec => IsAtomic
<1>1. IInv /\ [Next]_vars => [Atomic!Next]_(Atomic!vars)
  <2>1. CASE UNCHANGED vars
    BY <2>1 DEF vars, Atomic!vars
  <2>2. QED
    BY <2>1, SaveRefines, FaultsRefine DEF Next
<1>2. QED
  BY <1>1, InitRefines, Inductive, PTL DEF Spec, IsAtomic, Atomic!Spec
==============================================================================

--------------------------- MODULE DefinitionStore ---------------------------
(***************************************************************************)
(* How definitions_service.go writes a definition file: SaveRuleYAML for   *)
(* rules.yaml and InstallCatalog for catalog.json take the same steps      *)
(* (validate, make the directory, back up the old file, writeFileAtomic).  *)
(* Saves run concurrently: bound methods of the desktop shell on           *)
(* goroutines of one process, the command line in others.  A process may   *)
(* die between any two steps, and so may the machine, which loses what was *)
(* not flushed.                                                            *)
(***************************************************************************)
CONSTANTS Savers,     \* calls that save, of any process
          Documents,  \* texts an editor or a generator may hand in
          Accepted,   \* those validateRuleYAMLAs / decodeCatalog accept
          Absent,     \* no file
          Torn        \* a file cut short, empty, or mixed from two writes

ASSUME StoreAssumption ==
    /\ Accepted \subseteq Documents
    /\ Absent \notin Documents
    /\ Torn \notin Documents \cup {Absent}

VARIABLES target,    \* rules.yaml (catalog.json)
          device,    \* what the device may hold under that name after a power loss
          bak,       \* rules.yaml.bak, which is never flushed
          tmp,       \* the temporary file of each save
          unflushed, \* saves whose temporary file has not reached the device
          pc,        \* where each save is
          content,   \* the text it was called with
          previous,  \* what its ReadFile of the target returned, Absent if an error
          alone      \* history: no other save has run at the same time

files == <<target, device, bak, tmp, unflushed>>
vars == <<target, device, bak, tmp, unflushed, pc, content, previous, alone>>

Texts == Accepted \cup {Absent, Torn}    \* what a file of the store may hold
Ended == {"saved", "failed", "littered", "gone"}
Working == {"called", "ready", "read", "truncated", "backed",
            "created", "written", "flushed", "renamed", "cleanup"}
Running == {s \in Savers : pc[s] \in Working}

Init ==
    /\ target \in Accepted \cup {Absent}
    /\ device = {target}
    /\ bak = Absent
    /\ tmp = [s \in Savers |-> Absent]
    /\ unflushed = {}
    /\ pc = [s \in Savers |-> "idle"]
    /\ content = [s \in Savers |-> Absent]
    /\ previous = [s \in Savers |-> Absent]
    /\ alone = [s \in Savers |-> FALSE]

Move(s, from, to) == pc[s] = from /\ pc' = [pc EXCEPT ![s] = to]

-----------------------------------------------------------------------------
(* The store with a mistake in it, one definition at a time.                 *)

\* The error of the backup's write is dropped.
WriteBackupUnchecked(s) ==
    /\ Move(s, "truncated", "backed")
    /\ bak' \in {previous[s], Torn}
    /\ UNCHANGED <<target, device, tmp, unflushed, content, previous, alone>>

\* A failed write returns before the deferred removal is in place.
WriteTempLeaky(s) ==
    /\ \/ Move(s, "created", "written") /\ tmp' = [tmp EXCEPT ![s] = content[s]]
       \/ Move(s, "created", "failed") /\ UNCHANGED tmp
    /\ unflushed' = unflushed \cup {s}
    /\ UNCHANGED <<target, device, bak, content, previous, alone>>

\* The error of the rename is dropped.
RenameUnchecked(s) ==
    /\ Move(s, "flushed", "renamed")
    /\ \/ target' = tmp[s] /\ device' = device \cup {tmp[s]}
       \/ UNCHANGED <<target, device>>
    /\ tmp' = [tmp EXCEPT ![s] = Absent]
    /\ UNCHANGED <<bak, unflushed, content, previous, alone>>

-----------------------------------------------------------------------------
(* One save.                                                                 *)

\* The call arrives.
Call(s, text) ==
    /\ Move(s, "idle", "called")
    /\ content' = [content EXCEPT ![s] = text]
    /\ alone' = [r \in Savers |-> IF r = s THEN Running = {} ELSE alone[r] /\ r \notin Running]
    /\ UNCHANGED <<files, previous>>

\* The loader's own validation refuses the text: nothing is touched.
Refuse(s) ==
    /\ Move(s, "called", "failed")
    /\ content[s] \notin Accepted
    /\ UNCHANGED <<files, content, previous, alone>>

\* os.MkdirAll of the definitions root, which may fail.
MakeRoot(s) ==
    /\ content[s] \in Accepted
    /\ Move(s, "called", "ready") \/ Move(s, "called", "failed")
    /\ UNCHANGED <<files, content, previous, alone>>

\* os.ReadFile of the current document; an error of any kind skips the backup.
ReadOld(s) ==
    /\ \/ /\ Move(s, "ready", "read")
          /\ target # Absent
          /\ previous' = [previous EXCEPT ![s] = target]
       \/ Move(s, "ready", "backed") /\ UNCHANGED previous
    /\ UNCHANGED <<files, content, alone>>

\* os.WriteFile of the backup opens it with O_TRUNC, or fails to open it ...
TruncateBackup(s) ==
    /\ \/ Move(s, "read", "truncated") /\ bak' = Torn
       \/ Move(s, "read", "failed") /\ UNCHANGED bak
    /\ UNCHANGED <<target, device, tmp, unflushed, content, previous, alone>>

\* ... and then writes it, over what another save wrote since, or fails.
WriteBackup(s) ==
    /\ \/ /\ Move(s, "truncated", "backed")
          /\ \/ bak' = previous[s]
             \/ bak \notin {previous[s], Torn} /\ bak' = Torn
       \/ Move(s, "truncated", "failed") /\ bak' = Torn
    /\ UNCHANGED <<target, device, tmp, unflushed, content, previous, alone>>

\* writeFileAtomic: os.CreateTemp in the directory of the target.
CreateTemp(s) ==
    /\ \/ Move(s, "backed", "created") /\ tmp' = [tmp EXCEPT ![s] = Torn]
       \/ Move(s, "backed", "failed") /\ UNCHANGED tmp
    /\ UNCHANGED <<target, device, bak, unflushed, content, previous, alone>>

\* tmp.Write; a short write leaves part of the text.
WriteTemp(s) ==
    /\ \/ Move(s, "created", "written") /\ tmp' = [tmp EXCEPT ![s] = content[s]]
       \/ Move(s, "created", "cleanup") /\ UNCHANGED tmp
    /\ unflushed' = unflushed \cup {s}
    /\ UNCHANGED <<target, device, bak, content, previous, alone>>

\* tmp.Chmod, tmp.Sync and tmp.Close, each of which may fail.
FlushTemp(s) ==
    /\ \/ Move(s, "written", "flushed") /\ unflushed' = unflushed \ {s}
       \/ Move(s, "written", "cleanup") /\ UNCHANGED unflushed
    /\ UNCHANGED <<target, device, bak, tmp, content, previous, alone>>

\* os.Rename replaces the target in one step; the directory is not flushed,
\* so the device may hold any of the documents renamed so far.
Rename(s) ==
    /\ \/ /\ Move(s, "flushed", "renamed")
          /\ target' = tmp[s]
          /\ device' = device \cup {tmp[s]} \cup (IF s \in unflushed THEN {Torn} ELSE {})
          /\ tmp' = [tmp EXCEPT ![s] = Absent]
       \/ Move(s, "flushed", "cleanup") /\ UNCHANGED <<target, device, tmp>>
    /\ UNCHANGED <<bak, unflushed, content, previous, alone>>

\* The deferred Close and Remove after a failed write.  The error of Remove is ignored:
\* the call reports the failed write and the temporary file stays.
RemoveTemp(s) ==
    /\ \/ Move(s, "cleanup", "failed") /\ tmp' = [tmp EXCEPT ![s] = Absent]
       \/ Move(s, "cleanup", "littered") /\ UNCHANGED tmp
    /\ UNCHANGED <<target, device, bak, unflushed, content, previous, alone>>

\* The call returns Saved.
Succeed(s) ==
    /\ Move(s, "renamed", "saved")
    /\ UNCHANGED <<files, content, previous, alone>>

-----------------------------------------------------------------------------
(* Faults.                                                                   *)

Gone(S) == pc' = [s \in Savers |-> IF s \in S THEN "gone" ELSE pc[s]]

\* A process dies with the saves it runs; its files stay as they are.
ProcessDies(S) ==
    /\ S # {}
    /\ Gone(S)
    /\ UNCHANGED <<files, content, previous, alone>>

\* The machine stops.  The backup was never flushed and may be cut short.
PowerLoss ==
    /\ Gone(Running)
    /\ target' \in device
    /\ device' = {target'}
    /\ bak' \in {bak} \cup (IF bak = Absent THEN {} ELSE {Torn})
    /\ UNCHANGED <<tmp, unflushed, content, previous, alone>>

Save(s) ==
    \/ \E text \in Documents : Call(s, text)
    \/ Refuse(s) \/ MakeRoot(s) \/ ReadOld(s) \/ TruncateBackup(s) \/ WriteBackup(s)
    \/ CreateTemp(s) \/ WriteTemp(s) \/ FlushTemp(s) \/ Rename(s) \/ RemoveTemp(s)
    \/ Succeed(s)

Next ==
    \/ \E s \in Savers : Save(s)
    \/ \E S \in SUBSET Running : ProcessDies(S)
    \/ PowerLoss

Spec == Init /\ [][Next]_vars

-----------------------------------------------------------------------------
(* Properties.                                                               *)

\* The variables have their types; the one of the files says that a text the
\* validation refuses never reaches any of them, temporary files included.
TypeOK ==
    /\ target \in Texts
    /\ device \subseteq Texts
    /\ bak \in Texts
    /\ tmp \in [Savers -> Texts]
    /\ unflushed \subseteq Savers
    /\ pc \in [Savers -> {"idle"} \cup Working \cup Ended]
    /\ content \in [Savers -> Documents \cup {Absent}]
    /\ previous \in [Savers -> Texts]
    /\ alone \in [Savers -> BOOLEAN]

\* "An interrupted save can never truncate a working rules file": whatever
\* interleaving of saves, process deaths and power losses, the file and
\* everything the device may hold under its name is a whole document the
\* loader accepts.  It rests on the order validate, write, Sync, Rename.
NeverTruncated ==
    /\ target \in device
    /\ device \subseteq Accepted \cup {Absent}

\* A temporary file remains only while its save is writing it, after that save's process
\* died, or after its removal was tried and failed: every error path of writeFileAtomic
\* tries it.
NoStrayTemp ==
    \A s \in Savers :
       tmp[s] # Absent =>
          pc[s] \in {"created", "written", "flushed", "cleanup", "gone", "littered"}

\* "The previous content is preserved as rules.yaml.bak": a save that read the
\* old document and that no other save overlapped replaces it only when the
\* backup holds exactly that document.  Overlapping saves, and a document that
\* ReadFile cannot read, lose it.
ReplacedIsBackedUp ==
    [][\A s \in Savers :
          pc[s] = "flushed" /\ pc'[s] = "renamed" /\ alone[s] /\ previous[s] # Absent
             => bak = target]_vars

Stage(label) ==
    CASE label \in Working \ {"renamed"} -> "pending"
      [] label = "renamed" -> "committed"
      [] label = "littered" -> "failed"
      [] OTHER -> label

Atomic == INSTANCE AtomicDocument WITH
             doc <- target, stage <- [s \in Savers |-> Stage(pc[s])], arg <- content

\* Saves through backup, temporary file and rename are atomic replacements
\* of one document by accepted ones, answered after they took effect.
IsAtomic == Atomic!Spec
==============================================================================

--------------------------- MODULE AtomicDocument ----------------------------
(***************************************************************************)
(* What SaveRuleYAML and InstallCatalog promise of one definition file:    *)
(* a document that whole, accepted documents replace in one step.  A save  *)
(* that fails or is interrupted leaves the old document or the new one,    *)
(* never a part of either, and a save reports success only after its       *)
(* document took effect.  Nothing is promised about the directory entry    *)
(* reaching the device: a power loss may bring an earlier document back.   *)
(***************************************************************************)
CONSTANTS Savers,     \* calls that save, of any process
          Documents,  \* texts an editor or a generator may hand in
          Accepted,   \* those the loader's validation accepts
          Absent      \* no file

VARIABLES doc,     \* the document in effect
          device,  \* the documents a power loss may leave in effect
          stage,   \* where each save is
          arg      \* the text each save was called with

vars == <<doc, device, stage, arg>>

Init ==
    /\ doc \in Accepted \cup {Absent}
    /\ device = {doc}
    /\ stage = [s \in Savers |-> "idle"]
    /\ arg = [s \in Savers |-> Absent]

Request(s, text) ==
    /\ stage[s] = "idle"
    /\ stage' = [stage EXCEPT ![s] = "pending"]
    /\ arg' = [arg EXCEPT ![s] = text]
    /\ UNCHANGED <<doc, device>>

Commit(s) ==
    /\ stage[s] = "pending"
    /\ arg[s] \in Accepted
    /\ doc' = arg[s]
    /\ device' = device \cup {arg[s]}
    /\ stage' = [stage EXCEPT ![s] = "committed"]
    /\ UNCHANGED arg

Succeed(s) ==
    /\ stage[s] = "committed"
    /\ stage' = [stage EXCEPT ![s] = "saved"]
    /\ UNCHANGED <<doc, device, arg>>

Fail(s) ==
    /\ stage[s] = "pending"
    /\ stage' = [stage EXCEPT ![s] = "failed"]
    /\ UNCHANGED <<doc, device, arg>>

Unanswered == {s \in Savers : stage[s] \in {"pending", "committed"}}

\* The processes of some calls die: what is in effect stays.
Vanish(S) ==
    /\ stage' = [s \in Savers |-> IF s \in S THEN "gone" ELSE stage[s]]
    /\ UNCHANGED <<doc, device, arg>>

\* The machine stops.
PowerLoss ==
    /\ stage' = [s \in Savers |-> IF s \in Unanswered THEN "gone" ELSE stage[s]]
    /\ doc' \in device
    /\ device' = {doc'}
    /\ UNCHANGED arg

Next ==
    \/ \E s \in Savers :
          \/ \E text \in Documents : Request(s, text)
          \/ Commit(s)
          \/ Succeed(s)
          \/ Fail(s)
    \/ \E S \in SUBSET Unanswered : Vanish(S)
    \/ PowerLoss

Spec == Init /\ [][Next]_vars
==============================================================================

------------------------------ MODULE RuleEditor ------------------------------
(***************************************************************************)
(* The rule editor of the desktop shell: the hook useRuleEditor, as        *)
(* RuleEditorPanel drives it, over the rules.yaml of every scope.  The     *)
(* shell is single threaded: an event handler or the continuation of an    *)
(* await is one step.  A backend call runs on a goroutine of its own, so   *)
(* that calls take effect and answer in any order.  A save replaces its    *)
(* file in one step, as DefinitionStore shows.  Left out: the Validate     *)
(* button and the display of verdicts, which feed nothing else.            *)
(***************************************************************************)
EXTENDS Naturals, DefinitionScopes

CONSTANTS Texts,       \* contents of the editor
          Empty,       \* the empty one
          Valid,       \* those the loader's parser accepts
          NoDoc,       \* the scope has no rules.yaml
          MaxCalls     \* bound: backend calls in flight

ASSUME EditorAssumption ==
    /\ Empty \in Texts /\ Valid \subseteq Texts
    /\ NoDoc \notin Texts
    /\ Nothing \notin Texts \cup {NoDoc} \cup Scopes
    /\ MaxCalls \in Nat \ {0}

VARIABLES disk,   \* rules.yaml of each scope
          ui,     \* the state of the hook
          calls,  \* backend calls in flight
          past    \* history the properties refer to

vars == <<disk, ui, calls, past>>

CallIds == 1..MaxCalls
Docs == Texts \cup {NoDoc}
NoCall == [kind |-> "none", stage |-> "free", scope |-> Nothing, text |-> Nothing, value |-> Nothing]
Request(k, s, t) == [kind |-> k, stage |-> "sent", scope |-> s, text |-> t, value |-> Nothing]
Calls == [kind : {"none", "load", "save"},
          stage : {"free", "sent", "answered", "refused", "rejected"},
          scope : Scopes \cup {Nothing}, text : Texts \cup {Nothing},
          value : Docs \cup {Nothing}]

\* The text a document gives the editor: doc.exists ? doc.content : ''.
TextOf(doc) == IF doc = NoDoc THEN Empty ELSE doc

Pending(kind) == {c \in CallIds : calls[c].kind = kind}
Outstanding == Pending("load") \cup Pending("save")

Send(k, s, t) ==
    \E c \in CallIds :
       /\ calls[c] = NoCall /\ \A b \in 1..c-1 : calls[b] # NoCall
       /\ calls' = [calls EXCEPT ![c] = Request(k, s, t)]

\* The hook loads the first scope's document when it mounts.
Init ==
    /\ disk \in [Scopes -> Docs]
    /\ ui = [scope |-> FirstScope, content |-> Empty,
             loaded |-> Empty,        \* loadedRef: the text last read or written
             docScope |-> Nothing,    \* the scope whose path the panel names
             docExists |-> FALSE, docLoading |-> TRUE,
             saving |-> FALSE]
    /\ calls = [c \in CallIds |->
                  IF c = 1 THEN Request("load", FirstScope, Nothing) ELSE NoCall]
    /\ past = [mixed |-> FALSE,       \* loads and saves overlapped, or one failed
               outside |-> FALSE,     \* another program wrote during a save
               saved |-> NoCall]      \* the last save reported

-----------------------------------------------------------------------------
(* The user.                                                                 *)

\* Mistake: the Save button stays enabled while a save is in flight.
SaveUnguarded ==
    /\ ui' = [ui EXCEPT !.saving = TRUE]
    /\ Send("save", ui.scope, ui.content)
    /\ past' = [past EXCEPT !.mixed = @ \/ Outstanding # {}, !.outside = FALSE]
    /\ UNCHANGED disk

\* The button "Reload from disk".
LoadDocument ==
    /\ ~ui.docLoading
    /\ ui' = [ui EXCEPT !.docLoading = TRUE]
    /\ Send("load", ui.scope, Nothing)
    /\ past' = [past EXCEPT !.mixed = Outstanding # {}]
    /\ UNCHANGED disk

\* A radio button; the effect that depends on the scope loads its document.
SetScope(s) ==
    /\ s # ui.scope
    /\ ui' = [ui EXCEPT !.scope = s, !.docLoading = TRUE]
    /\ Send("load", s, Nothing)
    /\ past' = [past EXCEPT !.mixed = Outstanding # {}]
    /\ UNCHANGED disk

\* Typing.
SetContent(t) ==
    /\ t # ui.content
    /\ ui' = [ui EXCEPT !.content = t]
    /\ UNCHANGED <<disk, calls, past>>

InsertTemplate(t) ==
    /\ t # Empty
    /\ ui' = [ui EXCEPT !.content = t]
    /\ UNCHANGED <<disk, calls, past>>

Save ==
    /\ ~ui.saving
    /\ ui' = [ui EXCEPT !.saving = TRUE]
    /\ Send("save", ui.scope, ui.content)
    /\ past' = [past EXCEPT !.mixed = @ \/ Outstanding # {}, !.outside = FALSE]
    /\ UNCHANGED disk

-----------------------------------------------------------------------------
(* The backend, and other programs that write the files.                     *)

Settled(call, stage, value) == [call EXCEPT !.stage = stage, !.value = value]

Settle(c, stage, value) ==
    /\ calls[c].stage = "sent"
    /\ calls' = [calls EXCEPT ![c] = Settled(calls[c], stage, value)]
    /\ UNCHANGED <<ui, past>>

Read(c) ==
    /\ calls[c].kind = "load"
    /\ Settle(c, "answered", disk[calls[c].scope])
    /\ UNCHANGED disk

\* SaveRuleYAML refuses what the parser does not accept.
Write(c) ==
    /\ calls[c].kind = "save"
    /\ IF calls[c].text \in Valid
         THEN /\ disk' = [disk EXCEPT ![calls[c].scope] = calls[c].text]
              /\ Settle(c, "answered", Nothing)
         ELSE UNCHANGED disk /\ Settle(c, "refused", Nothing)

\* The file cannot be read or written.
Reject(c) ==
    /\ calls[c].kind \in {"load", "save"}
    /\ Settle(c, "rejected", Nothing)
    /\ UNCHANGED disk

WriteOutside(s, doc) ==
    /\ doc # disk[s]
    /\ disk' = [disk EXCEPT ![s] = doc]
    /\ past' = [past EXCEPT !.mixed = TRUE, !.saved = IF @.scope = s THEN NoCall ELSE @,
                            !.outside = Pending("save") # {}]
    /\ UNCHANGED <<ui, calls>>

-----------------------------------------------------------------------------
(* The continuations of the hooks.                                           *)

Receive(c, kind, stage) ==
    /\ calls[c].kind = kind /\ calls[c].stage = stage
    /\ calls' = [calls EXCEPT ![c] = NoCall]
    /\ UNCHANGED disk

LoadAnswered(c) ==
    LET doc == calls[c].value IN
    /\ Receive(c, "load", "answered")
    /\ ui' = [ui EXCEPT !.docScope = calls[c].scope, !.docExists = (doc # NoDoc),
                        !.loaded = TextOf(doc), !.content = TextOf(doc),
                        !.docLoading = FALSE]
    /\ UNCHANGED past

\* Mistake: docLoading is reset after the await, not in a finally.
LoadRejectedStuck(c) ==
    /\ Receive(c, "load", "rejected")
    /\ past' = [past EXCEPT !.mixed = TRUE]
    /\ UNCHANGED ui

LoadRejected(c) ==
    /\ Receive(c, "load", "rejected")
    /\ ui' = [ui EXCEPT !.docLoading = FALSE]
    /\ past' = [past EXCEPT !.mixed = TRUE]

\* Mistake: loadedRef is not told of the save.
SaveAnsweredDirty(c) ==
    /\ Receive(c, "save", "answered")
    /\ ui' = [ui EXCEPT !.docExists = TRUE, !.saving = FALSE]
    /\ past' = [past EXCEPT !.saved = IF past.outside THEN NoCall ELSE calls[c]]

SaveAnswered(c) ==
    /\ Receive(c, "save", "answered")
    /\ ui' = [ui EXCEPT !.loaded = calls[c].text, !.docExists = TRUE, !.saving = FALSE]
    /\ past' = [past EXCEPT !.saved = IF past.outside THEN NoCall ELSE calls[c]]

SaveRefused(c) ==
    /\ Receive(c, "save", "refused")
    /\ ui' = [ui EXCEPT !.saving = FALSE]
    /\ UNCHANGED past

SaveRejected(c) ==
    /\ Receive(c, "save", "rejected")
    /\ ui' = [ui EXCEPT !.saving = FALSE]
    /\ UNCHANGED past

-----------------------------------------------------------------------------

User ==
    \/ LoadDocument \/ Save
    \/ \E s \in Scopes : SetScope(s)
    \/ \E t \in Texts : SetContent(t) \/ InsertTemplate(t)

Backend(c) == Read(c) \/ Write(c) \/ Reject(c)

Continue(c) ==
    \/ LoadAnswered(c) \/ LoadRejected(c)
    \/ SaveAnswered(c) \/ SaveRefused(c) \/ SaveRejected(c)

Next ==
    \/ User
    \/ \E c \in CallIds : Backend(c) \/ Continue(c)
    \/ \E s \in Scopes, doc \in Docs : WriteOutside(s, doc)

Spec == Init /\ [][Next]_vars

-----------------------------------------------------------------------------
(* Properties.                                                               *)

\* The state has its types; that of the editor's text says that a missing
\* document is never mistaken for a text.
TypeOK ==
    /\ disk \in [Scopes -> Docs]
    /\ ui \in [scope : Scopes, content : Texts, loaded : Texts,
               docScope : Scopes \cup {Nothing}, docExists : BOOLEAN,
               docLoading : BOOLEAN, saving : BOOLEAN]
    /\ calls \in [CallIds -> Calls]
    /\ past \in [mixed : BOOLEAN, outside : BOOLEAN, saved : Calls]

\* Once loads and saves have settled, the dirty flag and the panel's caption
\* tell the truth about the selected scope's file, unless calls overlapped, a
\* load failed or another program wrote the file; and a reload that nothing
\* overlaps makes them true again.
QuietEditorIsHonest ==
    Outstanding = {} /\ ~past.mixed =>
       /\ ui.docScope = ui.scope
       /\ ui.docExists = (disk[ui.scope] # NoDoc)
       /\ ui.loaded = TextOf(disk[ui.scope])

\* Saves take effect in the order of the clicks: once settled, the file
\* holds the text of the last save the editor reported.
SavesTakeEffectInOrder ==
    Pending("save") = {} =>
       (past.saved # NoCall => disk[past.saved.scope] = past.saved.text)

\* No button stays disabled for ever: whatever the order of answers and
\* errors, an editor that is saving or loading has a call to wait for, and at
\* most one save is ever in flight.
EveryWaitHasACall ==
    /\ ui.docLoading => Pending("load") # {}
    /\ ui.saving <=> Pending("save") # {}
    /\ \A b, c \in Pending("save") : b = c

==============================================================================

----------------------------- MODULE StudioProofs -----------------------------
(***************************************************************************)
(* Proofs about the Definitions Studio: the rule editor, for every set of  *)
(* scopes and texts and any number of calls in flight, and the hooks       *)
(* around it, for any definitions and any number of reloads and dry runs.  *)
(* The properties of the editor are not inductive: IInv says what a call   *)
(* carries at each stage, and what an answer still to be received will     *)
(* find true.                                                              *)
(***************************************************************************)
EXTENDS RuleEditor, DefinitionsStudio, TLAPS

\* A free slot is empty, and a call knows its scope, its text and its answer.
CallsOK ==
    \A c \in CallIds :
        /\ calls[c].kind = "none" => calls[c] = NoCall
        /\ calls[c].kind # "none" => calls[c].scope \in Scopes /\ calls[c].stage # "free"
        /\ calls[c].kind = "save" => calls[c].text \in Texts
        /\ calls[c].kind = "load" /\ calls[c].stage = "answered" => calls[c].value \in Docs

Live(c) == calls[c].kind \in {"load", "save"}

\* The panel and the dirty flag are true of scope s.
Honest(s) ==
    /\ ui.docScope = s
    /\ ui.docExists = (disk[s] # NoDoc)
    /\ ui.loaded = TextOf(disk[s])

\* While nothing was mixed, the one call in flight will leave the editor honest.
Unmixed ==
    ~past.mixed =>
        /\ \A b, c \in CallIds : Live(b) /\ Live(c) => b = c
        /\ (\A c \in CallIds : ~Live(c)) => Honest(ui.scope)
        /\ \A c \in CallIds : Live(c) =>
              /\ calls[c].scope = ui.scope
              /\ calls[c].kind = "load" /\ calls[c].stage = "answered" =>
                    calls[c].value = disk[ui.scope]
              /\ calls[c].kind = "save" /\ calls[c].stage # "answered" => Honest(ui.scope)
              /\ calls[c].kind = "save" /\ calls[c].stage = "answered" =>
                    disk[ui.scope] = calls[c].text /\ ui.docScope = ui.scope

\* A save that took effect is still on disk, unless another program wrote.
SavesOK ==
    /\ past.saved # NoCall => past.saved.scope \in Scopes /\ past.saved.kind = "save"
    /\ past.saved # NoCall /\ (\A c \in Pending("save") : calls[c].stage # "answered") =>
          disk[past.saved.scope] = past.saved.text
    /\ \A c \in Pending("save") :
          calls[c].stage = "answered" /\ ~past.outside => disk[calls[c].scope] = calls[c].text

IInv == TypeOK /\ CallsOK /\ EveryWaitHasACall /\ Unmixed /\ SavesOK

USE EditorAssumption, ScopesAssumption DEF Docs, CallIds, Pending, Live

LEMMA OutstandingIsLive == Outstanding = {} <=> \A c \in CallIds : ~Live(c)
  BY DEF Outstanding

-----------------------------------------------------------------------------
(* What a step does to the calls in flight.                                  *)

LEMMA NoCallFields ==
    /\ NoCall \in Calls
    /\ NoCall.kind = "none"
  BY DEF NoCall, Calls

LEMMA RequestFields ==
    ASSUME NEW k \in {"load", "save"}, NEW s \in Scopes, NEW t \in Texts \cup {Nothing}
    PROVE  LET call == Request(k, s, t) IN
           call \in Calls /\ call.kind = k /\ call.stage = "sent" /\ call.scope = s /\ call.text = t
  BY DEF Request, Calls

LEMMA SettledIsCall ==
    ASSUME NEW call \in Calls, NEW stage \in {"answered", "refused", "rejected"},
           NEW value \in Docs \cup {Nothing}
    PROVE  Settled(call, stage, value) \in Calls
  BY DEF Settled, Calls

Others(c) == \A b \in CallIds : b # c => calls'[b] = calls[b]

\* Sending a call fills one free slot.
LEMMA SendFills ==
    ASSUME TypeOK, NEW k \in {"load", "save"}, NEW s \in Scopes,
           NEW t \in Texts \cup {Nothing}, Send(k, s, t)
    PROVE  /\ calls' \in [CallIds -> Calls]
           /\ \E c \in CallIds :
                 /\ Others(c) /\ calls[c].kind = "none"
                 /\ calls'[c].kind = k /\ calls'[c].stage = "sent"
                 /\ calls'[c].scope = s /\ calls'[c].text = t
<1>1. PICK c \in CallIds : calls[c] = NoCall /\ calls' = [calls EXCEPT ![c] = Request(k, s, t)]
  BY DEF Send
<1>2. calls' \in [CallIds -> Calls]
  BY <1>1, RequestFields DEF TypeOK
<1>3. calls'[c] = Request(k, s, t) /\ Others(c)
  BY <1>1 DEF TypeOK, Others
<1>4. QED
  BY <1>1, <1>2, <1>3, NoCallFields, RequestFields

\* The backend settles one call.
LEMMA SettleSettles ==
    ASSUME TypeOK, NEW c \in CallIds, NEW stage \in {"answered", "refused", "rejected"},
           NEW value \in Docs \cup {Nothing}, Settle(c, stage, value)
    PROVE  /\ calls' \in [CallIds -> Calls]
           /\ Others(c) /\ calls[c].stage = "sent"
           /\ calls'[c].kind = calls[c].kind /\ calls'[c].scope = calls[c].scope
           /\ calls'[c].text = calls[c].text
           /\ calls'[c].stage = stage /\ calls'[c].value = value
<1>1. calls[c] \in Calls
  BY DEF TypeOK
<1>2. calls'[c] = Settled(calls[c], stage, value) /\ Others(c) /\ calls[c].stage = "sent"
  BY DEF Settle, TypeOK, Others
<1>3. Settled(calls[c], stage, value) \in Calls
  BY <1>1, SettledIsCall
<1>4. calls' \in [CallIds -> Calls]
  BY <1>3 DEF Settle, TypeOK
<1> DEFINE new == Settled(calls[c], stage, value)
<1>5. /\ new.kind = calls[c].kind /\ new.scope = calls[c].scope
      /\ new.text = calls[c].text /\ new.stage = stage /\ new.value = value
  BY <1>1 DEF Settled, Calls
<1>6. calls'[c] = new
  BY <1>2
<1> HIDE DEF new
<1>7. QED
  BY <1>2, <1>4, <1>5, <1>6

\* A continuation empties the slot of its call.
LEMMA ReceiveEmpties ==
    ASSUME TypeOK, NEW c \in CallIds, NEW kind, NEW stage, Receive(c, kind, stage)
    PROVE  /\ calls' \in [CallIds -> Calls]
           /\ Others(c) /\ calls'[c] = NoCall /\ calls'[c].kind = "none"
  BY NoCallFields DEF Receive, TypeOK, Others

-----------------------------------------------------------------------------

LEMMA InitIInv == Init => IInv
<1> SUFFICES ASSUME Init
             PROVE  IInv
  OBVIOUS
<1> USE NoCallFields, RequestFields DEF Init
<1>1. TypeOK
  BY DEF TypeOK
<1>2. \A c \in CallIds : IF c = 1 THEN /\ calls[c].kind = "load" /\ calls[c].stage = "sent"
                                       /\ calls[c].scope = ui.scope
                                  ELSE calls[c] = NoCall /\ calls[c].kind = "none"
  OBVIOUS
<1>3. 1 \in CallIds /\ ui.docLoading = TRUE /\ ui.saving = FALSE /\ past.saved = NoCall
  OBVIOUS
<1>4. CallsOK
  BY <1>2 DEF CallsOK
<1> HIDE DEF Init
<1>5. calls[1].kind = "load" /\ \A c \in CallIds : calls[c].kind = "load" <=> c = 1
  BY <1>2, <1>3
<1>6. \A c \in CallIds : calls[c].kind # "save"
  BY <1>2
<1>7. EveryWaitHasACall
  BY <1>3, <1>5, <1>6 DEF EveryWaitHasACall
<1>8. SavesOK
  BY <1>3, <1>6 DEF SavesOK
<1>9. Unmixed
  BY <1>2, <1>3, <1>5, <1>6 DEF Unmixed
<1>10. QED
  BY <1>1, <1>4, <1>7, <1>8, <1>9 DEF IInv

LEMMA SendsKeepIInv ==
    ASSUME IInv, LoadDocument \/ Save \/ \E s \in Scopes : SetScope(s)
    PROVE  IInv'
<1> USE DEF IInv
<1>1. TypeOK'
  <2>1. calls' \in [CallIds -> Calls]
    BY SendFills DEF LoadDocument, Save, SetScope, TypeOK
  <2>2. CASE LoadDocument
    BY <2>1, <2>2 DEF LoadDocument, TypeOK
  <2>3. CASE Save
    BY <2>1, <2>3 DEF Save, TypeOK
  <2>4. ASSUME NEW s \in Scopes, SetScope(s)
        PROVE  TypeOK'
    BY <2>1, <2>4 DEF SetScope, TypeOK
  <2>5. QED
    BY <2>2, <2>3, <2>4
<1>2. ASSUME NEW s \in Scopes, (LoadDocument /\ s = ui.scope) \/ SetScope(s)
      PROVE  CallsOK' /\ EveryWaitHasACall' /\ Unmixed' /\ SavesOK'
  <2>1. PICK c \in CallIds : /\ Others(c) /\ calls[c].kind = "none"
                             /\ calls'[c].kind = "load" /\ calls'[c].stage = "sent"
                             /\ calls'[c].scope = s
    <3>1. Send("load", s, Nothing)
      BY <1>2 DEF LoadDocument, SetScope
    <3>2. QED
      BY <3>1, SendFills
  <2>2. /\ ui'.scope = s /\ ui'.docLoading = TRUE /\ ui'.saving = ui.saving
        /\ past'.mixed = (Outstanding # {}) /\ past'.outside = past.outside
        /\ past'.saved = past.saved /\ disk' = disk
    <3>1. CASE LoadDocument /\ s = ui.scope
      BY <3>1 DEF LoadDocument, TypeOK
    <3>2. CASE SetScope(s)
      BY <3>2 DEF SetScope, TypeOK
    <3>3. QED
      BY <1>2, <3>1, <3>2
  <2>0. past'.mixed = FALSE => \A b \in CallIds : ~Live(b)
    BY <2>2, OutstandingIsLive
  <2>3. CallsOK' /\ EveryWaitHasACall'
    BY <2>1, <2>2 DEF Others, CallsOK, EveryWaitHasACall
  <2>4. Unmixed'
    BY <2>1, <2>2, <2>0 DEF Others, Unmixed
  <2>5. SavesOK'
    BY <2>1, <2>2 DEF Others, SavesOK
  <2>6. QED
    BY <2>3, <2>4, <2>5
<1>3. ASSUME Save
      PROVE  CallsOK' /\ EveryWaitHasACall' /\ Unmixed' /\ SavesOK'
  <2>1. PICK c \in CallIds : /\ Others(c) /\ calls[c].kind = "none"
                             /\ calls'[c].kind = "save" /\ calls'[c].stage = "sent"
                             /\ calls'[c].scope = ui.scope /\ calls'[c].text = ui.content
    BY <1>3, SendFills DEF Save, TypeOK
  <2>2. /\ ui.saving = FALSE /\ ui'.saving = TRUE
        /\ \A f \in {"scope", "docScope", "docExists", "loaded", "docLoading"} : ui'[f] = ui[f]
        /\ past'.mixed = (past.mixed \/ Outstanding # {}) /\ past'.outside = FALSE
        /\ past'.saved = past.saved /\ disk' = disk
    BY <1>3 DEF Save, TypeOK
  <2>0. past'.mixed = FALSE => past.mixed = FALSE /\ \A b \in CallIds : ~Live(b)
    BY <2>2, OutstandingIsLive DEF TypeOK
  <2>3. CallsOK'
    BY <2>1 DEF Others, CallsOK, TypeOK
  <2>4. EveryWaitHasACall'
    BY <2>1, <2>2 DEF Others, EveryWaitHasACall
  <2>5. Unmixed'
    BY <2>1, <2>2, <2>0 DEF Others, Unmixed, Honest, TextOf
  <2>6. SavesOK'
    BY <2>1, <2>2 DEF Others, SavesOK, EveryWaitHasACall
  <2>7. QED
    BY <2>3, <2>4, <2>5, <2>6
<1>4. QED
  BY <1>1, <1>2, <1>3 DEF TypeOK

LEMMA EditsKeepIInv ==
    ASSUME IInv, NEW t \in Texts, SetContent(t) \/ InsertTemplate(t)
    PROVE  IInv'
<1>1. /\ TypeOK'
      /\ \A f \in {"scope", "docScope", "docExists", "loaded", "docLoading", "saving"} : ui'[f] = ui[f]
      /\ UNCHANGED <<disk, calls, past>>
  BY DEF SetContent, InsertTemplate, IInv, TypeOK
<1>2. QED
  BY <1>1 DEF IInv, CallsOK, EveryWaitHasACall, Unmixed, SavesOK, Honest, TextOf

LEMMA WritesKeepIInv ==
    ASSUME IInv, (\E c \in CallIds : Backend(c)) \/ \E s \in Scopes, doc \in Docs : WriteOutside(s, doc)
    PROVE  IInv'
<1> USE DEF IInv
<1>1. ASSUME NEW c \in CallIds, Read(c)
      PROVE  IInv'
  <2>1. calls[c].scope \in Scopes /\ disk[calls[c].scope] \in Docs
    BY <1>1 DEF Read, CallsOK, TypeOK
  <2>2. /\ calls' \in [CallIds -> Calls] /\ Others(c)
        /\ calls[c].kind = "load" /\ calls'[c].kind = "load"
        /\ calls'[c].scope = calls[c].scope
        /\ calls'[c].stage = "answered" /\ calls'[c].value = disk[calls[c].scope]
        /\ UNCHANGED <<disk, ui, past>>
    <3>1. Settle(c, "answered", disk[calls[c].scope]) /\ calls[c].kind = "load" /\ UNCHANGED disk
      BY <1>1 DEF Read
    <3>2. UNCHANGED <<ui, past>>
      BY <3>1 DEF Settle
    <3>3. QED
      BY <2>1, <3>1, <3>2, SettleSettles
  <2>0. TypeOK' /\ CallsOK'
    BY <2>1, <2>2 DEF Others, TypeOK, CallsOK
  <2>3. EveryWaitHasACall'
    BY <2>2 DEF Others, EveryWaitHasACall
  <2>4. Unmixed' /\ SavesOK'
    BY <2>1, <2>2 DEF Others, Unmixed, SavesOK, Honest, TextOf
  <2>5. QED
    BY <2>0, <2>3, <2>4
<1>2. ASSUME NEW c \in CallIds, NEW stage \in {"answered", "refused", "rejected"},
             NEW kind \in {"load", "save"},
             calls[c].kind = kind, kind = "load" => stage = "rejected",
             Settle(c, stage, Nothing),
             disk' = IF stage = "answered" THEN [disk EXCEPT ![calls[c].scope] = calls[c].text] ELSE disk
      PROVE  IInv'
  <2>1. /\ calls' \in [CallIds -> Calls] /\ Others(c)
        /\ calls[c].stage = "sent" /\ calls'[c].kind = kind
        /\ calls'[c].scope = calls[c].scope /\ calls'[c].text = calls[c].text
        /\ calls'[c].stage = stage /\ UNCHANGED <<ui, past>>
    BY <1>2, SettleSettles DEF Settle
  <2>2. TypeOK' /\ CallsOK' /\ EveryWaitHasACall'
    <3>1. TypeOK'
      BY <1>2, <2>1 DEF TypeOK, CallsOK
    <3>2. CallsOK'
      BY <1>2, <2>1 DEF Others, CallsOK
    <3>3. EveryWaitHasACall'
      BY <1>2, <2>1 DEF Others, EveryWaitHasACall
    <3>4. QED
      BY <3>1, <3>2, <3>3
  <2>3. Unmixed'
    BY <1>2, <2>1 DEF Others, Unmixed, Honest, TextOf, TypeOK, CallsOK
  <2>4. SavesOK'
    <3>1. CASE stage = "answered"
      <4>1. \A b \in Pending("save") : b = c
        BY <1>2, <3>1 DEF EveryWaitHasACall
      <4>2. Pending("save")' = Pending("save") /\ c \in Pending("save")
        BY <1>2, <2>1, <3>1 DEF Others
      <4>3. disk'[calls[c].scope] = calls[c].text
        BY <1>2, <3>1 DEF TypeOK, CallsOK
      <4>4. QED
        BY <2>1, <3>1, <4>1, <4>2, <4>3 DEF SavesOK
    <3>2. CASE stage # "answered"
      BY <1>2, <2>1, <3>2 DEF Others, SavesOK
    <3>3. QED
      BY <3>1, <3>2
  <2>5. QED
    BY <2>2, <2>3, <2>4
<1>3. ASSUME NEW s \in Scopes, NEW doc \in Docs, WriteOutside(s, doc)
      PROVE  IInv'
  <2>1. /\ past'.mixed = TRUE /\ past'.outside = (Pending("save") # {})
        /\ past'.saved = (IF past.saved.scope = s THEN NoCall ELSE past.saved)
        /\ disk' = [disk EXCEPT ![s] = doc]
        /\ UNCHANGED <<ui, calls>>
    BY <1>3 DEF WriteOutside, TypeOK
  <2>2. TypeOK'
    BY <1>3, NoCallFields DEF WriteOutside, TypeOK
  <2>3. CallsOK' /\ EveryWaitHasACall' /\ Unmixed'
    BY <2>1 DEF CallsOK, EveryWaitHasACall, Unmixed
  <2>4. SavesOK'
    <3>1. CASE past.saved.scope = s
      BY <2>1, <3>1 DEF SavesOK, TypeOK
    <3>2. CASE past.saved.scope # s
      BY <2>1, <3>2 DEF SavesOK, TypeOK
    <3>3. QED
      BY <3>1, <3>2
  <2>5. QED
    BY <2>2, <2>3, <2>4
<1>4. ASSUME NEW c \in CallIds, Write(c) \/ Reject(c)
      PROVE  IInv'
  <2>1. calls[c].kind \in {"load", "save"}
    BY <1>4 DEF Write, Reject
  <2>2. \E stage \in {"answered", "refused", "rejected"} :
           /\ calls[c].kind = "load" => stage = "rejected"
           /\ Settle(c, stage, Nothing)
           /\ disk' = IF stage = "answered" THEN [disk EXCEPT ![calls[c].scope] = calls[c].text]
                                            ELSE disk
    BY <1>4 DEF Write, Reject
  <2>3. QED
    BY <2>1, <2>2, <1>2
<1>5. QED
  BY <1>1, <1>3, <1>4 DEF Backend

LEMMA ContinuationsKeepIInv ==
    ASSUME IInv, NEW c \in CallIds, Continue(c)
    PROVE  IInv'
<1> USE DEF IInv
<1>1. calls' \in [CallIds -> Calls] /\ Others(c) /\ calls'[c] = NoCall /\ calls'[c].kind = "none"
  BY ReceiveEmpties
  DEF Continue, LoadAnswered, LoadRejected, SaveAnswered, SaveRefused, SaveRejected
<1>2. CallsOK' /\ UNCHANGED disk
  BY <1>1
  DEF CallsOK, Others, Continue, LoadAnswered, LoadRejected, SaveAnswered, SaveRefused,
      SaveRejected, Receive
<1>3. CASE LoadAnswered(c)
  <2> DEFINE doc == calls[c].value
  <2>1. calls[c].kind = "load" /\ calls[c].stage = "answered"
    BY <1>3 DEF LoadAnswered, Receive
  <2>2. doc \in Docs /\ TextOf(doc) \in Texts /\ calls[c].scope \in Scopes
    BY <2>1 DEF CallsOK, TextOf
  <2>3. TypeOK'
    BY <1>1, <1>2, <1>3, <2>2 DEF LoadAnswered, TypeOK
  <2>4. /\ ui'.docScope = calls[c].scope /\ ui'.docExists = (doc # NoDoc)
        /\ ui'.loaded = TextOf(doc) /\ ui'.docLoading = FALSE
        /\ ui'.saving = ui.saving /\ ui'.scope = ui.scope
        /\ past'.mixed = past.mixed /\ past'.outside = past.outside /\ past'.saved = past.saved
    BY <1>3 DEF LoadAnswered, TypeOK
  <2>5. EveryWaitHasACall' /\ SavesOK'
    BY <1>1, <1>2, <2>1, <2>4 DEF Others, EveryWaitHasACall, SavesOK
  <2>6. Unmixed'
    BY <1>1, <1>2, <2>1, <2>4 DEF Others, Unmixed, Honest, TextOf
  <2>7. QED
    BY <1>2, <2>3, <2>5, <2>6
<1>4. CASE LoadRejected(c)
  <2>1. /\ calls[c].kind = "load" /\ past'.mixed = TRUE
        /\ past'.outside = past.outside /\ past'.saved = past.saved
        /\ ui'.docLoading = FALSE /\ ui'.saving = ui.saving
    BY <1>4 DEF LoadRejected, Receive, TypeOK
  <2>2. TypeOK'
    BY <1>1, <1>2, <1>4 DEF LoadRejected, TypeOK
  <2>3. EveryWaitHasACall' /\ SavesOK' /\ Unmixed'
    BY <1>1, <1>2, <2>1 DEF Others, EveryWaitHasACall, SavesOK, Unmixed
  <2>4. QED
    BY <1>2, <2>2, <2>3
<1>5. CASE SaveAnswered(c)
  <2>1. calls[c].kind = "save" /\ calls[c].stage = "answered"
        /\ calls[c].text \in Texts /\ calls[c].scope \in Scopes
    BY <1>5 DEF SaveAnswered, Receive, CallsOK
  <2>2. /\ ui'.loaded = calls[c].text /\ ui'.docExists = TRUE /\ ui'.saving = FALSE
        /\ \A f \in {"scope", "docScope", "docLoading"} : ui'[f] = ui[f]
        /\ past'.mixed = past.mixed /\ past'.outside = past.outside
        /\ past'.saved = (IF past.outside THEN NoCall ELSE calls[c])
    BY <1>5 DEF SaveAnswered, TypeOK
  <2>3. TypeOK'
    BY <1>1, <1>2, <1>5, <2>1, NoCallFields DEF SaveAnswered, TypeOK
  <2>4. EveryWaitHasACall'
    BY <1>1, <2>1, <2>2 DEF Others, EveryWaitHasACall
  <2>5. SavesOK'
    BY <1>1, <1>2, <2>1, <2>2 DEF Others, EveryWaitHasACall, SavesOK
  <2>6. Unmixed'
    <3>1. ASSUME ~past.mixed
          PROVE  Honest(ui.scope)' /\ \A b \in CallIds : ~Live(b)'
      <4>1. \A b \in CallIds : ~Live(b)'
        BY <1>1, <2>1, <3>1 DEF Others, Unmixed
      <4>2. disk[ui.scope] = calls[c].text /\ ui.docScope = ui.scope
        BY <2>1, <3>1 DEF Unmixed
      <4>3. Honest(ui.scope)'
        BY <1>2, <2>1, <2>2, <4>2 DEF Honest, TextOf
      <4>4. QED
        BY <4>1, <4>3
    <3>2. QED
      BY <2>2, <3>1 DEF Unmixed
  <2>7. QED
    BY <1>2, <2>3, <2>4, <2>5, <2>6
<1>6. CASE SaveRefused(c) \/ SaveRejected(c)
  <2>1. /\ calls[c].kind = "save" /\ calls[c].stage # "answered" /\ UNCHANGED past
        /\ ui'.saving = FALSE
        /\ \A f \in {"scope", "docScope", "docExists", "loaded", "docLoading"} : ui'[f] = ui[f]
    BY <1>6 DEF SaveRefused, SaveRejected, Receive, TypeOK
  <2>2. TypeOK'
    <3>1. ui' = [ui EXCEPT !.saving = FALSE] /\ UNCHANGED past
      BY <1>6 DEF SaveRefused, SaveRejected
    <3>2. QED
      BY <1>1, <1>2, <3>1 DEF TypeOK
  <2>3. EveryWaitHasACall' /\ SavesOK'
    BY <1>1, <1>2, <2>1 DEF Others, EveryWaitHasACall, SavesOK
  <2>4. Unmixed'
    BY <1>1, <1>2, <2>1 DEF Others, Unmixed, Honest, TextOf
  <2>5. QED
    BY <1>2, <2>2, <2>3, <2>4
<1>7. QED
  BY <1>3, <1>4, <1>5, <1>6 DEF Continue

LEMMA NextIInv == IInv /\ [Next]_vars => IInv'
<1>1. CASE UNCHANGED vars
  BY <1>1 DEF vars, IInv, TypeOK, CallsOK, EveryWaitHasACall, Unmixed, SavesOK, Honest
<1>2. QED
  BY <1>1, SendsKeepIInv, EditsKeepIInv, WritesKeepIInv, ContinuationsKeepIInv
  DEF Next, User

LEMMA Inductive == Spec => []IInv
  BY InitIInv, NextIInv, PTL DEF Spec

\* The editor's state keeps its types; a missing document never becomes a text.
THEOREM TypeCorrect == Spec => []TypeOK
<1>1. IInv => TypeOK
  BY DEF IInv
<1>2. QED
  BY <1>1, Inductive, PTL

\* The dirty flag and the caption are true once unmixed calls have settled.
THEOREM EditorIsHonest == Spec => []QuietEditorIsHonest
<1>1. IInv => QuietEditorIsHonest
  BY OutstandingIsLive DEF IInv, Unmixed, Honest, QuietEditorIsHonest
<1>2. QED
  BY <1>1, Inductive, PTL

\* Saves take effect in the order of the clicks.
THEOREM SavesAreOrdered == Spec => []SavesTakeEffectInOrder
<1>1. IInv => SavesTakeEffectInOrder
  BY DEF IInv, SavesOK, SavesTakeEffectInOrder
<1>2. QED
  BY <1>1, Inductive, PTL

\* An editor that saves or loads always has a call to wait for.
THEOREM NoStuckButton == Spec => []EveryWaitHasACall
<1>1. IInv => EveryWaitHasACall
  BY DEF IInv
<1>2. QED
  BY <1>1, Inductive, PTL

-----------------------------------------------------------------------------
(* The studio around the editor.  The properties are not inductive either:   *)
(* StudioInv ties each flag to its call, says that the run under way is the  *)
(* last one, and what the reload in flight will find true when it answers.   *)

Seen(of) == of \cup {Nothing}
Shown == [rules : Seen(Rules), catalogs : Seen(Catalogs),
          release : Seen(Documents \cup {Embedded}),
          loading : BOOLEAN, failed : BOOLEAN, installing : BOOLEAN]
ReloadCalls == [list : {"free", "sent", "rules", "answered"}, rules : Seen(Rules),
                catalogs : Seen(Catalogs), info : Seen(Documents \cup {Embedded})]
Stages == {"none", "choosing", "sent", "answered"}

StudioTypes ==
    /\ rules \in Rules /\ catalogs \in Catalogs
    /\ panel \in Shown
    /\ bench \in [target : Seen(Targets), running : BOOLEAN, result : Seen(Targets)]
    /\ reloads \in [ReloadIds -> ReloadCalls]
    /\ install \in [stage : Stages, scope : Seen(Scopes), file : Seen(Documents)]
    /\ runs \in [RunIds -> Seen(Targets)]
    /\ saved \in BOOLEAN
    /\ history \in [mixed : BOOLEAN, lastRun : Seen(Targets), writes : Nat]

\* A slot is free or knows what it waits for; the installation that waits has its scope.
SlotsOK ==
    /\ \A r \in ReloadIds : reloads[r].list = "free" <=> reloads[r] = NoReload
    /\ install.stage = "none" <=> install = NoInstall
    /\ install.stage \in {"choosing", "sent"} => install.scope \in Scopes
    /\ install.stage = "sent" => install.file \in Documents

\* What a reload has read so far is what the files still hold.
Fresh(r) ==
    /\ reloads[r].list \in {"rules", "answered"} => reloads[r].rules = rules
    /\ reloads[r].list = "answered" => reloads[r].catalogs = catalogs
    /\ reloads[r].info # Nothing => reloads[r].info = Effective(catalogs)

Current ==
    /\ panel.rules = rules /\ panel.catalogs = catalogs
    /\ panel.release = Effective(catalogs)

\* While nothing was mixed, the one reload in flight will leave the panel current, unless a
\* save or an installation has yet to be followed by its own.
PanelOK ==
    ~history.mixed =>
        /\ \A q, r \in InFlight : q = r
        /\ ~saved /\ install.stage # "answered" =>
              /\ \A r \in InFlight : Fresh(r)
              /\ InFlight = {} /\ ~panel.failed => Current

\* The run under way is the one started last.
BenchOK ==
    /\ \A d \in Running : runs[d] = history.lastRun
    /\ ResultIsOfTheLastRun

StudioInv == StudioTypes /\ SlotsOK /\ EveryFlagHasACall /\ PanelOK /\ BenchOK

HIDE EditorAssumption DEF Docs, CallIds, Pending, Live
USE StudioAssumption, ScopesAssumption DEF RunIds, InFlight, Running, Seen

LEMMA FreeSlot ==
    /\ NoReload \in ReloadCalls /\ NoReload.list = "free"
    /\ NoInstall.stage = "none" /\ NoInstall.file = Nothing /\ NoInstall.scope = Nothing
  BY DEF NoReload, NoInstall, ReloadCalls

LEMMA Flying ==
    ASSUME SlotsOK
    PROVE  \A r \in ReloadIds : r \in InFlight <=> reloads[r].list # "free"
  BY DEF SlotsOK

LEMMA EffectiveIsOne ==
    ASSUME NEW of \in Catalogs
    PROVE  Effective(of) \in Documents \cup {Embedded} /\ Effective(of) # Nothing
<1> DEFINE used == {s \in Scopes : of[s] \in Usable}
<1>1. used # {} => (CHOOSE s \in used : TRUE) \in used
  OBVIOUS
<1> QED
  BY <1>1 DEF Effective, Catalogs

Beside(r) == \A q \in ReloadIds : q # r => reloads'[q] = reloads[q]

\* A reload takes a free slot, and nothing has been read for it yet.
LEMMA ReloadStarts ==
    ASSUME StudioInv, NEW state \in Shown, StartReload(state)
    PROVE  /\ reloads' \in [ReloadIds -> ReloadCalls]
           /\ panel' \in Shown /\ panel'.loading = TRUE /\ panel'.installing = state.installing
           /\ history' \in [mixed : BOOLEAN, lastRun : Seen(Targets), writes : Nat]
           /\ history'.mixed = (InFlight # {}) /\ history'.lastRun = history.lastRun
           /\ \E r \in ReloadIds : /\ Beside(r) /\ r \notin InFlight /\ reloads'[r] # NoReload
                                   /\ reloads'[r].list = "sent" /\ reloads'[r].info = Nothing
<1>1. PICK r \in ReloadIds :
         reloads[r] = NoReload /\ reloads' = [reloads EXCEPT ![r] = [NoReload EXCEPT !.list = "sent"]]
  BY DEF StartReload
<1> DEFINE call == [NoReload EXCEPT !.list = "sent"]
<1>2. call \in ReloadCalls /\ call.list = "sent" /\ call.info = Nothing /\ call # NoReload
  BY DEF NoReload, ReloadCalls
<1>3. reloads \in [ReloadIds -> ReloadCalls]
  BY DEF StudioInv, StudioTypes
<1> HIDE DEF call
<1>4. reloads' \in [ReloadIds -> ReloadCalls] /\ reloads'[r] = call /\ Beside(r)
  BY <1>1, <1>2, <1>3 DEF call, Beside
<1>5. panel' \in Shown /\ panel'.loading = TRUE /\ panel'.installing = state.installing
  BY DEF StartReload, Shown
<1>6. /\ history' \in [mixed : BOOLEAN, lastRun : Seen(Targets), writes : Nat]
      /\ history'.mixed = (InFlight # {}) /\ history'.lastRun = history.lastRun
  BY DEF StartReload, StudioInv, StudioTypes
<1> QED
  BY <1>1, <1>2, <1>4, <1>5, <1>6

LEMMA InitStudioInv == InitStudio => StudioInv
<1> SUFFICES ASSUME InitStudio
             PROVE  StudioInv
  OBVIOUS
<1>1. PICK first \in ReloadIds : reloads = [r \in ReloadIds |->
           IF r = first THEN [NoReload EXCEPT !.list = "sent"] ELSE NoReload]
  BY DEF InitStudio
<1> DEFINE call == [NoReload EXCEPT !.list = "sent"]
<1>2. call \in ReloadCalls /\ call.list = "sent" /\ call.info = Nothing /\ call # NoReload
  BY DEF NoReload, ReloadCalls
<1> HIDE DEF call
<1>3. \A r \in ReloadIds : reloads[r] = IF r = first THEN call ELSE NoReload
  BY <1>1 DEF call
<1>4. reloads \in [ReloadIds -> ReloadCalls]
  BY <1>1, <1>2, FreeSlot DEF call
<1>5. InFlight = {first}
  BY <1>2, <1>3
<1>6. StudioTypes
  BY <1>4 DEF InitStudio, StudioTypes, Catalogs, Shown, NoInstall, Stages
<1>7. SlotsOK
  BY <1>2, <1>3, FreeSlot DEF InitStudio, SlotsOK
<1>8. Running = {}
  BY DEF InitStudio
<1>9. EveryFlagHasACall /\ BenchOK
  BY <1>5, <1>8 DEF InitStudio, EveryFlagHasACall, BenchOK, ResultIsOfTheLastRun
<1>10. PanelOK
  BY <1>2, <1>3, <1>5, FreeSlot DEF InitStudio, PanelOK, Fresh
<1> QED
  BY <1>6, <1>7, <1>9, <1>10 DEF StudioInv

Reloads == Reload \/ OnSaved \/ InstallAnswered

LEMMA ReloadsKeepStudioInv ==
    ASSUME StudioInv, Reloads
    PROVE  StudioInv'
<1> DEFINE state == IF InstallAnswered THEN [panel EXCEPT !.installing = FALSE] ELSE panel
<1>1. panel \in Shown
  BY DEF StudioInv, StudioTypes
<1>2. /\ StartReload(panel) /\ UNCHANGED <<install>> /\ (UNCHANGED saved \/ saved' = FALSE)
      /\ install.stage = "answered" => install'.stage = "answered"
      \/ /\ StartReload([panel EXCEPT !.installing = FALSE]) /\ UNCHANGED saved
         /\ install' = NoInstall /\ install.stage = "answered"
  BY DEF Reloads, Reload, OnSaved, InstallAnswered
<1>3. PICK st \in Shown :
         /\ StartReload(st)
         /\ \/ st = panel /\ UNCHANGED install
            \/ /\ st.installing = FALSE
               /\ install' = NoInstall
  <2>1. CASE StartReload(panel) /\ UNCHANGED install
    BY <1>1, <2>1
  <2>2. CASE StartReload([panel EXCEPT !.installing = FALSE]) /\ install' = NoInstall
    <3>1. [panel EXCEPT !.installing = FALSE] \in Shown /\ [panel EXCEPT !.installing = FALSE].installing = FALSE
      BY <1>1 DEF Shown
    <3> QED
      BY <2>2, <3>1
  <2> QED
    BY <1>2, <2>1, <2>2
<1>4. UNCHANGED <<rules, catalogs, bench, runs>> /\ saved' \in BOOLEAN
  BY DEF Reloads, Reload, OnSaved, InstallAnswered, files, StudioInv, StudioTypes
<1>5. PICK r \in ReloadIds : /\ Beside(r) /\ r \notin InFlight /\ reloads'[r] # NoReload
                             /\ reloads'[r].list = "sent" /\ reloads'[r].info = Nothing
  BY <1>3, ReloadStarts
<1>6. /\ reloads' \in [ReloadIds -> ReloadCalls]
      /\ panel' \in Shown /\ panel'.loading = TRUE /\ panel'.installing = st.installing
      /\ history' \in [mixed : BOOLEAN, lastRun : Seen(Targets), writes : Nat]
      /\ history'.mixed = (InFlight # {}) /\ history'.lastRun = history.lastRun
  BY <1>3, ReloadStarts
<1>7. InFlight' = InFlight \cup {r}
  BY <1>5 DEF Beside
<1>8. StudioTypes'
  BY <1>3, <1>4, <1>6 DEF StudioInv, StudioTypes, NoInstall, Stages
<1>9. SlotsOK'
  BY <1>3, <1>5, FreeSlot DEF StudioInv, SlotsOK, Beside
<1>10. EveryFlagHasACall'
  BY <1>3, <1>4, <1>6, <1>7 DEF StudioInv, EveryFlagHasACall
<1>11. PanelOK'
  BY <1>5, <1>6, <1>7, FreeSlot DEF PanelOK, Fresh
<1>12. BenchOK'
  BY <1>4, <1>6 DEF StudioInv, BenchOK, ResultIsOfTheLastRun
<1> QED
  BY <1>8, <1>9, <1>10, <1>11, <1>12 DEF StudioInv

\* A call of a reload reads the files as they are.
LEMMA ReadsKeepStudioInv ==
    ASSUME StudioInv, NEW r \in ReloadIds, ListRules(r) \/ ListCatalogs(r) \/ GetCatalogInfo(r)
    PROVE  StudioInv'
<1>0. reloads[r] \in ReloadCalls /\ reloads[r].list # "free" /\ r \in InFlight
  <2>1. reloads[r] \in ReloadCalls
    BY DEF StudioInv, StudioTypes
  <2> QED
    BY <2>1, Flying DEF StudioInv, ListRules, ListCatalogs, GetCatalogInfo
<1>1. PICK call \in ReloadCalls :
         /\ ReadBy(r, call) /\ call.list # "free"
         /\ \/ call.list = "rules" /\ call.rules = rules /\ call.info = reloads[r].info
            \/ /\ call.list = "answered" /\ reloads[r].list = "rules"
               /\ call.rules = reloads[r].rules /\ call.catalogs = catalogs /\ call.info = reloads[r].info
            \/ /\ call.list = reloads[r].list /\ call.info = Effective(catalogs)
               /\ call.rules = reloads[r].rules /\ call.catalogs = reloads[r].catalogs
  <2>0. rules \in Rules /\ catalogs \in Catalogs
    BY DEF StudioInv, StudioTypes
  <2>1. CASE ListRules(r)
    <3> DEFINE call == [reloads[r] EXCEPT !.list = "rules", !.rules = rules]
    <3>1. call \in ReloadCalls /\ call.list = "rules" /\ call.rules = rules /\ call.info = reloads[r].info
      BY <1>0, <2>0 DEF ReloadCalls
    <3> QED
      BY <2>1, <3>1 DEF ListRules
  <2>2. CASE ListCatalogs(r)
    <3> DEFINE call == [reloads[r] EXCEPT !.list = "answered", !.catalogs = catalogs]
    <3>1. call \in ReloadCalls /\ call.list = "answered" /\ call.rules = reloads[r].rules
          /\ call.catalogs = catalogs /\ call.info = reloads[r].info
      BY <1>0, <2>0 DEF ReloadCalls
    <3> QED
      BY <2>2, <3>1 DEF ListCatalogs
  <2>3. CASE GetCatalogInfo(r)
    <3> DEFINE call == [reloads[r] EXCEPT !.info = Effective(catalogs)]
    <3>1. call \in ReloadCalls /\ call.list = reloads[r].list /\ call.rules = reloads[r].rules
          /\ call.catalogs = reloads[r].catalogs /\ call.info = Effective(catalogs)
      BY <1>0, <2>0, EffectiveIsOne DEF ReloadCalls
    <3> QED
      BY <1>0, <2>3, <3>1 DEF GetCatalogInfo
  <2> QED
    BY <2>1, <2>2, <2>3
<1>2. /\ reloads' \in [ReloadIds -> ReloadCalls] /\ reloads'[r] = call /\ Beside(r)
      /\ UNCHANGED <<rules, catalogs, panel, bench, install, runs, saved, history>>
  BY <1>1 DEF ReadBy, files, StudioInv, StudioTypes, Beside
<1>3. call # NoReload
  BY <1>1, FreeSlot
<1>4. InFlight' = InFlight
  BY <1>0, <1>2, <1>3 DEF Beside
<1>5. StudioTypes'
  BY <1>2 DEF StudioInv, StudioTypes
<1>6. SlotsOK'
  BY <1>1, <1>2, <1>3 DEF StudioInv, SlotsOK, Beside
<1>7. EveryFlagHasACall' /\ BenchOK'
  BY <1>2, <1>4 DEF StudioInv, EveryFlagHasACall, BenchOK, ResultIsOfTheLastRun
<1>8. \A q \in InFlight : Fresh(q) => Fresh(q)'
  BY <1>1, <1>2 DEF Fresh, Beside
<1>9. PanelOK'
  BY <1>2, <1>4, <1>8 DEF StudioInv, PanelOK, Current
<1> QED
  BY <1>5, <1>6, <1>7, <1>9 DEF StudioInv

\* A reload ends, and the panel shows what it read, or that it failed.
LEMMA AnswersKeepStudioInv ==
    ASSUME StudioInv, NEW r \in ReloadIds, ReloadAnswered(r) \/ ReloadRejected(r)
    PROVE  StudioInv'
<1>0. reloads[r] \in ReloadCalls /\ r \in InFlight
  <2>1. reloads[r] \in ReloadCalls
    BY DEF StudioInv, StudioTypes
  <2> QED
    BY <2>1, Flying DEF StudioInv, ReloadAnswered, ReloadRejected
<1>1. /\ reloads' \in [ReloadIds -> ReloadCalls] /\ reloads'[r] = NoReload /\ Beside(r)
      /\ UNCHANGED <<rules, catalogs, bench, install, runs, saved, history>>
  BY FreeSlot DEF ReloadAnswered, ReloadRejected, files, StudioInv, StudioTypes, Beside
<1>2. InFlight' = InFlight \ {r}
  BY <1>1 DEF Beside
<1>3. panel \in Shown
  BY DEF StudioInv, StudioTypes
<1>4. /\ panel' \in Shown /\ panel'.loading = FALSE /\ panel'.installing = panel.installing
      /\ \/ panel'.failed = TRUE
         \/ /\ reloads[r].list = "answered" /\ reloads[r].info # Nothing
            /\ panel'.rules = reloads[r].rules /\ panel'.catalogs = reloads[r].catalogs
            /\ panel'.release = reloads[r].info
  <2>1. CASE ReloadAnswered(r)
    BY <1>0, <1>3, <2>1 DEF ReloadAnswered, Shown, ReloadCalls
  <2>2. CASE ReloadRejected(r)
    BY <1>3, <2>2 DEF ReloadRejected, Shown
  <2> QED
    BY <2>1, <2>2
<1>5. StudioTypes'
  BY <1>1, <1>4 DEF StudioInv, StudioTypes
<1>6. SlotsOK'
  BY <1>1, FreeSlot DEF StudioInv, SlotsOK, Beside
<1>7. EveryFlagHasACall' /\ BenchOK'
  BY <1>1, <1>4 DEF StudioInv, EveryFlagHasACall, BenchOK, ResultIsOfTheLastRun
<1>8. \A q \in InFlight' : Fresh(q) => Fresh(q)'
  BY <1>1, <1>2 DEF Fresh, Beside
<1>9. Fresh(r) => panel'.failed = TRUE \/ Current'
  BY <1>1, <1>4 DEF Fresh, Current
<1>10. PanelOK'
  BY <1>0, <1>1, <1>2, <1>8, <1>9 DEF StudioInv, PanelOK
<1> QED
  BY <1>5, <1>6, <1>7, <1>10 DEF StudioInv

\* The definitions change: the panel must be told, or what happened is no longer unmixed.
LEMMA ChangesKeepStudioInv ==
    ASSUME StudioInv, (\E v \in Rules : SaveRuleYAML(v)) \/ WriteCatalog \/ WriteDefinitions
    PROVE  StudioInv'
<1>1. /\ rules' \in Rules /\ catalogs' \in Catalogs /\ saved' \in BOOLEAN
      /\ UNCHANGED <<panel, bench, reloads, runs>>
      /\ history' \in [mixed : BOOLEAN, lastRun : Seen(Targets), writes : Nat]
      /\ history'.lastRun = history.lastRun
  <2>1. CASE \E v \in Rules : SaveRuleYAML(v)
    BY <2>1 DEF SaveRuleYAML, StudioInv, StudioTypes
  <2>2. CASE WriteCatalog
    BY <2>2 DEF WriteCatalog, StudioInv, StudioTypes, SlotsOK, Catalogs
  <2>3. CASE WriteDefinitions
    <3>1. rules' \in Rules /\ catalogs' \in Catalogs
      BY <2>3 DEF WriteDefinitions, StudioInv, StudioTypes, Catalogs
    <3>2. /\ history \in [mixed : BOOLEAN, lastRun : Seen(Targets), writes : Nat]
          /\ history' = [history EXCEPT !.mixed = TRUE, !.writes = @ + 1]
          /\ UNCHANGED <<panel, bench, reloads, runs, saved>> /\ saved \in BOOLEAN
      BY <2>3 DEF WriteDefinitions, StudioInv, StudioTypes
    <3>3. /\ history' \in [mixed : BOOLEAN, lastRun : Seen(Targets), writes : Nat]
          /\ history'.lastRun = history.lastRun
      <4>1. history.writes + 1 \in Nat
        BY <3>2
      <4> QED
        BY <3>2, <4>1
    <3> QED
      BY <3>1, <3>2, <3>3
  <2> QED
    BY <2>1, <2>2, <2>3
<1>2. \/ UNCHANGED install
      \/ install' = [NoInstall EXCEPT !.stage = "answered"] /\ install.stage = "sent"
  BY DEF SaveRuleYAML, WriteCatalog, WriteDefinitions
<1>3. /\ [NoInstall EXCEPT !.stage = "answered"] # NoInstall
      /\ [NoInstall EXCEPT !.stage = "answered"].stage = "answered"
      /\ [NoInstall EXCEPT !.stage = "answered"] \in
            [stage : Stages, scope : Seen(Scopes), file : Seen(Documents)]
  BY DEF NoInstall, Stages
<1>4. StudioTypes'
  BY <1>1, <1>2, <1>3 DEF StudioInv, StudioTypes
<1>5. SlotsOK'
  BY <1>1, <1>2, <1>3 DEF StudioInv, SlotsOK
<1>6. EveryFlagHasACall' /\ BenchOK'
  <2>1. install # NoInstall <=> install' # NoInstall
    BY <1>2, <1>3, FreeSlot
  <2> QED
    BY <1>1, <2>1 DEF StudioInv, EveryFlagHasACall, BenchOK, ResultIsOfTheLastRun
<1>7. \/ history'.mixed = TRUE
      \/ history'.mixed = history.mixed /\ (saved' = TRUE \/ install'.stage = "answered")
  BY <1>3 DEF SaveRuleYAML, WriteCatalog, WriteDefinitions, StudioInv, StudioTypes
<1>8. PanelOK'
  BY <1>1, <1>7 DEF StudioInv, PanelOK
<1> QED
  BY <1>4, <1>5, <1>6, <1>8 DEF StudioInv

LEMMA ChoicesKeepStudioInv ==
    ASSUME StudioInv,
           (\E s \in Scopes : InstallCatalog(s)) \/ (\E f \in Documents : Choose(f))
              \/ Cancel \/ InstallRejected
    PROVE  StudioInv'
<1>1. UNCHANGED <<rules, catalogs, bench, reloads, runs, saved, history>>
  BY DEF InstallCatalog, Choose, Cancel, InstallRejected, files
<1>2. /\ panel' \in Shown
      /\ \A x \in {"rules", "catalogs", "release", "loading", "failed"} : panel'[x] = panel[x]
      /\ panel'.installing <=> install' # NoInstall
  <2>1. panel \in Shown
    BY DEF StudioInv, StudioTypes
  <2>2. CASE \E s \in Scopes : InstallCatalog(s)
    <3>1. install'.stage = "choosing" /\ panel' = [panel EXCEPT !.installing = TRUE]
      BY <2>2 DEF InstallCatalog
    <3>2. install' # NoInstall
      BY <3>1, FreeSlot
    <3>3. panel' \in Shown /\ panel'.installing = TRUE
      BY <2>1, <3>1 DEF Shown
    <3> QED
      BY <2>1, <3>1, <3>2, <3>3 DEF Shown
  <2>3. CASE \E f \in Documents : Choose(f)
    <3>1. panel.installing /\ UNCHANGED panel
      BY <2>3, FreeSlot DEF Choose, StudioInv, EveryFlagHasACall
    <3>2. install'.stage = "sent"
      BY <2>3 DEF Choose, StudioInv, StudioTypes
    <3> QED
      BY <2>1, <3>1, <3>2, FreeSlot
  <2>4. CASE Cancel \/ InstallRejected
    BY <2>1, <2>4 DEF Cancel, InstallRejected, Shown
  <2> QED
    BY <2>2, <2>3, <2>4
<1>3. /\ install' \in [stage : Stages, scope : Seen(Scopes), file : Seen(Documents)]
      /\ install'.stage = "none" <=> install' = NoInstall
      /\ install'.stage \in {"choosing", "sent"} => install'.scope \in Scopes
      /\ install'.stage = "sent" => install'.file \in Documents
      /\ install'.stage = "answered" => install.stage = "answered"
  <2>2. CASE \E s \in Scopes : InstallCatalog(s)
    BY <2>2 DEF InstallCatalog, NoInstall, Stages
  <2>3. CASE \E f \in Documents : Choose(f)
    <3>1. /\ install \in [stage : Stages, scope : Seen(Scopes), file : Seen(Documents)]
          /\ install.scope \in Scopes
      BY <2>3 DEF Choose, StudioInv, StudioTypes, SlotsOK
    <3>2. PICK f \in Documents : install' = [install EXCEPT !.stage = "sent", !.file = f]
      BY <2>3 DEF Choose
    <3>3. install'.stage = "sent" /\ install'.file = f /\ install'.scope = install.scope
      BY <3>1, <3>2
    <3>4. install' \in [stage : Stages, scope : Seen(Scopes), file : Seen(Documents)]
      BY <3>1, <3>2 DEF Stages
    <3> QED
      BY <3>1, <3>3, <3>4, FreeSlot
  <2>4. CASE Cancel \/ InstallRejected
    BY <2>4 DEF Cancel, InstallRejected, NoInstall, Stages
  <2> QED
    BY <2>2, <2>3, <2>4
<1>4. install.stage = "answered" => install'.stage = "answered"
  BY FreeSlot DEF InstallCatalog, Choose, Cancel, InstallRejected, StudioInv, EveryFlagHasACall
<1>5. StudioTypes'
  BY <1>1, <1>2, <1>3 DEF StudioInv, StudioTypes
<1>6. SlotsOK'
  BY <1>1, <1>3 DEF StudioInv, SlotsOK
<1>7. EveryFlagHasACall' /\ BenchOK'
  BY <1>1, <1>2 DEF StudioInv, EveryFlagHasACall, BenchOK, ResultIsOfTheLastRun
<1>8. PanelOK'
  BY <1>1, <1>2, <1>4 DEF StudioInv, PanelOK, Fresh, Current
<1> QED
  BY <1>5, <1>6, <1>7, <1>8 DEF StudioInv

LEMMA RunsKeepStudioInv ==
    ASSUME StudioInv,
           Run \/ Clear \/ (\E t \in Targets : SetTarget(t))
              \/ \E d \in RunIds : RunAnswered(d) \/ RunRejected(d)
    PROVE  StudioInv'
<1>1. UNCHANGED <<rules, catalogs, panel, reloads, install, saved>>
  BY DEF Run, Started, Clear, SetTarget, RunAnswered, RunRejected, files
<1>2. /\ bench \in [target : Seen(Targets), running : BOOLEAN, result : Seen(Targets)]
      /\ runs \in [RunIds -> Seen(Targets)]
      /\ history \in [mixed : BOOLEAN, lastRun : Seen(Targets), writes : Nat]
      /\ bench.running <=> Running # {}
      /\ \A c, d \in Running : c = d
      /\ \A d \in Running : runs[d] = history.lastRun
      /\ Running = {} /\ bench.result # Nothing => bench.result = history.lastRun
  BY DEF StudioInv, StudioTypes, EveryFlagHasACall, BenchOK, ResultIsOfTheLastRun
<1> DEFINE Kept == /\ bench' \in [target : Seen(Targets), running : BOOLEAN, result : Seen(Targets)]
                   /\ runs' \in [RunIds -> Seen(Targets)]
                   /\ history' \in [mixed : BOOLEAN, lastRun : Seen(Targets), writes : Nat]
                   /\ history'.mixed = history.mixed
                   /\ bench'.running <=> Running' # {}
                   /\ \A c, d \in Running' : c = d
                   /\ \A d \in Running' : runs'[d] = history'.lastRun
                   /\ Running' = {} /\ bench'.result # Nothing => bench'.result = history'.lastRun
<1>3. ASSUME Run
      PROVE  Kept
  <2>1. PICK d \in RunIds : runs[d] = Nothing /\ runs' = [runs EXCEPT ![d] = bench.target]
    BY <1>3 DEF Run, Started
  <2>2. /\ bench.target # Nothing /\ bench' = [bench EXCEPT !.running = TRUE]
        /\ history' = [history EXCEPT !.lastRun = bench.target]
    BY <1>3 DEF Run, Started
  <2>3. Running = {}
    BY <1>2, <1>3 DEF Run
  <2>4. /\ runs' \in [RunIds -> Seen(Targets)]
        /\ \A c \in Running' : c = d /\ runs'[c] = bench.target
        /\ d \in Running'
    BY <1>2, <2>1, <2>2, <2>3
  <2>5. /\ bench' \in [target : Seen(Targets), running : BOOLEAN, result : Seen(Targets)]
        /\ bench'.running = TRUE
        /\ history' \in [mixed : BOOLEAN, lastRun : Seen(Targets), writes : Nat]
        /\ history'.mixed = history.mixed /\ history'.lastRun = bench.target
    BY <1>2, <2>2
  <2> HIDE DEF Running
  <2>6. Running' # {} /\ \A b, c \in Running' : b = c
    BY <2>4
  <2> QED
    BY <2>4, <2>5, <2>6
<1>4. ASSUME Clear \/ \E t \in Targets : SetTarget(t)
      PROVE  Kept
  <2>1. /\ UNCHANGED <<runs, history>>
        /\ bench' \in [target : Seen(Targets), running : BOOLEAN, result : Seen(Targets)]
        /\ bench'.running = bench.running /\ bench'.result \in {bench.result, Nothing}
    BY <1>2, <1>4 DEF Clear, SetTarget
  <2>2. Running' = Running
    BY <2>1
  <2> HIDE DEF Running
  <2> QED
    BY <1>2, <2>1, <2>2
<1>6. ASSUME NEW d \in RunIds, RunAnswered(d) \/ RunRejected(d)
      PROVE  Kept
  <2>1. /\ runs[d] # Nothing /\ runs' = [runs EXCEPT ![d] = Nothing] /\ UNCHANGED history
        /\ \/ bench' = [bench EXCEPT !.running = FALSE, !.result = runs[d]]
           \/ bench' = [bench EXCEPT !.running = FALSE, !.result = Nothing]
    BY <1>6 DEF RunAnswered, RunRejected
  <2>2. Running' = {} /\ runs[d] = history.lastRun /\ runs' \in [RunIds -> Seen(Targets)]
    BY <1>2, <2>1
  <2>3. /\ bench' \in [target : Seen(Targets), running : BOOLEAN, result : Seen(Targets)]
        /\ bench'.running = FALSE /\ bench'.result \in {runs[d], Nothing}
    BY <1>2, <2>1
  <2> HIDE DEF Running
  <2> QED
    BY <1>2, <2>1, <2>2, <2>3
<1>7. Kept
  BY <1>3, <1>4, <1>6
<1> HIDE DEF Kept
<1>8. StudioTypes'
  BY <1>1, <1>7 DEF StudioInv, StudioTypes, Kept
<1>9. SlotsOK'
  BY <1>1 DEF StudioInv, SlotsOK
<1>10. EveryFlagHasACall'
  BY <1>1, <1>7 DEF StudioInv, EveryFlagHasACall, Kept
<1>11. BenchOK'
  BY <1>7 DEF BenchOK, ResultIsOfTheLastRun, Kept
<1>12. PanelOK'
  BY <1>1, <1>7 DEF StudioInv, PanelOK, Fresh, Current, Kept
<1> QED
  BY <1>8, <1>9, <1>10, <1>11, <1>12 DEF StudioInv

LEMMA NextStudioInv == StudioInv /\ [NextStudio]_studio => StudioInv'
<1>1. CASE UNCHANGED studio
  BY <1>1 DEF studio, StudioInv, StudioTypes, SlotsOK, EveryFlagHasACall, PanelOK, Fresh, Current,
     BenchOK, ResultIsOfTheLastRun
<1>2. QED
  BY <1>1, ReloadsKeepStudioInv, ReadsKeepStudioInv, AnswersKeepStudioInv, ChangesKeepStudioInv,
     ChoicesKeepStudioInv, RunsKeepStudioInv
  DEF NextStudio, Reloads

LEMMA StudioInvHolds == StudioSpec => []StudioInv
  BY InitStudioInv, NextStudioInv, PTL DEF StudioSpec

\* Once everything has settled the panel and the release are those of the files, unless
\* reloads overlapped, another program wrote, or the panel shows an error.
THEOREM QuietPanelsAreCurrent == StudioSpec => []QuietPanelIsCurrent
<1>1. StudioInv => QuietPanelIsCurrent
  BY FreeSlot DEF StudioInv, PanelOK, Current, QuietPanelIsCurrent
<1> QED
  BY <1>1, StudioInvHolds, PTL

\* Whatever is typed or cleared meanwhile, the result shown is that of the run started last.
THEOREM ResultsAreOfTheLastRun == StudioSpec => []ResultIsOfTheLastRun
<1>1. StudioInv => ResultIsOfTheLastRun
  BY DEF StudioInv, BenchOK
<1> QED
  BY <1>1, StudioInvHolds, PTL

\* A panel that loads, installs or runs has a call to wait for.
THEOREM NoFlagIsForgotten == StudioSpec => []EveryFlagHasACall
<1>1. StudioInv => EveryFlagHasACall
  BY DEF StudioInv
<1> QED
  BY <1>1, StudioInvHolds, PTL

==============================================================================

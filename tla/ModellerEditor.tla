----------------------------- MODULE ModellerEditor -----------------------------
(***************************************************************************)
(* One browser tab of the workflow modeller: the editor store with its     *)
(* undo history, the toolbar and its dialogs, the JSON view, the drafts in *)
(* local storage (which other tabs use too) and the requests to the        *)
(* engine, whose answers arrive at any later time.  What a definition says *)
(* is a number: EMPTY is the definition without steps, every edit makes a  *)
(* number nobody has used.  The version an upload is stored as is not part *)
(* of it: stamping it writes the definition again.  Layout, selection, the *)
(* source shown and messages are left out.                                 *)
(***************************************************************************)
EXTENDS Integers, Sequences, FiniteSets

CONSTANTS
    HISTORY_LIMIT,   \* definitions the undo history keeps
    DRAFTS_LIMIT,    \* drafts local storage keeps
    MaxEdits,        \* bound on the user's steps that write the definition, now or later
    MaxDrafts,       \* bound on the drafts ever saved
    MaxWork,         \* bound on both together
    MaxLoads         \* bound on the loads under way at once

ASSUME HistoryAssumption == HISTORY_LIMIT \in Nat /\ HISTORY_LIMIT > 1
ASSUME BoundAssumption ==
    {DRAFTS_LIMIT, MaxEdits, MaxDrafts, MaxWork, MaxLoads} \subseteq Nat

VARIABLES
    definition,      \* what the editor shows
    dirty,           \* the toolbar says "unsaved changes"
    errors,          \* the diagnostics shown hold an error
    past, future,    \* the undo history
    dialog,          \* the dialog that is open
    upload,          \* the upload under way
    loads,           \* the loads under way, in the order they were asked for
    server,          \* the definitions the engine stores
    json,            \* the JSON view
    drafts,          \* the drafts in local storage
    listed,          \* the drafts the open drafts dialog shows
    edits, saves     \* steps that write the definition, and drafts saved, so far

history == <<past, future>>
storage == <<drafts, saves>>
vars == <<definition, dirty, errors, past, future, dialog, upload, loads, server,
          json, drafts, listed, edits, saves>>

EMPTY      == 0
LIBRARY    == 1
Definition == 0 .. (MaxEdits + 1)

NoDialog == [kind |-> "none"]
NoUpload == [phase |-> "idle"]

\* The JSON view: closed while the visual tab is shown; "shown" and "focused" when its
\* text is the one last synchronised, "bad" and "rejected" (left with the error shown)
\* when it does not parse, "typed" when it says something else.
Closed   == [state |-> "closed"]
Showing  == [state |-> "shown"]
Focused  == [state |-> "focused"]
Bad      == [state |-> "bad"]
Rejected == [state |-> "rejected"]
Typed(def) == [state |-> "typed", text |-> def]

editing == json.state \in {"focused", "bad", "typed"}

TypeOK ==
    /\ definition \in Definition
    /\ {dirty, errors} \subseteq BOOLEAN
    /\ past \in Seq(Definition) /\ Len(past) <= HISTORY_LIMIT
    /\ future \in Seq(Definition)
    /\ dialog.kind \in {"none", "import", "browser", "drafts", "new?", "upload?", "restore?",
                        "delete?"}
    /\ upload \in {NoUpload, [phase |-> "stored"]} \cup [phase : {"sent"}, body : Definition]
    /\ loads \in Seq(Definition)
    /\ server \subseteq Definition
    /\ json \in {Closed, Showing, Focused, Bad, Rejected} \cup {Typed(d) : d \in Definition}
    /\ drafts \subseteq [id : 1 .. MaxDrafts, definition : Definition]
    /\ listed \subseteq 1 .. MaxDrafts
    /\ edits \in 0 .. MaxEdits /\ saves \in 0 .. MaxDrafts

--------------------------------------------------------------------------------
(* The store. *)

\* Broken: at the limit the newest definition makes room, not the oldest.
RememberDroppingNewest(p, def) ==
    IF Len(p) >= HISTORY_LIMIT THEN Append(SubSeq(p, 1, Len(p) - 1), def) ELSE Append(p, def)

\* The temporal middleware: every write of the definition remembers the one it
\* replaces and drops what could be redone.
Remember(p, def) ==
    IF Len(p) >= HISTORY_LIMIT THEN Append(Tail(p), def) ELSE Append(p, def)

\* The JSON view follows the store, except while its text is being edited.
Follow == json' = IF json = Closed \/ editing THEN json ELSE Showing

set(def) ==
    /\ definition' = def
    /\ past' = Remember(past, definition)
    /\ future' = <<>>

\* A definition with a content of its own.
Write == edits < MaxEdits /\ edits + saves < MaxWork /\ edits' = edits + 1
Fresh    == edits + 2

\* addStep, updateStepProperty, renameStepId, deleteStep, setDefinitionMeta: one
\* write, from the canvas, the palette, a property form or the delete dialog.
Edit ==
    /\ dialog = NoDialog
    /\ set(Fresh) /\ Write /\ Follow
    /\ dirty' = TRUE
    /\ UNCHANGED <<errors, dialog, upload, loads, server, storage, listed>>

\* Redirecting the references to a step and deleting it are two writes.
ReplaceAndDelete ==
    LET redirected == Fresh
        deleted    == Fresh + 1
    IN  /\ dialog = NoDialog
        /\ edits + 1 < MaxEdits /\ edits + 1 + saves < MaxWork
        /\ definition # EMPTY
        /\ definition' = deleted
        /\ past' = Remember(Remember(past, definition), redirected)
        /\ future' = <<>>
        /\ Follow
        /\ dirty' = TRUE
        /\ edits' = edits + 2
        /\ UNCHANGED <<errors, dialog, upload, loads, server, storage, listed>>

\* Ctrl+Z and Ctrl+Shift+Z, outside text fields and dialogs: only the definition
\* goes back, not the flags that describe it.
CanNavigate == dialog = NoDialog /\ ~editing

Undo ==
    /\ CanNavigate
    /\ past # <<>>
    /\ definition' = past[Len(past)]
    /\ past' = SubSeq(past, 1, Len(past) - 1)
    /\ future' = Append(future, definition)
    /\ Follow
    /\ UNCHANGED <<dirty, errors, dialog, upload, loads, server, storage, listed,
                   edits>>

Redo ==
    /\ CanNavigate
    /\ future # <<>>
    /\ definition' = future[Len(future)]
    /\ future' = SubSeq(future, 1, Len(future) - 1)
    /\ past' = Append(past, definition)
    /\ Follow
    /\ UNCHANGED <<dirty, errors, dialog, upload, loads, server, storage, listed,
                   edits>>

runValidation ==
    /\ dialog = NoDialog
    /\ errors' \in IF definition = EMPTY THEN {TRUE} ELSE BOOLEAN
    /\ UNCHANGED <<definition, dirty, history, dialog, upload, loads, server, json,
                   storage, listed, edits>>

\* newWorkflow, loadDraft, importFromJson, loadFromEngine: another workflow takes the
\* editor over.
Open(def) ==
    /\ set(def) /\ Follow
    /\ dirty' = FALSE
    /\ errors' = FALSE

--------------------------------------------------------------------------------
(* Dialogs. *)

Show(d) ==
    /\ dialog = NoDialog
    /\ dialog' = d

OpenDialog ==
    /\ \/ Show([kind |-> "import"]) /\ UNCHANGED listed
       \/ Show([kind |-> "browser"]) /\ UNCHANGED listed
       \/ Show([kind |-> "drafts"]) /\ listed' = {d.id : d \in drafts}
    /\ UNCHANGED <<definition, dirty, errors, history, upload, loads, server, json,
                   storage, edits>>

\* Cancel, or Escape: a request the dialog started goes on.
Cancel ==
    /\ dialog # NoDialog
    /\ IF dialog.kind \in {"restore?", "delete?"}
       THEN dialog' = [kind |-> "drafts"] /\ UNCHANGED listed
       ELSE dialog' = NoDialog /\ listed' = {}
    /\ UNCHANGED <<definition, dirty, errors, history, upload, loads, server, json,
                   storage, edits>>

handleNewWorkflow ==
    /\ dialog = NoDialog
    /\ IF definition = EMPTY /\ ~dirty
       THEN Open(EMPTY) /\ Write /\ UNCHANGED dialog
       ELSE /\ dialog' = [kind |-> "new?"]
            /\ UNCHANGED <<definition, dirty, errors, history, json, edits>>
    /\ UNCHANGED <<upload, loads, server, storage, listed>>

ConfirmNew ==
    /\ dialog.kind = "new?"
    /\ Open(EMPTY) /\ Write
    /\ dialog' = NoDialog
    /\ UNCHANGED <<upload, loads, server, storage, listed>>

\* A file that does not parse or fails the schema changes nothing but messages.
handleSubmit ==
    /\ dialog.kind = "import"
    /\ Open(Fresh) /\ Write
    /\ dialog' = NoDialog
    /\ UNCHANGED <<upload, loads, server, storage, listed>>

--------------------------------------------------------------------------------
(* Requests to the engine. *)

uploading == upload # NoUpload

\* Broken: the button stays enabled while an upload is under way.
UploadAskedTwice ==
    /\ ~errors
    /\ Show([kind |-> "upload?"])
    /\ UNCHANGED <<definition, dirty, errors, history, upload, loads, server, json, storage,
                   listed, edits>>

\* The upload button: disabled while the last validation reports errors.
handleUpload ==
    /\ ~errors
    /\ ~uploading
    /\ Show([kind |-> "upload?"])
    /\ UNCHANGED <<definition, dirty, errors, history, upload, loads, server, json,
                   storage, listed, edits>>

\* uploadToEngine sends the definition as it is when the question is answered.
ConfirmUpload ==
    /\ dialog.kind = "upload?"
    /\ dialog' = NoDialog
    /\ upload' = [phase |-> "sent", body |-> definition]
    /\ Write
    /\ UNCHANGED <<definition, dirty, errors, history, loads, server, json, storage,
                   listed>>

EngineStores ==
    /\ upload.phase = "sent"
    /\ server' = server \cup {upload.body}
    /\ upload' = [phase |-> "stored"]
    /\ UNCHANGED <<definition, dirty, errors, history, dialog, loads, json, storage,
                   listed, edits>>

\* The answer stamps the version on whatever the editor shows by now.
UploadSucceeds ==
    /\ upload.phase = "stored"
    /\ set(definition) /\ Follow
    /\ dirty' = FALSE
    /\ upload' = NoUpload
    /\ UNCHANGED <<errors, dialog, loads, server, storage, listed, edits>>

\* Broken: the rejected upload still counts as under way.
RejectedKeepsUploading ==
    /\ upload.phase = "sent"
    /\ errors' = TRUE
    /\ UNCHANGED <<definition, dirty, history, dialog, upload, loads, server, json, storage,
                   listed, edits>>

\* A 4xx answer becomes an error diagnostic.
UploadRejected ==
    /\ upload.phase = "sent"
    /\ errors' = TRUE
    /\ upload' = NoUpload
    /\ UNCHANGED <<definition, dirty, history, dialog, loads, server, json, storage,
                   listed, edits>>

\* A network error, a 5xx answer or one that does not parse: the engine may have
\* stored the upload.
UploadFails ==
    /\ uploading
    /\ upload' = NoUpload
    /\ UNCHANGED <<definition, dirty, errors, history, dialog, loads, server, json,
                   storage, listed, edits>>

\* The browser's Load button; listing the definitions again enables it again.
load ==
    /\ dialog.kind = "browser"
    /\ Len(loads) < MaxLoads
    /\ \E def \in server : loads' = Append(loads, def)
    /\ Write
    /\ UNCHANGED <<definition, dirty, errors, history, dialog, upload, server, json,
                   storage, listed>>

Without(s, n) == SubSeq(s, 1, n - 1) \o SubSeq(s, n + 1, Len(s))

\* loadFromEngine replaces what the editor shows whenever the answer comes, and
\* closes the browser.  A drafts dialog lists its drafts again when the name changes.
LoadArrives(n) ==
    /\ Open(loads[n])
    /\ loads' = Without(loads, n)
    /\ dialog' = IF dialog.kind = "browser" THEN NoDialog ELSE dialog
    /\ \/ UNCHANGED listed
       \/ /\ dialog.kind \in {"drafts", "restore?", "delete?"}
          /\ listed' = {d.id : d \in drafts}
    /\ UNCHANGED <<upload, server, storage, edits>>

LoadFails(n) ==
    /\ loads' = Without(loads, n)
    /\ UNCHANGED <<definition, dirty, errors, history, dialog, upload, server, json,
                   storage, listed, edits>>

--------------------------------------------------------------------------------
(* Drafts.  Local storage is read and written within one step. *)

\* Broken: saveDraft writes the drafts the dialog shows, and the new one.
saveDraftFromList(def) ==
    /\ saves < MaxDrafts /\ edits + saves < MaxWork
    /\ drafts' = {d \in drafts : d.id \in listed}
                 \cup {[id |-> saves + 1, definition |-> def]}
    /\ saves' = saves + 1

saveDraft(def) ==
    /\ Cardinality(drafts) < DRAFTS_LIMIT
    /\ saves < MaxDrafts /\ edits + saves < MaxWork
    /\ drafts' = drafts \cup {[id |-> saves + 1, definition |-> def]}
    /\ saves' = saves + 1

deleteDraft(id) ==
    /\ drafts' = {d \in drafts : d.id # id}
    /\ UNCHANGED saves

\* The button goes by the list the dialog shows, saveDraft by local storage: it
\* refuses at the limit, and the write may fail.
handleSave ==
    /\ dialog.kind = "drafts"
    /\ Cardinality(listed) < DRAFTS_LIMIT
    /\ definition # EMPTY
    /\ \/ /\ saveDraft(definition)
          /\ listed' = {d.id : d \in drafts'}
       \/ UNCHANGED <<storage, listed>>
    /\ UNCHANGED <<definition, dirty, errors, history, dialog, upload, loads, server,
                   json, edits>>

\* loadDraft: a draft another tab deleted is not found, and the list is read again.
loadDraft(id) ==
    \/ \E d \in drafts :
          /\ d.id = id
          /\ Open(d.definition) /\ Write
          /\ dialog' = NoDialog
          /\ listed' = {}
    \/ /\ id \notin {d.id : d \in drafts}
       /\ listed' = {d.id : d \in drafts}
       /\ dialog' = [kind |-> "drafts"]
       /\ UNCHANGED <<definition, dirty, errors, history, json, edits>>

handleRestore ==
    /\ \/ /\ dialog.kind = "drafts"
          /\ \E id \in listed :
                IF dirty
                THEN /\ dialog' = [kind |-> "restore?", id |-> id]
                     /\ UNCHANGED <<definition, dirty, errors, history, json, listed,
                                    edits>>
                ELSE loadDraft(id)
       \/ dialog.kind = "restore?" /\ loadDraft(dialog.id)
    /\ UNCHANGED <<upload, loads, server, storage>>

handleDelete ==
    /\ \/ /\ dialog.kind = "drafts"
          /\ \E id \in listed : dialog' = [kind |-> "delete?", id |-> id]
          /\ UNCHANGED <<storage, listed>>
       \/ /\ dialog.kind = "delete?"
          /\ deleteDraft(dialog.id) \/ UNCHANGED storage
          /\ listed' = {d.id : d \in drafts'}
          /\ dialog' = [kind |-> "drafts"]
    /\ UNCHANGED <<definition, dirty, errors, history, upload, loads, server, json,
                   edits>>

\* Another tab of the same browser, with the same code on the same storage.
OtherTab ==
    /\ saveDraft(LIBRARY) \/ \E d \in drafts : deleteDraft(d.id)
    /\ UNCHANGED <<definition, dirty, errors, history, dialog, upload, loads, server,
                   json, listed, edits>>

--------------------------------------------------------------------------------
(* The JSON view, and the page. *)

setView ==
    /\ dialog = NoDialog
    /\ ~editing
    /\ json' = IF json = Closed THEN Showing ELSE Closed
    /\ UNCHANGED <<definition, dirty, errors, history, dialog, upload, loads, server,
                   storage, listed, edits>>

\* Focusing the text and typing into it: text that parses, or text that does not.
handleChange ==
    /\ dialog = NoDialog
    /\ \/ json = Showing /\ json' = Focused /\ UNCHANGED edits
       \/ json = Rejected /\ json' = Bad /\ UNCHANGED edits
       \/ editing /\ json' = Bad /\ UNCHANGED edits
       \/ editing /\ json' = Typed(Fresh) /\ Write
    /\ UNCHANGED <<definition, dirty, errors, history, dialog, upload, loads, server,
                   storage, listed>>

\* Leaving the text applies it if it changed since it was last synchronised, over
\* whatever the store holds by then; text that does not parse stays.
handleBlur ==
    /\ editing
    /\ \/ /\ json.state = "typed"
          /\ set(json.text)
          /\ json' = Showing
          /\ dirty' = TRUE
          /\ errors' = FALSE
       \/ /\ json.state # "typed"
          /\ json' = IF json = Bad THEN Rejected ELSE Showing
          /\ UNCHANGED <<definition, dirty, errors, history>>
    /\ UNCHANGED <<dialog, upload, loads, server, storage, listed, edits>>

\* The page is loaded again: the definition and its source come back from local
\* storage; the history, the flags and the requests under way do not.
Reload ==
    /\ dirty' = FALSE /\ errors' = FALSE
    /\ past' = <<>> /\ future' = <<>>
    /\ dialog' = NoDialog /\ json' = Closed
    /\ upload' = NoUpload /\ loads' = <<>> /\ listed' = {}
    /\ UNCHANGED <<definition, server, storage, edits>>

--------------------------------------------------------------------------------

Init ==
    /\ definition = EMPTY /\ dirty = FALSE /\ errors = FALSE
    /\ past = <<>> /\ future = <<>>
    /\ dialog = NoDialog /\ json = Closed
    /\ upload = NoUpload /\ loads = <<>>
    /\ server = {LIBRARY}
    /\ drafts = {} /\ listed = {} /\ edits = 0 /\ saves = 0

User ==
    \/ Edit \/ ReplaceAndDelete \/ Undo \/ Redo \/ runValidation
    \/ OpenDialog \/ Cancel \/ handleNewWorkflow \/ ConfirmNew \/ handleSubmit
    \/ handleUpload \/ ConfirmUpload \/ load
    \/ handleSave \/ handleRestore \/ handleDelete
    \/ setView \/ handleChange \/ handleBlur \/ Reload

Answer ==
    \/ UploadSucceeds \/ UploadRejected \/ UploadFails
    \/ \E n \in DOMAIN loads : LoadArrives(n) \/ LoadFails(n)

Next == User \/ Answer \/ EngineStores \/ OtherTab

Spec == Init /\ [][Next]_vars

\* The transport answers every request, if only with an error.
FairSpec == Spec /\ WF_vars(UploadSucceeds \/ UploadRejected \/ UploadFails)

--------------------------------------------------------------------------------
(* Properties. *)

Reversed(s) == [n \in 1 .. Len(s) |-> s[Len(s) + 1 - n]]

History == INSTANCE EditHistory WITH
    Limit <- HISTORY_LIMIT, trail <- past \o <<definition>> \o Reversed(future),
    at <- Len(past) + 1

\* Whatever replaces the definition (an edit, an import, a draft, text left in the
\* JSON view, a load or an upload answered late), the one it replaces is the next that
\* undo brings back, and undo and redo only walk along what was recorded.
ImplementsEditHistory == History!Spec

\* A step that adds a draft keeps all the others, and no step removes more than one:
\* a save never writes back a list that another tab has changed.
DraftsSurvive ==
    [][\/ drafts \subseteq drafts'
       \/ \E d \in drafts : drafts' = drafts \ {d}]_drafts

\* No upload starts while the diagnostics hold an error, not even one that the
\* engine's answer to an earlier upload added after the button was pressed.
NoUploadOverErrors == [][upload = NoUpload /\ upload' # NoUpload => ~errors]_upload

\* The upload button comes back: every upload ends, whatever the engine answers.
UploadSettles == uploading ~> ~uploading
================================================================================

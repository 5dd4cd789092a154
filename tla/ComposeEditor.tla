---------------------------- MODULE ComposeEditor ----------------------------
(***************************************************************************)
(* The mail editor of the web client and the revision lane under it.       *)
(*                                                                         *)
(* components/company/compose.tsx is a React component: user events and    *)
(* replies are the steps, and after every one of them React commits a      *)
(* render and runs the effects whose dependencies changed (action Commit). *)
(* features/mail/draft-writer.ts serialises autosave, explicit save, the   *)
(* flush before a submission and reload in one promise chain (lane), talks *)
(* to a network that may lose a reply or deliver a request late, and must  *)
(* decide from a read-back whether a lost write took place.  The server's  *)
(* side of drafts and submissions is SaveMailDraft, GetMailDraft and       *)
(* SubmitDraft, each one transaction; another tab of the same user edits,  *)
(* submits or deletes the same draft.                                      *)
(***************************************************************************)
EXTENDS Integers, Sequences, FiniteSets

CONSTANTS Boxes,         \* sender mailboxes offered to the user
          TemplateOnly,  \* those whose policy allows only templates
          Texts,         \* contents the user can type (subject, body, vars)
          None,          \* no value
          MaxDrafts,     \* draft ids: the opened one and kept copies
          MaxRev,        \* bound on a draft's revision
          MaxEdits,      \* bound on user edits
          MaxFaults      \* bound on lost replies, rights changes, operations
                         \* of the other tab, unmounts and session changes

VARIABLES
  \* the server
  srv,       \* draft id -> stored draft
  receipts,  \* draft id -> the content its creation receipt is bound to, or None
  jobs,      \* submitted jobs, oldest first
  grant,     \* box -> the user may send as it
  tmplOk,    \* the template version is usable
  stray,     \* requests whose reply was lost and which may still arrive
  \* what the editor was last given
  view,      \* box -> can_send in the mailboxes prop
  listed,    \* the version is in the usable-templates list
  \* the editor
  mounted, session,
  draft, payload, mailboxId, saveError, saving, pending, busy, preview,
  owner,     \* what the running send, upload or preview captured at its click
  gen,       \* sendOwnership.permission and senderOwnership.generation
  withdrawn, \* observed: what has been withdrawn since the click of the owner
  autosave,  \* the autosave effect: "off", "armed" or "fired"
  \* the draft writer
  writer, lane, wire, submit,
  known,     \* the server content this editor wrote or loaded last
  budget     \* what is left of each bound

server == <<srv, receipts, jobs>>
rights == <<grant, tmplOk>>
props  == <<view, listed>>
ui     == <<draft, payload, mailboxId, saveError, saving, pending, busy,
            preview, owner, submit>>
draftWriter == <<writer, lane, wire, known>>
vars == <<server, rights, stray, props, mounted, session, ui, gen, withdrawn,
        autosave, draftWriter, budget>>

Drafts == 1 .. MaxDrafts
Blank == [text |-> CHOOSE t \in Texts : TRUE, pin |-> FALSE, atts |-> {}]
Body == [text : Texts, pin : BOOLEAN, atts : SUBSET Boxes]
Input == [box : Boxes, body : Body]
MailDraft == [id : Drafts, rev : 0 .. MaxRev, box : Boxes, body : Body,
              usable : BOOLEAN]
Command == [id : Drafts, rev : 0 .. MaxRev - 1, box : Boxes, body : Body,
            uncertain : BOOLEAN, base : Body \cup {None}]
Submission == [id : Drafts, rev : 1 .. MaxRev, shown : Input]
Op == [kind : {"save", "reload"}, by : {"auto", "user", "send"},
       input : Input \cup {None}]

Owner == [permission : Nat, sender : Nat, shown : Input]

ASSUME ComposeBounds ==
  /\ TemplateOnly \subseteq Boxes /\ Texts # {}
  /\ None \notin Boxes \cup Texts \cup Body \cup Input \cup Owner
  /\ {MaxDrafts, MaxRev} \subseteq Nat \ {0} /\ {MaxEdits, MaxFaults} \subseteq Nat

InputOf(d) == [box |-> d.box, body |-> d.body]

-----------------------------------------------------------------------------
(* The server: the transactions behind the editor's requests.              *)

Answer(code, value) == [code |-> code, value |-> value]

\* SaveMailDraft: rights, attachments, then the creation receipt (revision 0)
\* or the compare-and-set on the revision.
SaveOutcome(c) ==
  LET d == srv[c.id] IN
  IF ~grant[c.box] \/ ~(c.body.atts \subseteq {c.box}) THEN "FORBIDDEN"
  ELSE IF c.rev > 0
       THEN IF d.state = "live" /\ d.rev = c.rev THEN "OK" ELSE "CONFLICT"
  ELSE IF receipts[c.id] = None THEN "OK"
  ELSE IF /\ receipts[c.id] = InputOf(c) /\ d.state = "live" /\ d.rev = 1
          /\ InputOf(d) = InputOf(c)
       THEN "REPLAY" ELSE "CONFLICT"

SaveMailDraft(c) ==
  /\ UNCHANGED jobs
  /\ IF SaveOutcome(c) # "OK" THEN UNCHANGED <<srv, receipts>>
     ELSE /\ srv' = [srv EXCEPT ![c.id] =
                       [state |-> "live", rev |-> c.rev + 1, box |-> c.box,
                        body |-> c.body, by |-> "editor", base |-> c.base]]
          /\ receipts' = IF c.rev > 0 THEN receipts
                         ELSE [receipts EXCEPT ![c.id] = InputOf(c)]

SaveAnswer(c) ==
  IF SaveOutcome(c) \in {"OK", "REPLAY"}
  THEN Answer("OK", [id |-> c.id, rev |-> c.rev + 1, box |-> c.box,
                     body |-> c.body, usable |-> tmplOk])
  ELSE Answer(SaveOutcome(c), None)

\* GetMailDraft: the stored draft while it exists and may be sent from.
GetMailDraft(id) ==
  IF srv[id].state # "live" THEN Answer("NOT_FOUND", None)
  ELSE IF ~grant[srv[id].box] THEN Answer("FORBIDDEN", None)
  ELSE Answer("OK", [id |-> id, rev |-> srv[id].rev, box |-> srv[id].box,
                     body |-> srv[id].body, usable |-> tmplOk])

\* SubmitDraft with the key "<id>.<revision>": the draft is consumed in the
\* transaction that creates the job; a consumed draft answers a replay to the
\* key that consumed it and a conflict to any other.
SubmitOutcome(s) ==
  LET d == srv[s.id]
      consumers == {i \in DOMAIN jobs : jobs[i].id = s.id} IN
  IF d.state # "live"
  THEN IF consumers = {} THEN "NOT_FOUND"
       ELSE IF \E i \in consumers : jobs[i].rev = s.rev THEN "REPLAY"
       ELSE "CONFLICT"
  ELSE IF ~grant[d.box] THEN "FORBIDDEN"
  ELSE IF d.rev # s.rev THEN "CONFLICT"
  ELSE IF (d.body.pin /\ ~tmplOk) \/ (d.box \in TemplateOnly /\ ~d.body.pin)
       THEN "FORBIDDEN"
  ELSE "OK"

\* MUTANT: a submitted draft is not consumed.
SubmitKeepsDraft(s) ==
  /\ UNCHANGED <<srv, receipts>>
  /\ jobs' = IF SubmitOutcome(s) # "OK" \/ Len(jobs) > 1 THEN jobs
             ELSE Append(jobs, [id |-> s.id, rev |-> s.rev,
                                content |-> InputOf(srv[s.id]),
                                shown |-> s.shown])

SubmitDraft(s) ==
  /\ UNCHANGED receipts
  /\ IF SubmitOutcome(s) # "OK" THEN UNCHANGED <<srv, jobs>>
     ELSE /\ jobs' = Append(jobs, [id |-> s.id, rev |-> s.rev,
                                   content |-> InputOf(srv[s.id]),
                                   shown |-> s.shown])
          /\ srv' = [srv EXCEPT ![s.id].state = "gone"]

-----------------------------------------------------------------------------
(* What a render derives from the editor's state.                          *)

Editing == [box |-> mailboxId, body |-> payload]
senderAllowed == view[mailboxId]

\* The server's verdict on a saved pin wins over the usable-templates list.
resolvedPin == draft.rev > 0 /\ draft.box = mailboxId /\ draft.body.pin
version == payload.pin /\ IF resolvedPin THEN draft.usable ELSE listed
invalidVersion == payload.pin /\ ~version
ineligible == payload.pin /\ resolvedPin /\ ~draft.usable
sendAllowed ==
  senderAllowed /\ ~invalidVersion /\ (mailboxId \in TemplateOnly => version)

locked == busy # "none" \/ pending # None
dirty == (draft.rev = 0 /\ payload # Blank) \/ Editing # InputOf(draft)

\* The autosave effect: when its timer is set, and its dependency list.
autosaveWanted ==
  /\ mounted /\ dirty /\ busy = "none" /\ pending = None
  /\ saveError = "none" /\ senderAllowed
autosaveDeps == <<mounted, dirty, busy # "none", pending, saveError,
                  senderAllowed, mailboxId, payload, writer.id>>

\* MUTANT: only the sender's own right counts, not that of its template.
sendRevokedBySender == senderAllowed /\ ~senderAllowed'

sendRevoked == sendAllowed /\ ~sendAllowed'
senderMoved == mailboxId' # mailboxId \/ (senderAllowed /\ ~senderAllowed')

\* One commit: the layout effects move the ownership generations (counted here
\* from the click that captured them) on a revocation or a change of sender, and
\* the autosave effect is torn down and set up again when a dependency changed.
\* What `withdrawn` observes is read by no action.
NoMoves == [permission |-> 0, sender |-> 0]
Nothing == [send |-> FALSE, sender |-> FALSE]
Commit ==
  /\ gen' = IF owner' = None THEN NoMoves ELSE
            [permission |-> gen.permission + (IF sendRevoked THEN 1 ELSE 0),
             sender |-> gen.sender + (IF senderMoved THEN 1 ELSE 0)]
  /\ withdrawn' = IF owner' = None THEN Nothing ELSE
                  [send |-> withdrawn.send \/ ~sendAllowed',
                   sender |-> withdrawn.sender \/ ~senderAllowed']
  /\ autosave' = IF autosaveDeps' # autosaveDeps
                 THEN IF autosaveWanted' THEN "armed" ELSE "off"
                 ELSE IF Len(lane') > Len(lane) /\ lane'[Len(lane')].by = "auto"
                      THEN "fired" ELSE autosave

-----------------------------------------------------------------------------
(* Completion of the lane's operations.  The caller's continuation runs in *)
(* the same turn as the settlement of the promise it awaits.               *)

\* useAction's run ends: whatever the operation held is released.
ActionEnds == busy' = "none" /\ owner' = None

assertOwner == session /\ mounted

assertSendAllowed ==
  assertOwner /\ sendAllowed /\ owner.permission = gen.permission

\* save() of the editor, autosave and the flush of send() share the success
\* path; the flush goes on to pin and dispatch the submission.
Resolved(op, v) ==
  LET s == [id |-> v.id, rev |-> v.rev, shown |-> owner.shown] IN
  /\ IF mounted THEN draft' = v /\ saveError' = "none" /\ saving' = FALSE
                ELSE UNCHANGED <<draft, saveError, saving>>
  /\ IF op.by = "auto" THEN UNCHANGED <<busy, owner, pending, submit>>
     ELSE IF op.by = "send" /\ assertSendAllowed
     THEN /\ busy' = "submit" /\ pending' = s /\ submit' = s
          /\ UNCHANGED owner
     ELSE ActionEnds /\ UNCHANGED <<pending, submit>>
  /\ UNCHANGED <<payload, mailboxId, preview>>

\* An autosave whose effect was torn down reports nothing (the last one queued
\* belongs to the present effect), and reload() does not touch the save status.
autosaveActive ==
  autosave = "fired" /\ \A i \in 2 .. Len(lane) : lane[i].by # "auto"
Rejected(op, e) ==
  /\ saveError' = IF \/ ~mounted
                     \/ op.kind = "reload"
                     \/ op.by = "auto" /\ ~autosaveActive
                  THEN saveError ELSE e
  /\ saving' = IF mounted /\ op.kind = "save" THEN FALSE ELSE saving
  /\ IF op.by = "auto" THEN UNCHANGED <<busy, owner>> ELSE ActionEnds
  /\ UNCHANGED <<draft, payload, mailboxId, preview, pending, submit>>

-----------------------------------------------------------------------------
(* The draft writer: one lane for autosave, save, flush and reload.        *)

Idle == [pc |-> "idle", cmd |-> None, own |-> TRUE]
check == session /\ ~writer.closed

NewWriter(id, v) ==
  [id |-> id, snap |-> v, closed |-> FALSE, conflict |-> FALSE,
   pinned |-> None]

\* MUTANT: the next revision is taken for the own write.
acknowledgedByRevision(v, c) == v.id = c.id /\ v.rev = c.rev + 1

acknowledgementMatches(v, c) ==
  v.id = c.id /\ v.rev = c.rev + 1 /\ InputOf(v) = InputOf(c)

Writing(c, own) == wire' = [pc |-> "write", cmd |-> c, own |-> own]
OpFails(e) == lane' = Tail(lane) /\ wire' = Idle /\ Rejected(Head(lane), e)
OpDone(v) == lane' = Tail(lane) /\ wire' = Idle /\ Resolved(Head(lane), v)

\* save() once nothing is pinned: no request when the server confirmed this
\* very content, an error at the last representable revision, else a write.
OwnWrite(snap, content) ==
  LET input == Head(lane).input IN
  IF snap.rev > 0 /\ input = InputOf(snap) THEN OpDone(snap)
  ELSE IF snap.rev = MaxRev THEN OpFails("retry")
  ELSE /\ Writing([id |-> writer.id, rev |-> snap.rev, box |-> input.box,
                   body |-> input.body, uncertain |-> FALSE,
                   base |-> content], TRUE)
       /\ UNCHANGED <<lane, ui>>

\* The head of the lane starts once the operation before it settled.
LaneStart ==
  /\ lane # <<>> /\ wire = Idle
  /\ IF ~check THEN OpFails("retry")
     ELSE IF Head(lane).kind = "reload"
     THEN /\ wire' = [Idle EXCEPT !.pc = "reload"]
          /\ UNCHANGED <<lane, ui>>
     ELSE IF writer.conflict THEN OpFails("latched")
     ELSE IF writer.pinned # None
     THEN Writing(writer.pinned, FALSE) /\ UNCHANGED <<lane, ui>>
     ELSE OwnWrite(writer.snap, known)
  /\ UNCHANGED <<server, rights, stray, props, mounted, session, writer, known,
                 budget>>

\* A write or a read-back shows the command done: it becomes the snapshot, and
\* the operation goes on to its own content when the command was a pinned one.
Acknowledge(v) ==
  /\ writer' = [writer EXCEPT !.snap = v, !.pinned = None]
  /\ known' = wire.cmd.body
  /\ IF wire.own THEN OpDone(v) ELSE OwnWrite(v, wire.cmd.body)

\* Codes for which retrying the same request cannot succeed.
isDeterministicErrorCode(code) ==
  code \in {"CONFLICT", "FORBIDDEN", "NOT_FOUND", "UNAUTHORIZED"}

\* The error path of persist() after the write was answered with a code.
\* A conflict of a command that may already have been applied is not a
\* refusal: it is read back like a lost reply.
WriteRefused(code) ==
  IF code = "CONFLICT" /\ wire.cmd.uncertain
  THEN /\ wire' = [wire EXCEPT !.pc = "readback"]
       /\ UNCHANGED <<writer, lane, ui, known>>
  ELSE /\ writer' = [writer EXCEPT !.pinned = None,
                                   !.conflict = isDeterministicErrorCode(code)]
       /\ OpFails(IF isDeterministicErrorCode(code) THEN "latched" ELSE "retry")
       /\ UNCHANGED known

\* The server handles the write and its answer arrives.
WriteAnswered ==
  /\ wire.pc = "write"
  /\ SaveMailDraft(wire.cmd)
  /\ LET a == SaveAnswer(wire.cmd) IN
     IF ~check THEN OpFails("retry") /\ UNCHANGED <<writer, known>>
     ELSE IF a.code = "OK" THEN Acknowledge(a.value)
     ELSE WriteRefused(a.code)
  /\ UNCHANGED <<rights, stray, props, mounted, session, budget>>

\* Turned away before the handler: by a rate limit, or for a session that could
\* not be renewed.
WriteTurnedAway ==
  /\ wire.pc = "write" /\ budget.faults > 0
  /\ budget' = [budget EXCEPT !.faults = @ - 1]
  /\ IF check THEN \E code \in {"RATE_LIMITED", "UNAUTHORIZED"} : WriteRefused(code)
     ELSE OpFails("retry") /\ UNCHANGED <<writer, known>>
  /\ UNCHANGED <<server, rights, stray, props, mounted, session>>

\* No usable answer: the command is pinned and read back.
WriteLost ==
  /\ wire.pc = "write" /\ budget.faults > 0
  /\ budget' = [budget EXCEPT !.faults = @ - 1]
  /\ stray' = stray \cup {[kind |-> "save", msg |-> wire.cmd]}
  /\ IF ~check THEN OpFails("retry") /\ UNCHANGED <<writer, known>>
     ELSE LET c == [wire.cmd EXCEPT !.uncertain = TRUE] IN
          /\ writer' = [writer EXCEPT !.pinned = c]
          /\ wire' = [wire EXCEPT !.pc = "readback", !.cmd = c]
          /\ UNCHANGED <<lane, ui, known>>
  /\ UNCHANGED <<server, rights, props, mounted, session>>

\* The read-back: our content one revision on settles the command, a newer
\* revision of anything else latches a conflict, the rest proves nothing.
Readback ==
  /\ wire.pc = "readback"
  /\ \E a \in {GetMailDraft(writer.id), Answer("LOST", None)} :
       IF ~check THEN OpFails("retry") /\ UNCHANGED <<writer, known>>
       ELSE IF a.code = "OK" /\ acknowledgementMatches(a.value, wire.cmd)
       THEN Acknowledge(a.value)
       ELSE IF a.code = "OK" /\ a.value.rev > wire.cmd.rev
       THEN /\ writer' = [writer EXCEPT !.conflict = TRUE]
            /\ OpFails("latched") /\ UNCHANGED known
       ELSE OpFails("retry") /\ UNCHANGED <<writer, known>>
  /\ UNCHANGED <<server, rights, stray, props, mounted, session, budget>>

\* reload() answers: the server's draft replaces snapshot, latch, pinned
\* command and the edits of this window.
ReloadAnswered ==
  /\ wire.pc = "reload"
  /\ \E a \in {GetMailDraft(writer.id), Answer("LOST", None)} :
       IF ~check \/ a.code # "OK"
       THEN OpFails("retry") /\ UNCHANGED <<writer, known>>
       ELSE /\ writer' = [writer EXCEPT !.snap = a.value, !.conflict = FALSE,
                                        !.pinned = None]
            /\ known' = a.value.body
            /\ lane' = Tail(lane) /\ wire' = Idle
            /\ draft' = a.value /\ payload' = a.value.body
            /\ mailboxId' = a.value.box
            /\ saveError' = "none" /\ preview' = None
            /\ ActionEnds /\ UNCHANGED <<saving, pending, submit>>
  /\ UNCHANGED <<server, rights, stray, props, mounted, session, budget>>

-----------------------------------------------------------------------------
(* The user at the editor.                                                 *)

quiet == <<server, rights, stray, props, mounted, session>>
Enqueue(op) == lane' = Append(lane, op) /\ saving' = (op.kind = "save" \/ saving)
NotOperating == UNCHANGED <<busy, owner, pending, submit>>

\* Which fields take input: recipients, the variables of a template, or the
\* subject and body when no version is in use.
CanEditRecipients == ~locked
CanEditVars == version /\ ~locked
CanEditText == ~version /\ ~locked /\ mailboxId \notin TemplateOnly

\* change(): any edit of the content drops the preview.
change(p) == payload' = p /\ preview' = None

Type(t) ==
  /\ mounted /\ budget.edits > 0 /\ t # payload.text
  /\ CanEditRecipients \/ CanEditVars \/ CanEditText
  /\ change([payload EXCEPT !.text = t])
  /\ budget' = [budget EXCEPT !.edits = @ - 1]
  /\ NotOperating
  /\ UNCHANGED <<quiet, draftWriter, draft, mailboxId, saveError, saving>>

\* The template picker offers the listed version and none.
PickTemplate ==
  /\ mounted /\ ~locked /\ budget.edits > 0
  /\ payload.pin \/ listed
  /\ change([payload EXCEPT !.pin = ~@])
  /\ budget' = [budget EXCEPT !.edits = @ - 1]
  /\ NotOperating
  /\ UNCHANGED <<quiet, draftWriter, draft, mailboxId, saveError, saving>>

\* MUTANT: changing the sender keeps the attachments.
SelectMailboxKeepingFiles(b) ==
  /\ mounted /\ ~locked /\ budget.edits > 0 /\ view[b] /\ b # mailboxId
  /\ mailboxId' = b
  /\ change([payload EXCEPT !.pin = FALSE])
  /\ budget' = [budget EXCEPT !.edits = @ - 1]
  /\ NotOperating
  /\ UNCHANGED <<quiet, draftWriter, draft, saveError, saving>>

\* Another sender drops the attachments and the template of the old one.
SelectMailbox(b) ==
  /\ mounted /\ ~locked /\ budget.edits > 0 /\ view[b] /\ b # mailboxId
  /\ mailboxId' = b
  /\ change([payload EXCEPT !.pin = FALSE, !.atts = {}])
  /\ budget' = [budget EXCEPT !.edits = @ - 1]
  /\ NotOperating
  /\ UNCHANGED <<quiet, draftWriter, draft, saveError, saving>>

RemoveAttachment ==
  /\ mounted /\ ~locked /\ payload.atts # {}
  /\ change([payload EXCEPT !.atts = {}])
  /\ NotOperating
  /\ UNCHANGED <<quiet, draftWriter, draft, mailboxId, saveError, saving, budget>>

\* The timer of the autosave effect fires.
Autosave ==
  /\ autosave = "armed"
  /\ Enqueue([kind |-> "save", by |-> "auto", input |-> Editing])
  /\ NotOperating
  /\ UNCHANGED <<quiet, draft, payload, mailboxId, saveError, preview, writer,
                 wire, known, budget>>

\* "Save draft", and "Retry save" of the error panel.
panelReady == saveError # "none" /\ busy = "none" /\ ~saving /\ pending = None
ClickSave ==
  /\ mounted /\ busy = "none" /\ pending = None
  /\ senderAllowed \/ (panelReady /\ saveError = "retry")
  /\ busy' = "save"
  /\ Enqueue([kind |-> "save", by |-> "user", input |-> Editing])
  /\ UNCHANGED <<quiet, draft, payload, mailboxId, saveError, pending, preview,
                 owner, submit, writer, wire, known, budget>>

\* "Unpin template": the edit and the save of it in one click.
Unpin ==
  /\ mounted /\ ~locked /\ ineligible
  /\ LET next == [payload EXCEPT !.pin = FALSE] IN
     /\ payload' = next
     /\ Enqueue([kind |-> "save", by |-> "user",
                 input |-> [box |-> mailboxId, body |-> next]])
  /\ preview' = None /\ busy' = "save"
  /\ UNCHANGED <<quiet, draft, mailboxId, saveError, pending, owner, submit,
                 writer, wire, known, budget>>

\* send(): a pinned submission is dispatched again as it is, anything else is
\* flushed through the lane first.
Captured == [permission |-> gen.permission, sender |-> gen.sender,
             shown |-> Editing]
sendEnabled ==
  /\ busy = "none" /\ senderAllowed
  /\ pending = None =>
       /\ payload.text # Blank.text \* there is a recipient
       /\ ~invalidVersion
       /\ mailboxId \in TemplateOnly => version
ClickSend ==
  /\ mounted /\ session /\ sendEnabled
  /\ IF pending = None
     THEN /\ busy' = "flush" /\ owner' = Captured
          /\ Enqueue([kind |-> "save", by |-> "send", input |-> Editing])
          /\ UNCHANGED submit
     ELSE /\ sendAllowed /\ busy' = "submit" /\ submit' = pending
          /\ owner' = Captured
          /\ UNCHANGED <<lane, saving>>
  /\ UNCHANGED <<quiet, draft, payload, mailboxId, saveError, pending, preview,
                 writer, wire, known, budget>>

\* The panel after a failed save: take the server's version ...
ClickReload ==
  /\ mounted /\ panelReady
  /\ busy' = "reload"
  /\ Enqueue([kind |-> "reload", by |-> "user", input |-> None])
  /\ UNCHANGED <<quiet, draft, payload, mailboxId, saveError, pending, preview,
                 owner, submit, writer, wire, known, budget>>

\* ... or keep the edits as a new draft under a new writer.
ClickKeep ==
  /\ mounted /\ panelReady /\ senderAllowed /\ writer.id < MaxDrafts
  /\ LET copy == [id |-> writer.id + 1, rev |-> 0, box |-> mailboxId,
                  body |-> payload, usable |-> FALSE] IN
     draft' = copy /\ writer' = NewWriter(copy.id, copy)
  /\ saveError' = "none" /\ known' = None
  /\ NotOperating
  /\ UNCHANGED <<quiet, payload, mailboxId, saving, preview, lane, wire, budget>>

\* senderOperation(): an upload or a template preview owned by the sender
\* identity (and, for the preview, the permission) of its click.
ClickUpload ==
  /\ mounted /\ session /\ ~locked /\ senderAllowed /\ budget.edits > 0
  /\ busy' = "upload" /\ owner' = Captured
  /\ budget' = [budget EXCEPT !.edits = @ - 1]
  /\ UNCHANGED <<quiet, draft, payload, mailboxId, saveError, saving, pending,
                 preview, submit, draftWriter>>

ClickPreview ==
  /\ mounted /\ session /\ ~locked /\ version /\ sendAllowed /\ preview = None
  /\ busy' = "preview" /\ owner' = Captured
  /\ UNCHANGED <<quiet, draft, payload, mailboxId, saveError, saving, pending,
                 preview, submit, draftWriter, budget>>

ownsSender ==
  assertOwner /\ senderAllowed /\ owner.sender = gen.sender

UploadEnds ==
  /\ busy = "upload"
  /\ \E ok \in BOOLEAN :
       IF ok /\ ownsSender
       THEN /\ payload' = [payload EXCEPT !.atts = owner.shown.body.atts
                                              \cup {owner.shown.box}]
            /\ preview' = None
       ELSE UNCHANGED <<payload, preview>>
  /\ ActionEnds
  /\ UNCHANGED <<quiet, draft, mailboxId, saveError, saving, pending, submit,
                 draftWriter, budget>>

PreviewEnds ==
  /\ busy = "preview"
  /\ preview' = IF ownsSender /\ assertSendAllowed THEN owner.shown ELSE preview
  /\ ActionEnds
  /\ UNCHANGED <<quiet, draft, payload, mailboxId, saveError, saving, pending,
                 submit, draftWriter, budget>>

\* "Close", and the page leaving the tree: only the first closes the lane.
Close ==
  /\ mounted /\ busy = "none"
  /\ mounted' = FALSE /\ writer' = [writer EXCEPT !.closed = TRUE]
  /\ UNCHANGED <<server, rights, stray, props, session, ui, lane, wire, known,
                 budget>>
Unmount ==
  /\ mounted /\ budget.faults > 0
  /\ mounted' = FALSE /\ budget' = [budget EXCEPT !.faults = @ - 1]
  /\ UNCHANGED <<server, rights, stray, props, session, ui, draftWriter>>

-----------------------------------------------------------------------------
(* The submission of a draft.                                              *)

SubmitAnswered ==
  /\ submit # None
  /\ SubmitDraft(submit)
  /\ LET o == SubmitOutcome(submit) IN
     IF o \in {"OK", "REPLAY"} /\ assertOwner
     THEN /\ mounted' = FALSE /\ writer' = [writer EXCEPT !.closed = TRUE]
          /\ UNCHANGED pending
     ELSE /\ pending' = IF assertOwner THEN None ELSE pending
          /\ UNCHANGED <<mounted, writer>>
  /\ submit' = None /\ ActionEnds
  /\ UNCHANGED <<rights, stray, props, session, draft, payload, mailboxId,
                 saveError, saving, preview, lane, wire, known, budget>>

\* No answer: the submission stays pinned, the request may still arrive.
SubmitLost ==
  /\ submit # None /\ budget.faults > 0
  /\ budget' = [budget EXCEPT !.faults = @ - 1]
  /\ stray' = stray \cup {[kind |-> "submit", msg |-> submit]}
  /\ submit' = None /\ ActionEnds
  /\ UNCHANGED <<server, rights, props, mounted, session, draft, payload,
                 mailboxId, saveError, saving, pending, preview, draftWriter>>

-----------------------------------------------------------------------------
(* Everything around the editor.                                           *)

\* A request whose reply was lost reaches the server after all.
StrayArrives ==
  /\ \E m \in stray :
       /\ stray' = stray \ {m}
       /\ IF m.kind = "save" THEN SaveMailDraft(m.msg) ELSE SubmitDraft(m.msg)
  /\ UNCHANGED <<rights, props, mounted, session, ui, draftWriter, budget>>

\* The same draft in another tab: saved, submitted or deleted there.
OtherTab ==
  /\ budget.faults > 0
  /\ budget' = [budget EXCEPT !.faults = @ - 1]
  /\ \E d \in {e \in Drafts : srv[e].state = "live"} :
       \/ /\ srv[d].rev < MaxRev
          /\ \E t \in Texts : srv' = [srv EXCEPT ![d].rev = @ + 1,
                                       ![d].body.text = t, ![d].by = "other"]
          /\ UNCHANGED <<receipts, jobs>>
       \/ SubmitDraft([id |-> d, rev |-> srv[d].rev, shown |-> InputOf(srv[d])])
       \/ /\ srv' = [srv EXCEPT ![d].state = "gone"]
          /\ UNCHANGED <<receipts, jobs>>
  /\ UNCHANGED <<rights, stray, props, mounted, session, ui, draftWriter>>

\* An administrator changes a grant or the template's eligibility.
RightsChange ==
  /\ budget.faults > 0
  /\ budget' = [budget EXCEPT !.faults = @ - 1]
  /\ \/ \E b \in Boxes : grant' = [grant EXCEPT ![b] = ~@] /\ UNCHANGED tmplOk
     \/ tmplOk' = ~tmplOk /\ UNCHANGED grant
  /\ UNCHANGED <<server, stray, props, mounted, session, ui, draftWriter>>

\* The mailbox and template lists are revalidated.
Revalidate ==
  /\ mounted /\ props # <<grant, tmplOk>>
  /\ view' = grant /\ listed' = tmplOk
  /\ UNCHANGED <<server, rights, stray, mounted, session, ui, draftWriter, budget>>

\* The tab's session is replaced; the editor's scope is no longer current.
SessionChanges ==
  /\ session /\ budget.faults > 0
  /\ session' = FALSE /\ budget' = [budget EXCEPT !.faults = @ - 1]
  /\ UNCHANGED <<server, rights, stray, props, mounted, ui, draftWriter>>

-----------------------------------------------------------------------------
NoDraft(d) == [state |-> "none", rev |-> 0, box |-> CHOOSE b \in Boxes : TRUE,
               body |-> Blank, by |-> "other", base |-> None]

\* The editor opens on a new draft or on one that is stored at revision 1.
Init ==
  \E stored \in BOOLEAN, b \in Boxes \ TemplateOnly :
    LET v == [id |-> 1, rev |-> IF stored THEN 1 ELSE 0, box |-> b,
              body |-> Blank, usable |-> TRUE] IN
    /\ srv = [d \in Drafts |->
               IF stored /\ d = 1
               THEN [NoDraft(d) EXCEPT !.state = "live", !.rev = 1, !.box = b]
               ELSE NoDraft(d)]
    /\ receipts = [d \in Drafts |->
                    IF stored /\ d = 1 THEN InputOf(v) ELSE None]
    /\ jobs = <<>> /\ stray = {}
    /\ grant = [x \in Boxes |-> TRUE] /\ tmplOk = TRUE
    /\ view = grant /\ listed = TRUE
    /\ mounted = TRUE /\ session = TRUE
    /\ draft = v /\ payload = v.body /\ mailboxId = b
    /\ saveError = "none" /\ saving = FALSE /\ pending = None
    /\ busy = "none" /\ preview = None /\ owner = None /\ submit = None
    /\ gen = NoMoves /\ withdrawn = Nothing /\ autosave = "off"
    /\ writer = NewWriter(1, v) /\ lane = <<>> /\ wire = Idle
    /\ known = IF stored THEN Blank ELSE None
    /\ budget = [edits |-> MaxEdits, faults |-> MaxFaults]

UserStep ==
  \/ \E t \in Texts : Type(t)
  \/ PickTemplate
  \/ \E b \in Boxes : SelectMailbox(b)
  \/ RemoveAttachment \/ ClickSave \/ Unpin \/ ClickSend \/ ClickReload
  \/ ClickKeep \/ ClickUpload \/ ClickPreview \/ Close \/ Unmount

EditorStep == Autosave \/ LaneStart
NetworkStep ==
  \/ WriteAnswered \/ WriteTurnedAway \/ WriteLost \/ Readback
  \/ ReloadAnswered \/ UploadEnds \/ PreviewEnds \/ SubmitAnswered
  \/ SubmitLost
WorldStep == StrayArrives \/ OtherTab \/ RightsChange \/ Revalidate
             \/ SessionChanges

Next == (UserStep \/ EditorStep \/ NetworkStep \/ WorldStep) /\ Commit

Spec == Init /\ [][Next]_vars

-----------------------------------------------------------------------------
StoredDraft == [state : {"none", "live", "gone"}, rev : 0 .. MaxRev, box : Boxes,
                body : Body, by : {"editor", "other"}, base : Body \cup {None}]
Job == [id : Drafts, rev : 1 .. MaxRev, content : Input, shown : Input]
Writer == [id : Drafts, snap : MailDraft, closed : BOOLEAN, conflict : BOOLEAN,
           pinned : Command \cup {None}]
Wire == [pc : {"idle", "write", "readback", "reload"}, cmd : Command \cup {None},
         own : BOOLEAN]

TypeOK ==
  /\ srv \in [Drafts -> StoredDraft] /\ receipts \in [Drafts -> Input \cup {None}]
  /\ jobs \in Seq(Job)
  /\ stray \subseteq [kind : {"save"}, msg : Command] \cup
                    [kind : {"submit"}, msg : Submission]
  /\ grant \in [Boxes -> BOOLEAN] /\ view \in [Boxes -> BOOLEAN]
  /\ tmplOk \in BOOLEAN /\ listed \in BOOLEAN /\ mounted \in BOOLEAN
  /\ session \in BOOLEAN /\ saving \in BOOLEAN
  /\ draft \in MailDraft /\ payload \in Body /\ mailboxId \in Boxes
  /\ saveError \in {"none", "retry", "latched"}
  /\ pending \in Submission \cup {None} /\ submit \in Submission \cup {None}
  /\ busy \in {"none", "save", "flush", "submit", "reload", "upload", "preview"}
  /\ preview \in Input \cup {None} /\ owner \in Owner \cup {None}
  /\ gen \in [permission : Nat, sender : Nat]
  /\ withdrawn \in [send : BOOLEAN, sender : BOOLEAN] /\ autosave \in {"off", "armed", "fired"}
  /\ writer \in Writer /\ lane \in Seq(Op) /\ wire \in Wire /\ known \in Body \cup {None}

\* Whatever is submitted from this editor is what its user was looking at when
\* clicking "Send": autosaves, retries, late requests and other tabs never put
\* other content, or another sender, under that click.
JobIsWhatWasShown == \A i \in DOMAIN jobs : jobs[i].content = jobs[i].shown

\* A submission that is retried, delayed or repeated in another tab yields one
\* job per draft.
OneJobPerDraft ==
  \A i, j \in DOMAIN jobs : jobs[i].id = jobs[j].id => i = j

\* A save of this editor replaces only server content that this editor wrote
\* or loaded itself: edits made elsewhere are never overwritten unseen.
OverwritesOnlyWhatItSaw ==
  [][\A d \in Drafts :
       (srv'[d] # srv[d] /\ srv'[d].by = "editor" /\ srv'[d].state = "live"
        /\ srv'[d].rev > 1)
       => srv'[d].base = srv[d].body]_srv

\* The attachments of the edited mail were uploaded for the selected sender.
AttachmentsFitSender == payload.atts \subseteq {mailboxId}

\* What a click started completes only if its right was never withdrawn since: no
\* submission leaves and no preview appears after a moment without the right to
\* send (the mailbox's or the template's), no uploaded file joins the mail after
\* one without the right to its sender, even if the right was restored before the
\* flush, the render or the upload answered.  A retry needs the right when clicked.
NothingAfterRevocation ==
  [][/\ (submit' # None /\ submit = None) \/ preview' \notin {None, preview}
          => sendAllowed /\ ~withdrawn.send
     /\ busy = "upload" /\ payload'.atts # payload.atts
          => senderAllowed /\ ~withdrawn.sender]_vars
=============================================================================

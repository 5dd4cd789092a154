--------------------------- MODULE PermissionEditing ---------------------------
(***************************************************************************)
(* An administrator edits permission profiles (features/company/           *)
(* profile-management.tsx) and one member's permissions (user-management   *)
(* .tsx) while other administrators change the same rows.  Every write is  *)
(* a compare-and-set on the revision the page observed; the company event  *)
(* stream (company-event-consumer.tsx over streamEvents) tells the page    *)
(* that something changed, and the page must then mark its draft stale,    *)
(* fence its own reads and fetch the list again, without ever losing or    *)
(* replaying the draft.  One page is mounted at a time and its dialogs are *)
(* modal.  A reply whose captured operation counter (permEpoch on the      *)
(* member page) is not the current one is ignored by every handler, so     *)
(* bumping the counter leaves no call waiting; a write that was already    *)
(* sent may still reach the server (stray).                                *)
(***************************************************************************)
EXTENDS Integers, FiniteSets

CONSTANTS Profiles, Members, Fields, Vals, None,
          First,      \* the profile that exists at the start
          MaxEdits,   \* fields the administrator types in
          MaxWrites,  \* writes the administrator sends
          MaxRivals,  \* changes by other administrators
          MaxFaults   \* lost wire, dropped streams, session changes

ASSUME PermissionBounds ==
  /\ First \in Profiles /\ Vals # {} /\ None \notin Profiles \cup Members \cup Vals
  /\ {MaxEdits, MaxWrites, MaxRivals, MaxFaults} \subseteq Nat

VARIABLES
  profile,   \* server: id -> [live, rev, val]
  member,    \* server: user -> [rev, prof, ovr]
  admin,     \* server: the administrator still has the authority
  up, due,   \* the event stream is connected; a frame is on its way
  loop, pending, revoked,  \* the consumer: refresh loop, its flag, revokedScope
  page, list, listErr, accessError,
  ui,        \* the dialogs of the profile page
  perm,      \* the dialog of the member page
  call,      \* the request whose reply the page waits for
  stray,     \* writes nobody waits for, which may still be applied
  seen, typed, agreed,     \* what the administrator read, typed, ticked
  budget

server == <<profile, member, admin>>
stream == <<up, due>>
consumer == <<loop, pending, revoked>>
lists == <<list, listErr>>
wire == <<call, stray>>
history == <<seen, typed, agreed>>
vars == <<server, stream, consumer, page, lists, accessError, ui, perm, wire,
          history, budget>>

-----------------------------------------------------------------------------
(* State *)

defaultForm == [f \in Fields |-> CHOOSE v \in Vals : TRUE]

ClosedUI ==
  [dialog |-> "none", id |-> None, rev |-> 0, base |-> defaultForm,
   form |-> defaultForm, stale |-> FALSE, review |-> FALSE, fresh |-> None,
   preview |-> None, confirmed |-> FALSE, writing |-> FALSE, reading |-> FALSE]

emptyOverrideForm == [f \in Fields |-> None]

ClosedPerm ==
  [user |-> None, snap |-> None, form |-> emptyOverrideForm, dest |-> None,
   destRev |-> 0, loading |-> FALSE, needsReload |-> FALSE, saving |-> FALSE]

Idle == [op |-> "none", arg |-> None, ans |-> None]

Init ==
  /\ profile = [p \in Profiles |-> [live |-> p = First, rev |-> 1, val |-> defaultForm]]
  /\ member = [m \in Members |-> [rev |-> 1, prof |-> First, ovr |-> emptyOverrideForm]]
  /\ admin = TRUE /\ up = FALSE /\ due = FALSE
  /\ loop = "idle" /\ pending = FALSE /\ revoked = FALSE
  /\ page \in {"profiles", "members"} /\ list = None /\ listErr = FALSE
  /\ accessError = FALSE
  /\ ui = ClosedUI /\ perm = ClosedPerm /\ call = Idle /\ stray = {}
  /\ seen = None /\ typed = {} /\ agreed = None
  /\ budget = [edits |-> MaxEdits, writes |-> MaxWrites, rivals |-> MaxRivals, faults |-> MaxFaults]

\* What a closed dialog held is overwritten before the next one shows it.
Forget == seen' = None /\ typed' = {} /\ agreed' = None

Spend(kind) == budget[kind] > 0 /\ budget' = [budget EXCEPT ![kind] = @ - 1]

-----------------------------------------------------------------------------
(* Requests: a call is sent, served (or lost) and settled.                 *)

WriteOps == {"update", "delete", "create", "save"}

\* ++operation.current (++permEpoch.current with abort): nobody waits any more.
Unserved == IF call.op \in WriteOps /\ call.ans = None THEN {call} ELSE {}
Fence == call' = Idle /\ stray' = stray \cup Unserved

\* ++operation.current, then the request that captures the new value.
Send(op, arg) ==
  call' = [op |-> op, arg |-> arg, ans |-> None] /\ stray' = stray \cup Unserved

Lost == [code |-> "LOST", val |-> None]
Denied == [code |-> "FORBIDDEN", val |-> None]
OK(v) == [code |-> "OK", val |-> v]
Conflict == [code |-> "CONFLICT", val |-> None]

\* listPermissionProfiles: the live profiles with their revisions.
Listed == [p \in Profiles |-> IF profile[p].live THEN profile[p] ELSE None]

\* mutateProfiles(): SWR fetches the list; a refusal keeps the old rows.
Reload ==
  /\ list' = IF admin THEN Listed ELSE list
  /\ listErr' = ~admin

\* The revision the server binds to a member: its own and its profile's.
RevisionOf(m) ==
  [user |-> member[m].rev, prof |-> member[m].prof,
   profRev |-> IF member[m].prof = None THEN 0 ELSE profile[member[m].prof].rev]

Holders(p) == {m \in Members : member[m].prof = p}

Observed(p) ==
  [rev |-> profile[p].rev, members |-> {<<m, RevisionOf(m)>> : m \in Holders(p)}]

Snapshot(m) == [rev |-> RevisionOf(m), ovr |-> member[m].ovr]

Overlay(val, patch) == [f \in Fields |-> IF f \in DOMAIN patch THEN patch[f] ELSE val[f]]

\* UpdatePermissionProfileCAS
ServeUpdate(a) ==
  /\ UNCHANGED member
  /\ IF profile[a.id].live /\ profile[a.id].rev = a.rev
     THEN profile' = [profile EXCEPT ![a.id] =
                        [live |-> TRUE, rev |-> @.rev + 1, val |-> Overlay(@.val, a.patch)]]
     ELSE UNCHANGED profile

\* DeletePermissionProfileCAS: only for exactly the confirmed members.
CanDelete(a) == profile[a.id].live /\ Observed(a.id) = a.preview

ServeDelete(a) ==
  IF CanDelete(a)
  THEN /\ profile' = [profile EXCEPT ![a.id].live = FALSE]
       /\ member' = [m \in Members |-> IF member[m].prof = a.id
                       THEN [member[m] EXCEPT !.prof = None, !.rev = @ + 1]
                       ELSE member[m]]
  ELSE UNCHANGED <<profile, member>>

\* createPermissionProfile: a new identity, and no company event.
ServeCreate(a) ==
  /\ UNCHANGED member
  /\ \E p \in Profiles :
       /\ ~profile[p].live /\ profile[p].rev = 1 /\ p # First
       /\ profile' = [profile EXCEPT ![p] = [live |-> TRUE, rev |-> 2, val |-> a]]

\* The permission editor's patch and assignment: compare-and-set on the
\* member's revision and on the revision of the destination profile.
CanSave(a) ==
  /\ RevisionOf(a.user) = a.expected
  /\ a.dest \in Profiles \ {a.expected.prof} =>
       profile[a.dest].live /\ profile[a.dest].rev = a.destRev

ServeSave(a) ==
  /\ UNCHANGED profile
  /\ IF CanSave(a)
     THEN member' = [member EXCEPT ![a.user] =
                       [rev |-> @.rev + 1, prof |-> a.dest, ovr |-> Overlay(@.ovr, a.patch)]]
     ELSE UNCHANGED member

\* The snapshot a successful write answers with.
SavedSnapshot(a) ==
  [rev |-> [user |-> member[a.user].rev + 1, prof |-> a.dest,
            profRev |-> IF a.dest = None THEN 0 ELSE profile[a.dest].rev],
   ovr |-> Overlay(member[a.user].ovr, a.patch)]

Outcome(c) ==
  CASE c.op = "update" -> IF profile[c.arg.id].live /\ profile[c.arg.id].rev = c.arg.rev
                          THEN OK(None) ELSE Conflict
    [] c.op = "delete" -> IF CanDelete(c.arg) THEN OK(None) ELSE Conflict
    [] c.op = "create" -> OK(None)
    [] c.op = "save"   -> IF CanSave(c.arg) THEN OK(SavedSnapshot(c.arg)) ELSE Conflict
    [] c.op = "refresh" -> OK(Listed)
    [] c.op = "preview" -> IF profile[c.arg].live THEN OK(Observed(c.arg)) ELSE Conflict
    [] c.op = "load"   -> OK(Snapshot(c.arg))

Write(c) ==
  CASE c.op = "update" -> ServeUpdate(c.arg)
    [] c.op = "delete" -> ServeDelete(c.arg)
    [] c.op = "create" -> ServeCreate(c.arg)
    [] c.op = "save"   -> ServeSave(c.arg)
    [] OTHER           -> UNCHANGED <<profile, member>>

\* A committed change of an event-carrying kind puts a frame on its way.
Announce == due' = (due \/ (up /\ <<profile, member>>' # <<profile, member>>))

Serve ==
  /\ call # Idle /\ call.ans = None
  /\ IF admin
     THEN /\ Write(call) /\ call' = [call EXCEPT !.ans = Outcome(call)]
          /\ IF call.op = "create" THEN UNCHANGED due ELSE Announce
     ELSE /\ call' = [call EXCEPT !.ans = Denied]
          /\ UNCHANGED <<profile, member, due>>
  /\ UNCHANGED <<admin, up, consumer, page, lists, accessError, ui, perm, stray,
                 history, budget>>

\* A write nobody waits for reaches the server after all.
ServeStray ==
  \E c \in stray :
    /\ admin /\ Write(c) /\ stray' = stray \ {c}
    /\ IF c.op = "create" THEN UNCHANGED due ELSE Announce
    /\ UNCHANGED <<admin, up, consumer, page, lists, accessError, ui, perm, call,
                   history, budget>>

\* The request never arrives, or its answer is lost on the way back.
LoseCall ==
  /\ call # Idle /\ call.ans # Lost /\ Spend("faults")
  /\ call' = [call EXCEPT !.ans = Lost]
  /\ stray' = stray \cup Unserved
  /\ UNCHANGED <<server, stream, consumer, page, lists, accessError, ui, perm, history>>

Answered(ops) ==
  /\ call.op \in ops /\ call.ans # None
  /\ call' = Idle /\ UNCHANGED stray

-----------------------------------------------------------------------------
(* The profile page.                                                       *)

restOfProfiles == <<server, stream, consumer, page, perm>>

\* canManageScope and mayManage, for a profile of the administrator's company.
canManageScope == page = "profiles" /\ ~accessError /\ ~revoked
mayManage(p) == canManageScope /\ list # None /\ ~listErr /\ list[p] # None

\* profileFieldPatch: the fields whose value differs from the baseline.
profileFieldPatch(form, base) == [f \in {g \in Fields : form[g] # base[g]} |-> form[f]]

\* MUTANT: the whole form is laid over the new version.
RebaseWhole(form, base, now) == form

\* A fresh version replaces the baseline; only fields the draft changed keep
\* the draft's value.
Rebase(form, base, now) == Overlay(now, profileFieldPatch(form, base))

canCreate == canManageScope /\ list # None /\ ~listErr

OpenCreate ==
  /\ canCreate /\ ui.dialog = "none"
  /\ ui' = [ui EXCEPT !.dialog = "create"]
  /\ UNCHANGED <<restOfProfiles, lists, accessError, wire, history, budget>>

handleCreate ==
  /\ canCreate /\ ui.dialog = "create" /\ ~ui.writing
  /\ \E p \in Profiles \ {First} : ~profile[p].live /\ profile[p].rev = 1
  /\ \A c \in stray : c.op # "create"
  /\ Spend("writes")
  /\ Send("create", defaultForm)
  /\ ui' = [ui EXCEPT !.writing = TRUE]
  /\ UNCHANGED <<restOfProfiles, lists, accessError, history>>

openEdit(p) ==
  /\ mayManage(p) /\ ui.dialog = "none"
  /\ Fence
  /\ ui' = [ui EXCEPT !.dialog = "edit", !.id = p, !.rev = list[p].rev,
              !.base = list[p].val, !.form = list[p].val,
              !.stale = FALSE, !.review = FALSE, !.fresh = None]
  /\ seen' = list[p].val /\ typed' = {}
  /\ UNCHANGED <<restOfProfiles, lists, accessError, agreed, budget>>

Type(f, v) ==
  /\ page = "profiles" /\ ui.dialog = "edit" /\ ~ui.writing /\ ui.form[f] # v
  /\ Spend("edits")
  /\ ui' = [ui EXCEPT !.form[f] = v] /\ typed' = typed \cup {f}
  /\ UNCHANGED <<restOfProfiles, lists, accessError, wire, seen, agreed>>

\* The box under the latest version: ticked, the version has been reviewed.
ConfirmFresh ==
  /\ ui.dialog = "edit" /\ ui.fresh # None /\ ~ui.writing /\ ~ui.reading
  /\ ui' = [ui EXCEPT !.review = ~@]
  /\ seen' = IF ui.review THEN ui.fresh ELSE seen
  /\ UNCHANGED <<restOfProfiles, lists, accessError, wire, typed, agreed, budget>>

canEdit ==
  /\ ui.dialog = "edit" /\ mayManage(ui.id) /\ ~ui.writing /\ ~ui.reading
  /\ ~ui.stale /\ ~ui.review
  /\ profileFieldPatch(ui.form, ui.base) # <<>>

handleEdit ==
  /\ canEdit
  /\ Spend("writes")
  /\ Send("update", [id |-> ui.id, rev |-> ui.rev,
                           patch |-> profileFieldPatch(ui.form, ui.base),
                           seen |-> seen, typed |-> typed])
  /\ ui' = [ui EXCEPT !.writing = TRUE]
  /\ UNCHANGED <<restOfProfiles, lists, accessError, history>>

refreshEdit ==
  /\ ui.dialog = "edit" /\ ~accessError /\ ~ui.reading /\ ~ui.writing
  /\ Send("refresh", None)
  /\ ui' = [ui EXCEPT !.reading = TRUE]
  /\ UNCHANGED <<restOfProfiles, lists, accessError, history, budget>>

\* onOpenChange of the edit and create dialogs.
CloseEdit ==
  /\ ui.dialog \in {"edit", "create"} /\ ~ui.writing /\ ~ui.reading
  /\ IF ui.dialog = "edit" THEN Fence ELSE UNCHANGED wire
  /\ ui' = ClosedUI /\ Forget
  /\ UNCHANGED <<restOfProfiles, lists, accessError, budget>>

\* MUTANT: the confirmation outlives its preview.
keepsTick(u) == [u EXCEPT !.preview = None]

\* A preview withdrawn takes its confirmation with it.
unconfirmed(u) == [u EXCEPT !.preview = None, !.confirmed = FALSE]

loadPreview(p) ==
  /\ mayManage(p) /\ ~ui.writing
  /\ \/ ui.dialog = "none"
     \/ ui.dialog = "delete" /\ ui.id = p /\ ~ui.reading
  /\ Send("preview", p)
  /\ ui' = [unconfirmed(ui) EXCEPT !.dialog = "delete", !.id = p, !.reading = TRUE]
  /\ UNCHANGED <<restOfProfiles, lists, accessError, history, budget>>

ConfirmEffects ==
  /\ ui.dialog = "delete" /\ ui.preview # None /\ ~ui.writing
  /\ ui' = [ui EXCEPT !.confirmed = ~@]
  /\ agreed' = IF ui.confirmed THEN agreed ELSE ui.preview
  /\ UNCHANGED <<restOfProfiles, lists, accessError, wire, seen, typed, budget>>

handleDelete ==
  /\ ui.dialog = "delete" /\ mayManage(ui.id) /\ ui.preview # None
  /\ ui.confirmed /\ ~ui.reading /\ ~ui.writing
  /\ Spend("writes")
  /\ Send("delete", [id |-> ui.id, preview |-> ui.preview, agreed |-> agreed])
  /\ ui' = [ui EXCEPT !.writing = TRUE]
  /\ UNCHANGED <<restOfProfiles, lists, accessError, history>>

CloseDelete ==
  /\ ui.dialog = "delete" /\ ~ui.writing
  /\ Fence
  /\ ui' = ClosedUI /\ Forget
  /\ UNCHANGED <<restOfProfiles, lists, accessError, budget>>

refusal == accessError' = (accessError \/ call.ans = Denied)

\* The replies.  A refused, conflicting or unknown outcome never closes the
\* dialog: it marks the draft stale or withdraws the confirmation.
Created ==
  /\ Answered({"create"}) /\ refusal
  /\ IF call.ans.code = "OK"
     THEN ui' = ClosedUI /\ Reload
     ELSE ui' = [ui EXCEPT !.writing = FALSE] /\ UNCHANGED lists
  /\ UNCHANGED <<restOfProfiles, history, budget>>

Edited ==
  /\ Answered({"update"}) /\ refusal
  /\ IF call.ans.code = "OK"
     THEN ui' = ClosedUI /\ Forget /\ Reload
     ELSE ui' = [ui EXCEPT !.writing = FALSE, !.stale = TRUE] /\ UNCHANGED <<lists, history>>
  /\ UNCHANGED <<restOfProfiles, budget>>

\* What refreshEdit leaves in the editor for a version it found.
rebased(now) ==
  [ui EXCEPT !.rev = now.rev, !.base = now.val, !.fresh = now.val,
     !.form = Rebase(ui.form, ui.base, now.val),
     !.review = TRUE, !.stale = FALSE, !.reading = FALSE]

Refreshed ==
  /\ Answered({"refresh"}) /\ refusal
  /\ IF call.ans.code = "OK" /\ call.ans.val[ui.id] # None /\ canManageScope
     THEN /\ ui' = rebased(call.ans.val[ui.id])
          /\ list' = call.ans.val /\ UNCHANGED listErr
     ELSE /\ ui' = [ui EXCEPT !.stale = TRUE, !.fresh = None, !.review = FALSE,
                      !.reading = FALSE]
          /\ UNCHANGED lists
  /\ UNCHANGED <<restOfProfiles, history, budget>>

Previewed ==
  /\ Answered({"preview"}) /\ refusal
  /\ ui' = [ui EXCEPT !.preview = call.ans.val, !.reading = FALSE]
  /\ UNCHANGED <<restOfProfiles, lists, history, budget>>

Deleted ==
  /\ Answered({"delete"}) /\ refusal
  /\ IF call.ans.code = "OK"
     THEN ui' = ClosedUI /\ Forget /\ Reload
     ELSE /\ ui' = [unconfirmed(ui) EXCEPT !.writing = FALSE]
          /\ UNCHANGED <<lists, history>>
  /\ UNCHANGED <<restOfProfiles, budget>>

-----------------------------------------------------------------------------
(* The member page.                                                        *)

restOfMembers == <<server, stream, consumer, page, accessError, ui>>

\* loadPermSnapshot: the draft is discarded and the editor is read again.
Loading(m) == [ClosedPerm EXCEPT !.user = m, !.loading = TRUE]

openPermDialog(m) ==
  /\ page = "members" /\ list # None
  /\ \/ perm.user = None
     \/ perm.user = m /\ ~perm.loading /\ ~perm.saving
  /\ Send("load", m)
  /\ perm' = Loading(m) /\ typed' = {}
  /\ UNCHANGED <<restOfMembers, lists, seen, agreed, budget>>

closePermDialog ==
  /\ perm.user # None
  /\ Fence
  /\ perm' = ClosedPerm /\ Forget
  /\ UNCHANGED <<restOfMembers, lists, budget>>

editorBusy == perm.loading \/ perm.needsReload \/ perm.saving
canPatch == perm.user # None /\ perm.snap # None /\ ~revoked /\ ~editorBusy

OverrideField(f, v) ==
  /\ canPatch /\ perm.form[f] # v /\ Spend("edits")
  /\ perm' = [perm EXCEPT !.form[f] = v] /\ typed' = typed \cup {f}
  /\ UNCHANGED <<restOfMembers, lists, wire, seen, agreed>>

\* knownProfile: the bound profile as the snapshot has it, another as listed.
knownRev(p) ==
  IF p = perm.snap.rev.prof THEN perm.snap.rev.profRev
  ELSE IF list # None /\ list[p] # None THEN list[p].rev ELSE 0

handlePermProfileChange(p) ==
  /\ canPatch /\ perm.dest # p /\ (p # None => knownRev(p) > 0)
  /\ perm' = [perm EXCEPT !.dest = p, !.destRev = IF p = None THEN 0 ELSE knownRev(p)]
  /\ UNCHANGED <<restOfMembers, lists, wire, history, budget>>

assignmentChanged == perm.dest # perm.snap.rev.prof
observedDestination == perm.dest # None => knownRev(perm.dest) = perm.destRev
canSave ==
  /\ canPatch
  /\ IF assignmentChanged THEN observedDestination ELSE perm.form # perm.snap.ovr

SaveCommand(patch) ==
  [user |-> perm.user, expected |-> perm.snap.rev, patch |-> patch,
   dest |-> perm.dest, destRev |-> perm.destRev, typed |-> typed]

handleSaveOverrides ==
  /\ canSave
  /\ Spend("writes")
  /\ Send("save", SaveCommand(profileFieldPatch(perm.form, perm.snap.ovr)))
  /\ perm' = [perm EXCEPT !.saving = TRUE]
  /\ UNCHANGED <<restOfMembers, lists, history>>

handleResetOverrides ==
  /\ canPatch /\ ~assignmentChanged
  /\ Spend("writes")
  /\ Send("save", [SaveCommand(emptyOverrideForm) EXCEPT !.typed = Fields])
  /\ perm' = [perm EXCEPT !.saving = TRUE]
  /\ UNCHANGED <<restOfMembers, lists, history>>

applyPermSnapshot(s) ==
  [perm EXCEPT !.snap = s, !.form = s.ovr, !.dest = s.rev.prof,
     !.destRev = s.rev.profRev, !.loading = FALSE, !.saving = FALSE,
     !.needsReload = FALSE]

PermAnswered ==
  /\ Answered({"load", "save"})
  /\ perm' = IF call.ans.code = "OK" THEN applyPermSnapshot(call.ans.val)
             ELSE [perm EXCEPT !.loading = FALSE, !.saving = FALSE,
                     !.needsReload = @ \/ call.op = "save"]
  /\ typed' = IF call.ans.code = "OK" THEN {} ELSE typed
  /\ IF call.op = "load" THEN Reload ELSE UNCHANGED lists
  /\ UNCHANGED <<restOfMembers, seen, agreed, budget>>

-----------------------------------------------------------------------------
(* The event stream and its consumer.                                      *)

\* MUTANT: reads under way are not fenced.
onInvalidateUnfenced ==
  IF page = "profiles"
  THEN /\ ui' = [unconfirmed(ui) EXCEPT !.reading = @ /\ ui.writing,
                   !.stale = ui.dialog = "edit", !.fresh = None, !.review = FALSE]
       /\ UNCHANGED <<perm, wire>>
  ELSE IF perm.user = None THEN UNCHANGED <<wire, ui, perm>>
  ELSE /\ perm' = [perm EXCEPT !.loading = FALSE, !.saving = FALSE, !.needsReload = TRUE]
       /\ UNCHANGED <<ui, wire>>

\* onInvalidate of the mounted page.  The profile page fences its reads but
\* not a write in flight; the member page fences both.
onInvalidate ==
  IF page = "profiles"
  THEN /\ IF ui.writing THEN UNCHANGED wire ELSE Fence
       /\ ui' = [unconfirmed(ui) EXCEPT !.reading = @ /\ ui.writing,
                   !.stale = ui.dialog = "edit", !.fresh = None, !.review = FALSE]
       /\ UNCHANGED perm
  ELSE IF perm.user = None THEN UNCHANGED <<wire, ui, perm>>
  ELSE /\ Fence
       /\ perm' = [perm EXCEPT !.loading = FALSE, !.saving = FALSE, !.needsReload = TRUE]
       /\ UNCHANGED ui

\* An event: the page is told, then the refresh loop starts or is asked for
\* one more round.
Event ==
  /\ onInvalidate
  /\ IF loop = "idle" THEN loop' = "overview" /\ pending' = FALSE
     ELSE pending' = TRUE /\ UNCHANGED loop
  /\ UNCHANGED <<server, revoked, page, lists, accessError, history>>

\* onRevoked, revokedScope, the purge of the page's cached rows and abort().
Revoke ==
  /\ revoked' = TRUE /\ loop' = "idle" /\ pending' = FALSE
  /\ up' = FALSE /\ due' = FALSE
  /\ ui' = ClosedUI /\ perm' = ClosedPerm /\ Fence
  /\ list' = None /\ listErr' = FALSE /\ accessError' = FALSE
  /\ Forget /\ UNCHANGED <<server, page>>

\* streamEvents connects; every accepted connection starts with a resync.
Connect ==
  /\ ~up /\ ~revoked /\ UNCHANGED budget
  /\ IF admin THEN up' = TRUE /\ due' = TRUE /\ Event ELSE Revoke

Deliver == up /\ due /\ due' = FALSE /\ UNCHANGED <<up, budget>> /\ Event

\* The server repeats a resync every 25 seconds.
Resync == up /\ admin /\ UNCHANGED <<stream, budget>> /\ Event

\* EOF or error: streamEvents waits and connects again.
Drop ==
  /\ up /\ up' = FALSE /\ due' = FALSE
  /\ IF admin THEN Spend("faults") ELSE UNCHANGED budget
  /\ UNCHANGED <<server, consumer, page, lists, accessError, ui, perm, wire, history>>

\* refresh(): the overview request detects a revoked authority.
Overview ==
  /\ loop = "overview" /\ UNCHANGED budget
  /\ IF ~admin THEN Revoke
     ELSE /\ loop' = "reload"
          /\ UNCHANGED <<server, stream, pending, revoked, page, lists, accessError,
                         ui, perm, wire, history>>

\* A transient failure ends the loop; a later resync starts it again.
OverviewFails ==
  /\ loop = "overview" /\ Spend("faults") /\ loop' = "idle"
  /\ UNCHANGED <<server, stream, pending, revoked, page, lists, accessError, ui,
                 perm, wire, history>>

RefreshList ==
  /\ loop = "reload" /\ Reload
  /\ loop' = IF pending THEN "overview" ELSE "idle"
  /\ pending' = FALSE
  /\ UNCHANGED <<server, stream, revoked, page, accessError, ui, perm, wire, history, budget>>

-----------------------------------------------------------------------------
(* The environment.                                                        *)

\* SWR's own revalidation: mount, focus, reconnect.
Revalidate ==
  /\ Reload /\ lists' # lists
  /\ UNCHANGED <<server, stream, consumer, page, accessError, ui, perm, wire, history, budget>>

Rival ==
  /\ Spend("rivals")
  /\ \/ /\ \E p \in Profiles, f \in Fields, v \in Vals :
             /\ profile[p].live /\ profile[p].val[f] # v
             /\ profile' = [profile EXCEPT ![p].val[f] = v, ![p].rev = @ + 1]
        /\ UNCHANGED <<member, admin>>
     \/ /\ \E m \in Members, f \in Fields, v \in Vals :
             /\ member[m].ovr[f] # v
             /\ member' = [member EXCEPT ![m].ovr[f] = v, ![m].rev = @ + 1]
        /\ UNCHANGED <<profile, admin>>
     \/ /\ \E m \in Members, p \in Profiles \cup {None} :
             /\ member[m].prof # p /\ (p # None => profile[p].live)
             /\ member' = [member EXCEPT ![m].prof = p, ![m].rev = @ + 1]
        /\ UNCHANGED <<profile, admin>>
     \/ /\ \E p \in Profiles :
             profile[p].live /\ ServeDelete([id |-> p, preview |-> Observed(p)])
        /\ UNCHANGED admin
     \/ admin /\ admin' = FALSE /\ UNCHANGED <<profile, member>>
  /\ Announce
  /\ UNCHANGED <<up, consumer, page, lists, accessError, ui, perm, wire, history>>

\* The session changes, or the administrator leaves the page and returns: the
\* cleanups bump the counters and abort, the page starts over.
Remount ==
  /\ Spend("faults") /\ UNCHANGED page
  /\ Fence /\ ui' = ClosedUI /\ perm' = ClosedPerm
  /\ up' = FALSE /\ due' = FALSE /\ loop' = "idle" /\ pending' = FALSE
  /\ revoked' = FALSE /\ list' = None /\ listErr' = FALSE /\ accessError' = FALSE
  /\ Forget /\ UNCHANGED server

ProfilePage ==
  \/ OpenCreate \/ handleCreate \/ ConfirmFresh \/ handleEdit \/ refreshEdit
  \/ CloseEdit \/ ConfirmEffects \/ handleDelete \/ CloseDelete
  \/ \E p \in Profiles : openEdit(p) \/ loadPreview(p)
  \/ \E f \in Fields, v \in Vals : Type(f, v)

MemberPage ==
  \/ closePermDialog \/ handleSaveOverrides \/ handleResetOverrides
  \/ \E m \in Members : openPermDialog(m)
  \/ \E f \in Fields, v \in Vals \cup {None} : OverrideField(f, v)
  \/ \E p \in Profiles \cup {None} : handlePermProfileChange(p)

Requests == Serve \/ ServeStray \/ LoseCall

Replies ==
  Created \/ Edited \/ Refreshed \/ Previewed \/ Deleted \/ PermAnswered

Feed == Connect \/ Deliver \/ Resync \/ Drop \/ Overview \/ OverviewFails \/ RefreshList

Next ==
  \/ ProfilePage \/ MemberPage \/ Feed \/ Revalidate \/ Rival \/ Remount
  \/ Requests \/ Replies

Spec == Init /\ [][Next]_vars

-----------------------------------------------------------------------------
(* Properties *)

Form == [Fields -> Vals]
OverrideForm == [Fields -> Vals \cup {None}]
Version == [live : BOOLEAN, rev : Nat, val : Form]
MemberRecord == [rev : Nat, prof : Profiles \cup {None}, ovr : OverrideForm]
Bound == [user : Nat, prof : Profiles \cup {None}, profRev : Nat]
SnapshotRecord == [rev : Bound, ovr : OverrideForm]
Preview == [rev : Nat, members : SUBSET (Members \X Bound)]
ProfileDialog ==
  [dialog : {"none", "create", "edit", "delete"}, id : Profiles \cup {None}, rev : Nat,
   base : Form, form : Form, stale : BOOLEAN, review : BOOLEAN, fresh : Form \cup {None},
   preview : Preview \cup {None}, confirmed : BOOLEAN, writing : BOOLEAN,
   reading : BOOLEAN]
MemberDialog ==
  [user : Members \cup {None}, snap : SnapshotRecord \cup {None}, form : OverrideForm,
   dest : Profiles \cup {None}, destRev : Nat, loading : BOOLEAN, needsReload : BOOLEAN,
   saving : BOOLEAN]

\* Every part of the server's and the pages' state has its shape.
TypeOK ==
  /\ profile \in [Profiles -> Version] /\ member \in [Members -> MemberRecord]
  /\ admin \in BOOLEAN /\ up \in BOOLEAN /\ due \in BOOLEAN /\ pending \in BOOLEAN
  /\ revoked \in BOOLEAN /\ listErr \in BOOLEAN /\ accessError \in BOOLEAN
  /\ loop \in {"idle", "overview", "reload"} /\ page \in {"profiles", "members"}
  /\ list \in [Profiles -> Version \cup {None}] \cup {None}
  /\ ui \in ProfileDialog /\ perm \in MemberDialog
  /\ typed \subseteq Fields

\* The writes of this administrator that the server decides in a step.
DecidedNow == {c \in stray \cup {call} : c.op \in WriteOps /\ c.ans = None
                                           /\ c \notin stray' \cup {call'}}

\* handleEdit, refreshEdit and the member dialog: when a write of this
\* administrator is applied, every field it changes is one the administrator
\* typed in, and the version it replaces is the one on the screen, however many
\* changes by others, events and rebases came between.
WritesWhatWasTyped ==
  [][\A c \in DecidedNow :
       /\ (c.op = "update" /\ profile' # profile) =>
            /\ profile[c.arg.id].val = c.arg.seen
            /\ \A f \in Fields : profile'[c.arg.id].val[f] # profile[c.arg.id].val[f]
                                   => f \in c.arg.typed
       /\ (c.op = "save" /\ member' # member) =>
            \A f \in Fields : member'[c.arg.user].ovr[f] # member[c.arg.user].ovr[f]
                                => f \in c.arg.typed]_vars

\* handleDelete: a profile disappears through this page only with exactly the
\* members, at exactly the revisions, that were on the screen when the
\* administrator ticked the box.
DeletesWhatWasReviewed ==
  [][\A c \in DecidedNow :
       (c.op = "delete" /\ profile' # profile) => Observed(c.arg.id) = c.arg.agreed]_vars

\* onInvalidate on the member page: a dialog that could still save shows the
\* member's current revision, or news of the change is still on its way.
StaleDialogIsFlagged ==
  (canPatch /\ up /\ ~due) => perm.snap.rev = RevisionOf(perm.user)

=============================================================================

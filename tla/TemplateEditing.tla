--------------------------- MODULE TemplateEditing ---------------------------
(***************************************************************************)
(* The administrator's template page: the library, the draft editor and    *)
(* the version history share one selected template                         *)
(* (app/(dashboard)/company/templates/page.tsx), and the editor saves and  *)
(* publishes it (components/company/templates).  The page and the editor   *)
(* each run one action at a time (useAction), so a revocation or a         *)
(* retirement of the page overlaps typing, saving and publishing in the    *)
(* editor.  Leaving the editor's tab unmounts it: its requests go on, and  *)
(* their answers are dropped.  Other administrators change templates too,  *)
(* and the server accepts a write for the current revision only            *)
(* (internal/store/postgres/company_templates.go).                         *)
(*                                                                         *)
(* Two fields stand for the five of a template: the name, which the server *)
(* trims, and the subject, which like the bodies and the variables is kept *)
(* as sent and is what a published version contains.                       *)
(***************************************************************************)
EXTENDS Integers, Sequences

CONSTANTS None,
          MaxCalls,  \* writes started by the administrator
          MaxMoves,  \* selections and changes typed by the administrator
          MaxRivals, \* changes by other administrators
          MaxLost    \* answers that are lost

ASSUME TemplateBounds == {MaxMoves, MaxCalls, MaxRivals, MaxLost} \subseteq Nat /\ None \notin Int

Fields == {"name", "subject"}
Typed == [name |-> {"mine "}, subject |-> {"mine", "base"}]
Values == {"", "base", "mine", "mine ", "theirs"}
Lanes == {"page", "editor"}

VARIABLES
  tmpls,    \* server: the templates, by id
  versions, \* server: the published versions of all templates
  lib,      \* the library list the page shows
  tab,      \* the tab that is mounted
  sel,      \* TemplateSelection: generation, edit, baseline, review
  view,     \* the version history shown, or None
  page,     \* the page's running action
  editor,   \* the editor's running action and publication
  net,      \* lane -> the request it waits for
  stray,    \* writes that may still reach the server, their caller gone
  edits,    \* changes typed so far
  calls, rivals, lost

vars == <<tmpls, versions, lib, tab, sel, view, page, editor, net, stray, edits,
          calls, rivals, lost>>
server == <<tmpls, versions>>
client == <<lib, tab, sel, view, page, editor, edits, calls>>

-----------------------------------------------------------------------------
(* Selection and pure helpers.                                             *)

Template(id, t) == [id |-> id, rev |-> t.rev, val |-> t.val, retired |-> t.retired]
Blank == [id |-> None, rev |-> 0, retired |-> FALSE,
          val |-> [name |-> "", subject |-> "base"]]
NoSelection == [gen |-> 0, edit |-> None, baseline |-> None, review |-> None, seen |-> {}]
Closed == [op |-> "idle", publication |-> None]

Pairs(t) == IF t = None THEN {} ELSE {<<f, t.val[f]>> : f \in Fields}

\* The selection is committed: `seen` collects what it put before the
\* administrator, and the history is read again for another revision.
Commit(s) ==
  /\ sel' = [s EXCEPT !.seen = @ \cup Pairs(s.edit) \cup
               Pairs(IF s.review = None THEN None ELSE s.review.fresh)]
  /\ view' = IF /\ s.edit # None /\ sel.edit # None
                /\ s.edit.id = sel.edit.id /\ s.edit.rev = sel.edit.rev
             THEN view ELSE None

same(a, b) == a # None /\ b # None /\ a.id = b.id /\ a.rev = b.rev

\* MUTANT: the answer replaces the editor's fields.
savedWins(current, snapshot, saved) == IF same(current, snapshot) THEN saved ELSE current

\* A saved answer: its metadata, and its fields where nothing newer was typed.
reconcileSaved(current, snapshot, saved) ==
  IF ~same(current, snapshot) THEN current
  ELSE [saved EXCEPT !.val = [f \in Fields |->
          IF current.val[f] = snapshot.val[f] THEN saved.val[f] ELSE current.val[f]]]

\* mergeVersionDraft: three-way, field by field.
mergeField(local, before, remote) == IF local = before THEN remote ELSE local
merged(current, baseline, fresh) ==
  [fresh EXCEPT !.val = [f \in Fields |->
     mergeField(current.val[f], baseline.val[f], fresh.val[f])]]

\* MUTANT: local edits win without a review.
neverConflicts(current, baseline, fresh) == FALSE
conflict(current, baseline, fresh) ==
  \E f \in Fields : /\ current.val[f] # baseline.val[f]
                    /\ fresh.val[f] # baseline.val[f]
                    /\ current.val[f] # fresh.val[f]

-----------------------------------------------------------------------------
(* The server.                                                             *)

Trim(val) == [val EXCEPT !["name"] = IF @ = "mine " THEN "mine" ELSE @]
Bump(id, t) == tmpls' = [tmpls EXCEPT ![id] = [t EXCEPT !.rev = @ + 1]]
Yes(data) == [ok |-> TRUE, data |-> data]
No == [ok |-> FALSE, data |-> None]

Current(c) == c.id \in DOMAIN tmpls /\ tmpls[c.id].rev = c.rev
CanSave(c) == c.kind = "save" /\ IF c.id = None THEN c.rev = 0 ELSE Current(c)
SaveMailTemplate(c) ==
  /\ CanSave(c)
  /\ IF c.id = None
     THEN tmpls' = Append(tmpls, [rev |-> 1, val |-> Trim(c.val), retired |-> FALSE])
     ELSE Bump(c.id, [tmpls[c.id] EXCEPT !.val = Trim(c.val)])
  /\ UNCHANGED versions

CanPublish(c) == c.kind = "publish" /\ Current(c) /\ ~tmpls[c.id].retired
PublishMailTemplate(c) ==
  /\ CanPublish(c)
  /\ versions' = Append(versions, [id |-> c.id, subject |-> tmpls[c.id].val["subject"],
                                   revoked |-> FALSE])
  /\ Bump(c.id, tmpls[c.id])

CanRetire(c) == c.kind = "retire" /\ Current(c)
SetMailTemplateRetired(c) ==
  /\ CanRetire(c)
  /\ Bump(c.id, [tmpls[c.id] EXCEPT !.retired = c.to])
  /\ UNCHANGED versions

\* A version already revoked is confirmed without looking at the revision.
CanRevoke(c) == c.kind = "revoke" /\ (versions[c.version].revoked \/ Current(c))
RevokeMailTemplateVersion(c) ==
  /\ CanRevoke(c)
  /\ IF versions[c.version].revoked THEN UNCHANGED server
     ELSE /\ versions' = [versions EXCEPT ![c.version].revoked = TRUE]
          /\ Bump(c.id, tmpls[c.id])

Writes == {"save", "publish", "retire", "revoke"}
Accepts(c) == CanSave(c) \/ CanPublish(c) \/ CanRetire(c) \/ CanRevoke(c)
Effect(c) == \/ SaveMailTemplate(c) \/ PublishMailTemplate(c)
             \/ SetMailTemplateRetired(c) \/ RevokeMailTemplateVersion(c)

\* SaveMailTemplate returns the template it wrote.
Reply(c) ==
  IF c.kind # "save" THEN Yes(None)
  ELSE LET id == IF c.id = None THEN Len(tmpls) + 1 ELSE c.id IN
       Yes(Template(id, tmpls'[id]))

Answer(l, a) == net' = [net EXCEPT ![l].answer = a]
Unanswered(l) == net[l] # None /\ net[l].answer = None

Serve(l) ==
  /\ Unanswered(l)
  /\ LET c == net[l].cmd IN
     \/ c.kind = "list" /\ Answer(l, Yes(tmpls)) /\ UNCHANGED server
     \/ c.kind \in Writes /\ Effect(c) /\ Answer(l, Reply(c))
     \/ c.kind \in Writes /\ ~Accepts(c) /\ Answer(l, No) /\ UNCHANGED server
  /\ UNCHANGED <<client, stray, rivals, lost>>

\* The caller gets an error; the write was, will be or never is carried out.
Lose(l) ==
  /\ Unanswered(l) /\ lost < MaxLost
  /\ lost' = lost + 1 /\ Answer(l, No)
  /\ \/ UNCHANGED <<server, stray>>
     \/ Effect(net[l].cmd) /\ UNCHANGED stray
     \/ /\ net[l].cmd.kind \in Writes /\ UNCHANGED server
        /\ stray' = stray \cup {net[l].cmd}
  /\ UNCHANGED <<client, rivals>>

ServeStray ==
  /\ \E c \in stray :
       /\ stray' = stray \ {c}
       /\ IF Accepts(c) THEN Effect(c) ELSE UNCHANGED server
  /\ UNCHANGED <<client, net, rivals, lost>>

\* Another administrator edits, publishes, retires or revokes.
Rival ==
  /\ rivals < MaxRivals /\ rivals' = rivals + 1
  /\ \E id \in DOMAIN tmpls : LET t == tmpls[id] IN
     \/ \E f \in Fields : /\ t.val[f] # "theirs" /\ UNCHANGED versions
                          /\ Bump(id, [t EXCEPT !.val[f] = "theirs"])
     \/ PublishMailTemplate([kind |-> "publish", id |-> id, rev |-> t.rev])
     \/ Bump(id, [t EXCEPT !.retired = ~@]) /\ UNCHANGED versions
     \/ \E v \in DOMAIN versions :
          /\ versions[v].id = id /\ ~versions[v].revoked
          /\ RevokeMailTemplateVersion([kind |-> "revoke", id |-> id, rev |-> t.rev,
                                        version |-> v])
  /\ UNCHANGED <<client, net, stray, lost>>

-----------------------------------------------------------------------------
(* Requests of the two lanes.                                              *)

Send(l, c) == net' = [net EXCEPT ![l] = [cmd |-> c, answer |-> None]]
Hang(l) == net' = [net EXCEPT ![l] = None]
ReadList(l) == Send(l, [kind |-> "list"])
Answered(l) == net[l] # None /\ net[l].answer # None
Got(l) == net[l].answer
Move == sel.gen + edits < MaxMoves
Call == calls < MaxCalls /\ calls' = calls + 1
Rest == UNCHANGED <<server, rivals, lost>>

\* What is still under way when a view is unmounted.
Orphans(L) == {net[l].cmd : l \in {k \in L : Unanswered(k) /\ net[k].cmd.kind \in Writes}}

Unmount(L) ==
  /\ stray' = stray \cup Orphans(L)
  /\ net' = [l \in Lanes |-> IF l \in L THEN None ELSE net[l]]

Validating == \/ net["editor"] # None /\ net["editor"].cmd.kind = "list"
              \/ net["page"] # None /\ page.op \in {"reread", "retry"}
libraryReady == ~lib.recovery /\ ~lib.error /\ ~Validating /\ lib.data # None

\* SWR keeps the previous data when a revalidation fails.
Relist(a) == lib' = IF a.ok THEN [lib EXCEPT !.data = a.data, !.error = FALSE]
                    ELSE [lib EXCEPT !.error = TRUE]
Reconfirm(a) == lib' = IF a.ok THEN [data |-> a.data, error |-> FALSE, recovery |-> FALSE]
                       ELSE lib
Has(list, id) == list # None /\ id \in DOMAIN list

-----------------------------------------------------------------------------
(* Navigation.                                                             *)

\* The page loads and revalidates its library; only the library tab uses it.
Revalidate ==
  /\ tab = "library" /\ ~Validating /\ lib.data # tmpls
  /\ Relist(Yes(tmpls))
  /\ UNCHANGED <<tab, sel, view, page, editor, net, stray, edits, calls>> /\ Rest

setTab(t) ==
  /\ tab # t /\ tab' = t
  /\ view' = None
  /\ IF tab = "editor" THEN editor' = Closed /\ Unmount({"editor"})
     ELSE UNCHANGED <<editor, net, stray>>
  /\ UNCHANGED <<lib, sel, page, edits, calls>> /\ Rest

\* A selection always starts another generation, and with it another editor.
replaceEdit(t) ==
  /\ Move
  /\ Commit([NoSelection EXCEPT !.gen = sel.gen + 1, !.edit = t, !.baseline = t])
  /\ tab' = "editor" /\ editor' = Closed /\ Unmount({"editor"})
  /\ UNCHANGED <<lib, page, edits, calls>> /\ Rest

selectTemplate == /\ tab = "library" /\ libraryReady
                  /\ \E id \in DOMAIN lib.data : replaceEdit(Template(id, lib.data[id]))
newTemplate == page.op = "idle" /\ replaceEdit(Blank)

\* Another session, or a second visit: the page starts over.
Remount ==
  /\ sel.gen > 0 /\ Move /\ Unmount(Lanes)
  /\ lib' = [data |-> None, error |-> FALSE, recovery |-> FALSE]
  /\ tab' = "library" /\ sel' = [NoSelection EXCEPT !.gen = sel.gen + 1] /\ view' = None
  /\ page' = [op |-> "idle"] /\ editor' = Closed
  /\ UNCHANGED <<edits, calls>> /\ Rest

readVersions ==
  /\ tab = "versions" /\ view = None /\ sel.edit # None /\ sel.edit.id # None
  /\ view' = versions
  /\ UNCHANGED <<lib, tab, sel, page, editor, net, stray, edits, calls>> /\ Rest

-----------------------------------------------------------------------------
(* The editor.                                                             *)

Showing == tab = "editor" /\ sel.edit # None

update(f) ==
  /\ Showing /\ Move /\ edits' = edits + 1
  /\ \E v \in Typed[f] \ {sel.edit.val[f]} : Commit([sel EXCEPT !.edit.val[f] = v])
  /\ UNCHANGED <<lib, tab, page, editor, net, stray, calls>> /\ Rest

Op(kind, r) == editor' = [op |-> kind, publication |-> editor.publication, run |-> r]
Done(p) == editor' = [op |-> "idle", publication |-> p]
Keep == UNCHANGED <<tab, page, stray, edits, calls>> /\ Rest

canSave == /\ Showing /\ editor.op = "idle" /\ editor.publication = None
           /\ sel.review = None /\ sel.edit.val["name"] # ""
save(publish) ==
  /\ canSave /\ (publish => ~sel.edit.retired)
  /\ Op("save", [publish |-> publish, snapshot |-> sel.edit, started |-> edits])
  /\ Send("editor", [kind |-> "save", id |-> sel.edit.id, rev |-> sel.edit.rev,
                     val |-> sel.edit.val, seen |-> sel.seen])
  /\ UNCHANGED <<lib, tab, sel, view, page, stray, edits>> /\ Rest /\ Call

\* The draft is stored: reconcile the editor, take the new baseline, reread.
Saved ==
  /\ editor.op = "save" /\ Answered("editor")
  /\ LET r == editor.run
         a == Got("editor") IN
     IF ~a.ok \/ ~same(sel.edit, r.snapshot)
     THEN Done(editor.publication) /\ Hang("editor") /\ UNCHANGED <<sel, view>>
     ELSE /\ Commit([sel EXCEPT !.edit = reconcileSaved(@, r.snapshot, a.data),
                                !.baseline = a.data])
          /\ Op("saved", [publish |-> r.publish, started |-> r.started, saved |-> a.data])
          /\ ReadList("editor")
  /\ UNCHANGED lib /\ Keep

\* MUTANT: newer edits do not stop the publication.
publishesAnyway(r) == r.publish
publishes(r) == r.publish /\ edits = r.started

Listed ==
  /\ editor.op = "saved" /\ Answered("editor")
  /\ Relist(Got("editor"))
  /\ LET r == editor.run IN
     IF publishes(r)
     THEN /\ Op("publish", r)
          /\ Send("editor", [kind |-> "publish", id |-> r.saved.id, rev |-> r.saved.rev,
                             shown |-> IF sel.edit = None THEN None
                                       ELSE sel.edit.val["subject"]])
     ELSE Done(editor.publication) /\ Hang("editor")
  /\ UNCHANGED <<sel, view>> /\ Keep

Published ==
  /\ editor.op = "publish" /\ Answered("editor")
  /\ LET r == editor.run IN
     IF Got("editor").ok
     THEN /\ editor' = [op |-> "finish", run |-> r,
                        publication |-> [saved |-> r.saved, edits |-> r.started]]
          /\ ReadList("editor")
     ELSE Done(editor.publication) /\ Hang("editor")
  /\ UNCHANGED <<lib, sel, view>> /\ Keep

refreshPublication ==
  /\ Showing /\ editor.op = "idle" /\ editor.publication # None
  /\ Op("finish", [saved |-> editor.publication.saved])
  /\ ReadList("editor")
  /\ UNCHANGED <<lib, tab, sel, view, page, stray, edits, calls>> /\ Rest

\* finishPublication: only a newer revision of the same content releases the
\* editor; a failed read yields the list the page already had.
Finished ==
  /\ editor.op = "finish" /\ Answered("editor")
  /\ Relist(Got("editor"))
  /\ LET p == editor.publication
         changed == edits # p.edits
         list == IF Got("editor").ok THEN Got("editor").data ELSE lib.data
         fresh == IF Has(list, p.saved.id) THEN Template(p.saved.id, list[p.saved.id])
                  ELSE None
         rebased == IF fresh # None /\ sel.edit # None /\ sel.edit.id = p.saved.id
                    THEN [sel EXCEPT !.baseline = fresh] ELSE sel IN
     IF fresh = None \/ fresh.rev <= p.saved.rev \/ (changed /\ fresh.val # p.saved.val)
     THEN Commit(rebased) /\ Done(editor.publication)
     ELSE /\ Commit([rebased EXCEPT !.edit =
               IF changed THEN reconcileSaved(@, p.saved, fresh)
               ELSE IF same(@, p.saved) THEN None ELSE @])
          /\ Done(None)
  /\ Hang("editor") /\ Keep

-----------------------------------------------------------------------------
(* The page's own actions.                                                 *)

PageEnds == page' = [op |-> "idle"] /\ Hang("page")
KeepPage == UNCHANGED <<tab, editor, stray, edits, calls>> /\ Rest

retireTemplate ==
  /\ tab = "library" /\ page.op = "idle" /\ libraryReady
  /\ \E id \in DOMAIN lib.data :
       /\ page' = [op |-> "retire", id |-> id, gen |-> sel.gen, edit |-> sel.edit,
                   edits |-> edits]
       /\ Send("page", [kind |-> "retire", id |-> id, rev |-> lib.data[id].rev,
                        to |-> ~lib.data[id].retired])
  /\ UNCHANGED <<lib, tab, sel, view, editor, stray, edits>> /\ Rest /\ Call

Retired ==
  /\ page.op = "retire" /\ Answered("page")
  /\ IF Got("page").ok
     THEN page' = [page EXCEPT !.op = "reread"] /\ ReadList("page") /\ UNCHANGED lib
     ELSE PageEnds /\ lib' = [lib EXCEPT !.recovery = TRUE]
  /\ UNCHANGED <<sel, view>> /\ KeepPage

\* The library is confirmed; an editor of the retired template that nobody
\* touched since is closed.
Reread ==
  /\ page.op = "reread" /\ Answered("page")
  /\ LET closes == /\ Got("page").ok /\ sel.gen = page.gen /\ sel.edit # None
                   /\ sel.edit = page.edit /\ edits = page.edits /\ sel.edit.id = page.id IN
     Commit(IF closes THEN [sel EXCEPT !.edit = None] ELSE sel)
  /\ IF Got("page").ok THEN Reconfirm(Got("page")) ELSE lib' = [lib EXCEPT !.recovery = TRUE]
  /\ PageEnds /\ KeepPage

retryLibrary ==
  /\ page.op = "idle" /\ (lib.recovery \/ lib.error)
  /\ page' = [op |-> "retry"] /\ ReadList("page")
  /\ UNCHANGED <<lib, tab, sel, view, editor, stray, edits, calls>> /\ Rest

Retried ==
  /\ page.op = "retry" /\ Answered("page")
  /\ Reconfirm(Got("page"))
  /\ PageEnds /\ UNCHANGED <<sel, view>> /\ KeepPage

\* A revocation needs the revision the editor is based on, and blocks the
\* editor's writes until the template has been read again.
canRevoke ==
  /\ tab = "versions" /\ page.op = "idle" /\ sel.review = None
  /\ same(sel.edit, sel.baseline) /\ sel.edit.id # None /\ view # None
revokeVersion ==
  /\ canRevoke
  /\ \E v \in DOMAIN view :
       /\ view[v].id = sel.edit.id /\ ~view[v].revoked
       /\ Send("page", [kind |-> "revoke", id |-> sel.edit.id, rev |-> sel.edit.rev,
                        version |-> v])
  /\ Commit([sel EXCEPT !.review = [id |-> sel.edit.id, rev |-> sel.edit.rev,
       baseline |-> sel.baseline, acknowledged |-> FALSE, fresh |-> None, error |-> FALSE]])
  /\ page' = [op |-> "revoke", gen |-> sel.gen]
  /\ UNCHANGED <<lib, tab, editor, stray, edits>> /\ Rest /\ Call

ownsVersionReview == sel.gen = page.gen /\ sel.review # None

Revoked ==
  /\ page.op = "revoke" /\ Answered("page")
  /\ IF ~ownsVersionReview THEN PageEnds /\ UNCHANGED <<sel, view>>
     ELSE IF Got("page").ok
     THEN /\ Commit([sel EXCEPT !.review.acknowledged = TRUE])
          /\ page' = [page EXCEPT !.op = "review"] /\ ReadList("page")
     ELSE Commit([sel EXCEPT !.review.error = TRUE]) /\ PageEnds
  /\ UNCHANGED lib /\ KeepPage

refreshReview ==
  /\ page.op = "idle" /\ sel.review # None
  /\ page' = [op |-> "review", gen |-> sel.gen] /\ ReadList("page")
  /\ UNCHANGED <<lib, tab, sel, view, editor, stray, edits, calls>> /\ Rest

unconfirmed(fresh, review) ==
  \/ fresh = None \/ fresh.rev < review.rev
  \/ review.acknowledged /\ fresh.rev = review.rev

\* refreshVersionRevision: merge the reread template under the edits, or show
\* it for review when both sides changed a field.
Reviewed ==
  /\ page.op = "review" /\ Answered("page") /\ PageEnds
  /\ LET review == sel.review
         a == Got("page")
         fresh == IF a.ok /\ ownsVersionReview /\ Has(a.data, review.id)
                  THEN Template(review.id, a.data[review.id]) ELSE None IN
     IF ~ownsVersionReview THEN UNCHANGED <<lib, sel, view>>
     ELSE IF unconfirmed(fresh, review)
     THEN /\ Commit([sel EXCEPT !.review.fresh = None, !.review.error = TRUE])
          /\ UNCHANGED lib
     ELSE /\ Relist(a)
          /\ Commit(IF sel.edit = None \/ sel.edit.id # review.id THEN sel
                    ELSE IF fresh.rev < sel.edit.rev
                    THEN [sel EXCEPT !.review.error = TRUE]
                    ELSE IF conflict(sel.edit, review.baseline, fresh)
                    THEN [sel EXCEPT !.review.fresh = fresh, !.review.error = TRUE]
                    ELSE [sel EXCEPT !.edit = merged(@, review.baseline, fresh),
                                     !.baseline = fresh, !.review = None])
  /\ KeepPage

keepReviewedEdits ==
  /\ page.op = "idle" /\ sel.review # None /\ sel.review.fresh # None /\ sel.edit # None
  /\ Commit([sel EXCEPT !.edit = merged(@, sel.review.baseline, sel.review.fresh),
                        !.baseline = sel.review.fresh, !.review = None])
  /\ UNCHANGED <<lib, tab, page, editor, net, stray, edits, calls>> /\ Rest

-----------------------------------------------------------------------------
Init ==
  /\ tmpls = <<[rev |-> 2, val |-> [f \in Fields |-> "base"], retired |-> FALSE]>>
  /\ versions = <<[id |-> 1, subject |-> "base", revoked |-> FALSE]>>
  /\ lib = [data |-> None, error |-> FALSE, recovery |-> FALSE]
  /\ tab = "library" /\ sel = NoSelection /\ view = None
  /\ page = [op |-> "idle"] /\ editor = Closed
  /\ net = [l \in Lanes |-> None] /\ stray = {}
  /\ edits = 0 /\ calls = 0 /\ rivals = 0 /\ lost = 0

EditorStep == Saved \/ Listed \/ Published \/ Finished
PageStep == Retired \/ Reread \/ Retried \/ Revoked \/ Reviewed
User == \/ \E t \in {"library", "editor", "versions"} : setTab(t)
        \/ selectTemplate \/ newTemplate
        \/ (\E f \in Fields : update(f))
        \/ (\E p \in BOOLEAN : save(p)) \/ refreshPublication
        \/ retireTemplate \/ retryLibrary \/ revokeVersion \/ refreshReview
        \/ keepReviewedEdits
Server == ServeStray \/ \E l \in Lanes : Serve(l) \/ Lose(l)

Next == User \/ EditorStep \/ PageStep \/ Server
        \/ Revalidate \/ Remount \/ readVersions \/ Rival
Spec == Init /\ [][Next]_vars

-----------------------------------------------------------------------------
Edit == [id : {None} \cup DOMAIN tmpls, rev : Nat, val : [Fields -> Values],
         retired : BOOLEAN]
TypeOK ==
  /\ \A id \in DOMAIN tmpls : tmpls[id].val \in [Fields -> Values] /\ tmpls[id].rev \in Nat
  /\ \A v \in DOMAIN versions : versions[v].id \in DOMAIN tmpls
  /\ sel.edit \in Edit \cup {None} /\ sel.baseline \in Edit \cup {None}
  /\ \A l \in Lanes : net[l] # None <=> (IF l = "page" THEN page.op ELSE editor.op) # "idle"
  /\ editor # Closed => tab = "editor"
  /\ calls \in 0 .. MaxCalls /\ rivals \in 0 .. MaxRivals /\ lost \in 0 .. MaxLost

Outstanding == stray \cup {net[l].cmd : l \in {k \in Lanes : Unanswered(k)}}

\* A save by this page replaces only content the administrator has been shown:
\* what others wrote since is merged, reviewed or refused, however the save, the
\* revocation and their rereads interleave.
OverwritesOnlySeen ==
  [][\A c \in Outstanding :
       (/\ c.kind = "save" /\ c.id # None /\ c.id \in DOMAIN tmpls /\ rivals' = rivals
        /\ tmpls'[c.id] # tmpls[c.id] /\ tmpls[c.id].rev = c.rev
        /\ tmpls'[c.id].val = Trim(c.val))
       => \A f \in Fields : tmpls'[c.id].val[f] # tmpls[c.id].val[f]
                            => <<f, tmpls[c.id].val[f]>> \in c.seen]_vars

\* A version this page publishes holds what the editor showed when publication
\* was requested, although saving it took two awaits the administrator could
\* type through.
PublishedAsShown ==
  [][rivals' = rivals /\ Len(versions') > Len(versions)
     => \E c \in Outstanding : /\ c.kind = "publish"
                               /\ c.shown = versions'[Len(versions')].subject]_vars

\* What was typed after the snapshot a reply is about, or over the baseline of
\* a revocation, outlives that reply.
Unsaved(f) ==
  \/ editor.op = "save" /\ sel.edit.val[f] # editor.run.snapshot.val[f]
  \/ editor.op = "finish" /\ sel.edit.val[f] # editor.publication.saved.val[f]
  \/ /\ page.op \in {"revoke", "review"} /\ sel.review # None
     /\ sel.edit.val[f] # sel.review.baseline.val[f]
EditsSurviveReplies ==
  [][sel.edit # None /\ edits' = edits /\ sel'.gen = sel.gen
     => \A f \in Fields : Unsaved(f) => /\ sel'.edit # None
                                        /\ sel'.edit.val[f] = sel.edit.val[f]]_vars
=============================================================================

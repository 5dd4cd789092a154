--------------------------- MODULE TenantDirectory ---------------------------
(***************************************************************************)
(* The platform's list of tenants (app/(dashboard)/admin/tenants/page.tsx).*)
(* Unlike the other pages it lets several commands run at once: one create *)
(* per opening of the dialog and one delete per row, each followed by a    *)
(* readback of the list.  Of overlapping readbacks only the one started    *)
(* last may publish its list or withdraw the warning that the list could   *)
(* not be refreshed; this is also how the cache treats overlapping         *)
(* mutations.  The commands in flight are kept in ui.ops.                  *)
(***************************************************************************)
EXTENDS PageForm, FiniteSets

Forms == {"tenants"}
Names == {"m", "n"}

-----------------------------------------------------------------------------
(* The server.                                                             *)

CreateTenant(s, m) == [s EXCEPT !.rows = @ \cup {[id |-> s.next, name |-> m.name, super |-> FALSE]},
                                !.next = @ + 1]
Ids(rows) == {r.id : r \in rows}
DeleteTenant(s, m) == [s EXCEPT !.rows = {r \in @ : r.id # m.id}]
Apply(s, m) == IF m.kind = "create" THEN CreateTenant(s, m) ELSE DeleteTenant(s, m)
Rival == \/ Others(CreateTenant(srv, [name |-> "m"]))
         \/ \E r \in srv.rows : ~r.super /\ Others(DeleteTenant(srv, r))

-----------------------------------------------------------------------------
(* The dialog, and the commands.                                           *)

Quietly == UNCHANGED <<form, run, net>>
Stays == UNCHANGED <<srv, stray, rivals, lost>> /\ Quietly

typeTenant == /\ ui.open
              /\ \E v \in Names \ {ui.name} : Move /\ ui' = [ui EXCEPT !.name = v, !.draft = @ + 1]
              /\ UNCHANGED calls /\ Stays
Toggled(u, open) == [u EXCEPT !.open = open, !.dialog = @ + 1]
changeCreateOpen == Move /\ ui' = Toggled(ui, ~ui.open) /\ UNCHANGED calls /\ Stays

Begin(m, u) ==
  /\ Call
  /\ ui' = [u EXCEPT !.seq = @ + 1,
                     !.ops = @ \cup {[n |-> u.seq, cmd |-> m, at |-> "sent", dialog |-> u.dialog,
                                      draft |-> u.draft, id |-> 0, rows |-> {}]}]
  /\ UNCHANGED moves /\ Stays
creating(u) == u.active # None /\ u.active.dialog = u.dialog
handleCreate ==
  /\ ui.open /\ ui.name # "" /\ ~creating(ui)
  /\ Begin([kind |-> "create", name |-> ui.name],
           [ui EXCEPT !.active = [n |-> ui.seq, dialog |-> ui.dialog]])
deletable(u, id) == \E r \in u.rows : r.id = id /\ ~r.super
handleDelete ==
  \E r \in ui.rows :
    /\ deletable(ui, r.id) /\ ~ui.failure /\ r.id \notin ui.deleting
    /\ Begin([kind |-> "delete", id |-> r.id],
             [ui EXCEPT !.deleting = @ \cup {r.id}, !.asked = @ \cup {r.id}])

\* The command is served, refused, or its answer is lost on either side.
Replace(o, p) == (ui.ops \ {o}) \cup {p}
Answer(o, at, id, rows) ==
  ui' = [ui EXCEPT !.ops = Replace(o, [o EXCEPT !.at = at, !.id = id, !.rows = rows])]
Named(o) == IF o.cmd.kind = "create" THEN srv.next ELSE o.cmd.id
ServeOp ==
  /\ \E o \in {x \in ui.ops : x.at = "sent"} : srv' = Apply(srv, o.cmd) /\ Answer(o, "done", Named(o), {})
  /\ UNCHANGED <<stray, moves, calls, rivals, lost>> /\ Quietly
LoseOp ==
  /\ lost < MaxLost /\ lost' = lost + 1
  /\ \E o \in {x \in ui.ops : x.at = "sent"} :
       /\ Answer(o, "failed", 0, {})
       /\ \/ srv' \in {srv, Apply(srv, o.cmd)} /\ UNCHANGED stray
          \/ stray' = stray \cup {o.cmd} /\ UNCHANGED srv
  /\ UNCHANGED <<moves, calls, rivals>> /\ Quietly
ServeStray ==
  /\ \E m \in stray : srv' = Apply(srv, m) /\ stray' = stray \ {m}
  /\ UNCHANGED <<ui, moves, calls, rivals, lost>> /\ Quietly

\* MUTANT: the dialog is closed and emptied whatever was typed in it since.
closesDialog(u, o) == TRUE
submitted(u, o) == u.dialog = o.dialog /\ u.draft = o.draft
\* An acknowledged command starts a readback, the newest one so far.
ReadAgain(u, o) == [u EXCEPT !.ops = (@ \ {o}) \cup {[o EXCEPT !.at = "read", !.n = u.seq]},
                             !.readback = u.seq, !.seq = @ + 1]
Acknowledged ==
  /\ \E o \in {x \in ui.ops : x.at = "done"} :
       LET u == [ui EXCEPT !.acked = @ \cup {[kind |-> o.cmd.kind, id |-> o.id]},
                           !.active = IF @ # None /\ @.n = o.n THEN [@ EXCEPT !.n = ui.seq] ELSE @] IN
       ui' = ReadAgain(IF o.cmd.kind = "create" /\ submitted(u, o)
                       THEN [Toggled(u, FALSE) EXCEPT !.name = "", !.draft = @ + 1] ELSE u, o)
  /\ UNCHANGED <<moves, calls>> /\ Stays

\* The list is read, or the read fails.
ReadTenants ==
  /\ \E o \in {x \in ui.ops : x.at = "read"} :
       \/ Answer(o, "got", 0, srv.rows) /\ UNCHANGED lost
       \/ lost < MaxLost /\ lost' = lost + 1 /\ Answer(o, "unread", 0, {})
  /\ UNCHANGED <<srv, stray, moves, calls, rivals>> /\ Quietly

\* MUTANT: whichever readback ends last decides.
anyReadback(u, o) == TRUE
newest(u, o) == u.readback = o.n
Finished(u, o) == [u EXCEPT !.ops = @ \ {o},
                            !.active = IF @ # None /\ @.n = o.n THEN None ELSE @,
                            !.deleting = IF o.cmd.kind = "delete" THEN @ \ {o.cmd.id} ELSE @]
\* The retry of a failed load leaves the warning in place when it fails, too.
refreshTenants ==
  /\ \E o \in {x \in ui.ops : x.at \in {"got", "unread", "failed"}} :
       ui' = Finished(CASE o.at = "got" /\ newest(ui, o) -> [ui EXCEPT !.rows = o.rows, !.failure = FALSE]
                        [] o.at = "unread" /\ newest(ui, o) /\ o.cmd.kind # "retry" ->
                             [ui EXCEPT !.failure = TRUE]
                        [] OTHER -> ui, o)
  /\ UNCHANGED <<moves, calls>> /\ Stays

retryLoad ==
  /\ ui.failure /\ Move
  /\ ui' = [ui EXCEPT !.seq = @ + 1, !.readback = ui.seq,
                      !.ops = @ \cup {[n |-> ui.seq, cmd |-> [kind |-> "retry"], at |-> "read", dialog |-> 0,
                                       draft |-> 0, id |-> 0, rows |-> {}]}]
  /\ UNCHANGED calls /\ Stays

\* A read in the background is not published while a mutation is under way.
Revalidate ==
  /\ ui.rows # srv.rows /\ \A o \in ui.ops : o.at \notin {"read", "got", "unread"}
  /\ ui' = [ui EXCEPT !.rows = srv.rows] /\ UNCHANGED <<moves, calls>> /\ Stays

\* The page is left, or the session's identity changes.
Blank == [rows |-> srv.rows, open |-> FALSE, name |-> "", dialog |-> 0, draft |-> 0, seq |-> 1, ops |-> {},
          active |-> None, deleting |-> {}, readback |-> 0, failure |-> FALSE, acked |-> {},
          asked |-> {}]
Remount ==
  /\ Move /\ ui' = Blank
  /\ stray' = stray \cup {o.cmd : o \in {x \in ui.ops : x.at = "sent"}}
  /\ UNCHANGED <<srv, calls, rivals, lost>> /\ Quietly

Init ==
  /\ form \in Forms /\ Quiet
  /\ srv = [rows |-> {[id |-> 1, name |-> "root", super |-> TRUE], [id |-> 2, name |-> "m", super |-> FALSE]},
            next |-> 3]
  /\ ui = Blank

Next == \/ typeTenant \/ changeCreateOpen \/ handleCreate \/ handleDelete \/ retryLoad
        \/ ServeOp \/ LoseOp \/ ServeStray \/ Acknowledged \/ ReadTenants \/ refreshTenants
        \/ Revalidate \/ Remount \/ Rival
Spec == Init /\ [][Next]_vars

-----------------------------------------------------------------------------
(* What the console's properties say of this page.                         *)

\* A name typed into the dialog leaves it only when a create submitted from
\* this opening of the dialog, with nothing typed since, was accepted.
TypedKept ==
  (ui.open /\ ui.name # "" /\ ui'.name # ui.name /\ moves' = moves)
  => \E o \in ui.ops : /\ o \notin ui'.ops /\ o.at = "done"
                       /\ o.dialog = ui.dialog /\ o.draft = ui.draft /\ o.cmd.name = ui.name
\* What was acknowledged is in the list on the screen, or the page warns that
\* the list could not be refreshed.
AcknowledgedShown ==
  (rivals = 0 /\ ~ui.failure /\ \A o \in ui.ops : o.at \in {"sent", "done"}) =>
    \A m \in ui.acked : IF m.kind = "create" THEN m.id \in Ids(ui.rows) \cup ui.asked
                        ELSE m.id \notin Ids(ui.rows)
=============================================================================

----------------------------- MODULE Onboarding -----------------------------
(***************************************************************************)
(* How an account begins: an administrator invites an employee             *)
(* (features/company/employees.tsx) or another administrator               *)
(* (admin-invitation.tsx), hands over a link whose secret is shown once,   *)
(* and the invited person activates it (app/auth/activate/page.tsx).  The  *)
(* activation page takes its token from the URL's fragment, which changes  *)
(* before the event that announces it is handled and before React mounts   *)
(* the form that belongs to it.                                            *)
(***************************************************************************)
EXTENDS PageForm

Forms == {"invite", "admin", "activate"}
People == {"ann", "bob"}
Tokens == {"t1", "t2"}
Passwords == {"p1", "p2"}

-----------------------------------------------------------------------------
(* The server: invitations, and for the activation page the accounts made. *)

InviteEmployee(s, m) ==
  IF \E i \in s.inv : i.who = m.who /\ i.st \in {"open", "used"} THEN Out(s, Conflict)
  ELSE LET i == [id |-> s.next, who |-> m.who, st |-> "open"]
       IN Out([s EXCEPT !.inv = @ \cup {i}, !.next = @ + 1], Yes(i))
Mark(s, id, st) == [s EXCEPT !.inv = {IF i.id = id THEN [i EXCEPT !.st = st] ELSE i : i \in @}]
RevokeEmployeeInvitation(s, m) ==
  IF \E i \in s.inv : i.id = m.id /\ i.st = "open" THEN Out(Mark(s, m.id, "revoked"), Yes(None))
  ELSE Out(s, Conflict)
\* Administrators' invitations are not unique: every request issues a code.
InviteAdmin(s, m) == LET i == [id |-> s.next, who |-> m.who, st |-> "open"]
                     IN Out([s EXCEPT !.inv = @ \cup {i}, !.next = @ + 1], Yes(i))
ActivateEmployee(s, m) ==
  IF s.account[m.token] = None THEN Out([s EXCEPT !.account[m.token] = m.password], Yes(None))
  ELSE Out(s, No)

Writes == {"invite", "revoke", "inviteAdmin", "activate"}
\* A domain, profile, password or registered address may be refused as well.
Handle(s, m) ==
  CASE m.kind = "invitations" -> {Out(s, Yes(s.inv))}
    [] m.kind = "invite" -> {InviteEmployee(s, m), Out(s, No)}
    [] m.kind = "revoke" -> {RevokeEmployeeInvitation(s, m)}
    [] m.kind = "inviteAdmin" -> {InviteAdmin(s, m), Out(s, Conflict)}
    [] m.kind = "activate" -> {ActivateEmployee(s, m), Out(s, No)}
Serve == ServeBy(Handle(srv, net.cmd))
Lose == LoseBy(Handle(srv, net.cmd), Writes)
ServeStray == \E m \in stray : StrayBy(m, Handle(srv, m))

\* Others invite, withdraw an invitation, or use one.
Rival ==
  \/ form = "invite" /\ \E who \in People : Others(InviteEmployee(srv, [who |-> who]).srv)
  \/ /\ form = "invite"
     /\ \E i \in srv.inv, st \in {"used", "withdrawn"} : i.st = "open" /\ Others(Mark(srv, i.id, st))
  \/ /\ form = "activate"
     /\ \E t \in Tokens : Others(ActivateEmployee(srv, [token |-> t, password |-> "other"]).srv)

-----------------------------------------------------------------------------
(* Inviting an employee.                                                   *)

invitationsReady == ~ui.bad
ReadInvitations(u) == Then("list", [kind |-> "invitations"], u)

edit == \E who \in People \ {ui.who} : Type([ui EXCEPT !.who = who])

createInvitation ==
  /\ invitationsReady /\ ui.who # ""
  /\ Write("invite", <<>>, [kind |-> "invite", who |-> ui.who], ui)

\* The secret is kept whatever was typed since; the form only if it is older.
\* MUTANT: the form is cleared as well.
clearsForm(u, r) == [u EXCEPT !.who = ""]
formAfter(u, r) == IF r.mine THEN [u EXCEPT !.who = ""] ELSE u
Invited ==
  /\ Doing("invite")
  /\ IF Got.ok THEN ReadInvitations([formAfter(ui, run) EXCEPT !.link = Got.data]) ELSE End(ui)

revokeInvitation ==
  /\ invitationsReady
  /\ \E i \in ui.list : /\ i.st = "open"
                        /\ Write("revoke", [id |-> i.id], [kind |-> "revoke", id |-> i.id], ui)
\* MUTANT: the link of a revoked invitation stays on the page.
keepsLink(u, id) == u
withoutLink(u, id) == IF u.link # None /\ u.link.id = id THEN [u EXCEPT !.link = None] ELSE u
Revoked ==
  /\ Doing("revoke")
  /\ IF Got.ok THEN ReadInvitations(withoutLink(ui, run.id)) ELSE End(ui)

\* The readback is an explicit read; when it fails the list is closed until a
\* retry succeeds.
retryInvitations == ui.bad /\ Read("relist", <<>>, [kind |-> "invitations"], ui)
refreshInvitations ==
  /\ Doing("list") \/ Doing("relist")
  /\ End(IF Got.ok THEN [ui EXCEPT !.list = Got.data, !.bad = FALSE] ELSE [ui EXCEPT !.bad = TRUE])
Revalidate == form = "invite" /\ ui.list # srv.inv /\ Refresh([ui EXCEPT !.list = srv.inv])

-----------------------------------------------------------------------------
(* Inviting an administrator, in a dialog.                                 *)

changeOpen == Reenter([open |-> ~ui.open, who |-> "", result |-> None], Writes)
typeAdmin == /\ ui.open /\ ui.result = None
             /\ \E who \in People \ {ui.who} : Type([ui EXCEPT !.who = who])
handleInvite ==
  /\ ui.open /\ ui.result = None /\ ui.who # ""
  /\ Write("inviteAdmin", <<>>, [kind |-> "inviteAdmin", who |-> ui.who], ui)
ownsDraft(r) == r.mine
AdminInvited ==
  /\ Doing("inviteAdmin")
  /\ End(IF Got.ok /\ ownsDraft(run) THEN [ui EXCEPT !.result = Got.data, !.who = ""] ELSE ui)

-----------------------------------------------------------------------------
(* Activating an invitation.                                               *)

Fresh(inv) == [password |-> "", confirm |-> "", done |-> FALSE, sent |-> None, shown |-> inv]

\* The user follows another link or goes back; the event is queued.
navigate == \E t \in Tokens \ {ui.hash} :
              Look([ui EXCEPT !.hash = t, !.events = @ + 1])
\* Every navigation retires the owner, even if the URL is back where it was.
readHash ==
  /\ ui.events > 0
  /\ ui' = [ui EXCEPT !.events = @ - 1, !.owner = [token |-> ui.hash, gen |-> @.gen + 1]]
  /\ UNCHANGED <<run, net, moves, calls>> /\ Here
\* React mounts the form of the new owner; the old form's request goes on.
mountForm ==
  /\ ui.shown # ui.owner
  /\ Abandon(Over(Fresh(ui.owner), ui), Writes) /\ UNCHANGED moves

typePassword ==
  /\ ~ui.done /\ Idle
  /\ \E p \in Passwords : Look([ui EXCEPT !.password = p, !.confirm = p])

\* MUTANT: a reply is applied as long as its form is mounted.
stillMounted(u, url) == TRUE
current(u, url) == u.owner = u.shown /\ u.hash = url /\ u.hash = u.shown.token
submit ==
  /\ ~ui.done /\ ui.password # "" /\ ui.password = ui.confirm
  /\ current(ui, ui.hash) /\ ui.shown.token \in Tokens
  /\ Write("activate", [url |-> ui.hash, password |-> ui.password],
           [kind |-> "activate", token |-> ui.shown.token, password |-> ui.password], ui)
\* The used token is taken out of the URL, without an event.
Activated ==
  /\ Doing("activate")
  /\ End(IF Got.ok /\ current(ui, run.url)
         THEN [ui EXCEPT !.hash = "", !.password = "", !.confirm = "", !.done = TRUE,
                         !.sent = run.password]
         ELSE ui)

-----------------------------------------------------------------------------
Blank == CASE form = "invite" -> [who |-> "", link |-> None, list |-> srv.inv, bad |-> FALSE]
           [] form = "admin" -> [open |-> FALSE, who |-> "", result |-> None]
           [] form = "activate" -> Over(Fresh([token |-> "t1", gen |-> 1]),
                                        [hash |-> "t1", owner |-> [token |-> "t1", gen |-> 1], events |-> 0])
Remount == form = "invite" /\ Reenter(Blank, Writes)

Init ==
  /\ form \in Forms /\ Quiet
  /\ srv = [inv |-> {}, next |-> 1, account |-> [t \in Tokens |-> None]]
  /\ ui = Blank

Next == \/ form = "invite" /\ (edit \/ createInvitation \/ revokeInvitation \/ retryInvitations)
        \/ form = "admin" /\ (changeOpen \/ typeAdmin \/ handleInvite)
        \/ form = "activate" /\ (navigate \/ readHash \/ mountForm \/ typePassword \/ submit)
        \/ Invited \/ Revoked \/ refreshInvitations \/ AdminInvited \/ Activated
        \/ Revalidate \/ Remount \/ Rival
        \/ Serve \/ Lose \/ ServeStray
Spec == Init /\ [][Next]_vars

-----------------------------------------------------------------------------
(* What the console's properties say of this page.                         *)

Typed == IF form = "activate" \/ ui.who = "" THEN None ELSE ui.who
TypedKept == (Typed # None /\ Typed' # Typed /\ moves' = moves)
             => run # None /\ run.mine /\ Answered /\ Got.ok
\* While no answer was lost, the link on the page is not one the page revoked.
LinkIsLive ==
  (form = "invite" /\ lost = 0 /\ Idle /\ ui.link # None)
  => \A i \in srv.inv : i.id = ui.link.id => i.who = ui.link.who /\ i.st # "revoked"
\* A form that says "activated" has made the account of its own link with its
\* own password, and only a used token is taken out of the URL.
ActivationIsTrue ==
  form = "activate" /\ ui.done => srv.account[ui.shown.token] = ui.sent
TokenKept ==
  (form = "activate" /\ ui.hash # "" /\ ui'.hash = "") => srv.account[ui.hash] # None
=============================================================================

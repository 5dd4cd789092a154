---------------------------- MODULE PlatformForms ----------------------------
(***************************************************************************)
(* Two forms of the platform administrator over values without a revision: *)
(* the system settings (app/(dashboard)/admin/settings/page.tsx), saved    *)
(* key by key, and the SMTP policy (admin/policy/page.tsx), replaced as a  *)
(* whole.  Only explicit edits belong to a draft; the other fields follow  *)
(* the latest read.  A read that failed closes the form for writing.       *)
(***************************************************************************)
EXTENDS PageForm, FiniteSets

Forms == {"settings", "policy"}
Keys == {"a", "b"}
Values == {0, 1}

-----------------------------------------------------------------------------
(* The SMTP policy travels as lists and is edited as text.                 *)

Texts == {"", "d", "d,"}
parseList(text) == IF text = "" THEN {} ELSE {"d"}
policyForm(policy) == [accept |-> policy.accept, domains |-> IF policy.domains = {} THEN "" ELSE "d"]
payload(f) == [accept |-> f.accept, domains |-> parseList(f.domains)]

-----------------------------------------------------------------------------
(* The server.  A batch is validated whole and then applied key by key, so *)
(* that a failure leaves the first of its keys changed.                    *)

BulkUpdateSettings(s, m) ==
  LET all == Over(m.changed, s)
      first == IF "a" \in DOMAIN m.changed THEN [s EXCEPT !.a = m.changed["a"]] ELSE s
  IN {Out(all, Yes(all)), Out(s, No), Out(first, No)}
UpdateSMTPPolicy(s, m) == Out(m.policy, Yes(None))

Writes == {"patch", "policy"}
Handle(s, m) ==
  CASE m.kind = "read" -> {Out(s, Yes(IF form = "policy" THEN policyForm(s) ELSE s))}
    [] m.kind = "patch" -> BulkUpdateSettings(s, m)
    [] m.kind = "policy" -> {UpdateSMTPPolicy(s, m)}
Serve == ServeBy(Handle(srv, net.cmd))
Lose == LoseBy(Handle(srv, net.cmd), Writes)
ServeStray == \E m \in stray : StrayBy(m, Handle(srv, m))
Rival == Others(IF form = "settings" THEN [srv EXCEPT !.b = 1 - @] ELSE [srv EXCEPT !.accept = ~@])

-----------------------------------------------------------------------------
(* The forms.                                                              *)

Without(edits, keys) == [k \in DOMAIN edits \ keys |-> edits[k]]
Shows(u) == Over(u.edits, u.data)
blocked(u) == u.failed \/ ~Idle

\* A setting may be edited while a save runs, and an edit back to the value last
\* read withdraws it unless a save is under way; the policy waits for the save.
Edit(k, u) == /\ Move /\ ui' = u
              /\ run' = IF Idle THEN run ELSE [run EXCEPT !.sub = @ \ {k}]
              /\ UNCHANGED <<net, calls>> /\ Here
changeSetting ==
  /\ form = "settings"
  /\ \E k \in Keys : \E v \in Values \ {Shows(ui)[k]} :
       Edit(k, [ui EXCEPT !.edits = IF Idle /\ ui.data[k] = v THEN Without(@, {k}) ELSE With(@, k, v)])
toggleAccept == form = "policy" /\ ~blocked(ui) /\ Edit("accept", [ui EXCEPT !.edits = With(@, "accept", ~Shows(ui).accept)])
editDomains == /\ form = "policy" /\ ~blocked(ui)
               /\ \E v \in Texts \ {Shows(ui).domains} : Edit("domains", [ui EXCEPT !.edits = With(@, "domains", v)])

reload == Idle /\ (form = "policy" \/ ui.failed) /\ Read("read", [sub |-> {}], [kind |-> "read"], ui)

\* MUTANT: the form on the screen is sent, not what was changed in it.
wholeForm(u) == Shows(u)
changed(u) == [k \in {x \in DOMAIN u.edits : u.edits[x] # u.data[x]} |-> u.edits[k]]
saveSettings ==
  /\ form = "settings" /\ ~blocked(ui) /\ DOMAIN changed(ui) # {}
  /\ Write("save", [sub |-> DOMAIN changed(ui)],
           [kind |-> "patch", changed |-> changed(ui), edited |-> DOMAIN ui.edits], ui)
savePolicy ==
  /\ form = "policy" /\ ~blocked(ui)
  /\ Write("save", [sub |-> DOMAIN ui.edits, form |-> Shows(ui)],
           [kind |-> "policy", policy |-> payload(Shows(ui))], ui)

\* MUTANT: every submitted key is taken off the draft, edited since or not.
dropsSubmitted(u, r) == [u EXCEPT !.edits = <<>>]
withoutSubmitted(u, r) == [u EXCEPT !.edits = Without(@, r.sub)]
\* The acknowledged values become the baseline, and are then read again.
SettingsSaved ==
  /\ form = "settings" /\ Doing("save")
  /\ IF Got.ok THEN Then("read", [kind |-> "read"], withoutSubmitted([ui EXCEPT !.data = Got.data], run)) ELSE End(ui)
PolicySaved ==
  /\ form = "policy" /\ Doing("save")
  /\ IF Got.ok THEN Then("read", [kind |-> "read"], [ui EXCEPT !.data = run.form, !.edits = <<>>]) ELSE End(ui)
ReadBack ==
  /\ Doing("read")
  /\ End(IF Got.ok THEN [ui EXCEPT !.data = Got.data, !.failed = FALSE] ELSE [ui EXCEPT !.failed = TRUE])

Fresh == IF form = "settings" THEN srv ELSE policyForm(srv)
Reading == run # None /\ run.op = "read"
Revalidate ==
  \/ ~Reading /\ (ui.failed \/ ui.data # Fresh) /\ Refresh([ui EXCEPT !.data = Fresh, !.failed = FALSE])
  \/ ~Reading /\ ~ui.failed /\ RefreshFails([ui EXCEPT !.failed = TRUE])

Blank == [data |-> Fresh, edits |-> <<>>, failed |-> FALSE]
Remount == Reenter(Blank, Writes)

Init ==
  /\ form \in Forms /\ Quiet
  /\ srv = IF form = "settings" THEN [k \in Keys |-> 0] ELSE [accept |-> TRUE, domains |-> {"d"}]
  /\ ui = Blank

Next == \/ changeSetting \/ toggleAccept \/ editDomains \/ reload
        \/ saveSettings \/ SettingsSaved \/ savePolicy \/ PolicySaved \/ ReadBack
        \/ Revalidate \/ Remount \/ Rival
        \/ Serve \/ Lose \/ ServeStray
Spec == Init /\ [][Next]_vars

-----------------------------------------------------------------------------
(* What the console's properties say of this page.                         *)

\* An edit leaves the draft only when a save that contained it was accepted.
TypedKept ==
  \A k \in DOMAIN ui.edits :
    (moves' = moves /\ (k \in DOMAIN ui'.edits => ui'.edits[k] # ui.edits[k]))
    => run # None /\ k \in run.sub /\ Answered /\ Got.ok
\* A save of the settings changes nothing the administrator did not edit, even
\* where the form shows an old value.
InFlight == stray \cup Dropped(Writes)
AsConfirmed ==
  \A m \in InFlight : (m \notin InFlight' /\ rivals' = rivals /\ m.kind = "patch")
    => \A k \in Keys : srv'[k] # srv[k] => k \in m.edited
\* With no answer lost and nobody else at work, an idle form shows the server;
\* a save that was refused halfway leaves the page behind until the next read.
Settled ==
  (Idle /\ lost = 0 /\ rivals = 0 /\ form = "policy") => payload(ui.data) = srv
=============================================================================

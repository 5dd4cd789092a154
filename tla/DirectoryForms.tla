--------------------------- MODULE DirectoryForms ---------------------------
(***************************************************************************)
(* Forms of the console that are filled from the employee directory: the   *)
(* offboarding panel (features/company/offboarding-panel.tsx), which has   *)
(* the server preview a plan and then execute exactly that plan; creating  *)
(* a mailbox (mailbox-admin.tsx); and granting the use of a template       *)
(* (components/company/templates/grants.tsx).  A directory that changes or *)
(* is merely read again retires what was decided from the old one.         *)
(***************************************************************************)
EXTENDS PageForm, FiniteSets

Forms == {"offboard", "create", "grants"}
People == {"x", "y", "z"}
Dispositions == {"seal", "discard"}
\* A retention is typed as a decimal: digits * 10^-places.
Decimals == {[digits |-> 0, places |-> 0], [digits |-> 5, places |-> 400],
             [digits |-> 150, places |-> 1], [digits |-> 15, places |-> 1]}

-----------------------------------------------------------------------------
(* The server.  `assets` stands for what a plan's fingerprint covers.      *)

Plan(s, id) == CHOOSE p \in s.plans : p.id = id
PreviewOffboarding(s, m) ==
  IF m.sel.successor \notin s.active THEN Out(s, No)
  ELSE LET p == [id |-> s.next, sel |-> m.sel, print |-> s.assets, state |-> "preview"]
       IN Out([s EXCEPT !.plans = @ \cup {p}, !.next = @ + 1], Yes(p))
\* MUTANT: the plan is executed whatever changed since the preview.
noFingerprint(s, p) == p.state = "preview"
executable(s, p) == p.state = "preview" /\ p.print = s.assets /\ p.sel.successor \in s.active
ExecuteOffboarding(s, m) ==
  LET p == Plan(s, m.id)
      done == [p EXCEPT !.state = "executed"] IN
  IF p.state = "executed" THEN Out(s, Yes(p))
  ELSE IF ~executable(s, p) THEN Out(s, Conflict)
  ELSE Out([s EXCEPT !.plans = (@ \ {p}) \cup {done}, !.active = @ \ {p.sel.target}], Yes(done))

CreateWorkMailbox(s, m) ==
  IF m.owner # "" /\ m.owner \notin s.active THEN Out(s, No)
  ELSE IF m.local \in {b.local : b \in s.boxes} THEN Out(s, Conflict)
  ELSE Out([s EXCEPT !.boxes = @ \cup {[local |-> m.local, hours |-> m.hours]}], Yes(None))

SetTemplateGrant(s, m) ==
  IF m.enabled /\ m.user \notin s.active THEN Out(s, No)
  ELSE Out([s EXCEPT !.grants = IF m.enabled THEN @ \cup {m.user} ELSE @ \ {m.user}], Yes(None))

Writes == {"preview", "execute", "create", "grant"}
Handle(s, m) ==
  CASE m.kind = "members" -> {Out(s, Yes(s.active))}
    [] m.kind = "boxes" -> {Out(s, Yes(s.boxes))}
    [] m.kind = "grants" -> {Out(s, Yes(s.grants))}
    [] m.kind = "preview" -> {PreviewOffboarding(s, m)}
    [] m.kind = "execute" -> {ExecuteOffboarding(s, m)}
    [] m.kind = "create" -> {CreateWorkMailbox(s, m)}
    [] m.kind = "grant" -> {SetTemplateGrant(s, m)}
Serve == ServeBy(Handle(srv, net.cmd))
Lose == LoseBy(Handle(srv, net.cmd), Writes)
ServeStray == \E m \in stray : StrayBy(m, Handle(srv, m))

\* Assets move, a member is suspended, a preview runs out.
Rival ==
  \/ form = "offboard" /\ Others([srv EXCEPT !.assets = @ + 1])
  \/ Others([srv EXCEPT !.active = @ \ {"y"}])
  \/ \E p \in srv.plans : /\ p.state = "preview"
                          /\ Others([srv EXCEPT !.plans = (@ \ {p}) \cup {[p EXCEPT !.state = "expired"]}])

-----------------------------------------------------------------------------
(* Offboarding.  A preview belongs to the selection and the directory read *)
(* it was made under; the receipt of an execution to the selection alone.  *)

successors(u) == u.active \ {u.sel.target}
validSelection(u) == u.sel.successor \in successors(u)
plan(u) == CASE u.inspection = None -> None
             [] u.inspection # None /\ u.inspection.plan.state = "executed" ->
                  IF u.inspection.selection THEN u.inspection.plan ELSE None
             [] OTHER -> IF u.inspection.intent THEN u.inspection.plan ELSE None
\* The selection, or only the directory it was made from, is a new one.
Reselected(u) == IF u.inspection = None THEN u
                 ELSE [u EXCEPT !.inspection.intent = FALSE, !.inspection.selection = FALSE]
Reread(u) == IF u.inspection = None THEN u ELSE [u EXCEPT !.inspection.intent = FALSE]

select ==
  /\ plan(ui) = None
  /\ \E sel \in [target : {"x", "z"}, successor : successors(ui), drafts : Dispositions] :
       /\ sel # ui.sel /\ sel.target # sel.successor
       /\ Cardinality({k \in DOMAIN sel : sel[k] # ui.sel[k]}) = 1
       /\ Type(Reselected([ui EXCEPT !.sel = sel]))

\* MUTANT: an answer is shown whatever was selected since.
anyIntent(r) == TRUE
owns(r) == r.mine /\ r.steady
previewPlan ==
  /\ plan(ui) = None /\ validSelection(ui)
  /\ Write("preview", <<>>, [kind |-> "preview", sel |-> ui.sel], ui)
Inspect(p) == [plan |-> p, intent |-> TRUE, selection |-> TRUE]
Previewed ==
  /\ Doing("preview")
  /\ End(IF Got.ok /\ owns(run)
         THEN [ui EXCEPT !.inspection = Inspect(Got.data), !.conflict = FALSE] ELSE ui)

revise == plan(ui) # None /\ plan(ui).state = "preview" /\ Idle /\ Look([ui EXCEPT !.inspection = None])

executePlan ==
  /\ plan(ui) # None /\ plan(ui).state = "preview" /\ validSelection(ui)
  /\ Write("execute", <<>>, [kind |-> "execute", id |-> plan(ui).id, sel |-> ui.sel], ui)
Executed ==
  /\ Doing("execute")
  /\ IF ~owns(run) THEN End(ui)
     ELSE IF Got.ok THEN Then("members", [kind |-> "members"], [ui EXCEPT !.inspection = Inspect(Got.data)])
     ELSE End(IF Got.conflict THEN [ui EXCEPT !.inspection = None, !.conflict = TRUE] ELSE ui)

\* A directory read; losing or regaining validSelection is a new selection.
Directory(u, active) ==
  LET v == Reread([u EXCEPT !.active = active]) IN
  IF validSelection(v) = validSelection(u) THEN v ELSE Reselected(v)
MembersRead ==
  /\ Doing("members")
  /\ End(IF Got.ok THEN Directory(ui, Got.data) ELSE Reread(ui))

-----------------------------------------------------------------------------
(* Creating a mailbox.                                                     *)

trailingZeros(d) == CHOOSE k \in 0 .. 6 : d % 10 ^ k = 0 /\ d % 10 ^ (k + 1) # 0
\* Number() rounds too small a fraction to zero.
Number(v) == IF v.places > 323 THEN 0
             ELSE IF v.digits % 10 ^ v.places = 0 THEN v.digits \div 10 ^ v.places ELSE None
\* MUTANT: whatever Number() makes an integer is taken.
parsesRounded(v) == IF Number(v) = None \/ Number(v) > 876000 THEN None ELSE Number(v)
parseRetentionHours(v) ==
  IF Number(v) = None \/ Number(v) > 876000 THEN None
  ELSE IF v.digits # 0 /\ v.places > trailingZeros(v.digits) THEN None ELSE Number(v)

personal(u) == u.kind = "personal"
validCreate(u) ==
  u.local # "" /\ (IF personal(u) THEN u.owner \in u.active ELSE parseRetentionHours(u.retention) # None)
draft(u) == <<u.local, u.kind, u.owner, u.retention>>

editCreate ==
  \/ \E v \in {"a", "b"} \ {ui.local} : Type([ui EXCEPT !.local = v])
  \/ \E v \in {"shared", "personal"} \ {ui.kind} : Type([ui EXCEPT !.kind = v])
  \/ ~personal(ui) /\ \E v \in Decimals \ {ui.retention} : Type([ui EXCEPT !.retention = v])
  \/ personal(ui) /\ \E v \in (ui.active \cap {"x", "y"}) \ {ui.owner} : Type([ui EXCEPT !.owner = v])

createMailbox ==
  /\ validCreate(ui)
  /\ Write("create", [draft |-> draft(ui)],
           [kind |-> "create", local |-> ui.local, owner |-> IF personal(ui) THEN ui.owner ELSE "",
            hours |-> IF personal(ui) THEN 0 ELSE parseRetentionHours(ui.retention),
            typed |-> IF personal(ui) THEN 0 ELSE ui.retention.digits], ui)
\* An edit or a retired owner supersedes the submitted draft.
Created ==
  /\ Doing("create")
  /\ IF Got.ok
     THEN Then("boxes", [kind |-> "boxes"],
               IF run.mine /\ run.draft = draft(ui) THEN [ui EXCEPT !.local = ""] ELSE ui)
     ELSE End(ui)
retryBoxes == ui.error /\ Read("boxes", <<>>, [kind |-> "boxes"], ui)
refreshBoxes ==
  /\ Doing("boxes")
  /\ End(IF Got.ok THEN [ui EXCEPT !.boxes = Got.data, !.error = FALSE] ELSE [ui EXCEPT !.error = TRUE])
\* A settled directory without the selected owner takes the selection back.
retireOwner(u, active) == [u EXCEPT !.active = active, !.owner = IF @ \in active THEN @ ELSE ""]

-----------------------------------------------------------------------------
(* Granting the use of a template.                                         *)

selectGrantee == \E v \in ui.active \ {ui.grantee} : Look([ui EXCEPT !.grantee = v])
changeGrant ==
  \/ /\ ui.grantee \in ui.active
     /\ Write("grant", <<>>, [kind |-> "grant", user |-> ui.grantee, enabled |-> TRUE], ui)
  \/ \E v \in ui.grants : Write("grant", <<>>, [kind |-> "grant", user |-> v, enabled |-> FALSE], ui)
\* MUTANT: the list is not read back after a change.
noReadback(m, u) == End(u)
GrantsAgain(m, u) == Then("grants", m, u)
GrantChanged ==
  /\ Doing("grant")
  /\ IF Got.ok THEN GrantsAgain([kind |-> "grants"], ui) ELSE End(ui)
GrantsRead == Doing("grants") /\ End(IF Got.ok THEN [ui EXCEPT !.grants = Got.data] ELSE ui)

-----------------------------------------------------------------------------
Seen(u, active) == CASE form = "offboard" -> Directory(u, active)
                     [] form = "create" -> retireOwner(u, active)
                     [] form = "grants" -> [u EXCEPT !.active = active]
Revalidate ==
  \/ (ui.active # srv.active \/ (run # None /\ run.steady)) /\ Refresh(Seen(ui, srv.active))
  \/ form = "grants" /\ ui.grants # srv.grants /\ Refresh([ui EXCEPT !.grants = srv.grants])

Filled == [target |-> "x", successor |-> "y", drafts |-> "seal"]
Blank == CASE form = "offboard" ->
                [active |-> srv.active, sel |-> Filled, inspection |-> None, conflict |-> FALSE]
           [] form = "create" ->
                [active |-> srv.active, local |-> "", kind |-> "shared", owner |-> "", error |-> FALSE,
                 boxes |-> srv.boxes, retention |-> [digits |-> 0, places |-> 0]]
           [] form = "grants" -> [active |-> srv.active, grants |-> srv.grants, grantee |-> ""]
Remount == Reenter(Blank, Writes)

Init ==
  /\ form \in Forms /\ Quiet
  /\ srv = [active |-> People, assets |-> 0, plans |-> {}, next |-> 1, boxes |-> {}, grants |-> {"z"}]
  /\ ui = Blank

Next == \/ form = "offboard" /\ (select \/ previewPlan \/ revise \/ executePlan)
        \/ form = "create" /\ (editCreate \/ createMailbox \/ retryBoxes)
        \/ form = "grants" /\ (selectGrantee \/ changeGrant)
        \/ Previewed \/ Executed \/ MembersRead \/ Created \/ refreshBoxes \/ GrantChanged \/ GrantsRead
        \/ Revalidate \/ Remount \/ Rival
        \/ Serve \/ Lose \/ ServeStray
Spec == Init /\ [][Next]_vars

-----------------------------------------------------------------------------
(* What the console's properties say of this page.                         *)

Typed == IF form = "create" /\ ui.local # "" THEN ui.local ELSE None
TypedKept == (Typed # None /\ Typed' # Typed /\ moves' = moves)
             => run # None /\ run.mine /\ Answered /\ Got.ok
InFlight == stray \cup Dropped(Writes)
\* An offboarding is executed as it was selected when the administrator
\* confirmed, over exactly the assets its preview listed; a mailbox keeps its
\* mail forever only when zero was typed.
AsConfirmed ==
  \A m \in InFlight : m \notin InFlight' /\ rivals' = rivals /\ srv' # srv =>
    /\ m.kind = "execute" => Plan(srv, m.id).sel = m.sel /\ Plan(srv, m.id).print = srv.assets
    /\ m.kind = "create" => (m.hours = 0 <=> m.typed = 0)
\* With no answer lost and nobody else at work, an idle page shows the server.
\* The offboarding panel gives up a reply when the directory was read again
\* before it came, and then shows no receipt either.
Settled == (Idle /\ lost = 0 /\ rivals = 0)
           => CASE form = "offboard" -> plan(ui) # None => plan(ui) \in srv.plans
                [] form = "create" -> ui.boxes = srv.boxes
                [] form = "grants" -> ui.grants = srv.grants
=============================================================================

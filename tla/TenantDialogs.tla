---------------------------- MODULE TenantDialogs ----------------------------
(***************************************************************************)
(* The dialogs of one tenant in the platform's tenant list: its API keys   *)
(* (admin/tenants/api-keys-dialog.tsx) and the overrides of its plan's     *)
(* limits (overrides-dialog.tsx).  The secret of a new key is in the       *)
(* answer to its creation and nowhere else.  The overrides are replaced as *)
(* a whole: the edited fields as typed, the others as last read.  The      *)
(* effective limits beside the form are read along and never written.      *)
(***************************************************************************)
EXTENDS PageForm, FiniteSets

Forms == {"keys", "overrides"}
Scopes == {"read", "send"}
DEFAULT_API_KEY_SCOPES == {"read"}
fields == {"max_domains", "daily_quota"}
Limit == 9 \* stands for 2147483647
\* A typed number: Number() loses a tiny fraction, and keeps a half.
Typed(n) == [whole |-> n, frac |-> "none"]
Empty == [whole |-> 0, frac |-> "empty"]
Numbers == {Typed(2), [whole |-> 2, frac |-> "tiny"], [whole |-> 2, frac |-> "half"], Typed(Limit + 1)}

-----------------------------------------------------------------------------
(* The server.                                                             *)

CreateAPIKey(s, m) ==
  LET key == [id |-> s.next, scopes |-> m.scopes]
  IN Out([s EXCEPT !.keys = @ \cup {key}, !.next = @ + 1], Yes(key))
DeleteAPIKeyForTenant(s, m) ==
  IF m.id \in {k.id : k \in s.keys} THEN Out([s EXCEPT !.keys = {k \in @ : k.id # m.id}], Yes(None)) ELSE Out(s, No)
UpdateTenantOverride(s, m) == Out(m.body, Yes(None))

Writes == {"createKey", "revokeKey", "patch"}
Handle(s, m) ==
  CASE m.kind = "read" -> {Out(s, Yes(IF form = "keys" THEN s.keys ELSE s))}
    [] m.kind = "createKey" -> {CreateAPIKey(s, m)}
    [] m.kind = "revokeKey" -> {DeleteAPIKeyForTenant(s, m)}
    [] m.kind = "patch" -> {UpdateTenantOverride(s, m), Out(s, No)}
Serve == ServeBy(Handle(srv, net.cmd))
Lose == LoseBy(Handle(srv, net.cmd), Writes)
ServeStray == \E m \in stray : StrayBy(m, Handle(srv, m))
Rival ==
  \/ form = "overrides" /\ Others([srv EXCEPT !["daily_quota"] = IF @ = None THEN 1 ELSE None])
  \/ form = "keys" /\ \E k \in srv.keys : Others(DeleteAPIKeyForTenant(srv, k).srv)

-----------------------------------------------------------------------------
(* Both dialogs show the latest read, and close for writing when it fails. *)

Fresh == IF form = "keys" THEN srv.keys ELSE srv
\* Reads do not hold the lane of the commands, but nothing is sent during one.
operation == run # None /\ run.op # "reload"
Reads == {"reload", "readback"}
Reading == run # None /\ run.op \in Reads
retry == ui.failed /\ Read("reload", <<>>, [kind |-> "read"], ui)
ReadDone ==
  /\ Reading /\ Answered
  /\ End(IF Got.ok THEN [ui EXCEPT !.data = Got.data, !.failed = FALSE] ELSE [ui EXCEPT !.failed = TRUE])
Revalidate ==
  \/ ~Reading /\ (ui.failed \/ ui.data # Fresh) /\ Refresh([ui EXCEPT !.data = Fresh, !.failed = FALSE])
  \/ ~Reading /\ ~ui.failed /\ RefreshFails([ui EXCEPT !.failed = TRUE])

-----------------------------------------------------------------------------
(* API keys.                                                               *)

toggle == form = "keys" /\ ~operation /\ \E s \in Scopes :
            Type([ui EXCEPT !.scopes = IF s \in @ THEN @ \ {s} ELSE @ \cup {s}])
create ==
  /\ form = "keys" /\ ~ui.failed /\ ui.scopes # {}
  /\ Write("create", <<>>, [kind |-> "createKey", scopes |-> ui.scopes], ui)
\* The key exists from here on: a reread that fails must not hide its secret.
Created ==
  /\ Doing("create")
  /\ IF Got.ok
     THEN Then("readback", [kind |-> "read"], [ui EXCEPT !.created = Got.data, !.scopes = DEFAULT_API_KEY_SCOPES])
     ELSE End(ui)
revoke ==
  /\ form = "keys" /\ ~ui.failed
  /\ \E k \in ui.data : Write("revoke", [id |-> k.id], [kind |-> "revokeKey", id |-> k.id], ui)
\* MUTANT: the revoked key stays in the list until the next read.
keepsRow(u, id) == [u EXCEPT !.revoked = @ \cup {id}]
withoutRow(u, id) == [u EXCEPT !.data = {k \in @ : k.id # id}, !.revoked = @ \cup {id}]
Revoked == Doing("revoke") /\ End(IF Got.ok THEN withoutRow(ui, run.id) ELSE ui)

-----------------------------------------------------------------------------
(* Overrides.                                                              *)

String(n) == IF n = None THEN Empty ELSE Typed(n)
value(u, k) == IF k \in DOMAIN u.edits THEN u.edits[k] ELSE String(u.data[k])
Number(t) == IF t.frac = "half" THEN None ELSE t.whole
fractional(t) == t.frac # "none"
\* MUTANT: whatever Number() makes an integer is taken.
roundedInteger(t) == Number(t) # None /\ t.whole <= Limit
integer(t) == Number(t) # None /\ ~fractional(t) /\ t.whole <= Limit
errors(u) == {k \in fields : value(u, k) # Empty /\ ~integer(value(u, k))}
body(u) == [k \in fields |-> IF value(u, k) = Empty THEN None ELSE Number(value(u, k))]

change ==
  /\ form = "overrides" /\ ~operation
  /\ \E k \in fields : \E t \in ({Empty} \cup Numbers) \ {value(ui, k)} :
       Type([ui EXCEPT !.edits = IF t = String(ui.data[k]) THEN [x \in DOMAIN @ \ {k} |-> @[x]] ELSE With(@, k, t),
                       !.invalid = @ \ {k}])
\* Sending is refused while a field is not an integer.
refuse == /\ form = "overrides" /\ Idle /\ ~ui.failed /\ errors(ui) \notin {{}, ui.invalid}
          /\ Look([ui EXCEPT !.invalid = errors(ui)])
save ==
  /\ form = "overrides" /\ ~ui.failed /\ errors(ui) = {}
  /\ Write("save", [body |-> body(ui)],
           [kind |-> "patch", body |-> body(ui), shown |-> [k \in fields |-> value(ui, k)]],
           [ui EXCEPT !.invalid = {}])
\* MUTANT: after the acknowledgement the form waits for the reread.
noBaseline(u, b) == [u EXCEPT !.edits = <<>>]
baseline(u, b) == [u EXCEPT !.data = b, !.edits = <<>>]
Saved ==
  /\ Doing("save")
  /\ IF Got.ok THEN Then("readback", [kind |-> "read"], baseline(ui, run.body))
     ELSE End([ui EXCEPT !.unsure = @ \/ lost > 0])

-----------------------------------------------------------------------------
Blank == [data |-> Fresh, failed |-> FALSE, created |-> None, scopes |-> DEFAULT_API_KEY_SCOPES,
          revoked |-> {}, edits |-> <<>>, invalid |-> {}, unsure |-> FALSE]
Remount == Reenter([Blank EXCEPT !.unsure = ui.unsure \/ (run # None /\ run.op = "save")], Writes)
Init ==
  /\ form \in Forms /\ Quiet
  /\ srv = IF form = "keys" THEN [keys |-> {[id |-> 0, scopes |-> {"send"}]}, next |-> 1]
           ELSE [k \in fields |-> IF k = "max_domains" THEN 2 ELSE None]
  /\ ui = Blank

Next == \/ toggle \/ create \/ Created \/ revoke \/ Revoked
        \/ change \/ refuse \/ save \/ Saved
        \/ retry \/ ReadDone \/ Revalidate \/ Remount \/ Rival
        \/ Serve \/ Lose \/ ServeStray
Spec == Init /\ [][Next]_vars

-----------------------------------------------------------------------------
(* What the console's properties say of this page.                         *)

\* Edits and chosen scopes are given up only to an accepted command, and the
\* secret of a new key only to the next one.
TypedKept ==
  moves' = moves =>
    /\ \A k \in DOMAIN ui.edits :
         (k \in DOMAIN ui'.edits => ui'.edits[k] # ui.edits[k]) => Doing("save") /\ Got.ok /\ run.mine
    /\ ui'.scopes # ui.scopes => Doing("create") /\ Got.ok /\ run.mine
    /\ (ui.created # None /\ ui'.created # ui.created) => Doing("create") /\ Got.ok
\* The limits that are stored are the numbers that were on the screen.
InFlight == stray \cup Dropped(Writes)
AsConfirmed ==
  \A m \in InFlight : (m \notin InFlight' /\ rivals' = rivals /\ srv' # srv /\ m.kind = "patch")
    => \A k \in fields : m.shown[k] = String(srv'[k])
\* A key that was created is listed and a key that was revoked is not; saved
\* overrides are what the form starts from, whether or not the reread succeeds.
AcknowledgedShown ==
  IF form = "keys"
  THEN /\ (ui.created \in srv.keys /\ Idle /\ ~ui.failed) => ui.created \in ui.data
       /\ \A k \in ui.data : k.id \notin ui.revoked
  ELSE (Idle /\ rivals = 0 /\ ~ui.unsure) => ui.data = srv
=============================================================================

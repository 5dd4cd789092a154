-------------------------- MODULE CompanySettings --------------------------
(***************************************************************************)
(* The company's settings page (features/company/domain-settings.tsx) and  *)
(* the domain list on it (components/company/domains.tsx).  The settings   *)
(* are one row under a revision, read and written as a whole; a missing    *)
(* row is revision 0.  A domain can become the primary one once it is      *)
(* verified, and is deleted only while nothing refers to it.               *)
(***************************************************************************)
EXTENDS PageForm

Forms == {"settings", "domains"}
Words == {"a", "b"}          \* values of the name and policy fields
NewDomains == {"d3", "d4"}   \* names typed into the input

-----------------------------------------------------------------------------
(* The server.                                                             *)

emptySettings == [rev |-> 0, name |-> "", zone |-> 0]
Verified(zones) == {z.id : z \in {y \in zones : y.ok}}
Ids(zones) == {z.id : z \in zones}

ConfigureCompany(s, m) ==
  IF m.zone \notin Verified(s.zones) THEN Out(s, No)
  ELSE IF m.rev # s.set.rev THEN Out(s, Conflict)
  ELSE Out([s EXCEPT !.set = [rev |-> s.set.rev + 1, name |-> m.name, zone |-> m.zone]], Yes(None))

CreateZone(s, m) ==
  IF m.name \in {z.name : z \in s.zones} THEN Out(s, Conflict)
  ELSE Out([s EXCEPT !.zones = @ \cup {[id |-> s.next, name |-> m.name, ok |-> FALSE]},
                     !.next = @ + 1], Yes(None))
VerifyZone(s, m, ok) ==
  IF m.id \notin Ids(s.zones) THEN Out(s, No)
  ELSE Out([s EXCEPT !.zones = {IF z.id = m.id THEN [z EXCEPT !.ok = ok] ELSE z : z \in @}],
           Yes(ok))
\* MUTANT: a domain is deleted although the settings refer to it.
DeletesUsed(s, m) == Out([s EXCEPT !.zones = {z \in @ : z.id # m.id}], Yes(None))
DeleteZone(s, m) ==
  IF m.id \notin Ids(s.zones) THEN Out(s, No)
  ELSE IF m.id = s.set.zone THEN Out(s, Conflict)
  ELSE Out([s EXCEPT !.zones = {z \in @ : z.id # m.id}], Yes(None))

Writes == {"put", "add", "verify", "delete"}
Handle(s, m) ==
  CASE m.kind = "settings" -> {Out(s, Yes([set |-> s.set, zones |-> s.zones]))}
    [] m.kind = "zones" -> {Out(s, Yes(s.zones))}
    [] m.kind = "put" -> {ConfigureCompany(s, m)}
    [] m.kind = "add" -> {CreateZone(s, m)}
    [] m.kind = "verify" -> {VerifyZone(s, m, ok) : ok \in BOOLEAN}
    [] m.kind = "delete" -> {DeleteZone(s, m)}

\* The settings a PUT answers with are read after its transaction committed.
Commit ==
  /\ Unanswered /\ net.cmd.kind = "put"
  /\ LET o == ConfigureCompany(srv, net.cmd) IN o.a.ok /\ srv' = o.srv
  /\ Send([kind |-> "settings"])
  /\ UNCHANGED <<form, run, ui, stray, moves, calls, rivals, lost>>
Serve == \/ ServeBy({o \in Handle(srv, net.cmd) : net.cmd.kind = "put" => ~o.a.ok})
         \/ Commit
Lose == LoseBy(Handle(srv, net.cmd), Writes)
ServeStray == \E m \in stray : StrayBy(m, Handle(srv, m))

\* Another administrator saves settings with the second domain, verifies it
\* again or deletes it.
Second == 2
Rival ==
  \/ Others(ConfigureCompany(srv, [rev |-> srv.set.rev, name |-> "b", zone |-> Second]).srv)
  \/ \E o \in Handle(srv, [kind |-> "verify", id |-> Second]) : Others(o.srv)
  \/ Others(DeleteZone(srv, [id |-> Second]).srv)

-----------------------------------------------------------------------------
(* The settings form: what it derives from its state in a render.          *)

config(u) == IF u.edit # None THEN u.edit
             ELSE [name |-> u.data.name, zone |-> u.data.zone, rev |-> u.data.rev, seen |-> u.data]
settingsStale(u) ==
  u.review # None \/ (u.edit # None /\ u.edit.rev # u.data.rev) \/ u.data.rev < u.high
settingsReady(u) == ~u.failed /\ u.data.rev >= u.high
Shown(u, d) == [u EXCEPT !.data = d, !.high = Max2(@, d.rev), !.failed = FALSE]

change ==
  \/ \E w \in Words \ {config(ui).name} : Type([ui EXCEPT !.edit = [config(ui) EXCEPT !.name = w]])
  \/ \E z \in Verified(ui.zones) \ {config(ui).zone} :
       Type([ui EXCEPT !.edit = [config(ui) EXCEPT !.zone = z]])

\* Reads settings and domains again, to review a draft or after an error.
reload == Read("reload", [forReview |-> settingsStale(ui), draft |-> config(ui), review |-> ui.review,
                          high |-> ui.high],
               [kind |-> "settings"], ui)

\* MUTANT: a read counts as a review although the settings changed under it.
anyRead(r, a) == a.ok
reviewable(r, a) ==
  /\ a.ok /\ r.steady /\ r.mine
  /\ a.data.set.rev >= Max2(r.high, IF r.review = None THEN r.draft.rev ELSE r.review.minimum)
  /\ r.review # None => a.data.set.rev > r.review.newer

Reloaded ==
  /\ Doing("reload")
  /\ LET fresh == Got.data.set
         shown == [Shown(ui, fresh) EXCEPT !.zones = Got.data.zones] IN
     End(IF ~reviewable(run, Got) THEN ui
         ELSE IF ~run.forReview THEN shown
         ELSE [shown EXCEPT !.edit = [run.draft EXCEPT !.rev = fresh.rev, !.seen = fresh],
                            !.review = None])

save ==
  LET c == config(ui) IN
  /\ settingsReady(ui) /\ ~settingsStale(ui) /\ c.name # "" /\ c.zone \in Verified(ui.zones)
  /\ Write("put", [sub |-> c], Over(c, [kind |-> "put"]), ui)

Kept(u, c) == IF u.edit = None THEN c ELSE u.edit
\* MUTANT: the acknowledged draft is dropped although it was edited since.
dropsDraft(u, r) == [u EXCEPT !.edit = None, !.review = None]
acknowledged(u, r) ==
  IF r.mine THEN [u EXCEPT !.edit = None, !.review = None]
  ELSE [u EXCEPT !.review = [minimum |-> u.high, newer |-> -1]]

Saved ==
  /\ Doing("put")
  /\ LET a == Got
         r == run
         base == Max2(r.sub.rev, ui.high)
         least == Max2(r.sub.rev + 1, ui.high)
         latch(minimum, newer) ==
           [ui EXCEPT !.edit = Kept(ui, r.sub), !.review = [minimum |-> minimum, newer |-> newer],
                      !.acked = IF a.ok THEN r.sub.rev ELSE @] IN
     End(CASE a.conflict -> latch(base, r.sub.rev)
           [] a.garbled -> latch(base, -1)
           [] a.ok /\ a.data.set.rev < least -> latch(least, r.sub.rev)
           [] a.ok /\ a.data.set.rev >= least ->
                acknowledged([Shown(ui, a.data.set) EXCEPT !.acked = r.sub.rev], r)
           [] OTHER -> ui)

-----------------------------------------------------------------------------
(* The domain list.                                                        *)

domainsReady == ~ui.failed

typeDomain == \E d \in NewDomains \ {ui.input} : Type([ui EXCEPT !.input = d])

addDomain ==
  /\ domainsReady /\ ui.input # ""
  /\ Write("add", <<>>, [kind |-> "add", name |-> ui.input], ui)
verifyDomain ==
  /\ domainsReady
  /\ \E z \in ui.zones : Write("verify", [id |-> z.id], [kind |-> "verify", id |-> z.id], ui)
deleteDomain ==
  /\ domainsReady
  /\ \E z \in ui.zones : Write("delete", [id |-> z.id], [kind |-> "delete", id |-> z.id], ui)

Unchecked(id) == {c \in ui.checks : c.id # id}
\* MUTANT: the input is cleared whatever was typed since.
clearsInput(u, r) == [u EXCEPT !.input = ""]
added(u, r) == IF r.mine THEN [u EXCEPT !.input = ""] ELSE u
ReadZones(u) == Then("list", [kind |-> "zones"], u)

\* A reply counts only while the list it was asked from is still the one shown.
DomainDone ==
  /\ Doing("add") \/ Doing("verify") \/ Doing("delete")
  /\ IF ~Got.ok \/ ~run.steady THEN End(ui)
     ELSE CASE run.op = "add" -> ReadZones(added(ui, run))
            [] run.op = "verify" ->
                 ReadZones([ui EXCEPT !.checks = Unchecked(run.id) \cup {[id |-> run.id, ok |-> Got.data]}])
            [] run.op = "delete" -> ReadZones([ui EXCEPT !.checks = Unchecked(run.id)])

Listed ==
  /\ Doing("list")
  /\ End(IF Got.ok THEN [ui EXCEPT !.zones = Got.data, !.failed = FALSE]
         ELSE [ui EXCEPT !.failed = TRUE])

retry == ui.failed /\ Refresh([ui EXCEPT !.zones = srv.zones, !.checks = {}, !.failed = FALSE])

-----------------------------------------------------------------------------
\* A cache is revalidated, which retires a running review even if it returns
\* the same data; a failed refresh keeps the data, and closes the form until a
\* read succeeds.
Steady == run # None /\ run.steady
Listing == run # None /\ run.op = "list"
Revalidate ==
  \/ form = "settings" /\ (ui.failed \/ ui.data # srv.set \/ Steady) /\ Refresh(Shown(ui, srv.set))
  \/ ~Listing /\ ui.zones # srv.zones /\ Refresh([ui EXCEPT !.zones = srv.zones])
  \/ ~Listing /\ ~ui.failed /\ RefreshFails([ui EXCEPT !.failed = TRUE])

Blank == IF form = "settings"
         THEN [data |-> srv.set, zones |-> srv.zones, failed |-> FALSE, edit |-> None,
               review |-> None, high |-> srv.set.rev, acked |-> -1]
         ELSE [zones |-> srv.zones, failed |-> FALSE, input |-> "", checks |-> {}]
Remount == Reenter(Blank, Writes)

Init ==
  /\ form \in Forms /\ Quiet
  /\ srv \in [set : {emptySettings, [rev |-> 1, name |-> "a", zone |-> 1]},
              zones : {{[id |-> 1, name |-> "d1", ok |-> TRUE], [id |-> 2, name |-> "d2", ok |-> TRUE]}},
              next : {3}]
  /\ ui = Blank

Next == \/ form = "settings" /\ (change \/ reload \/ save)
        \/ form = "domains" /\ (typeDomain \/ addDomain \/ verifyDomain \/ deleteDomain \/ retry)
        \/ Reloaded \/ Saved \/ DomainDone \/ Listed
        \/ Revalidate \/ Remount \/ Rival
        \/ Serve \/ Lose \/ ServeStray
Spec == Init /\ [][Next]_vars

-----------------------------------------------------------------------------
(* What the console's properties say of this page.                         *)

\* What the user has typed and not yet seen accepted.
Typed == IF form = "domains" THEN (IF ui.input = "" THEN None ELSE ui.input)
         ELSE IF ui.edit = None THEN None ELSE <<ui.edit.name, ui.edit.zone>>
InFlight == stray \cup (IF Unanswered THEN {net.cmd} ELSE {})
\* An accepted save replaces the settings its draft was last compared with.
OverwritesSeen ==
  \A m \in InFlight : (/\ m.kind = "put" /\ m \notin InFlight' /\ rivals' = rivals
                       /\ srv'.set # srv.set)
                      => srv.set = m.seen
SavedOnce == Doing("put") \/ (run # None /\ run.op = "put" /\ Unanswered)
             => run.sub.rev > ui.acked
Releases ==
  (/\ run # None /\ run.op = "reload" /\ run.forReview /\ run' = None /\ moves' = moves
   /\ Answered /\ Got.ok /\ Got.data.set = srv.set /\ run.mine /\ run.steady)
  => ~settingsStale(ui')
\* A draft or a typed domain goes only when a submission of it was accepted.
TypedKept == (Typed # None /\ Typed' # Typed /\ moves' = moves)
  => run # None /\ run.mine /\ Answered /\ Got.ok
\* The company's primary domain is never deleted from under it.
PrimaryKept == srv.set.zone # 0 => srv.set.zone \in Ids(srv.zones)
=============================================================================
